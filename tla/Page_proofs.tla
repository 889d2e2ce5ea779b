----------------------------- MODULE Page_proofs ----------------------------
(***************************************************************************)
(* Three parts of the page that share no state.                            *)
(*                                                                         *)
(* Tab 1 shows what its controls ask for, however many runs overlap and    *)
(* whatever the texts, quorums and bounds.  The invariant follows the      *)
(* latest run: while it is under way it holds what is asked for, with the  *)
(* checks it has passed so far, and once it is over its outcome is shown.  *)
(*                                                                         *)
(* A user who starts the camera once at a time always turns it off by      *)
(* closing the dialog, for every number of starts.  That invariant follows *)
(* the one call of camStart that may be under way: before it has a stream  *)
(* there is none, and after that there is one, which the dialog shows once *)
(* the call has ended.                                                     *)
(*                                                                         *)
(* The search for private keys finds them in texts of any number of        *)
(* pieces.  Where every key lies is carried along the text as it is        *)
(* written piece by piece, and along the loop that takes its white space   *)
(* out; a run that begins like a key is then the key that lies there, and  *)
(* a key that stands in a text lies in a longest run around it.            *)
(***************************************************************************)
EXTENDS SplitPage, Camera, PrivateKeys, WellFoundedInduction, TLAPS

Stages == {"idle", "keys", "private", "cut", "head"}
Quorums == [k : Nat, n : Nat]
Cuttable(q) == 2 <= q.k /\ q.k <= q.n /\ q.n <= MaxN

TypeOK ==
    /\ text \in Texts /\ lastText \in Texts
    /\ encrypt \in BOOLEAN /\ timer \in BOOLEAN
    /\ controls \in Quorums
    /\ wanted \in Quorums
    /\ planned \in Texts \cup {None}
    /\ picked # None => picked \in [text : Texts, k : Nat, n : Nat]
    /\ splitGen \in 0 .. MaxGen
    /\ runs \in [Gens -> [pc : Stages, text : Texts, open : BOOLEAN, k : Nat, n : Nat]]
    /\ shown.gen \in 0 .. splitGen

(* Whatever is typed into the controls, a pick can be cut.                 *)
PicksCuttable == Cuttable(wanted) /\ (picked # None => Cuttable(picked))

(* A descriptor with a key that fails its check, as badKey sees it.        *)
Mistyped(t) == KindOf[t] = "descriptor" /\ t \in BadKeys

(* A run that is under way can be cut, and has passed the checks before    *)
(* the await it is at.                                                     *)
Checked(run) ==
    /\ run.pc # "idle" => Splits(run.text, run) /\ Cuttable(run)
    /\ run.pc \in {"private", "cut", "head"} => ~Mistyped(run.text)
    /\ run.pc \in {"cut", "head"} => ~(run.open /\ run.text \in Private)
    /\ run.pc = "head" => run.text \notin Failing
RunsChecked == \A g \in Gens : Checked(runs[g])

(* Only runs that were begun are under way.                                *)
Begun == \A g \in Gens : g > splitGen => runs[g].pc = "idle"

(* What tab 1 is asked to show if t is in the text box.                    *)
AskedFor(t, q) ==
    IF /\ Splits(t, q)
       /\ ~Mistyped(t)
       /\ encrypt \/ t \notin Private
       /\ t \notin Failing
       /\ <<t, q.k>> \notin TooLong
    THEN [text |-> t, open |-> ~encrypt, k |-> q.k, n |-> q.n]
    ELSE None

LastQuorum == QuorumOf(lastText, wanted, picked)

(* The latest run holds what is asked for of its text, or has shown it.    *)
LatestHolds ==
    IF splitGen \in Gens /\ runs[splitGen].pc # "idle"
    THEN /\ shown.gen # splitGen
         /\ SplitOf(runs[splitGen]) =
                [text |-> lastText, open |-> ~encrypt, k |-> LastQuorum.k, n |-> LastQuorum.n]
    ELSE /\ shown.gen = splitGen
         /\ shown.split = AskedFor(lastText, LastQuorum)

(* A text that no run has seen has its timer running.                      *)
TextSeen == text = lastText \/ timer

ShownCuttable == shown.split # None => Cuttable(shown.split)

IInv == /\ TypeOK /\ PicksCuttable /\ RunsChecked /\ Begun
        /\ LatestHolds /\ TextSeen /\ KeysStayPrivate /\ ShownCuttable

-----------------------------------------------------------------------------
(* At first nothing is asked for and nothing is shown.                     *)
LEMMA PageInit == Init => IInv
<1> SUFFICES ASSUME Init PROVE IInv
  OBVIOUS
<1> USE MaxNAssumption, MaxGenAssumption, TextAssumption, KindAssumption
<1>1. TypeOK
  <2>1. NoRun \in [pc : Stages, text : Texts, open : BOOLEAN, k : Nat, n : Nat]
    BY DEF NoRun, Stages
  <2>2. runs \in [Gens -> [pc : Stages, text : Texts, open : BOOLEAN, k : Nat, n : Nat]]
    BY <2>1 DEF Init
  <2>3. encrypt \in BOOLEAN /\ timer \in BOOLEAN
    BY Zenon DEF Init
  <2>4. splitGen \in 0 .. MaxGen /\ shown.gen \in 0 .. splitGen
    BY DEF Init, Cleared
  <2>5. controls \in Quorums /\ wanted \in Quorums
    BY DEF Init, Quorums
  <2> QED
    BY <2>2, <2>3, <2>4, <2>5 DEF Init, TypeOK
<1>2. PicksCuttable /\ RunsChecked /\ Begun
  BY DEF Init, PicksCuttable, Cuttable, RunsChecked, Checked, Begun, NoRun
<1>3. ~Splits(Empty, LastQuorum)
  BY DEF Splits
<1>4. LatestHolds
  BY <1>3 DEF Init, LatestHolds, AskedFor, Cleared, Gens, NoRun
<1> QED
  BY <1>1, <1>2, <1>4 DEF IInv, Init, TextSeen, KeysStayPrivate, ShownCuttable, Cleared

(* The quorum of a plan is a pair of numbers, and can be cut if planFor    *)
(* does not stop it.                                                       *)
LEMMA QuorumFits ==
  ASSUME NEW t \in Texts, NEW want \in Quorums, Cuttable(want),
         NEW pick, pick # None => pick \in [text : Texts, k : Nat, n : Nat] /\ Cuttable(pick)
  PROVE  LET q == QuorumOf(t, want, pick)
         IN  q \in Quorums /\ (Splits(t, q) => Cuttable(q))
BY MaxNAssumption, WalletAssumption DEF QuorumOf, Splits, Quorums, Cuttable

(* A run that begins takes the place of the one before it.                 *)
LEMMA RunSplitKeeps ==
  ASSUME IInv, NEW t \in Texts, NEW enc \in BOOLEAN, NEW want \in Quorums, Cuttable(want),
         NEW pick, pick # None => pick \in [text : Texts, k : Nat, n : Nat] /\ Cuttable(pick),
         RunSplit(t, enc, want, pick),
         text' = t, encrypt' = enc, wanted' = want, picked' = pick, timer' \in BOOLEAN
  PROVE  IInv'
<1> DEFINE g == splitGen + 1
           q == QuorumOf(t, want, pick)
           run == [pc |-> "keys", text |-> t, open |-> ~enc, k |-> q.k, n |-> q.n]
<1>1. q \in Quorums /\ (Splits(t, q) => Cuttable(q))
  BY QuorumFits
<1>2. g \in Gens /\ splitGen' = g /\ g # splitGen /\ splitGen \in 0 .. MaxGen
  BY MaxGenAssumption DEF IInv, TypeOK, RunSplit, Gens
<1>3. /\ lastText' = t /\ controls' = q
      /\ \/ Splits(t, q) /\ runs' = [runs EXCEPT ![g] = run] /\ shown' = shown
         \/ ~Splits(t, q) /\ shown' = Cleared(g) /\ runs' = runs
  BY DEF RunSplit
<1>4. planned' \in Texts \cup {None}
  BY TextAssumption DEF RunSplit
<1>5. runs[g].pc = "idle"
  BY <1>2 DEF IInv, Begun, Gens
<1>6. run \in [pc : Stages, text : Texts, open : BOOLEAN, k : Nat, n : Nat]
  BY <1>1 DEF Stages, Quorums
<1> HIDE DEF q
<1>7. TypeOK'
  <2>1. runs' \in [Gens -> [pc : Stages, text : Texts, open : BOOLEAN, k : Nat, n : Nat]]
    BY <1>2, <1>3, <1>6 DEF IInv, TypeOK
  <2>2. splitGen' \in 0 .. MaxGen /\ shown.gen' \in 0 .. splitGen'
    BY <1>2, <1>3, MaxGenAssumption DEF IInv, TypeOK, Cleared, Gens
  <2> QED
    BY <1>1, <1>3, <1>4, <2>1, <2>2, Zenon DEF TypeOK
<1>8. PicksCuttable'
  BY DEF PicksCuttable, Cuttable
<1>9. RunsChecked'
  <2>1. Splits(t, q) => Checked(run)
    BY <1>1 DEF Checked, Splits, Cuttable
  <2> QED
    BY <1>2, <1>3, <2>1 DEF IInv, TypeOK, RunsChecked, Checked
<1>10. Begun'
  <2>1. \A h \in Gens : h > g => runs'[h] = runs[h] /\ h > splitGen
    BY <1>2, <1>3, MaxGenAssumption DEF IInv, TypeOK, Gens
  <2> QED
    BY <1>2, <2>1 DEF IInv, Begun
<1>11. LastQuorum' = q
  BY <1>3 DEF LastQuorum, q
<1>12. LatestHolds'
  <2>1. CASE Splits(t, q)
    <3>1. runs'[splitGen'] = run /\ shown' = shown
      BY <1>2, <1>3, <2>1 DEF IInv, TypeOK
    <3>2. shown'.gen # splitGen'
      BY <1>2, <3>1 DEF IInv, TypeOK
    <3> QED
      BY <1>2, <1>3, <1>11, <3>1, <3>2 DEF LatestHolds, SplitOf
  <2>2. CASE ~Splits(t, q)
    <3>1. (AskedFor(lastText, LastQuorum))' = None
      BY <1>3, <1>11, <2>2 DEF AskedFor, Splits
    <3> QED
      BY <1>2, <1>3, <1>5, <2>2, <3>1 DEF LatestHolds, Cleared
  <2> QED
    BY <2>1, <2>2
<1>13. KeysStayPrivate' /\ ShownCuttable'
  BY <1>3 DEF IInv, KeysStayPrivate, ShownCuttable, Cuttable, Cleared
<1> QED
  BY <1>3, <1>7, <1>8, <1>9, <1>10, <1>12, <1>13 DEF IInv, TextSeen

(* A run that goes on to its next await.                                   *)
LEMMA MoveOnKeeps ==
  ASSUME IInv, NEW g \in Gens, NEW pc \in Stages \ {"idle"}, runs[g].pc # "idle",
         MoveOn(g, pc), shown' = shown, Untouched, Checked([runs[g] EXCEPT !.pc = pc])
  PROVE  IInv'
<1>1. /\ runs' = [runs EXCEPT ![g] = [runs[g] EXCEPT !.pc = pc]]
      /\ [runs[g] EXCEPT !.pc = pc] \in [pc : Stages, text : Texts, open : BOOLEAN, k : Nat, n : Nat]
  BY DEF MoveOn, IInv, TypeOK
<1>2. TypeOK'
  BY <1>1 DEF IInv, TypeOK, Untouched
<1>3. RunsChecked'
  BY <1>1 DEF IInv, TypeOK, RunsChecked, Checked, Splits, Cuttable
<1>4. Begun'
  BY <1>1 DEF IInv, TypeOK, Begun, Untouched
<1>5. LatestHolds'
  BY <1>1 DEF IInv, TypeOK, LatestHolds, LastQuorum, AskedFor, SplitOf, Untouched
<1> QED
  BY <1>2, <1>3, <1>4, <1>5
     DEF IInv, PicksCuttable, TextSeen, KeysStayPrivate, ShownCuttable, Untouched

(* A run that is over, and shows what it came to if it is the latest.      *)
LEMMA EndKeeps ==
  ASSUME IInv, NEW g \in Gens, runs[g].pc # "idle", Ends(g), Untouched, NEW split,
         shown' = IF Latest(g) THEN [gen |-> g, split |-> split] ELSE shown,
         Latest(g) => split = AskedFor(lastText, LastQuorum),
         split # None => /\ split = SplitOf(runs[g])
                         /\ ~Mistyped(split.text)
                         /\ split.open => split.text \notin Private
  PROVE  IInv'
<1>1. runs' = [runs EXCEPT ![g] = NoRun] /\ UNCHANGED <<splitGen, lastText, encrypt, wanted, picked>>
  BY DEF Ends, Untouched
<1>2. NoRun \in [pc : Stages, text : Texts, open : BOOLEAN, k : Nat, n : Nat]
  BY TextAssumption DEF NoRun, Stages
<1>3. shown'.gen \in 0 .. splitGen'
  BY <1>1, MaxGenAssumption DEF IInv, TypeOK, Latest, Gens
<1>4. TypeOK'
  BY <1>1, <1>2, <1>3 DEF IInv, TypeOK, Untouched
<1>5. RunsChecked' /\ Begun'
  BY <1>1 DEF IInv, TypeOK, RunsChecked, Checked, Begun, Splits, Cuttable, NoRun
<1>6. LatestHolds'
  <2>1. LastQuorum' = LastQuorum /\ (AskedFor(lastText, LastQuorum))' = AskedFor(lastText, LastQuorum)
    BY <1>1 DEF LastQuorum, AskedFor
  <2>2. CASE Latest(g)
    <3>1. runs'[splitGen'].pc = "idle" /\ shown'.gen = splitGen' /\ shown'.split = split
      BY <1>1, <2>2 DEF Latest, IInv, TypeOK, NoRun
    <3> QED
      BY <2>1, <2>2, <3>1 DEF LatestHolds
  <2>3. CASE ~Latest(g)
    <3>1. splitGen \in Gens => runs'[splitGen'] = runs[splitGen]
      BY <1>1, <2>3 DEF Latest, IInv, TypeOK
    <3> QED
      BY <1>1, <2>1, <2>3, <3>1 DEF IInv, LatestHolds
  <2> QED
    BY <2>2, <2>3
<1>7. KeysStayPrivate' /\ ShownCuttable'
  BY DEF IInv, RunsChecked, Checked, KeysStayPrivate, ShownCuttable, Mistyped, Cuttable, SplitOf
<1> QED
  BY <1>4, <1>5, <1>6, <1>7 DEF IInv, PicksCuttable, TextSeen, Untouched

(* What the latest run holds is what is asked for, but for the checks.     *)
LEMMA LatestIsAsked ==
  ASSUME IInv, NEW g \in Gens, runs[g].pc # "idle", Latest(g)
  PROVE  AskedFor(lastText, LastQuorum) =
             IF /\ ~Mistyped(runs[g].text)
                /\ ~(runs[g].open /\ runs[g].text \in Private)
                /\ runs[g].text \notin Failing
                /\ <<runs[g].text, runs[g].k>> \notin TooLong
             THEN SplitOf(runs[g]) ELSE None
<1> DEFINE run == runs[g]
<1>1. /\ run.text = lastText /\ run.open = ~encrypt
      /\ run.k = LastQuorum.k /\ run.n = LastQuorum.n
  BY DEF IInv, LatestHolds, Latest, SplitOf
<1>2. Splits(run.text, run) /\ encrypt \in BOOLEAN
  BY DEF IInv, TypeOK, RunsChecked, Checked
<1>3. Splits(lastText, LastQuorum)
  BY <1>1, <1>2 DEF Splits
<1> QED
  BY <1>1, <1>2, <1>3 DEF AskedFor, SplitOf

(* readQuorum gives a k and an n that can be cut.                          *)
LEMMA SetQuorumKeeps ==
  ASSUME IInv, NEW which \in {"k", "n"}, NEW v \in 0 .. MaxN + 1, SetQuorum(which, v)
  PROVE  IInv'
<1> DEFINE k == Clamp(IF which = "k" THEN v ELSE controls.k)
           n == Clamp(IF which = "n" THEN v ELSE controls.n)
           q == IF n >= k THEN [k |-> k, n |-> n]
                ELSE IF which = "n" THEN [k |-> n, n |-> n] ELSE [k |-> k, n |-> k]
<1>1. k \in 2 .. MaxN /\ n \in 2 .. MaxN
  BY MaxNAssumption DEF IInv, TypeOK, Quorums, Clamp
<1>2. q \in Quorums /\ Cuttable(q)
  BY <1>1, MaxNAssumption DEF Quorums, Cuttable
<1> HIDE DEF q
<1>3. wanted' \in {wanted, q}
  BY DEF SetQuorum, q
<1>4. picked' \in {picked} \cup {[text |-> t, k |-> q.k, n |-> q.n] : t \in Texts}
  BY DEF SetQuorum, q, IInv, TypeOK
<1>5. wanted' \in Quorums /\ Cuttable(wanted')
  BY <1>2, <1>3 DEF IInv, TypeOK, PicksCuttable
<1>6. picked' # None => picked' \in [text : Texts, k : Nat, n : Nat] /\ Cuttable(picked')
  BY <1>2, <1>4 DEF IInv, TypeOK, PicksCuttable, Quorums, Cuttable
<1>7. RunSplit(text, encrypt, wanted', picked') /\ UNCHANGED <<text, encrypt, timer>>
  BY DEF SetQuorum
<1> QED
  BY <1>5, <1>6, <1>7, RunSplitKeeps DEF IInv, TypeOK

(* Every step keeps the invariant.                                         *)
LEMMA PageStep == IInv /\ [Next]_vars => IInv'
<1> SUFFICES ASSUME IInv, [Next]_vars PROVE IInv'
  OBVIOUS
<1>a. /\ wanted \in Quorums /\ Cuttable(wanted) /\ encrypt \in BOOLEAN /\ timer \in BOOLEAN
      /\ picked # None => picked \in [text : Texts, k : Nat, n : Nat] /\ Cuttable(picked)
  BY DEF IInv, TypeOK, PicksCuttable
<1>1. ASSUME NEW t \in Texts, Type(t) PROVE IInv'
  BY <1>1 DEF Type, IInv, TypeOK, PicksCuttable, RunsChecked, Begun, LatestHolds, LastQuorum,
              AskedFor, TextSeen, KeysStayPrivate, ShownCuttable
<1>2. CASE Pause
  <2>1. CASE text # lastText
    BY <1>a, <1>2, <2>1, RunSplitKeeps DEF Pause, IInv, TypeOK
  <2>2. CASE text = lastText
    BY <1>2, <2>2 DEF Pause, IInv, TypeOK, PicksCuttable, RunsChecked, Begun, LatestHolds,
                      LastQuorum, AskedFor, TextSeen, KeysStayPrivate, ShownCuttable
  <2> QED
    BY <2>1, <2>2
<1>3. ASSUME NEW t \in Texts, Replace(t) PROVE IInv'
  BY <1>a, <1>3, RunSplitKeeps DEF Replace
<1>4. ASSUME NEW which \in {"k", "n"}, NEW v \in 0 .. MaxN + 1, SetQuorum(which, v) PROVE IInv'
  BY <1>4, SetQuorumKeeps
<1>5. CASE Switch
  BY <1>a, <1>5, RunSplitKeeps DEF Switch, IInv, TypeOK
<1>6. ASSUME NEW g \in Gens, CheckKeys(g) PROVE IInv'
  <2>1. runs[g].pc = "keys" /\ runs[g] \in [pc : Stages, text : Texts, open : BOOLEAN, k : Nat, n : Nat]
    BY <1>6 DEF CheckKeys, IInv, TypeOK
  <2>2. CASE Mistyped(runs[g].text)
    <3>1. Latest(g) => AskedFor(lastText, LastQuorum) = None
      BY <2>1, <2>2, LatestIsAsked
    <3> QED
      BY <1>6, <2>1, <2>2, <3>1, EndKeeps DEF CheckKeys, Mistyped, ClearIfLatest, Cleared
  <2>3. CASE ~Mistyped(runs[g].text)
    <3>1. Checked([runs[g] EXCEPT !.pc = "private"])
      BY <2>1, <2>3 DEF IInv, RunsChecked, Checked, Splits, Cuttable
    <3> QED
      BY <1>6, <2>1, <2>3, <3>1, MoveOnKeeps DEF CheckKeys, Mistyped, Stages
  <2> QED
    BY <2>2, <2>3
<1>7. ASSUME NEW g \in Gens, CheckPrivate(g) PROVE IInv'
  <2>1. runs[g].pc = "private" /\ runs[g] \in [pc : Stages, text : Texts, open : BOOLEAN, k : Nat, n : Nat]
    BY <1>7 DEF CheckPrivate, IInv, TypeOK
  <2>2. CASE runs[g].open /\ runs[g].text \in Private
    <3>1. Latest(g) => AskedFor(lastText, LastQuorum) = None
      BY <2>1, <2>2, LatestIsAsked
    <3> QED
      BY <1>7, <2>1, <2>2, <3>1, EndKeeps DEF CheckPrivate, ClearIfLatest, Cleared
  <2>3. CASE ~(runs[g].open /\ runs[g].text \in Private)
    <3>1. Checked([runs[g] EXCEPT !.pc = "cut"])
      BY <2>1, <2>3 DEF IInv, RunsChecked, Checked, Splits, Cuttable
    <3> QED
      BY <1>7, <2>1, <2>3, <3>1, MoveOnKeeps DEF CheckPrivate, Stages
  <2> QED
    BY <2>2, <2>3
<1>8. ASSUME NEW g \in Gens, Cut(g) PROVE IInv'
  <2>1. runs[g].pc = "cut" /\ runs[g] \in [pc : Stages, text : Texts, open : BOOLEAN, k : Nat, n : Nat]
    BY <1>8 DEF Cut, IInv, TypeOK
  <2>2. CASE runs[g].text \in Failing
    <3>1. Latest(g) => AskedFor(lastText, LastQuorum) = None
      BY <2>1, <2>2, LatestIsAsked
    <3> QED
      BY <1>8, <2>1, <2>2, <3>1, EndKeeps DEF Cut, ClearIfLatest, Cleared
  <2>3. CASE runs[g].text \notin Failing /\ Latest(g)
    <3>1. Checked([runs[g] EXCEPT !.pc = "head"])
      BY <2>1, <2>3 DEF IInv, RunsChecked, Checked, Splits, Cuttable
    <3> QED
      BY <1>8, <2>1, <2>3, <3>1, MoveOnKeeps DEF Cut, Stages
  <2>4. CASE runs[g].text \notin Failing /\ ~Latest(g)
    BY <1>8, <2>1, <2>4, EndKeeps DEF Cut
  <2> QED
    BY <2>2, <2>3, <2>4
<1>9. ASSUME NEW g \in Gens, Show(g) PROVE IInv'
  <2>1. runs[g].pc = "head" /\ Ends(g) /\ Untouched
    BY <1>9 DEF Show
  <2>2. /\ ~Mistyped(runs[g].text) /\ ~(runs[g].open /\ runs[g].text \in Private)
        /\ runs[g].text \notin Failing
    BY <2>1 DEF IInv, RunsChecked, Checked
  <2> DEFINE split == IF <<runs[g].text, runs[g].k>> \in TooLong THEN None ELSE SplitOf(runs[g])
  <2>3. Latest(g) => split = AskedFor(lastText, LastQuorum)
    BY <2>1, <2>2, LatestIsAsked
  <2>4. shown' = IF Latest(g) THEN [gen |-> g, split |-> split] ELSE shown
    BY <1>9 DEF Show, Cleared
  <2>5. split # None => /\ split = SplitOf(runs[g])
                        /\ ~Mistyped(split.text)
                        /\ split.open => split.text \notin Private
    BY <2>2 DEF SplitOf
  <2> HIDE DEF split
  <2> QED
    BY <2>1, <2>3, <2>4, <2>5, EndKeeps
<1>10. CASE UNCHANGED vars
  BY <1>10 DEF vars, IInv, TypeOK, PicksCuttable, RunsChecked, Begun, LatestHolds, LastQuorum,
               AskedFor, TextSeen, KeysStayPrivate, ShownCuttable
<1> QED
  BY <1>1, <1>2, <1>3, <1>4, <1>5, <1>6, <1>7, <1>8, <1>9, <1>10 DEF Next, Step

LEMMA PageInvariant == Safe => []IInv
BY PageInit, PageStep, PTL DEF Safe

-----------------------------------------------------------------------------
(* Every variable of tab 1 keeps its type.                                 *)
THEOREM PageTypeCorrect == Safe => []TypeOK
BY PageInvariant, PTL DEF IInv

(* However runs overlap and the Encrypt switch is turned, a set on show in *)
(* the open holds no private key, and no set on show a mistyped one.       *)
THEOREM PageKeepsKeysPrivate == Safe => []KeysStayPrivate
BY PageInvariant, PTL DEF IInv

(* At rest, tab 1 shows the split that its controls ask for, or none if    *)
(* they ask for none, and every split on show can be cut.                  *)
THEOREM PageShowsAsked == Safe => []ShownIsAsked
<1>1. IInv => ShownIsAsked
  <2> SUFFICES ASSUME IInv PROVE ShownIsAsked
    OBVIOUS
  <2>1. ASSUME Quiet PROVE shown.split = Asked
    <3>1. text = lastText
      BY <2>1 DEF IInv, TextSeen, Quiet
    <3>2. shown.split = AskedFor(lastText, LastQuorum)
      BY <2>1 DEF IInv, LatestHolds, Quiet
    <3> QED
      BY <3>1, <3>2 DEF AskedFor, Asked, LastQuorum, Mistyped
  <2> QED
    BY <2>1 DEF ShownIsAsked, IInv, ShownCuttable, Cuttable
<1> QED
  BY <1>1, PageInvariant, PTL

(* Tab 1 implements the safety part of LatestOnly: every step asks for a   *)
(* new run, presents the latest one, or changes neither.                   *)
THEOREM PageShowsOnlyLatest == Safe => Latest1!Safe
<1>1. Init => Latest1!Init
  BY DEF Init, Latest1!Init, Cleared
<1>2. IInv /\ [Next]_vars => [Latest1!Next]_Latest1!lvars
  <2> SUFFICES ASSUME IInv, [Next]_vars PROVE [Latest1!Next]_Latest1!lvars
    OBVIOUS
  <2> USE DEF Latest1!Next, Latest1!Ask, Latest1!Present, Latest1!lvars
  <2>1. ASSUME NEW t, NEW enc, NEW want, NEW pick, RunSplit(t, enc, want, pick)
        PROVE  Latest1!Next
    BY <2>1 DEF RunSplit, Cleared
  <2>2. ASSUME NEW g \in Gens, Step(g) PROVE [Latest1!Next]_Latest1!lvars
    <3>1. /\ runs[g].pc # "idle" /\ splitGen' = splitGen
          /\ shown' = shown \/ (Latest(g) /\ shown'.gen = g)
      <4>1. Untouched /\ runs[g].pc \in {"keys", "private", "cut", "head"}
        BY <2>2 DEF Step, CheckKeys, CheckPrivate, Cut, Show
      <4>2. shown' = shown \/ (Latest(g) /\ \E split : shown' = [gen |-> g, split |-> split])
        BY <2>2, Zenon DEF Step, CheckKeys, CheckPrivate, Cut, Show, ClearIfLatest, Cleared
      <4> QED
        BY <4>1, <4>2 DEF Untouched
    <3>2. Latest(g) => shown.gen # splitGen
      BY <3>1 DEF IInv, LatestHolds, Latest
    <3> QED
      BY <3>1, <3>2 DEF Latest
  <2> QED
    BY <2>1, <2>2 DEF Next, Type, Pause, Replace, SetQuorum, Switch, vars
<1> QED
  BY <1>1, <1>2, PageInvariant, PTL DEF Safe, Latest1!Safe

-----------------------------------------------------------------------------
(* The camera *)

(* At most one call is under way, and none while the dialog is open.       *)
OneAtATime ==
    /\ \A a, b \in Calls : start[a] # "idle" /\ start[b] # "idle" => a = b
    /\ dialog => ~Starting

(* The tracks that run are those of the stream that camStop stops.         *)
StreamKnown == live = {camStream} \ {0}

(* A stream is there only past getUserMedia, in a call or in the dialog.   *)
StreamInUse ==
    camStream # 0 => dialog \/ \E a \in Calls : start[a] \in {"play", "tune"}

(* Only calls that were made are under way or have loops.                  *)
StartsMade ==
    \A a \in Calls : start[a] # "idle" \/ loop[a] # "idle" => a <= starts

CamInv ==
    /\ CamTypeOK /\ StartsMade
    /\ OneStart => OneAtATime /\ StreamKnown /\ StreamInUse /\ ClosesItsOwn

(* At first no camera is on.                                               *)
THEOREM CameraInit == CamInit => CamInv
<1> USE MaxStartsAssumption
<1> SUFFICES ASSUME CamInit PROVE CamInv
  OBVIOUS
<1>1. dialog \in BOOLEAN /\ recovered \in BOOLEAN
  BY Zenon DEF CamInit
<1>2. starts \in 0 .. MaxStarts /\ 0 \in 0 .. starts
  BY DEF CamInit
<1>3. CamTypeOK
  BY <1>1, <1>2 DEF CamInit, CamTypeOK
<1> QED
  BY <1>3 DEF CamInit, CamInv, StartsMade, OneAtATime, StreamKnown,
              StreamInUse, ClosesItsOwn, Starting, NoTimer

(* camStop, at any await of a call or of a loop.                           *)
LEMMA StopKeeps ==
  ASSUME CamInv,
         NEW loops \in [Calls -> {"idle", "busy", "adding", "timer"}],
         Stop(loops),
         \A a \in Calls : loops[a] # "idle" => loop[a] # "idle",
         UNCHANGED <<camMode, starts, start, camTimer, recovered>>,
         tab' \in {"split", "recover"}
  PROVE  CamInv'
<1>0. dialog' \in BOOLEAN /\ 0 \in 0 .. starts
  <2>1. dialog' \in BOOLEAN
    BY Zenon DEF Stop
  <2>2. starts \in 0 .. MaxStarts
    BY DEF CamInv, CamTypeOK
  <2> QED
    BY <2>1, <2>2
<1>1. loop' \in [Calls -> {"idle", "busy", "adding", "timer"}]
  BY DEF Stop
<1>2. CamTypeOK'
  BY <1>0, <1>1 DEF CamInv, CamTypeOK, Stop
<1>3. StartsMade'
  BY DEF CamInv, StartsMade, CamTypeOK, Stop
<1> QED
  BY <1>2, <1>3 DEF CamInv, OneAtATime, StreamKnown, StreamInUse,
                    ClosesItsOwn, Starting, Stop

(* Every step keeps the invariant.                                         *)
THEOREM CameraStep == CamInv /\ [CamNext]_camVars => CamInv'
<1> USE MaxStartsAssumption, OneStartAssumption
<1> SUFFICES ASSUME CamInv, [CamNext]_camVars PROVE CamInv'
  OBVIOUS
<1>1. ASSUME NEW mode \in {"parts", "single"}, CamStart(mode) PROVE CamInv'
  BY <1>1 DEF CamInv, CamTypeOK, StartsMade, OneAtATime, StreamKnown,
              StreamInUse, ClosesItsOwn, Starting,
              CamStart, Calls, NoTimer
<1>2. CASE Close
  <2>1. loop \in [Calls -> {"idle", "busy", "adding", "timer"}] /\ tab \in
    {"split", "recover"}
    BY DEF CamInv, CamTypeOK
  <2> QED
    BY <1>2, <2>1, StopKeeps DEF Close
<1>3. ASSUME NEW to \in {"split", "recover"}, SwitchTab(to) PROVE CamInv'
  <2>1. loop \in [Calls -> {"idle", "busy", "adding", "timer"}]
    BY DEF CamInv, CamTypeOK
  <2>2. CASE to = "recover"
    BY <1>3, <2>2 DEF CamInv, CamTypeOK, StartsMade, OneAtATime, StreamKnown,
                      StreamInUse, ClosesItsOwn, Starting,
              SwitchTab
  <2>3. CASE to # "recover"
    BY <1>3, <2>1, <2>3, StopKeeps DEF SwitchTab
  <2> QED
    BY <2>2, <2>3
<1>4. ASSUME NEW a \in Calls, Denied(a) PROVE CamInv'
  BY <1>4 DEF CamInv, CamTypeOK, StartsMade, OneAtATime, StreamKnown,
              StreamInUse, ClosesItsOwn, Starting, Denied
<1>5. ASSUME NEW a \in Calls, Granted(a) PROVE CamInv'
  <2>1. CamTypeOK'
    BY <1>5 DEF CamInv, CamTypeOK, StartsMade, Granted, Calls
  <2>2. StartsMade' /\ (OneStart => OneAtATime' /\ StreamInUse')
    BY <1>5 DEF CamInv, CamTypeOK, StartsMade, OneAtATime, StreamInUse,
                Starting, Granted
  <2>3. ASSUME OneStart PROVE StreamKnown' /\ ClosesItsOwn'
    <3>1. camStream = 0 /\ live = {} /\ ~dialog
      BY <1>5, <2>3 DEF CamInv, OneAtATime, StreamKnown, StreamInUse,
                        Starting, Granted
    <3> QED
      BY <1>5, <2>3, <3>1 DEF CamInv, StreamKnown, ClosesItsOwn,
                              Granted, Calls
  <2> QED
    BY <2>1, <2>2, <2>3 DEF CamInv
<1>6. ASSUME NEW a \in Calls, Played(a) PROVE CamInv'
  BY <1>6 DEF CamInv, CamTypeOK, StartsMade, OneAtATime, StreamKnown,
              StreamInUse, ClosesItsOwn, Starting, Played
<1>7. ASSUME NEW a \in Calls, Tuned(a) PROVE CamInv'
  BY <1>7 DEF CamInv, CamTypeOK, StartsMade, OneAtATime, StreamKnown,
              StreamInUse, ClosesItsOwn, Starting, Tuned
<1>8. ASSUME NEW a \in Calls, NextFrame(a) \/ Tick(a) PROVE CamInv'
  <2>1. CamTypeOK'
    <3>1. CASE NextFrame(a) /\ camStream = 0
      BY <3>1 DEF CamInv, CamTypeOK, NextFrame
    <3>2. CASE NextFrame(a) /\ camStream # 0
      BY <3>2 DEF CamInv, CamTypeOK, StartsMade, NextFrame, Calls
    <3>3. CASE Tick(a)
      BY <3>3 DEF CamInv, CamTypeOK, Tick
    <3> QED
      BY <1>8, <3>1, <3>2, <3>3
  <2>2. UNCHANGED <<start, starts, live, camStream, dialog, camCloseTimer>>
    BY <1>8 DEF NextFrame, Tick
  <2>3. StartsMade'
    BY <1>8 DEF CamInv, CamTypeOK, StartsMade, NextFrame, Tick
  <2> QED
    BY <2>1, <2>2, <2>3 DEF CamInv, OneAtATime, StreamKnown, StreamInUse,
                            ClosesItsOwn, Starting
<1>9. ASSUME NEW a \in Calls, NEW to \in {"split", "recover"},
  ScanSingle(a, to) PROVE CamInv'
  <2>1. [loop EXCEPT ![a] = IF to = "recover" THEN "adding" ELSE "idle"]
           \in [Calls -> {"idle", "busy", "adding", "timer"}]
    BY DEF CamInv, CamTypeOK
  <2> QED
    BY <1>9, <2>1, StopKeeps DEF ScanSingle
<1>10. ASSUME NEW done \in BOOLEAN, Update(done) PROVE CamInv'
  BY <1>10 DEF CamInv, CamTypeOK, StartsMade, OneAtATime, StreamKnown,
               StreamInUse, ClosesItsOwn, Starting, Update
<1>11. CASE CloseRecovered
  <2>1. loop \in [Calls -> {"idle", "busy", "adding", "timer"}] /\ tab \in
    {"split", "recover"}
    BY DEF CamInv, CamTypeOK
  <2> QED
    BY <1>11, <2>1, StopKeeps DEF CloseRecovered
<1>12. CASE UNCHANGED camVars
  BY <1>12 DEF camVars, CamInv, CamTypeOK, StartsMade, OneAtATime,
               StreamKnown, StreamInUse, ClosesItsOwn, Starting
<1> QED
  BY <1>1, <1>2, <1>3, <1>4, <1>5, <1>6, <1>7, <1>8, <1>9, <1>10, <1>11, <1>12
     DEF CamNext, StartStep, LoopStep

(* So the camera keeps it.                                                 *)
LEMMA CameraInvariant == CamSpec => []CamInv
<1>1. CamInit => CamInv
  BY CameraInit
<1>2. CamInv /\ [CamNext]_camVars => CamInv'
  BY CameraStep
<1> QED
  BY <1>1, <1>2, PTL DEF CamSpec

-----------------------------------------------------------------------------
(* Every variable of the camera keeps its type, for every number of starts *)
(* and whether they overlap or not.                                        *)
THEOREM CameraTypeCorrect == CamSpec => []CamTypeOK
<1>1. CamInv => CamTypeOK
  BY DEF CamInv
<1>2. CamSpec => []CamInv
  BY CameraInvariant
<1> QED
  BY <1>1, <1>2, PTL

(* With one start at a time no camera runs that camStop would not stop,    *)
(* and none runs behind a closed dialog.                                   *)
THEOREM CameraIsOff ==
  ASSUME OneStart
  PROVE  CamSpec => []OffWhenClosed
<1>1. CamInv => OffWhenClosed
  BY DEF CamInv, OneAtATime, StreamKnown, StreamInUse, Starting,
         OffWhenClosed
<1>2. CamSpec => []CamInv
  BY CameraInvariant
<1> QED
  BY <1>1, <1>2, PTL

(* With one start at a time the timer that closes the camera closes the    *)
(* one that was on when the set was recovered.                             *)
THEOREM CameraClosesItsOwn ==
  ASSUME OneStart
  PROVE  CamSpec => []ClosesItsOwn
<1>1. CamInv => ClosesItsOwn
  BY DEF CamInv
<1>2. CamSpec => []CamInv
  BY CameraInvariant
<1> QED
  BY <1>1, <1>2, PTL

-----------------------------------------------------------------------------
(* The search for private keys *)

(* Every set of numbers has a least one.                                   *)
LEMMA LeastNat ==
  ASSUME NEW T, T \subseteq Nat, T # {}
  PROVE  \E x \in T : \A y \in T : x <= y
<1>1. PICK x \in T : \A y \in T : ~ (<<y, x>> \in OpToRel(<, Nat))
  BY WFMin, NatLessThanWellFounded
<1>2. ASSUME NEW y \in T PROVE x <= y
  <2>1. ~ (y < x)
    BY <1>1 DEF OpToRel
  <2> QED
    BY <2>1
<1> QED
  BY <1>2

(* What holds of no least number holds of none: induction over a set of    *)
(* counterexamples.                                                        *)
LEMMA NoCounterexample ==
  ASSUME NEW T, T \subseteq Nat, 0 \notin T, \A n \in Nat : n + 1 \in T => n \in T
  PROVE  T = {}
<1> SUFFICES ASSUME T # {} PROVE FALSE
  OBVIOUS
<1>1. PICK x \in T : \A y \in T : x <= y
  BY LeastNat
<1>2. x - 1 \in Nat /\ (x - 1) + 1 = x
  BY <1>1
<1> QED
  BY <1>1, <1>2

(* A loop of n rounds over states in S, of which each is what the step g   *)
(* makes of the one before.                                                *)
Loop(f, S, first, n, g) ==
    /\ f \in [0 .. n -> S]
    /\ f[0] = first
    /\ \A i \in 1 .. n : f[i] = g[<<f[i - 1], i>>]

(* Every loop runs to its end.                                             *)
LEMMA LoopExists ==
  ASSUME NEW S, NEW first \in S, NEW m \in Nat, NEW g \in [S \X (1 .. m) -> S]
  PROVE  \E f : Loop(f, S, first, m, g)
<1> DEFINE Ran(n, f) == /\ f \in [0 .. n -> S]
                         /\ f[0] = first
                         /\ \A i \in 1 .. n : f[i] = g[<<f[i - 1], i>>]
           Without == {n \in Nat : n <= m /\ ~ \E f : Ran(n, f)}
<1>1. 0 \notin Without
  <2>1. Ran(0, [i \in 0 .. 0 |-> first])
    OBVIOUS
  <2> QED
    BY <2>1
<1>2. ASSUME NEW n \in Nat, n \notin Without PROVE n + 1 \notin Without
  <2> SUFFICES ASSUME n + 1 <= m PROVE \E f : Ran(n + 1, f)
    OBVIOUS
  <2>1. PICK f : Ran(n, f)
    BY <1>2
  <2> DEFINE last == g[<<f[n], n + 1>>]
             h == [i \in 0 .. n + 1 |-> IF i = n + 1 THEN last ELSE f[i]]
  <2>2. last \in S
    <3>1. f[n] \in S /\ n + 1 \in 1 .. m
      BY <2>1
    <3> QED
      BY <3>1
  <2>3. h \in [0 .. n + 1 -> S]
    <3> SUFFICES ASSUME NEW i \in 0 .. n + 1 PROVE h[i] \in S
      OBVIOUS
    <3>1. i # n + 1 => i \in 0 .. n
      OBVIOUS
    <3> QED
      BY <2>1, <2>2, <3>1
  <2>4. h[0] = first
    <3>1. 0 \in 0 .. n + 1 /\ 0 # n + 1
      OBVIOUS
    <3> QED
      BY <2>1, <3>1
  <2>5. ASSUME NEW i \in 1 .. n + 1 PROVE h[i] = g[<<h[i - 1], i>>]
    <3>1. i \in 0 .. n + 1 /\ i - 1 \in 0 .. n + 1 /\ i - 1 # n + 1 /\ (i # n + 1 => i \in 1 .. n)
      OBVIOUS
    <3>2. h[i - 1] = f[i - 1]
      BY <3>1
    <3>3. CASE i = n + 1
      <4>1. i - 1 = n
        BY <3>3
      <4> QED
        BY <3>1, <3>2, <3>3, <4>1
    <3>4. CASE i # n + 1
      BY <2>1, <3>1, <3>2, <3>4
    <3> QED
      BY <3>3, <3>4
  <2> HIDE DEF h
  <2> QED
    BY <2>3, <2>4, <2>5
<1>3. Without \subseteq Nat
  OBVIOUS
<1>4. Without = {}
  <2> HIDE DEF Without
  <2> QED
    BY <1>1, <1>2, <1>3, NoCounterexample
<1>5. \E f : Ran(m, f)
  <2>1. m \notin Without
    BY <1>4
  <2> QED
    BY <2>1
<1> QED
  BY <1>5 DEF Loop

(* What holds before the first round and outlives every round holds after  *)
(* the last one: Done are the rounds after which it holds.                 *)
LEMMA Rounds ==
  ASSUME NEW m \in Nat, NEW Done, 0 \in Done, \A i \in 1 .. m : i - 1 \in Done => i \in Done
  PROVE  \A i \in 0 .. m : i \in Done
<1> DEFINE Off == {i \in 0 .. m : i \notin Done}
<1> SUFFICES ASSUME Off # {} PROVE FALSE
  OBVIOUS
<1>1. Off \subseteq Nat
  OBVIOUS
<1>2. PICK x \in Off : \A y \in Off : x <= y
  <2> HIDE DEF Off
  <2> QED
    BY <1>1, LeastNat
<1>3. x \in 1 .. m /\ x - 1 \in 0 .. m /\ x \notin Done
  OBVIOUS
<1>4. x - 1 \in Done
  BY <1>2, <1>3
<1> QED
  BY <1>3, <1>4

-----------------------------------------------------------------------------
(* Characters and texts *)

CharShape == [is : {"base58", "space", "other"}, kind : Kinds \cup {"none"},
              at : 0 .. 6, piece : Nat]

(* A character of a key knows its key, and no other one does.              *)
Known(c, kindOf) ==
    \/ c.kind = "none" /\ c.piece = 0 /\ c.at = 0
    \/ /\ c.piece \in DOMAIN kindOf /\ c.kind = kindOf[c.piece]
       /\ c.at \in 1 .. KeyLength(c.kind) /\ c.is = "base58"

(* A key's characters are there, in their order, from o + 1 on, with w     *)
(* spaces behind the first of them, and nowhere else.                      *)
Spot(o, w, j) == o + j + (IF j > 1 THEN w ELSE 0)

Lies(t, p, kind, o, w) ==
    /\ o + KeyLength(kind) + w <= Len(t)
    /\ \A j \in 1 .. KeyLength(kind) : t[Spot(o, w, j)] = KeyChar(kind, j, p)
    /\ w = 1 => t[o + 2].is = "space"
    /\ \A i \in DOMAIN t : t[i].piece = p => \E j \in 1 .. KeyLength(kind) : i = Spot(o, w, j)

(* The lengths of the keys.                                                *)
LEMMA Lengths ==
  /\ KeyLength("wif") = 3 /\ KeyLength("wifc") = 4 /\ KeyLength("xprv") = 6
  /\ KeyLength("typo") = 6 /\ KeyLength("odd") = 6
  /\ \A kind \in Kinds : KeyLength(kind) \in 3 .. 6
BY DEF KeyLength, Kinds

(* The fields of a character.                                              *)
LEMMA CharFields ==
  /\ \A kind, j, p : /\ KeyChar(kind, j, p).is = "base58" /\ KeyChar(kind, j, p).kind = kind
                     /\ KeyChar(kind, j, p).at = j /\ KeyChar(kind, j, p).piece = p
  /\ \A is : /\ Char(is).is = is /\ Char(is).kind = "none"
             /\ Char(is).at = 0 /\ Char(is).piece = 0
<1>1. ASSUME NEW kind, NEW j, NEW p
      PROVE  /\ KeyChar(kind, j, p).is = "base58" /\ KeyChar(kind, j, p).kind = kind
             /\ KeyChar(kind, j, p).at = j /\ KeyChar(kind, j, p).piece = p
  BY Zenon DEF KeyChar
<1>2. ASSUME NEW is
      PROVE  /\ Char(is).is = is /\ Char(is).kind = "none"
             /\ Char(is).at = 0 /\ Char(is).piece = 0
  BY Zenon DEF Char
<1> QED
  BY <1>1, <1>2

(* Every character that a piece can have is of the shape of one.           *)
LEMMA CharsHaveShape ==
  /\ \A kind \in Kinds, j \in 1 .. 6, p \in Nat : KeyChar(kind, j, p) \in CharShape
  /\ \A is \in {"base58", "space", "other"} : Char(is) \in CharShape
BY DEF KeyChar, Char, CharShape

(* The fields of whatever has that shape.                                  *)
LEMMA ShapeFields ==
  ASSUME NEW c \in CharShape
  PROVE  /\ c.is \in {"base58", "space", "other"} /\ c.kind \in Kinds \cup {"none"}
         /\ c.at \in 0 .. 6 /\ c.piece \in Nat
BY DEF CharShape

(* The characters of a key lie behind o, and within its length and break.  *)
LEMMA SpotIsNat ==
  ASSUME NEW o \in Nat, NEW w \in 0 .. 1, NEW n \in Nat
  PROVE  /\ \A j \in 1 .. n : Spot(o, w, j) \in o + 1 .. o + n + w
         /\ Spot(o, 0, 1) = o + 1
         /\ \A j \in 1 .. n : Spot(o, 0, j) = o + j
BY DEF Spot

(* A text behind a text: its length, and where its characters are.         *)
LEMMA Concat ==
  ASSUME NEW S, NEW t \in Seq(S), NEW x \in Seq(S)
  PROVE  /\ t \o x \in Seq(S) /\ Len(t \o x) = Len(t) + Len(x)
         /\ DOMAIN (t \o x) = 1 .. Len(t \o x)
         /\ \A i \in 1 .. Len(t) : (t \o x)[i] = t[i]
         /\ \A i \in 1 .. Len(x) : (t \o x)[Len(t) + i] = x[i]
         /\ \A i \in 1 .. Len(t \o x) :
                i > Len(t) => i - Len(t) \in 1 .. Len(x) /\ Len(t) + (i - Len(t)) = i
OBVIOUS

\* None of the characters of t is one of the piece p.
Lacks(t, p) == \A i \in 1 .. Len(t) : t[i].piece # p

(* More text behind a key does not move it.                                *)
LEMMA LiesOn ==
  ASSUME NEW t \in Seq(CharShape), NEW x \in Seq(CharShape), NEW p \in Nat, NEW kind \in Kinds,
         NEW o \in Nat, NEW w \in 0 .. 1, Lies(t, p, kind, o, w),
         Lacks(x, p)
  PROVE  Lies(t \o x, p, kind, o, w)
<1> DEFINE n == KeyLength(kind)
           s == t \o x
<1>1. n \in 3 .. 6
  BY Lengths
<1>2. /\ s \in Seq(CharShape) /\ Len(s) = Len(t) + Len(x)
      /\ DOMAIN s = 1 .. Len(s) /\ DOMAIN t = 1 .. Len(t)
      /\ \A i \in 1 .. Len(t) : s[i] = t[i]
      /\ \A i \in 1 .. Len(s) : i > Len(t) => i - Len(t) \in 1 .. Len(x) /\ s[i] = x[i - Len(t)]
  OBVIOUS
<1> HIDE DEF n, s
<1>3. o + n + w <= Len(t)
  BY DEF Lies, n
<1>4. \A j \in 1 .. n : Spot(o, w, j) \in 1 .. Len(t)
  <2>1. \A j \in 1 .. n : Spot(o, w, j) \in o + 1 .. o + n + w
    <3>1. n \in Nat
      BY <1>1
    <3> QED
      BY <3>1, SpotIsNat, Zenon
  <2> QED
    BY <1>1, <1>3, <2>1
<1>5. \A j \in 1 .. n : s[Spot(o, w, j)] = KeyChar(kind, j, p)
  BY <1>2, <1>4, Zenon DEF Lies, n
<1>6. w = 1 => s[o + 2].is = "space"
  <2>1. o + 2 \in 1 .. Len(t)
    BY <1>1, <1>3
  <2> QED
    BY <1>2, <2>1, Zenon DEF Lies
<1>7. ASSUME NEW i \in 1 .. Len(s), s[i].piece = p PROVE \E j \in 1 .. n : i = Spot(o, w, j)
  <2>1. i <= Len(t)
    <3> SUFFICES ASSUME ~(i <= Len(t)) PROVE FALSE
      OBVIOUS
    <3>1. i - Len(t) \in 1 .. Len(x) /\ s[i] = x[i - Len(t)]
      BY <1>2
    <3>2. s[i].piece # p
      BY <3>1, Zenon DEF Lacks
    <3> QED
      BY <1>7, <3>2
  <2>2. i \in DOMAIN t /\ t[i].piece = p
    BY <1>2, <1>7, <2>1
  <2> QED
    BY <2>2, Zenon DEF Lies, n
<1>8. o + n + w <= Len(s)
  BY <1>1, <1>2, <1>3
<1> QED
  BY <1>2, <1>5, <1>6, <1>7, <1>8, Zenon DEF Lies, n, s

(* A key as KeyChars writes it: its characters at their spots, and a space *)
(* only where it is wrapped.                                               *)
LEMMA KeyCharsLie ==
  ASSUME NEW kind \in Kinds, NEW w \in 0 .. 1, NEW p \in Nat
  PROVE  LET x == KeyChars(kind, w, p) IN
         /\ x \in Seq(CharShape) /\ Len(x) = KeyLength(kind) + w
         /\ \A j \in 1 .. KeyLength(kind) : x[Spot(0, w, j)] = KeyChar(kind, j, p)
         /\ w = 1 => x[2] = Char("space")
         /\ \A i \in 1 .. Len(x) : (i = 2 /\ w = 1) \/ \E j \in 1 .. KeyLength(kind) : i = Spot(0, w, j)
<1> DEFINE n == KeyLength(kind)
           x == KeyChars(kind, w, p)
<1>1. n \in 3 .. 6
  BY Lengths
<1>2. n + (IF w = 0 THEN 0 ELSE 1) = n + w
  BY <1>1
<1> HIDE DEF n
<1>3. x = [i \in 1 .. n + w |->
             IF w = 0 \/ i <= w THEN KeyChar(kind, i, p)
             ELSE IF i = w + 1 THEN Char("space") ELSE KeyChar(kind, i - 1, p)]
  BY <1>2, Zenon DEF KeyChars, n
<1>4. \A i \in 1 .. n + w : x[i] \in CharShape
  <2> SUFFICES ASSUME NEW i \in 1 .. n + w PROVE x[i] \in CharShape
    OBVIOUS
  <2>1. CASE w = 0 \/ i <= w
    <3>1. i \in 1 .. 6
      BY <1>1, <2>1
    <3>2. x[i] = KeyChar(kind, i, p)
      BY <1>3, <2>1
    <3> QED
      BY <3>1, <3>2, CharsHaveShape
  <2>2. CASE w # 0 /\ i = w + 1
    <3>1. x[i] = Char("space")
      BY <1>3, <2>2
    <3> QED
      BY <3>1, CharsHaveShape
  <2>3. CASE w # 0 /\ i > w + 1
    <3>1. i - 1 \in 1 .. 6
      BY <1>1, <2>3
    <3>2. x[i] = KeyChar(kind, i - 1, p)
      BY <1>3, <2>3
    <3> QED
      BY <3>1, <3>2, CharsHaveShape
  <2> QED
    BY <2>1, <2>2, <2>3, <1>1
<1>5. x \in Seq(CharShape) /\ Len(x) = n + w
  BY <1>1, <1>3, <1>4
<1>6. ASSUME NEW j \in 1 .. n PROVE x[Spot(0, w, j)] = KeyChar(kind, j, p)
  <2>1. CASE w = 0
    <3>1. Spot(0, w, j) = j /\ j \in 1 .. n + w
      BY <1>1, <2>1 DEF Spot
    <3> QED
      BY <1>3, <2>1, <3>1
  <2>2. CASE w = 1 /\ j = 1
    <3>1. Spot(0, w, j) = 1 /\ 1 \in 1 .. n + w
      BY <1>1, <2>2 DEF Spot
    <3> QED
      BY <1>3, <2>2, <3>1
  <2>3. CASE w = 1 /\ j # 1
    <3>1. Spot(0, w, j) = j + 1 /\ j + 1 \in 1 .. n + w /\ j + 1 - 1 = j
      BY <1>1, <2>3 DEF Spot
    <3> QED
      BY <1>3, <2>3, <3>1
  <2> QED
    BY <2>1, <2>2, <2>3
<1>7. ASSUME w = 1 PROVE x[2] = Char("space")
  BY <1>1, <1>3, <1>7
<1>8. ASSUME NEW i \in 1 .. n + w PROVE (i = 2 /\ w = 1) \/ \E j \in 1 .. n : i = Spot(0, w, j)
  <2>1. w = 0 => i \in 1 .. n /\ i = Spot(0, w, i)
    BY <1>1 DEF Spot
  <2>2. w = 1 /\ i = 1 => 1 \in 1 .. n /\ i = Spot(0, w, 1)
    BY <1>1 DEF Spot
  <2>3. w = 1 /\ i > 2 => i - 1 \in 1 .. n /\ i = Spot(0, w, i - 1)
    BY <1>1 DEF Spot
  <2> QED
    BY <2>1, <2>2, <2>3
<1> HIDE DEF x
<1> QED
  BY <1>5, <1>6, <1>7, <1>8 DEF n, x

(* A key written behind a text that has no part of it lies there.          *)
LEMMA LiesNew ==
  ASSUME NEW t \in Seq(CharShape), NEW kind \in Kinds, NEW w \in 0 .. 1, NEW p \in Nat \ {0},
         Lacks(t, p)
  PROVE  Lies(t \o KeyChars(kind, w, p), p, kind, Len(t), w)
<1> DEFINE n == KeyLength(kind)
           x == KeyChars(kind, w, p)
           s == t \o x
           l == Len(t)
<1>1. n \in 3 .. 6
  BY Lengths
<1>2. /\ x \in Seq(CharShape) /\ Len(x) = n + w
      /\ \A j \in 1 .. n : x[Spot(0, w, j)] = KeyChar(kind, j, p)
      /\ w = 1 => x[2] = Char("space")
      /\ \A i \in 1 .. Len(x) : (i = 2 /\ w = 1) \/ \E j \in 1 .. n : i = Spot(0, w, j)
  BY KeyCharsLie
<1> HIDE DEF x, n
<1>3. /\ l \in Nat /\ s \in Seq(CharShape) /\ Len(s) = l + (n + w)
      /\ DOMAIN s = 1 .. Len(s)
      /\ \A i \in 1 .. l : s[i] = t[i]
      /\ \A i \in 1 .. Len(x) : s[l + i] = x[i]
      /\ \A i \in 1 .. Len(s) : i > l => i - l \in 1 .. Len(x) /\ l + (i - l) = i
  <2>1. /\ s \in Seq(CharShape) /\ Len(s) = l + Len(x) /\ DOMAIN s = 1 .. Len(s)
        /\ \A i \in 1 .. l : s[i] = t[i]
        /\ \A i \in 1 .. Len(x) : s[l + i] = x[i]
        /\ \A i \in 1 .. Len(s) : i > l => i - l \in 1 .. Len(x) /\ l + (i - l) = i
    <3>1. x \in Seq(CharShape)
      BY <1>2
    <3> QED
      BY <3>1, Concat
  <2>2. l \in Nat
    OBVIOUS
  <2> HIDE DEF s, l
  <2>3. Len(s) = l + (n + w)
    BY <1>2, <2>1, Zenon
  <2> QED
    BY <2>1, <2>2, <2>3, Zenon
<1> HIDE DEF s, l
<1>4. \A j \in 1 .. n : Spot(0, w, j) \in 1 .. Len(x) /\ Spot(l, w, j) = l + Spot(0, w, j)
  <2>1. \A j \in 1 .. n : Spot(0, w, j) \in 0 + 1 .. 0 + n + w
    <3>1. n \in Nat /\ 0 \in Nat
      BY <1>1
    <3> QED
      BY <3>1, SpotIsNat, Zenon
  <2>2. \A j \in 1 .. n : Spot(l, w, j) = l + Spot(0, w, j)
    BY <1>1, <1>3 DEF Spot
  <2> QED
    BY <1>1, <1>2, <2>1, <2>2
<1>5. \A j \in 1 .. n : s[Spot(l, w, j)] = KeyChar(kind, j, p)
  <2> SUFFICES ASSUME NEW j \in 1 .. n PROVE s[Spot(l, w, j)] = KeyChar(kind, j, p)
    OBVIOUS
  <2>1. s[l + Spot(0, w, j)] = x[Spot(0, w, j)]
    BY <1>3, <1>4
  <2> QED
    BY <1>2, <1>4, <2>1
<1>6. w = 1 => s[l + 2].is = "space"
  <2> SUFFICES ASSUME w = 1 PROVE s[l + 2].is = "space"
    OBVIOUS
  <2>1. s[l + 2] = x[2]
    BY <1>1, <1>2, <1>3
  <2>2. s[l + 2] = Char("space")
    BY <1>2, <2>1
  <2> QED
    BY <2>2, CharFields, Zenon
<1>7. ASSUME NEW i \in 1 .. Len(s), s[i].piece = p PROVE \E j \in 1 .. n : i = Spot(l, w, j)
  <2>1. i > l
    <3> SUFFICES ASSUME ~(i > l) PROVE FALSE
      OBVIOUS
    <3>1. i \in 1 .. l
      BY <1>3
    <3>2. s[i].piece # p
      BY <1>3, <3>1, Zenon DEF l, Lacks
    <3> QED
      BY <1>7, <3>2
  <2>2. i - l \in 1 .. Len(x) /\ l + (i - l) = i
    BY <1>3, <2>1
  <2>3. s[i] = x[i - l]
    BY <1>3, <2>2
  <2>4. ~(i - l = 2 /\ w = 1)
    <3> SUFFICES ASSUME i - l = 2, w = 1 PROVE FALSE
      OBVIOUS
    <3>1. s[i] = Char("space")
      BY <1>2, <2>3
    <3>2. s[i].piece = 0
      BY <3>1, CharFields, Zenon
    <3> QED
      BY <1>7, <3>2
  <2>5. PICK j \in 1 .. n : i - l = Spot(0, w, j)
    BY <1>2, <2>2, <2>4
  <2> QED
    BY <1>4, <2>2, <2>5
<1>8. l + n + w <= Len(s)
  BY <1>1, <1>3
<1> QED
  BY <1>3, <1>5, <1>6, <1>7, <1>8, Zenon DEF Lies, n, s, x, l

-----------------------------------------------------------------------------
(* The text of the pieces *)

(* A text holds each of the first q keys where it lies, and knows them.    *)
Holds(t, kindOf, q) ==
    /\ t \in Seq(CharShape)
    /\ \A i \in 1 .. Len(t) : Known(t[i], kindOf) /\ t[i].piece <= q
    /\ \A p \in DOMAIN kindOf :
           p <= q => \E o \in Nat, w \in 0 .. 1 : Lies(t, p, kindOf[p], o, w)

(* The characters x are those of the piece p.                              *)
OfPiece(x, kindOf, p) ==
    \/ p \in DOMAIN kindOf /\ \E w \in 0 .. 1 : x = KeyChars(kindOf[p], w, p)
    \/ p \notin DOMAIN kindOf /\ \E is \in {"base58", "space", "other"} : x = <<Char(is)>>

\* They know their key, if it is one.
KnowPiece(x, kindOf, p) ==
    /\ x \in Seq(CharShape)
    /\ \A i \in 1 .. Len(x) : Known(x[i], kindOf) /\ x[i].piece \in {0, p}
    /\ p \notin DOMAIN kindOf => \A i \in 1 .. Len(x) : x[i].piece = 0

(* The characters of a piece know their key, if it is one.                 *)
LEMMA PieceIsKnown ==
  ASSUME NEW keys \in SUBSET (Nat \ {0}), NEW kindOf \in [keys -> Kinds], NEW p \in Nat \ {0},
         NEW x, OfPiece(x, kindOf, p)
  PROVE  KnowPiece(x, kindOf, p)
<1> USE DEF KnowPiece
<1>0. DOMAIN kindOf = keys
  OBVIOUS
<1>1. CASE p \in keys
  <2>1. PICK w \in 0 .. 1 : x = KeyChars(kindOf[p], w, p)
    BY <1>0, <1>1, Zenon DEF OfPiece
  <2> DEFINE kind == kindOf[p]
             n == KeyLength(kind)
  <2>2. kind \in Kinds /\ p \in Nat
    BY <1>1
  <2> HIDE DEF kind
  <2>3. n \in 3 .. 6
    BY <2>2, Lengths
  <2>4. /\ x \in Seq(CharShape) /\ Len(x) = n + w
        /\ \A j \in 1 .. n : x[Spot(0, w, j)] = KeyChar(kind, j, p)
        /\ w = 1 => x[2] = Char("space")
        /\ \A i \in 1 .. Len(x) : (i = 2 /\ w = 1) \/ \E j \in 1 .. n : i = Spot(0, w, j)
    <3>1. x = KeyChars(kind, w, p)
      BY <2>1 DEF kind
    <3> QED
      BY <2>2, <3>1, KeyCharsLie
  <2> HIDE DEF n
  <2>5. ASSUME NEW i \in 1 .. Len(x) PROVE Known(x[i], kindOf) /\ x[i].piece \in {0, p}
    <3>1. CASE i = 2 /\ w = 1
      <4>1. x[i] = Char("space")
        BY <2>4, <3>1
      <4> QED
        BY <4>1, CharFields, Zenon DEF Known
    <3>2. CASE \E j \in 1 .. n : i = Spot(0, w, j)
      <4>1. PICK j \in 1 .. n : i = Spot(0, w, j)
        BY <3>2
      <4>2. x[i] = KeyChar(kind, j, p)
        BY <2>4, <4>1
      <4> DEFINE c == KeyChar(kind, j, p)
      <4>3. c.is = "base58" /\ c.kind = kind /\ c.at = j /\ c.piece = p
        BY CharFields
      <4> HIDE DEF c
      <4> QED
        <5>1. x[i] = c
          BY <4>2 DEF c
        <5>2. Known(c, kindOf)
          BY <1>0, <1>1, <4>3, Zenon DEF Known, kind, n
        <5> QED
          BY <4>3, <5>1, <5>2, Zenon
    <3> QED
      BY <2>4, <3>1, <3>2
  <2> QED
    BY <1>0, <1>1, <2>4, <2>5
<1>2. CASE p \notin keys
  <2>1. PICK is \in {"base58", "space", "other"} : x = <<Char(is)>>
    BY <1>0, <1>2, Zenon DEF OfPiece
  <2>2. Char(is) \in CharShape
    BY CharsHaveShape
  <2>3. x \in Seq(CharShape) /\ Len(x) = 1 /\ \A i \in 1 .. Len(x) : x[i] = Char(is)
    BY <2>1, <2>2
  <2>4. ASSUME NEW i \in 1 .. Len(x) PROVE Known(x[i], kindOf) /\ x[i].piece = 0
    <3> DEFINE c == Char(is)
    <3>1. x[i] = c
      BY <2>3
    <3>2. c.kind = "none" /\ c.at = 0 /\ c.piece = 0
      BY CharFields
    <3> HIDE DEF c
    <3>3. Known(c, kindOf)
      BY <3>2, Zenon DEF Known
    <3> QED
      BY <3>1, <3>2, <3>3, Zenon
  <2> QED
    BY <2>3, <2>4
<1> QED
  BY <1>1, <1>2

(* A text that holds the first q keys holds the next one too, once the     *)
(* piece behind them is written.                                           *)
LEMMA HoldsOn ==
  ASSUME NEW keys \in SUBSET (Nat \ {0}), NEW kindOf \in [keys -> Kinds], NEW q \in Nat,
         NEW t, Holds(t, kindOf, q), NEW x, OfPiece(x, kindOf, q + 1)
  PROVE  Holds(t \o x, kindOf, q + 1)
<1> DEFINE s == t \o x
<1>0. DOMAIN kindOf = keys /\ q + 1 \in Nat \ {0}
  OBVIOUS
<1>1. t \in Seq(CharShape)
  BY Zenon DEF Holds
<1>2. /\ x \in Seq(CharShape)
      /\ \A i \in 1 .. Len(x) : Known(x[i], kindOf) /\ x[i].piece \in {0, q + 1}
  <2>1. KnowPiece(x, kindOf, q + 1)
    BY <1>0, PieceIsKnown
  <2> QED
    BY <2>1, Zenon DEF KnowPiece
<1>3. /\ s \in Seq(CharShape)
      /\ \A i \in 1 .. Len(s) : \/ i \in 1 .. Len(t) /\ s[i] = t[i]
                                \/ i - Len(t) \in 1 .. Len(x) /\ s[i] = x[i - Len(t)]
  BY <1>1, <1>2
<1> HIDE DEF s
<1>4. ASSUME NEW i \in 1 .. Len(t) PROVE Known(t[i], kindOf) /\ t[i].piece <= q /\ t[i].piece \in Nat
  <2>1. Known(t[i], kindOf) /\ t[i].piece <= q
    BY Zenon DEF Holds
  <2>2. t[i] \in CharShape
    BY <1>1
  <2> QED
    BY <2>1, <2>2, ShapeFields
<1>5. ASSUME NEW i \in 1 .. Len(s) PROVE Known(s[i], kindOf) /\ s[i].piece <= q + 1
  <2>1. CASE i \in 1 .. Len(t) /\ s[i] = t[i]
    <3>1. Known(s[i], kindOf) /\ s[i].piece <= q /\ s[i].piece \in Nat
      BY <1>4, <2>1
    <3> QED
      BY <3>1
  <2>2. CASE i - Len(t) \in 1 .. Len(x) /\ s[i] = x[i - Len(t)]
    <3>1. Known(s[i], kindOf) /\ s[i].piece \in {0, q + 1}
      BY <1>2, <2>2
    <3> QED
      BY <3>1
  <2> QED
    BY <1>3, <2>1, <2>2
<1>6. ASSUME NEW p \in keys, p <= q + 1
      PROVE  \E o \in Nat, w \in 0 .. 1 : Lies(s, p, kindOf[p], o, w)
  <2>0. p \in Nat \ {0} /\ kindOf[p] \in Kinds
    OBVIOUS
  <2>1. CASE p <= q
    <3>1. PICK o \in Nat, w \in 0 .. 1 : Lies(t, p, kindOf[p], o, w)
      BY <1>0, <2>1, Zenon DEF Holds
    <3>2. Lacks(x, p)
      <4> SUFFICES ASSUME NEW i \in 1 .. Len(x) PROVE x[i].piece # p
        BY DEF Lacks
      <4>1. x[i].piece \in {0, q + 1} /\ p # 0 /\ p # q + 1
        BY <1>2, <2>0, <2>1
      <4> QED
        BY <4>1, Zenon
    <3>3. Lies(s, p, kindOf[p], o, w)
      BY <1>1, <1>2, <2>0, <3>1, <3>2, LiesOn DEF s
    <3> QED
      BY <3>3
  <2>2. CASE p = q + 1
    <3>1. PICK w \in 0 .. 1 : x = KeyChars(kindOf[p], w, p)
      BY <1>0, <2>2, Zenon DEF OfPiece
    <3>2. Lacks(t, p)
      <4> SUFFICES ASSUME NEW i \in 1 .. Len(t) PROVE t[i].piece # p
        BY DEF Lacks
      <4>1. t[i].piece <= q /\ t[i].piece \in Nat
        BY <1>4
      <4> QED
        BY <2>2, <4>1
    <3>3. Lies(s, p, kindOf[p], Len(t), w)
      BY <1>1, <2>0, <3>1, <3>2, LiesNew DEF s
    <3>4. Len(t) \in Nat
      BY <1>1
    <3> QED
      BY <3>3, <3>4
  <2> QED
    BY <1>6, <2>0, <2>1, <2>2
<1> QED
  BY <1>0, <1>3, <1>5, <1>6, Zenon DEF Holds, s

PieceShapes ==
    {KeyPiece(kind, wrap) : kind \in Kinds, wrap \in 0 .. 1}
        \cup {CharPiece(is) : is \in {"base58", "space", "other"}}

\* The kinds of the keys of ps, by the place of each in ps.
KindOfKeys(ps) == [p \in {q \in DOMAIN ps : ps[q].is = "key"} |-> ps[p].kind]

(* The fields of a piece.                                                  *)
LEMMA PieceFields ==
  /\ \A kind, wrap : /\ KeyPiece(kind, wrap).is = "key" /\ KeyPiece(kind, wrap).kind = kind
                      /\ KeyPiece(kind, wrap).wrap = wrap
  /\ \A is : CharPiece(is).is = is
<1>1. ASSUME NEW kind, NEW wrap
      PROVE  /\ KeyPiece(kind, wrap).is = "key" /\ KeyPiece(kind, wrap).kind = kind
             /\ KeyPiece(kind, wrap).wrap = wrap
  BY Zenon DEF KeyPiece
<1>2. ASSUME NEW is PROVE CharPiece(is).is = is
  BY Zenon DEF CharPiece
<1> QED
  BY <1>1, <1>2

(* The keys among the pieces have kinds, and every piece is written by     *)
(* PieceChars as what it is.                                               *)
LEMMA KindsOfKeys ==
  ASSUME NEW ps \in Seq(PieceShapes)
  PROVE  /\ KindOfKeys(ps) \in [DOMAIN KindOfKeys(ps) -> Kinds]
         /\ DOMAIN KindOfKeys(ps) \in SUBSET (Nat \ {0})
         /\ \A p \in 1 .. Len(ps) : OfPiece(PieceChars(ps[p], p), KindOfKeys(ps), p)
<1> DEFINE kindOf == KindOfKeys(ps)
           keys == {q \in DOMAIN ps : ps[q].is = "key"}
<1>0. DOMAIN ps = 1 .. Len(ps) /\ Len(ps) \in Nat
  OBVIOUS
<1>1. kindOf = [p \in keys |-> ps[p].kind]
  BY Zenon DEF KindOfKeys
<1>2. DOMAIN kindOf = keys /\ \A p \in keys : kindOf[p] = ps[p].kind
  <2> HIDE DEF kindOf, keys
  <2> QED
    BY <1>1
<1>3. keys \subseteq 1 .. Len(ps) /\ \A p \in 1 .. Len(ps) : p \in keys <=> ps[p].is = "key"
  <2> HIDE DEF kindOf
  <2> QED
    BY <1>0, Zenon
<1>4. ASSUME NEW p \in 1 .. Len(ps)
      PROVE  \/ \E kind \in Kinds, wrap \in 0 .. 1 : ps[p] = KeyPiece(kind, wrap)
             \/ \E is \in {"base58", "space", "other"} : ps[p] = CharPiece(is)
  <2>1. ps[p] \in PieceShapes
    OBVIOUS
  <2> QED
    BY <2>1 DEF PieceShapes
<1> HIDE DEF kindOf, keys
<1>5. ASSUME NEW p \in 1 .. Len(ps)
      PROVE  /\ p \in keys => kindOf[p] \in Kinds
             /\ OfPiece(PieceChars(ps[p], p), kindOf, p)
  <2>1. CASE \E kind \in Kinds, wrap \in 0 .. 1 : ps[p] = KeyPiece(kind, wrap)
    <3>1. PICK kind \in Kinds, wrap \in 0 .. 1 : ps[p] = KeyPiece(kind, wrap)
      BY <2>1
    <3> DEFINE q == KeyPiece(kind, wrap)
    <3>2. q.is = "key" /\ q.kind = kind /\ q.wrap = wrap
      BY PieceFields
    <3> HIDE DEF q
    <3>3. ps[p] = q
      BY <3>1 DEF q
    <3>4. p \in keys /\ kindOf[p] = kind
      BY <1>2, <1>3, <3>2, <3>3, Zenon
    <3>5. PieceChars(q, p) = KeyChars(kind, wrap, p)
      BY <3>2, Zenon DEF PieceChars
    <3> QED
      BY <1>2, <3>3, <3>4, <3>5, Zenon DEF OfPiece
  <2>2. CASE \E is \in {"base58", "space", "other"} : ps[p] = CharPiece(is)
    <3>1. PICK is \in {"base58", "space", "other"} : ps[p] = CharPiece(is)
      BY <2>2
    <3> DEFINE q == CharPiece(is)
    <3>2. q.is = is /\ is # "key"
      BY PieceFields
    <3> HIDE DEF q
    <3>3. ps[p] = q
      BY <3>1 DEF q
    <3>4. p \notin keys
      BY <1>3, <3>2, <3>3, Zenon
    <3>5. PieceChars(q, p) = <<Char(is)>>
      BY <3>2, Zenon DEF PieceChars
    <3> QED
      BY <1>2, <3>3, <3>4, <3>5, Zenon DEF OfPiece
  <2> QED
    BY <1>4, <2>1, <2>2
<1>6. kindOf \in [keys -> Kinds]
  <2>1. kindOf = [p \in keys |-> kindOf[p]]
    BY <1>1, <1>2
  <2> QED
    BY <1>3, <1>5, <2>1
<1>7. keys \in SUBSET (Nat \ {0})
  BY <1>0, <1>3
<1> QED
  BY <1>2, <1>5, <1>6, <1>7, Zenon DEF kindOf

(* The text of the pieces holds every key among them, by induction on the  *)
(* pieces written.                                                         *)
LEMMA TextHolds ==
  ASSUME NEW ps \in Seq(PieceShapes)
  PROVE  Holds(CharsOf(ps), KindOfKeys(ps), Len(ps))
<1> DEFINE n == Len(ps)
           kindOf == KindOfKeys(ps)
           keys == DOMAIN kindOf
           Rows == Seq(CharShape)
           g == [a \in Rows \X (1 .. n) |-> a[1] \o PieceChars(ps[a[2]], a[2])]
           On(t, p) == t \o PieceChars(ps[p], p)
           Growing(c) == c = [p \in 0 .. n |-> IF p = 0 THEN <<>> ELSE On(c[p - 1], p)]
           c == CHOOSE c : Growing(c)
<1>0. n \in Nat
  OBVIOUS
<1>1. kindOf \in [keys -> Kinds] /\ keys \in SUBSET (Nat \ {0})
  BY KindsOfKeys
<1>2. \A p \in 1 .. n : OfPiece(PieceChars(ps[p], p), kindOf, p)
  BY KindsOfKeys
<1>3. \A p \in 1 .. n : PieceChars(ps[p], p) \in Rows
  <2> SUFFICES ASSUME NEW p \in 1 .. n PROVE PieceChars(ps[p], p) \in Rows
    OBVIOUS
  <2> HIDE DEF kindOf, n
  <2>1. p \in Nat \ {0} /\ OfPiece(PieceChars(ps[p], p), kindOf, p)
    BY <1>0, <1>2
  <2>2. KnowPiece(PieceChars(ps[p], p), kindOf, p)
    BY <1>1, <2>1, PieceIsKnown
  <2> QED
    BY <2>2, Zenon DEF KnowPiece
<1>4. g \in [Rows \X (1 .. n) -> Rows] /\ <<>> \in Rows
  <2> HIDE DEF n, kindOf
  <2> QED
    BY <1>3
<1>5. PICK h : Loop(h, Rows, <<>>, n, g)
  <2> HIDE DEF g, n, Rows
  <2> QED
    BY <1>0, <1>4, LoopExists
<1>6. Growing(h)
  <2> HIDE DEF n, kindOf
  <2>1. h \in [0 .. n -> Rows] /\ h[0] = <<>>
    BY <1>5 DEF Loop
  <2>2. ASSUME NEW p \in 1 .. n PROVE h[p] = h[p - 1] \o PieceChars(ps[p], p)
    <3>1. h[p] = g[<<h[p - 1], p>>]
      BY <1>5 DEF Loop
    <3>2. p - 1 \in 0 .. n
      BY <1>0
    <3> HIDE DEF Rows
    <3>3. <<h[p - 1], p>> \in Rows \X (1 .. n)
      BY <2>1, <3>2
    <3> QED
      BY <3>1, <3>3
  <2>3. \A p \in 1 .. n : h[p] = On(h[p - 1], p)
    BY <2>2
  <2> HIDE DEF On, Rows
  <2> QED
    BY <1>0, <2>1, <2>3
<1>7. Growing(c)
  <2> HIDE DEF Growing
  <2> QED
    BY <1>6
<1>8. CharsOf(ps) = c[n]
  BY DEF CharsOf
<1> HIDE DEF c, n, kindOf
<1>9. c[0] = <<>> /\ \A p \in 1 .. n : c[p] = c[p - 1] \o PieceChars(ps[p], p)
  <2>1. 0 \in 0 .. n /\ \A p \in 1 .. n : p \in 0 .. n /\ p # 0
    BY <1>0
  <2> QED
    BY <1>7, <2>1
<1>10. \A q \in 0 .. n : Holds(c[q], kindOf, q)
  <2> DEFINE Done == {q \in 0 .. n : Holds(c[q], kindOf, q)}
  <2>1. 0 \in Done
    <3>1. <<>> \in Seq(CharShape) /\ \A i \in 1 .. Len(<<>>) : FALSE
      OBVIOUS
    <3>2. \A p \in keys : ~(p <= 0)
      BY <1>1
    <3>3. Holds(<<>>, kindOf, 0)
      BY <3>1, <3>2, Zenon DEF Holds
    <3> QED
      BY <1>0, <1>9, <3>3
  <2>2. ASSUME NEW q \in 1 .. n, q - 1 \in Done PROVE q \in Done
    <3>1. Holds(c[q - 1], kindOf, q - 1) /\ q - 1 \in Nat /\ (q - 1) + 1 = q
      BY <1>0, <2>2
    <3>2. OfPiece(PieceChars(ps[q], q), kindOf, (q - 1) + 1)
      BY <1>2, <3>1
    <3>3. Holds(c[q - 1] \o PieceChars(ps[q], q), kindOf, (q - 1) + 1)
      BY <1>1, <3>1, <3>2, HoldsOn
    <3>4. Holds(c[q], kindOf, q)
      BY <1>9, <3>1, <3>3
    <3> QED
      BY <1>0, <3>4
  <2> HIDE DEF Done
  <2>3. \A q \in 0 .. n : q \in Done
    BY <1>0, <2>1, <2>2, Rounds
  <2> QED
    BY <2>3 DEF Done
<1> QED
  BY <1>0, <1>8, <1>10 DEF n, kindOf

-----------------------------------------------------------------------------
(* The text without its white space *)

\* Its first c characters, of which the first of a key lies at o + 1.
PartLies(b, p, kind, c, o) ==
    /\ o + c <= Len(b)
    /\ \A j \in 1 .. c : b[o + j] = KeyChar(kind, j, p)
    /\ \A i \in 1 .. Len(b) : b[i].piece = p => i \in o + 1 .. o + c
    /\ c < KeyLength(kind) => Len(b) = o + c

\* So many of the characters of a key are among the first i.
Got(o, w, n, i) ==
    IF i <= o THEN 0 ELSE IF i = o + 1 THEN 1 ELSE IF i - o - w >= n THEN n ELSE i - o - w

(* Just before the j-th character of a key j - 1 of them are passed.       *)
LEMMA GotAt ==
  ASSUME NEW o \in Nat, NEW w \in 0 .. 1, NEW n \in 3 .. 6, NEW j \in 1 .. n
  PROVE  Got(o, w, n, Spot(o, w, j) - 1) = j - 1 /\ Got(o, w, n, Spot(o, w, j)) = j
BY DEF Got, Spot

(* Between its characters the count stays; inside the key this is only at  *)
(* its line break.                                                         *)
LEMMA GotElsewhere ==
  ASSUME NEW o \in Nat, NEW w \in 0 .. 1, NEW n \in 3 .. 6, NEW i \in Nat \ {0},
         \A j \in 1 .. n : i # Spot(o, w, j)
  PROVE  /\ Got(o, w, n, i) = Got(o, w, n, i - 1)
         /\ Got(o, w, n, i - 1) \in {0, n} \/ (w = 1 /\ i = o + 2)
<1>1. i # o + 1
  <2>1. 1 \in 1 .. n /\ Spot(o, w, 1) = o + 1
    BY DEF Spot
  <2> QED
    BY <2>1
<1>2. CASE i <= o
  BY <1>2 DEF Got
<1>3. CASE i > o + 1 /\ w = 1 /\ i = o + 2
  BY <1>3 DEF Got
<1>4. CASE i > o + 1 /\ ~(w = 1 /\ i = o + 2)
  <2>1. i > o + n + w
    <3> SUFFICES ASSUME i <= o + n + w PROVE FALSE
      OBVIOUS
    <3>1. i - o - w \in 1 .. n
      BY <1>4
    <3>2. i - o - w > 1
      BY <1>4
    <3>3. i = Spot(o, w, i - o - w)
      BY <3>1, <3>2 DEF Spot
    <3> QED
      BY <3>1, <3>3
  <2> QED
    BY <2>1 DEF Got
<1> QED
  BY <1>1, <1>2, <1>3, <1>4

(* Nothing is passed at first, and all of the key at the end.              *)
LEMMA GotAtEnds ==
  ASSUME NEW o \in Nat, NEW w \in 0 .. 1, NEW n \in 3 .. 6
  PROVE  /\ Got(o, w, n, 0) = 0
         /\ \A i \in Nat : o + n + w <= i => Got(o, w, n, i) = n
BY DEF Got

(* A character of something else, before a key or behind all of it, leaves *)
(* the key as it lies.                                                     *)
LEMMA PartOther ==
  ASSUME NEW b \in Seq(CharShape), NEW p \in Nat, NEW kind \in Kinds,
         NEW c \in {0, KeyLength(kind)}, NEW o \in Nat, PartLies(b, p, kind, c, o),
         NEW x \in CharShape, x.piece # p
  PROVE  \E o1 \in Nat : PartLies(Append(b, x), p, kind, c, o1)
<1> DEFINE s == Append(b, x)
           n == KeyLength(kind)
<1>0. n \in 3 .. 6 /\ c \in 0 .. 6 /\ (c < n => c = 0)
  BY Lengths
<1>1. /\ Len(b) \in Nat /\ Len(s) = Len(b) + 1
      /\ \A i \in 1 .. Len(b) : s[i] = b[i]
      /\ s[Len(b) + 1] = x
  OBVIOUS
<1> HIDE DEF s, n
<1>2. o + c <= Len(b) /\ (\A j \in 1 .. c : b[o + j] = KeyChar(kind, j, p))
      /\ (c < n => Len(b) = o + c)
  BY Zenon DEF PartLies, n
<1>3. ASSUME NEW i \in 1 .. Len(s), s[i].piece = p PROVE i \in 1 .. Len(b) /\ i \in o + 1 .. o + c
  <2>1. i # Len(b) + 1
    BY <1>1, <1>3, Zenon
  <2>2. i \in 1 .. Len(b)
    BY <1>1, <2>1
  <2>3. b[i].piece = p
    BY <1>1, <1>3, <2>2, Zenon
  <2> QED
    BY <2>2, <2>3, Zenon DEF PartLies
<1>4. CASE c = 0
  <2>1. \A i \in 1 .. Len(s) : s[i].piece # p
    <3> SUFFICES ASSUME NEW i \in 1 .. Len(s), s[i].piece = p PROVE FALSE
      BY Zenon
    <3>1. i \in o + 1 .. o + c
      BY <1>3
    <3> QED
      BY <1>4, <3>1
  <2>2. Len(s) \in Nat /\ Len(s) + c <= Len(s) /\ Len(s) = Len(s) + c
    BY <1>1, <1>4
  <2>3. \A j \in 1 .. c : FALSE
    BY <1>4
  <2>4. PartLies(s, p, kind, c, Len(s))
    BY <2>1, <2>2, <2>3, Zenon DEF PartLies
  <2> QED
    BY <2>2, <2>4 DEF s
<1>5. CASE c = n
  <2>1. o + c <= Len(s)
    BY <1>0, <1>1, <1>2
  <2>2. ASSUME NEW j \in 1 .. c PROVE s[o + j] = KeyChar(kind, j, p)
    <3>1. o + j \in 1 .. Len(b)
      BY <1>0, <1>1, <1>2
    <3> QED
      BY <1>1, <1>2, <3>1
  <2>3. ~(c < n)
    BY <1>0, <1>5
  <2>4. PartLies(s, p, kind, c, o)
    BY <1>3, <2>1, <2>2, <2>3, Zenon DEF PartLies, n
  <2> QED
    BY <2>4 DEF s
<1> QED
  BY <1>4, <1>5 DEF n

(* The next character of a key, written right behind the others, lengthens *)
(* it.                                                                     *)
LEMMA PartNext ==
  ASSUME NEW b \in Seq(CharShape), NEW p \in Nat, NEW kind \in Kinds,
         NEW c \in Nat, c < KeyLength(kind), NEW o \in Nat, PartLies(b, p, kind, c, o)
  PROVE  PartLies(Append(b, KeyChar(kind, c + 1, p)), p, kind, c + 1, o)
<1> DEFINE x == KeyChar(kind, c + 1, p)
           s == Append(b, x)
           n == KeyLength(kind)
<1>0. n \in 3 .. 6 /\ c + 1 \in 1 .. 6 /\ c < n
  BY Lengths
<1>1. x \in CharShape
  BY <1>0, CharsHaveShape
<1> HIDE DEF x
<1>2. /\ Len(b) \in Nat /\ Len(s) = Len(b) + 1
      /\ \A i \in 1 .. Len(b) : s[i] = b[i]
      /\ s[Len(b) + 1] = x
  BY <1>1
<1> HIDE DEF s, n
<1>3. (\A j \in 1 .. c : b[o + j] = KeyChar(kind, j, p)) /\ Len(b) = o + c
  BY <1>0, Zenon DEF PartLies, n
<1>4. o + (c + 1) <= Len(s) /\ Len(s) = o + (c + 1)
  BY <1>2, <1>3
<1>5. ASSUME NEW j \in 1 .. c + 1 PROVE s[o + j] = KeyChar(kind, j, p)
  <2>1. CASE j = c + 1
    <3>1. o + j = Len(b) + 1
      BY <1>3, <2>1
    <3> QED
      BY <1>2, <2>1, <3>1, Zenon DEF x
  <2>2. CASE j # c + 1
    <3>1. j \in 1 .. c /\ o + j \in 1 .. Len(b)
      BY <1>3, <2>2
    <3> QED
      BY <1>2, <1>3, <3>1
  <2> QED
    BY <2>1, <2>2
<1>6. ASSUME NEW i \in 1 .. Len(s), s[i].piece = p PROVE i \in o + 1 .. o + (c + 1)
  <2>1. CASE i = Len(b) + 1
    BY <1>3, <2>1
  <2>2. CASE i # Len(b) + 1
    <3>1. i \in 1 .. Len(b)
      BY <1>2, <2>2
    <3>2. b[i].piece = p
      BY <1>2, <1>6, <3>1, Zenon
    <3>3. i \in o + 1 .. o + c
      BY <3>1, <3>2, Zenon DEF PartLies
    <3> QED
      BY <3>3
  <2> QED
    BY <2>1, <2>2
<1> QED
  BY <1>4, <1>5, <1>6, Zenon DEF PartLies, s, x


\* The character i of t is white space.
Blank(t, i) == t[i].is = "space"

(* Bare is a loop over the text, which keeps the characters that are no    *)
(* white space, and with them what they have in common.                    *)
LEMMA BareIsLoop ==
  ASSUME NEW t \in Seq(CharShape), NEW Good, Good \subseteq CharShape,
         \A i \in 1 .. Len(t) : Blank(t, i) \/ t[i] \in Good
  PROVE  \E b \in [0 .. Len(t) -> Seq(Good)] :
            /\ b[0] = <<>> /\ Bare(t) = b[Len(t)]
            /\ \A i \in 1 .. Len(t) :
                  b[i] = IF Blank(t, i) THEN b[i - 1] ELSE Append(b[i - 1], t[i])
<1> DEFINE n == Len(t)
           Rows == Seq(Good)
           g == [a \in Rows \X (1 .. n) |-> IF Blank(t, a[2]) THEN a[1] ELSE Append(a[1], t[a[2]])]
           On(b, i) == IF t[i].is = "space" THEN b ELSE Append(b, t[i])
           Growing(c) == c = [i \in 0 .. n |-> IF i = 0 THEN <<>> ELSE On(c[i - 1], i)]
           c == CHOOSE c : Growing(c)
<1>0. n \in Nat
  OBVIOUS
<1>1. g \in [Rows \X (1 .. n) -> Rows] /\ <<>> \in Rows
  <2> HIDE DEF n
  <2>1. ASSUME NEW s \in Rows, NEW i \in 1 .. n
        PROVE  (IF Blank(t, i) THEN s ELSE Append(s, t[i])) \in Rows
    <3>1. CASE Blank(t, i)
      BY <3>1
    <3>2. CASE ~Blank(t, i)
      <4>1. t[i] \in Good
        BY <3>2 DEF n
      <4> QED
        BY <3>2, <4>1
    <3> QED
      BY <3>1, <3>2
  <2> QED
    BY <2>1
<1>2. PICK h : Loop(h, Rows, <<>>, n, g)
  <2> HIDE DEF g, n, Rows
  <2> QED
    BY <1>0, <1>1, LoopExists
<1>3. Growing(h)
  <2> HIDE DEF n
  <2>1. h \in [0 .. n -> Rows] /\ h[0] = <<>>
    BY <1>2 DEF Loop
  <2>2. ASSUME NEW i \in 1 .. n PROVE h[i] = IF Blank(t, i) THEN h[i - 1] ELSE Append(h[i - 1], t[i])
    <3>1. h[i] = g[<<h[i - 1], i>>]
      BY <1>2 DEF Loop
    <3>2. i - 1 \in 0 .. n
      BY <1>0
    <3> HIDE DEF Rows
    <3>3. <<h[i - 1], i>> \in Rows \X (1 .. n)
      BY <2>1, <3>2
    <3> QED
      BY <3>1, <3>3
  <2>3. \A i \in 1 .. n : h[i] = On(h[i - 1], i)
    BY <2>2, Zenon DEF Blank
  <2> HIDE DEF On, Rows
  <2> QED
    BY <1>0, <2>1, <2>3
<1>4. Growing(c)
  <2> HIDE DEF Growing
  <2> QED
    BY <1>3
<1>5. Bare(t) = c[n]
  BY DEF Bare
<1>6. c[0] = <<>> /\ \A i \in 1 .. n : c[i] = On(c[i - 1], i)
  <2>1. 0 \in 0 .. n /\ \A i \in 1 .. n : i \in 0 .. n /\ i # 0
    BY <1>0
  <2> HIDE DEF c, n, On
  <2> QED
    BY <1>4, <2>1
<1>7. \A i \in 1 .. n : c[i] = IF Blank(t, i) THEN c[i - 1] ELSE Append(c[i - 1], t[i])
  <2> HIDE DEF c, n
  <2> QED
    BY <1>6, Zenon DEF Blank
<1>8. c \in [0 .. n -> Rows]
  <2>1. c = [i \in 0 .. n |-> c[i]]
    <3> HIDE DEF c, n, On
    <3> QED
      BY <1>4
  <2> DEFINE Done == {i \in 0 .. n : c[i] \in Rows}
  <2> HIDE DEF c, n, On
  <2>2. 0 \in Done
    <3>1. <<>> \in Rows /\ 0 \in 0 .. n
      BY <1>0
    <3>2. c[0] = <<>>
      BY <1>6
    <3> HIDE DEF Rows
    <3> QED
      BY <3>1, <3>2
  <2>3. ASSUME NEW i \in 1 .. n, i - 1 \in Done PROVE i \in Done
    <3>1. c[i - 1] \in Rows /\ i \in 0 .. n
      BY <1>0, <2>3
    <3>2. CASE Blank(t, i)
      BY <1>7, <3>1, <3>2
    <3>3. CASE ~Blank(t, i)
      <4>1. t[i] \in Good
        BY <3>3 DEF n
      <4>2. Append(c[i - 1], t[i]) \in Rows
        BY <3>1, <4>1
      <4> QED
        BY <1>7, <3>1, <3>3, <4>2
    <3> QED
      BY <3>2, <3>3
  <2> HIDE DEF Done
  <2>4. \A i \in 0 .. n : i \in Done
    BY <1>0, <2>2, <2>3, Rounds
  <2>5. \A i \in 0 .. n : c[i] \in Rows
    BY <2>4 DEF Done
  <2> HIDE DEF Rows
  <2> QED
    BY <2>1, <2>5
<1> HIDE DEF c
<1> QED
  BY <1>5, <1>6, <1>7, <1>8, Zenon
  
\* What the i-th character does to the text without its white space.
(* Each round of that loop goes on with the key, or leaves it as it is.    *)
LEMMA BareStep ==
  ASSUME NEW t \in Seq(CharShape), NEW p \in Nat \ {0}, NEW kind \in Kinds,
         NEW o \in Nat, NEW w \in 0 .. 1, Lies(t, p, kind, o, w),
         NEW i \in 1 .. Len(t), NEW b \in Seq(CharShape), NEW o1 \in Nat,
         PartLies(b, p, kind, Got(o, w, KeyLength(kind), i - 1), o1)
  PROVE  \E o2 \in Nat : PartLies(IF Blank(t, i) THEN b ELSE Append(b, t[i]), p, kind,
                                  Got(o, w, KeyLength(kind), i), o2)
<1> DEFINE n == KeyLength(kind)
           s == IF Blank(t, i) THEN b ELSE Append(b, t[i])
<1>0. n \in 3 .. 6
  BY Lengths
<1> HIDE DEF n
<1>1. CASE \E j \in 1 .. n : i = Spot(o, w, j)
  <2>1. PICK j \in 1 .. n : i = Spot(o, w, j)
    BY <1>1
  <2> DEFINE x == KeyChar(kind, j, p)
  <2>2. t[i] = x
    BY <2>1, Zenon DEF Lies, n
  <2>3. x.is = "base58"
    BY CharFields
  <2> HIDE DEF x
  <2>4. ~Blank(t, i)
    BY <2>2, <2>3, Zenon DEF Blank
  <2>5. Got(o, w, n, i - 1) = j - 1 /\ Got(o, w, n, i) = j
    BY <1>0, <2>1, GotAt
  <2>6. j - 1 \in Nat /\ j - 1 < n /\ (j - 1) + 1 = j
    BY <1>0
  <2>7. PartLies(b, p, kind, j - 1, o1)
    BY <2>5 DEF n
  <2>8. PartLies(Append(b, KeyChar(kind, (j - 1) + 1, p)), p, kind, (j - 1) + 1, o1)
    <3>1. j - 1 < KeyLength(kind) /\ p \in Nat
      BY <2>6 DEF n
    <3> QED
      BY <2>6, <2>7, <3>1, PartNext
  <2>9. PartLies(s, p, kind, j, o1)
    BY <2>2, <2>4, <2>6, <2>8 DEF x
  <2> HIDE DEF s
  <2>10. PartLies(s, p, kind, Got(o, w, n, i), o1)
    BY <2>5, <2>9
  <2> QED
    BY <2>10 DEF s, n
<1>2. CASE ~ \E j \in 1 .. n : i = Spot(o, w, j)
  <2>1. /\ Got(o, w, n, i) = Got(o, w, n, i - 1)
        /\ Got(o, w, n, i - 1) \in {0, n} \/ (w = 1 /\ i = o + 2)
    <3>1. i \in Nat \ {0}
      OBVIOUS
    <3> QED
      BY <1>0, <1>2, <3>1, GotElsewhere
  <2>2. CASE Blank(t, i)
    <3>1. s = b
      BY <2>2
    <3> HIDE DEF s
    <3>2. PartLies(s, p, kind, Got(o, w, n, i), o1)
      BY <2>1, <3>1 DEF n
    <3> QED
      BY <3>2 DEF s, n
  <2>3. CASE ~Blank(t, i)
    <3>1. ~(w = 1 /\ i = o + 2)
      BY <2>3, Zenon DEF Lies, Blank
    <3>2. Got(o, w, n, i - 1) \in {0, n}
      BY <2>1, <3>1
    <3>3. t[i].piece # p
      <4>1. i \in DOMAIN t
        OBVIOUS
      <4> QED
        BY <1>2, <4>1, Zenon DEF Lies, n
    <3>4. t[i] \in CharShape /\ p \in Nat
      OBVIOUS
    <3> DEFINE x == t[i]
               c == Got(o, w, n, i - 1)
    <3>5. x \in CharShape /\ x.piece # p
      BY <3>3, <3>4
    <3>6. s = Append(b, x)
      BY <2>3
    <3>7. c \in {0, KeyLength(kind)} /\ PartLies(b, p, kind, c, o1)
      BY <3>2 DEF n
    <3> HIDE DEF x, s, c
    <3>8. \E o2 \in Nat : PartLies(Append(b, x), p, kind, c, o2)
      BY <3>4, <3>5, <3>7, PartOther
    <3> QED
      BY <2>1, <3>6, <3>8, Zenon DEF s, n, c
  <2> QED
    BY <2>2, <2>3
<1> QED
  BY <1>1, <1>2

(* No part of a key, and all of it, in the words of Lacks and Lies.        *)
LEMMA PartLiesAll ==
  ASSUME NEW b \in Seq(CharShape), NEW p, NEW kind \in Kinds, NEW o \in Nat
  PROVE  /\ Lacks(b, p) => PartLies(b, p, kind, 0, Len(b))
         /\ PartLies(b, p, kind, KeyLength(kind), o) => Lies(b, p, kind, o, 0)
<1>1. /\ Len(b) \in Nat /\ \A j \in 1 .. 0 : FALSE
      /\ Len(b) + 0 <= Len(b) /\ Len(b) = Len(b) + 0 /\ DOMAIN b = 1 .. Len(b)
  OBVIOUS
<1>2. ASSUME Lacks(b, p) PROVE PartLies(b, p, kind, 0, Len(b))
  BY <1>1, <1>2, Zenon DEF Lacks, PartLies
<1>3. ASSUME PartLies(b, p, kind, KeyLength(kind), o) PROVE Lies(b, p, kind, o, 0)
  <2> DEFINE n == KeyLength(kind)
  <2>1. n \in 3 .. 6
    BY Lengths
  <2> HIDE DEF n
  <2>2. \A j \in 1 .. n : Spot(o, 0, j) = o + j
    BY <2>1 DEF Spot
  <2>3. o + n + 0 <= Len(b) /\ 0 # 1
    <3>1. o + n <= Len(b)
      BY <1>3, Zenon DEF PartLies, n
    <3> QED
      BY <2>1, <3>1
  <2>4. \A j \in 1 .. n : b[Spot(o, 0, j)] = KeyChar(kind, j, p)
    BY <1>3, <2>2, Zenon DEF PartLies, n
  <2>5. ASSUME NEW i \in DOMAIN b, b[i].piece = p PROVE \E j \in 1 .. n : i = Spot(o, 0, j)
    <3>1. i \in o + 1 .. o + n
      BY <1>1, <1>3, <2>5, Zenon DEF PartLies, n
    <3>2. i - o \in 1 .. n /\ o + (i - o) = i
      BY <2>1, <3>1
    <3> QED
      BY <2>2, <3>2
  <2> QED
    BY <2>3, <2>4, <2>5, Zenon DEF Lies, n
<1> QED
  BY <1>2, <1>3

(* A key that lies in a text lies unwrapped in it without its white space. *)
LEMMA BareLies ==
  ASSUME NEW t \in Seq(CharShape), NEW p \in Nat \ {0}, NEW kind \in Kinds,
         NEW o \in Nat, NEW w \in 0 .. 1, Lies(t, p, kind, o, w)
  PROVE  \E o1 \in Nat : Lies(Bare(t), p, kind, o1, 0)
<1> DEFINE n == KeyLength(kind)
           l == Len(t)
<1>0. n \in 3 .. 6 /\ l \in Nat
  BY Lengths
<1>1. PICK b \in [0 .. l -> Seq(CharShape)] :
         /\ b[0] = <<>> /\ Bare(t) = b[l]
         /\ \A i \in 1 .. l : b[i] = IF Blank(t, i) THEN b[i - 1] ELSE Append(b[i - 1], t[i])
  <2>1. CharShape \subseteq CharShape /\ \A i \in 1 .. Len(t) : Blank(t, i) \/ t[i] \in CharShape
    OBVIOUS
  <2> QED
    BY <2>1, BareIsLoop
<1> DEFINE Done == {i \in 0 .. l : \E o1 \in Nat : PartLies(b[i], p, kind, Got(o, w, n, i), o1)}
<1> HIDE DEF n, l
<1>2. 0 \in Done
  <2>1. Got(o, w, n, 0) = 0
    BY <1>0, GotAtEnds
  <2>2. Lacks(<<>>, p) /\ <<>> \in Seq(CharShape)
    BY DEF Lacks
  <2>3. PartLies(<<>>, p, kind, 0, Len(<<>>)) /\ Len(<<>>) \in Nat
    <3>1. 0 \in Nat
      OBVIOUS
    <3> QED
      BY <2>2, <3>1, PartLiesAll
  <2> QED
    BY <1>0, <1>1, <2>1, <2>3
<1>3. ASSUME NEW i \in 1 .. l, i - 1 \in Done PROVE i \in Done
  <2>0. i - 1 \in 0 .. l /\ i \in 0 .. l /\ b[i - 1] \in Seq(CharShape)
    BY <1>0
  <2>1. PICK o1 \in Nat : PartLies(b[i - 1], p, kind, Got(o, w, n, i - 1), o1)
    BY <1>3
  <2> DEFINE s == IF Blank(t, i) THEN b[i - 1] ELSE Append(b[i - 1], t[i])
  <2>2. \E o2 \in Nat : PartLies(s, p, kind, Got(o, w, n, i), o2)
    BY <2>0, <2>1, BareStep DEF n, l
  <2>3. b[i] = s
    BY <1>1
  <2> HIDE DEF s
  <2> QED
    BY <2>0, <2>2, <2>3
<1> HIDE DEF Done
<1>4. \A i \in 0 .. l : i \in Done
  BY <1>0, <1>2, <1>3, Rounds
<1>5. PICK o1 \in Nat : PartLies(b[l], p, kind, Got(o, w, n, l), o1)
  <2>1. l \in 0 .. l
    BY <1>0
  <2> QED
    BY <1>4, <2>1 DEF Done
<1>6. Got(o, w, n, l) = n
  <2>1. o + n + w <= l
    BY Zenon DEF Lies, n, l
  <2> QED
    BY <1>0, <2>1, GotAtEnds
<1>7. Lies(b[l], p, kind, o1, 0)
  <2>1. b[l] \in Seq(CharShape) /\ PartLies(b[l], p, kind, KeyLength(kind), o1)
    BY <1>0, <1>5, <1>6 DEF n
  <2> QED
    BY <2>1, PartLiesAll
<1> QED
  BY <1>1, <1>7

(* What is held without white space is held unwrapped.                     *)
HoldsUnwrapped(t, kindOf, q) ==
    /\ Holds(t, kindOf, q)
    /\ \A p \in DOMAIN kindOf : p <= q => \E o \in Nat : Lies(t, p, kindOf[p], o, 0)

(* Without white space a text holds the same keys, each of them unwrapped. *)
LEMMA BareHolds ==
  ASSUME NEW keys \in SUBSET (Nat \ {0}), NEW kindOf \in [keys -> Kinds], NEW q \in Nat,
         NEW t, Holds(t, kindOf, q)
  PROVE  HoldsUnwrapped(Bare(t), kindOf, q)
<1> DEFINE Good == {c \in CharShape : Known(c, kindOf) /\ c.piece <= q}
<1>1. t \in Seq(CharShape) /\ DOMAIN kindOf = keys
  BY Zenon DEF Holds
<1>2. \A i \in 1 .. Len(t) : t[i] \in Good
  <2>1. \A i \in 1 .. Len(t) : t[i] \in CharShape
    BY <1>1
  <2> QED
    BY <2>1, Zenon DEF Holds
<1>3. Bare(t) \in Seq(Good)
  <2>1. Good \subseteq CharShape
    BY Zenon
  <2> HIDE DEF Good
  <2>2. \A i \in 1 .. Len(t) : Blank(t, i) \/ t[i] \in Good
    BY <1>2
  <2>3. PICK b \in [0 .. Len(t) -> Seq(Good)] : Bare(t) = b[Len(t)]
    BY <1>1, <2>1, <2>2, BareIsLoop
  <2>4. Len(t) \in 0 .. Len(t)
    BY <1>1
  <2> QED
    BY <2>3, <2>4
<1> DEFINE s == Bare(t)
<1> HIDE DEF s
<1>4. /\ s \in Seq(CharShape)
      /\ \A i \in 1 .. Len(s) : Known(s[i], kindOf) /\ s[i].piece <= q
  <2>1. Good \subseteq CharShape /\ \A c \in Good : Known(c, kindOf) /\ c.piece <= q
    BY Zenon
  <2> HIDE DEF Good
  <2>2. s \in Seq(Good)
    BY <1>3 DEF s
  <2>3. s \in Seq(CharShape) /\ \A i \in 1 .. Len(s) : s[i] \in Good
    BY <2>1, <2>2
  <2> QED
    BY <2>1, <2>3, Zenon
<1>5. ASSUME NEW p \in keys, p <= q PROVE \E o \in Nat : Lies(s, p, kindOf[p], o, 0)
  <2>1. PICK o \in Nat, w \in 0 .. 1 : Lies(t, p, kindOf[p], o, w)
    BY <1>1, <1>5, Zenon DEF Holds
  <2>2. p \in Nat \ {0} /\ kindOf[p] \in Kinds
    OBVIOUS
  <2> QED
    BY <1>1, <2>1, <2>2, BareLies DEF s
<1>6. 0 \in 0 .. 1
  OBVIOUS
<1> QED
  BY <1>1, <1>4, <1>5, <1>6, Zenon DEF Holds, HoldsUnwrapped, s


(* A text in which every character knows its key, and every key lies.      *)
Kept(t, kindOf) ==
    /\ t \in Seq(CharShape)
    /\ \A i \in 1 .. Len(t) : Known(t[i], kindOf)
    /\ \A p \in DOMAIN kindOf : \E o \in Nat, w \in 0 .. 1 : Lies(t, p, kindOf[p], o, w)

\* The character i of t is base58.
Base(t, i) == t[i].is = "base58"

\* s stands in t from a on, and all of it is base58.
Window(s, t, a) ==
    /\ a \in Nat \ {0} /\ Len(s) \in Nat /\ a + Len(s) - 1 <= Len(t)
    /\ \A j \in 1 .. Len(s) : s[j] = t[a + j - 1] /\ Base(t, a + j - 1)

(* A run is a row of base58 in its text, and is bounded by other           *)
(* characters.                                                             *)
LEMMA WindowOfRun ==
  ASSUME NEW t \in Seq(CharShape), NEW a, NEW b, RunAt(t, a, b)
  PROVE  /\ a \in 1 .. Len(t) /\ b \in 1 .. Len(t) /\ a < b
         /\ \A i \in a .. b : Base(t, i)
         /\ a = 1 \/ ~Base(t, a - 1)
         /\ b = Len(t) \/ ~Base(t, b + 1)
         /\ Len(SubSeq(t, a, b)) = b - a + 1
         /\ Window(SubSeq(t, a, b), t, a)
<1>1. DOMAIN t = 1 .. Len(t) /\ Len(t) \in Nat
  OBVIOUS
<1>2. /\ a \in 1 .. Len(t) /\ b \in 1 .. Len(t) /\ a < b
      /\ \A i \in a .. b : Base(t, i)
      /\ a = 1 \/ ~Base(t, a - 1)
      /\ b = Len(t) \/ ~Base(t, b + 1)
  BY <1>1, Zenon DEF RunAt, Base
<1> DEFINE s == SubSeq(t, a, b)
<1>3. Len(s) = b - a + 1 /\ \A j \in 1 .. Len(s) : s[j] = t[a + j - 1]
  <2>1. a \in 1 .. Len(t) /\ b \in 1 .. Len(t) /\ a < b
    BY <1>2
  <2> QED
    BY <2>1
<1> HIDE DEF s
<1>4. \A j \in 1 .. Len(s) : a + j - 1 \in a .. b
  BY <1>2, <1>3
<1>5. a \in Nat \ {0} /\ Len(s) \in Nat /\ a + Len(s) - 1 <= Len(t)
  BY <1>2, <1>3
<1>6. Window(s, t, a)
  BY <1>2, <1>3, <1>4, <1>5, Zenon DEF Window
<1> QED
  BY <1>2, <1>3, <1>6 DEF s

(* So is every part of a run, from its place in the text on.               *)
LEMMA WindowInRun ==
  ASSUME NEW t \in Seq(CharShape), NEW a, NEW b, RunAt(t, a, b),
         NEW i \in 1 .. b - a + 1, NEW e \in i .. b - a + 1
  PROVE  /\ Len(SubSeq(SubSeq(t, a, b), i, e)) = e - i + 1
         /\ Window(SubSeq(SubSeq(t, a, b), i, e), t, a + i - 1)
<1> DEFINE run == SubSeq(t, a, b)
<1>1. /\ a \in 1 .. Len(t) /\ b \in 1 .. Len(t) /\ a < b
      /\ \A k \in a .. b : Base(t, k)
  BY WindowOfRun
<1>2. /\ Len(run) = b - a + 1 /\ run \in Seq(CharShape)
      /\ \A j \in 1 .. b - a + 1 : run[j] = t[a + j - 1]
  BY <1>1
<1> HIDE DEF run
<1> DEFINE s == SubSeq(run, i, e)
<1>3. Len(s) = e - i + 1 /\ \A j \in 1 .. Len(s) : s[j] = run[i + j - 1]
  BY <1>1, <1>2
<1> HIDE DEF s
<1>4. ASSUME NEW j \in 1 .. Len(s)
      PROVE  s[j] = t[(a + i - 1) + j - 1] /\ Base(t, (a + i - 1) + j - 1)
  <2>1. i + j - 1 \in 1 .. b - a + 1 /\ a + (i + j - 1) - 1 = (a + i - 1) + j - 1
    BY <1>1, <1>3
  <2>2. (a + i - 1) + j - 1 \in a .. b
    BY <1>1, <1>3
  <2>3. run[i + j - 1] = t[a + (i + j - 1) - 1]
    BY <1>2, <2>1
  <2> QED
    BY <1>1, <1>3, <2>1, <2>2, <2>3, Zenon
<1>5. a + i - 1 \in Nat \ {0} /\ Len(s) \in Nat /\ (a + i - 1) + Len(s) - 1 <= Len(t)
  BY <1>1, <1>3
<1>6. Window(s, t, a + i - 1)
  BY <1>4, <1>5, Zenon DEF Window
<1> QED
  BY <1>3, <1>6 DEF s, run

(* Base58 characters belong to a longest row of them.                      *)
LEMMA RunAround ==
  ASSUME NEW t \in Seq(CharShape), NEW i \in 1 .. Len(t), NEW j \in 1 .. Len(t), i < j,
         \A k \in i .. j : Base(t, k)
  PROVE  \E a \in 1 .. i, b \in j .. Len(t) : RunAt(t, a, b)
<1> DEFINE l == Len(t)
           Left == {a \in 1 .. i : \A k \in a .. i : Base(t, k)}
           Right == {d \in 0 .. l - j : \A k \in j .. l - d : Base(t, k)}
<1>0. DOMAIN t = 1 .. l /\ l \in Nat /\ i \in 1 .. l /\ j \in 1 .. l
  OBVIOUS
<1> HIDE DEF l
<1>1. PICK a \in Left : \A x \in Left : a <= x
  <2>1. i \in Left
    BY <1>0
  <2>2. Left \subseteq Nat
    BY <1>0
  <2> HIDE DEF Left
  <2> QED
    BY <2>1, <2>2, LeastNat
<1>2. PICK d \in Right : \A x \in Right : d <= x
  <2>1. l - j \in Right
    BY <1>0
  <2>2. Right \subseteq Nat
    BY <1>0
  <2> HIDE DEF Right
  <2> QED
    BY <2>1, <2>2, LeastNat
<1> DEFINE b == l - d
<1>3. a \in 1 .. i /\ (\A k \in a .. i : Base(t, k)) /\ d \in 0 .. l - j /\ \A k \in j .. b : Base(t, k)
  OBVIOUS
<1>4. a - 1 \notin Left /\ d - 1 \notin Right
  <2>1. a \in Nat /\ d \in Nat
    BY <1>0, <1>3
  <2> HIDE DEF Left, Right
  <2> QED
    BY <1>1, <1>2, <2>1
<1>5. b \in j .. l
  BY <1>0, <1>3
<1>6. \A k \in a .. b : Base(t, k)
  BY <1>0, <1>3, <1>5
<1>7. a = 1 \/ ~Base(t, a - 1)
  <2>1. ASSUME a # 1, Base(t, a - 1) PROVE a - 1 \in Left
    <3>1. a - 1 \in 1 .. i /\ \A k \in a - 1 .. i : k = a - 1 \/ k \in a .. i
      BY <1>0, <1>3, <2>1
    <3> QED
      BY <1>3, <2>1, <3>1
  <2> HIDE DEF Left
  <2> QED
    BY <1>4, <2>1
<1>8. b = l \/ ~Base(t, b + 1)
  <2>1. ASSUME b # l, Base(t, b + 1) PROVE d - 1 \in Right
    <3> HIDE DEF Right
    <3>1. d # 0
      BY <1>0, <1>3, <2>1
    <3>2. d - 1 \in 0 .. l - j
      BY <1>0, <1>3, <3>1
    <3>3. l - (d - 1) = b + 1 /\ \A k \in j .. b + 1 : k = b + 1 \/ k \in j .. b
      BY <1>0, <1>3, <1>5
    <3> HIDE DEF b
    <3>4. \A k \in j .. l - (d - 1) : Base(t, k)
      BY <1>3, <2>1, <3>3
    <3> QED
      BY <3>2, <3>4 DEF Right
  <2> HIDE DEF Right
  <2> QED
    BY <1>4, <2>1
<1> HIDE DEF b, Left, Right
<1>9. a \in DOMAIN t /\ b \in DOMAIN t /\ a < b
  BY <1>0, <1>3, <1>5
<1>10. RunAt(t, a, b)
  BY <1>6, <1>7, <1>8, <1>9, Zenon DEF RunAt, Base, l
<1> QED
  BY <1>3, <1>5, <1>10 DEF l

(* What begins like a key and goes on in base58 is one in a row.           *)
LEMMA BeginsKey ==
  ASSUME NEW keys \in SUBSET (Nat \ {0}), NEW kindOf \in [keys -> Kinds], NEW t, Kept(t, kindOf),
         NEW s, NEW a, Window(s, t, a), Len(s) >= 2, NEW count \in Nat \ {0}, Begins(s, count)
  PROVE  \E p \in keys, o \in Nat :
            a = o + 1 /\ s[1].kind = kindOf[p] /\ Lies(t, p, kindOf[p], o, 0)
<1>0. DOMAIN kindOf = keys /\ t \in Seq(CharShape)
  BY Zenon DEF Kept
<1>1. /\ a \in Nat \ {0} /\ Len(s) \in Nat /\ a + Len(s) - 1 <= Len(t)
      /\ \A j \in 1 .. Len(s) : s[j] = t[a + j - 1] /\ Base(t, a + j - 1)
  BY Zenon DEF Window
<1>2. s[1] = t[a] /\ Base(t, a + 1) /\ a \in 1 .. Len(t)
  <2>1. 1 \in 1 .. Len(s) /\ 2 \in 1 .. Len(s) /\ a + 1 - 1 = a /\ a + 2 - 1 = a + 1
    BY <1>1
  <2>2. a \in 1 .. Len(t)
    BY <1>0, <1>1
  <2> QED
    BY <1>1, <2>1, <2>2
<1> DEFINE c == t[a]
<1>3. c.at = 1
  BY <1>2, Zenon DEF Begins
<1>4. Known(c, kindOf)
  BY <1>2, Zenon DEF Kept
<1>5. s[1] = c
  BY <1>2
<1> DEFINE p == c.piece
           kind == kindOf[p]
           n == KeyLength(kind)
<1>6. 1 # 0
  OBVIOUS
<1>7. p \in keys /\ c.kind = kind
  BY <1>0, <1>3, <1>4, <1>6, Zenon DEF Known
<1>8. PICK o \in Nat, w \in 0 .. 1 : Lies(t, p, kind, o, w)
  BY <1>0, <1>7, Zenon DEF Kept
<1>9. n \in 3 .. 6
  BY <1>7, Lengths
<1>10. a \in DOMAIN t
  BY <1>0, <1>2
<1>11. PICK j \in 1 .. n : a = Spot(o, w, j)
  BY <1>8, <1>10, Zenon DEF Lies
<1>12. c = KeyChar(kind, j, p)
  BY <1>8, <1>11, Zenon DEF Lies
<1> HIDE DEF c, p, kind, n
<1>13. c.at = j
  <2> DEFINE x == KeyChar(kind, j, p)
  <2>1. x.at = j
    BY CharFields
  <2> HIDE DEF x
  <2> QED
    BY <1>12, <2>1, Zenon DEF x
<1>14. j = 1 /\ a = o + 1
  BY <1>3, <1>11, <1>13 DEF Spot
<1>15. w = 0
  <2> SUFFICES ASSUME w = 1 PROVE FALSE
    OBVIOUS
  <2>1. a + 1 = o + 2
    BY <1>14
  <2>2. t[o + 2].is = "space"
    BY <1>8, Zenon DEF Lies
  <2>3. t[o + 2].is = "base58"
    BY <1>2, <2>1, Zenon DEF Base
  <2>4. "space" # "base58"
    OBVIOUS
  <2> QED
    BY <2>2, <2>3, <2>4, Zenon
<1>16. s[1].kind = kind
  BY <1>5, <1>7, Zenon
<1>17. Lies(t, p, kind, o, 0)
  BY <1>8, <1>15
<1> QED
  BY <1>7, <1>14, <1>16, <1>17, Zenon DEF kind

(* An unwrapped key has its characters in a row.                           *)
LEMMA InARow ==
  ASSUME NEW t \in Seq(CharShape), NEW p, NEW kind \in Kinds, NEW o \in Nat, Lies(t, p, kind, o, 0)
  PROVE  /\ o + KeyLength(kind) <= Len(t)
         /\ \A j \in 1 .. KeyLength(kind) : t[o + j] = KeyChar(kind, j, p)
         /\ \A i \in o + 1 .. o + KeyLength(kind) : Base(t, i)
<1> DEFINE n == KeyLength(kind)
<1>1. n \in 3 .. 6
  BY Lengths
<1> HIDE DEF n
<1>2. o + n <= Len(t)
  <2>1. o + n + 0 <= Len(t)
    BY Zenon DEF Lies, n
  <2> QED
    BY <1>1, <2>1
<1>3. \A j \in 1 .. n : Spot(o, 0, j) = o + j
  BY <1>1 DEF Spot
<1>4. \A j \in 1 .. n : t[o + j] = KeyChar(kind, j, p)
  BY <1>3, Zenon DEF Lies, n
<1>5. ASSUME NEW i \in o + 1 .. o + n PROVE Base(t, i)
  <2> DEFINE j == i - o
             x == KeyChar(kind, j, p)
  <2>1. j \in 1 .. n /\ o + j = i
    BY <1>1
  <2>2. x.is = "base58"
    BY CharFields
  <2> HIDE DEF j, x
  <2>3. t[i] = x
    BY <1>4, <2>1, Zenon DEF x
  <2> QED
    BY <2>2, <2>3, Zenon DEF Base
<1> QED
  BY <1>2, <1>4, <1>5 DEF n

(* What stands from the first character of a key on begins like one.       *)
LEMMA KeyBegins ==
  ASSUME NEW t \in Seq(CharShape), NEW p, NEW kind \in Kinds, NEW o \in Nat, Lies(t, p, kind, o, 0),
         NEW s, Window(s, t, o + 1), NEW count \in 1 .. KeyLength(kind), count <= Len(s)
  PROVE  s[1].kind = kind /\ Begins(s, count)
<1> DEFINE n == KeyLength(kind)
<1>1. n \in 3 .. 6
  BY Lengths
<1>2. /\ Len(s) \in Nat
      /\ \A j \in 1 .. Len(s) : s[j] = t[(o + 1) + j - 1]
  BY Zenon DEF Window
<1>3. \A j \in 1 .. n : t[o + j] = KeyChar(kind, j, p)
  BY InARow
<1> HIDE DEF n
<1>4. ASSUME NEW j \in 1 .. count PROVE s[j].at = j /\ s[j].piece = p /\ s[j].kind = kind
  <2>1. j \in 1 .. n /\ j \in 1 .. Len(s) /\ (o + 1) + j - 1 = o + j
    BY <1>1, <1>2 DEF n
  <2> DEFINE x == KeyChar(kind, j, p)
  <2>2. x.at = j /\ x.piece = p /\ x.kind = kind
    BY CharFields
  <2> HIDE DEF x
  <2>3. s[j] = x
    BY <1>2, <1>3, <2>1, Zenon DEF x
  <2> QED
    BY <2>2, <2>3, Zenon
<1>5. 1 \in 1 .. count
  BY <1>1 DEF n
<1>6. Len(s) >= count
  BY <1>1, <1>2 DEF n
<1> QED
  BY <1>4, <1>5, <1>6, Zenon DEF Begins


(* The least and the greatest number of a set, where they are known.       *)
LEMMA LeastAndMost ==
  ASSUME NEW S, S \subseteq Nat, NEW lo \in S, NEW hi \in S, \A x \in S : lo <= x /\ x <= hi
  PROVE  Min(S) = lo /\ Max(S) = hi
<1> DEFINE least == Min(S)
           most == Max(S)
<1>0. \A x \in S : lo <= x /\ hi >= x
  <2>1. \A x \in S : x \in Nat
    OBVIOUS
  <2> QED
    BY <2>1
<1>1. least \in S /\ \A y \in S : least <= y
  BY <1>0, Zenon DEF Min
<1>2. most \in S /\ \A y \in S : most >= y
  BY <1>0, Zenon DEF Max
<1> HIDE DEF least, most
<1>3. least = lo /\ most = hi
  <2>1. least \in Nat /\ most \in Nat /\ lo \in Nat /\ hi \in Nat
    BY <1>1, <1>2
  <2>2. lo <= least /\ least <= lo /\ hi >= most /\ most >= hi
    BY <1>0, <1>1, <1>2
  <2> QED
    BY <2>1, <2>2
<1> QED
  BY <1>3 DEF least, most

(* Where a key lies says what Place, Whole, TouchedBefore and TouchedAfter *)
(* say of it.                                                              *)
LEMMA PlaceOfKey ==
  ASSUME NEW t \in Seq(CharShape), NEW p, NEW kind \in Kinds, pieces[p].kind = kind,
         NEW o \in Nat, NEW w \in 0 .. 1, Lies(t, p, kind, o, w)
  PROVE  LET n == KeyLength(kind) IN
         /\ Whole(t, p) <=> w = 0
         /\ w = 0 => /\ TouchedBefore(t, p) <=> o > 0 /\ Base(t, o)
                     /\ TouchedAfter(t, p) <=> o + n < Len(t) /\ Base(t, o + n + 1)
<1> DEFINE n == KeyLength(kind)
           S == Place(t, p)
<1>1. n \in 3 .. 6 /\ DOMAIN t = 1 .. Len(t) /\ Len(t) \in Nat
  BY Lengths
<1> HIDE DEF n, S
<1>2. /\ o + n + w <= Len(t)
      /\ \A j \in 1 .. n : t[Spot(o, w, j)] = KeyChar(kind, j, p)
      /\ \A i \in DOMAIN t : t[i].piece = p => \E j \in 1 .. n : i = Spot(o, w, j)
  BY Zenon DEF Lies, n
<1>3. \A j \in 1 .. n : Spot(o, w, j) \in o + 1 .. o + n + w
  BY <1>1 DEF Spot
<1>4. Spot(o, w, 1) = o + 1 /\ Spot(o, w, n) = o + n + w /\ 1 \in 1 .. n /\ n \in 1 .. n
  BY <1>1 DEF Spot
<1>5. S = {i \in DOMAIN t : t[i].piece = p}
  BY Zenon DEF S, Place
<1>6. \A j \in 1 .. n : Spot(o, w, j) \in S
  <2> SUFFICES ASSUME NEW j \in 1 .. n PROVE Spot(o, w, j) \in S
    OBVIOUS
  <2> DEFINE x == KeyChar(kind, j, p)
             i == Spot(o, w, j)
  <2>1. x.piece = p
    BY CharFields
  <2>2. t[i] = x
    BY <1>2
  <2>3. i \in DOMAIN t
    BY <1>1, <1>2, <1>3
  <2> HIDE DEF x, i
  <2>4. i \in S
    BY <1>5, <2>1, <2>2, <2>3, Zenon
  <2> QED
    BY <2>4 DEF i
<1>7. ASSUME NEW i \in S PROVE i \in o + 1 .. o + n + w
  <2>1. \E j \in 1 .. n : i = Spot(o, w, j)
    BY <1>2, <1>5, Zenon
  <2> QED
    BY <1>3, <2>1
<1>8. Min(S) = o + 1 /\ Max(S) = o + n + w
  <2>1. o + 1 \in S /\ o + n + w \in S
    BY <1>4, <1>6
  <2>2. S \subseteq Nat /\ \A x \in S : o + 1 <= x /\ x <= o + n + w
    BY <1>1, <1>7
  <2> QED
    BY <2>1, <2>2, LeastAndMost
<1>9. Whole(t, p) <=> w = 0
  <2>1. Whole(t, p) <=> (o + n + w) - (o + 1) + 1 = n
    BY <1>8, Zenon DEF Whole, S, n
  <2> QED
    BY <1>1, <2>1
<1>10. ASSUME w = 0
       PROVE  /\ TouchedBefore(t, p) <=> o > 0 /\ Base(t, o)
              /\ TouchedAfter(t, p) <=> o + n < Len(t) /\ Base(t, o + n + 1)
  <2>1. o + n + w = o + n /\ (o + 1) - 1 = o /\ (o + 1 > 1 <=> o > 0)
    BY <1>1, <1>10
  <2>2. TouchedBefore(t, p) <=> o + 1 > 1 /\ Base(t, (o + 1) - 1)
    BY <1>8, Zenon DEF TouchedBefore, Base, S
  <2>3. TouchedAfter(t, p) <=> o + n + w < Len(t) /\ Base(t, o + n + w + 1)
    BY <1>8, Zenon DEF TouchedAfter, Base, S
  <2> QED
    BY <2>1, <2>2, <2>3
<1> QED
  BY <1>9, <1>10 DEF n

-----------------------------------------------------------------------------

(* A key as the search sees it: in a row, and alone in it or behind other  *)
(* base58 characters.                                                      *)
Stands(t, p, kind, o) ==
    /\ Lies(t, p, kind, o, 0)
    /\ \/ (o = 0 \/ ~Base(t, o)) /\ (o + KeyLength(kind) = Len(t) \/ ~Base(t, o + KeyLength(kind) + 1))
       \/ kind \in Wif /\ o > 0 /\ Base(t, o)

(* What begins with the letters of a private key is one.                   *)
LEMMA LettersOfKey ==
  ASSUME NEW keys \in SUBSET (Nat \ {0}), NEW kindOf \in [keys -> Kinds], NEW t, Kept(t, kindOf),
         NEW s, NEW a, Window(s, t, a), LooksPrivate(s)
  PROVE  \E p \in keys : kindOf[p] \in Prv
<1>1. Len(s) >= 5 /\ s[1].kind \in Prv /\ Begins(s, 4)
  BY Zenon DEF LooksPrivate
<1>2. Len(s) >= 2
  <2>1. Len(s) \in Nat
    BY Zenon DEF Window
  <2> QED
    BY <1>1, <2>1
<1>3. \E p \in keys, o \in Nat : s[1].kind = kindOf[p]
  <2>1. 4 \in Nat \ {0}
    OBVIOUS
  <2>2. \E p \in keys, o \in Nat :
            a = o + 1 /\ s[1].kind = kindOf[p] /\ Lies(t, p, kindOf[p], o, 0)
    BY <1>1, <1>2, <2>1, BeginsKey
  <2> QED
    BY <2>2, Zenon
<1> QED
  BY <1>1, <1>3, Zenon

(* What passes for a key is one in a row, from end to end.                 *)
LEMMA PrivateIsKey ==
  ASSUME NEW keys \in SUBSET (Nat \ {0}), NEW kindOf \in [keys -> Kinds], NEW t, Kept(t, kindOf),
         NEW s, NEW a, Window(s, t, a), IsPrivate(s)
  PROVE  \E p \in keys, o \in Nat :
            /\ a = o + 1 /\ s[1].kind = kindOf[p] /\ Lies(t, p, kindOf[p], o, 0)
            /\ Len(s) = KeyLength(kindOf[p])
<1>1. s[1].kind \in Kinds /\ Len(s) = KeyLength(s[1].kind) /\ Begins(s, Len(s))
  BY Zenon DEF IsPrivate
<1>2. Len(s) \in 3 .. 6
  <2> DEFINE kind == s[1].kind
  <2>1. kind \in Kinds /\ Len(s) = KeyLength(kind)
    BY <1>1
  <2> HIDE DEF kind
  <2> QED
    BY <2>1, Lengths
<1>3. Len(s) >= 2 /\ Len(s) \in Nat \ {0}
  BY <1>2
<1>4. \E p \in keys, o \in Nat :
          a = o + 1 /\ s[1].kind = kindOf[p] /\ Lies(t, p, kindOf[p], o, 0)
  BY <1>1, <1>3, BeginsKey
<1> QED
  BY <1>1, <1>4, Zenon

(* The search finds no other text than a private key.                      *)
LEMMA OnlyKeysAreFound ==
  ASSUME NEW keys \in SUBSET (Nat \ {0}), NEW kindOf \in [keys -> Kinds], NEW t, Kept(t, kindOf),
         HoldsIn(t, FALSE)
  PROVE  \E p \in keys : kindOf[p] \in Prv \/ \E o \in Nat : Stands(t, p, kindOf[p], o)
<1>0. t \in Seq(CharShape) /\ Len(t) \in Nat
  <2>1. t \in Seq(CharShape)
    BY Zenon DEF Kept
  <2> QED
    BY <2>1
<1>1. PICK run \in Runs(t) :
         \/ LooksPrivate(run) \/ IsPrivate(run)
         \/ \E i \in KeyPlaces(run) :
               \/ LooksPrivate(From(run, i))
               \/ \E kind \in Wif : /\ i + KeyLength(kind) - 1 <= Len(run)
                                   /\ run[i].kind \in Wif
                                   /\ IsPrivate(SubSeq(run, i, i + KeyLength(kind) - 1))
  BY Zenon DEF HoldsIn
<1>2. PICK a, b : RunAt(t, a, b) /\ run = SubSeq(t, a, b)
  <2>1. \E q \in (DOMAIN t) \X (DOMAIN t) : RunAt(t, q[1], q[2]) /\ run = SubSeq(t, q[1], q[2])
    BY <1>1 DEF Runs
  <2> QED
    BY <2>1
<1>3. /\ a \in 1 .. Len(t) /\ b \in 1 .. Len(t) /\ a < b
      /\ \A i \in a .. b : Base(t, i)
      /\ a = 1 \/ ~Base(t, a - 1)
      /\ b = Len(t) \/ ~Base(t, b + 1)
      /\ Len(run) = b - a + 1
      /\ Window(run, t, a)
  BY <1>0, <1>2, WindowOfRun
<1>4. CASE LooksPrivate(run)
  <2>1. Window(run, t, a)
    BY <1>3
  <2> QED
    BY <1>4, <2>1, LettersOfKey
<1>5. CASE IsPrivate(run)
  <2>1. PICK p \in keys, o \in Nat :
            /\ a = o + 1 /\ run[1].kind = kindOf[p] /\ Lies(t, p, kindOf[p], o, 0)
            /\ Len(run) = KeyLength(kindOf[p])
    <3>1. Window(run, t, a)
      BY <1>3
    <3> QED
      BY <1>5, <3>1, PrivateIsKey
  <2> DEFINE kind == kindOf[p]
             n == KeyLength(kind)
  <2>2. n \in 3 .. 6
    <3>1. kind \in Kinds
      OBVIOUS
    <3> HIDE DEF kind
    <3> QED
      BY <3>1, Lengths
  <2>3. n = b - a + 1 /\ a = o + 1
    BY <1>3, <2>1
  <2> HIDE DEF n
  <2>4. b = o + n /\ a - 1 = o /\ b + 1 = o + n + 1
    BY <1>3, <2>2, <2>3
  <2>5. (o = 0 \/ ~Base(t, o)) /\ (o + n = Len(t) \/ ~Base(t, o + n + 1))
    BY <1>3, <2>3, <2>4
  <2>6. Stands(t, p, kind, o)
    BY <2>1, <2>5, Zenon DEF Stands, n
  <2> QED
    BY <2>6
<1>6. CASE \E i \in KeyPlaces(run) : LooksPrivate(From(run, i))
  <2>1. PICK i \in KeyPlaces(run) : LooksPrivate(From(run, i))
    BY <1>6
  <2>2. i \in 1 .. b - a + 1 /\ b - a + 1 \in i .. b - a + 1
    BY <1>3, <2>1 DEF KeyPlaces
  <2>3. Window(SubSeq(run, i, b - a + 1), t, a + i - 1)
    BY <1>0, <1>2, <2>2, WindowInRun
  <2>4. From(run, i) = SubSeq(run, i, b - a + 1)
    BY <1>3, Zenon DEF From
  <2> QED
    BY <2>1, <2>3, <2>4, LettersOfKey
<1>7. CASE \E i \in KeyPlaces(run), kind \in Wif :
               /\ i + KeyLength(kind) - 1 <= Len(run)
               /\ run[i].kind \in Wif
               /\ IsPrivate(SubSeq(run, i, i + KeyLength(kind) - 1))
  <2>1. PICK i \in KeyPlaces(run), k \in Wif :
               /\ i + KeyLength(k) - 1 <= Len(run)
               /\ run[i].kind \in Wif
               /\ IsPrivate(SubSeq(run, i, i + KeyLength(k) - 1))
    BY <1>7
  <2> DEFINE e == i + KeyLength(k) - 1
             s == SubSeq(run, i, e)
  <2>2. KeyLength(k) \in 3 .. 6
    <3>1. k \in Kinds
      BY DEF Wif, Kinds
    <3> QED
      BY <3>1, Lengths
  <2>3. i \in 2 .. b - a + 1 /\ e \in i .. b - a + 1 /\ e > i
    BY <1>3, <2>1, <2>2 DEF KeyPlaces
  <2>4. Window(s, t, a + i - 1) /\ Len(s) = e - i + 1
    <3>1. i \in 1 .. b - a + 1 /\ e \in i .. b - a + 1
      BY <1>3, <2>3
    <3> HIDE DEF e
    <3> QED
      BY <1>0, <1>2, <3>1, WindowInRun
  <2>5. IsPrivate(s)
    BY <2>1
  <2>6. s[1].kind \in Wif
    <3>1. s[1] = t[a + i - 1]
      <4>1. 1 \in 1 .. Len(s) /\ (a + i - 1) + 1 - 1 = a + i - 1
        BY <1>3, <2>3, <2>4
      <4> HIDE DEF s
      <4>2. s[1] = t[(a + i - 1) + 1 - 1]
        BY <2>4, <4>1, Zenon DEF Window
      <4> QED
        BY <4>1, <4>2
    <3>2. run[i] = t[a + i - 1]
      <4>1. i \in 1 .. Len(run)
        BY <1>3, <2>3
      <4> QED
        BY <1>3, <4>1, Zenon DEF Window
    <3> HIDE DEF s
    <3> QED
      BY <2>1, <3>1, <3>2, Zenon
  <2> HIDE DEF s, e
  <2>7. PICK p \in keys, o \in Nat :
            a + i - 1 = o + 1 /\ s[1].kind = kindOf[p] /\ Lies(t, p, kindOf[p], o, 0)
    <3>1. \E p \in keys, o \in Nat :
             /\ a + i - 1 = o + 1 /\ s[1].kind = kindOf[p] /\ Lies(t, p, kindOf[p], o, 0)
             /\ Len(s) = KeyLength(kindOf[p])
      BY <2>4, <2>5, PrivateIsKey
    <3> QED
      BY <3>1, Zenon
  <2>8. o \in a .. b /\ o > 0
    BY <1>3, <2>3, <2>7
  <2>9. kindOf[p] \in Wif /\ Base(t, o)
    BY <1>3, <2>6, <2>7, <2>8, Zenon
  <2>10. Stands(t, p, kindOf[p], o)
    BY <2>7, <2>8, <2>9, Zenon DEF Stands
  <2> QED
    BY <2>10
<1> QED
  BY <1>1, <1>4, <1>5, <1>6, <1>7, Zenon


(* What stands in a text from a key's first character on, as long as it:   *)
(* the key, which passes for one unless it is mistyped.                    *)
LEMMA KeyIsPrivate ==
  ASSUME NEW t \in Seq(CharShape), NEW p, NEW kind \in Kinds \ {"typo"}, NEW o \in Nat,
         Lies(t, p, kind, o, 0), NEW s, Window(s, t, o + 1), Len(s) = KeyLength(kind)
  PROVE  IsPrivate(s)
<1> DEFINE n == KeyLength(kind)
<1>1. n \in 3 .. 6 /\ kind \in Kinds
  BY Lengths
<1>2. n \in 1 .. KeyLength(kind) /\ n <= Len(s) /\ Len(s) <= 7
  BY <1>1
<1> HIDE DEF n
<1>3. s[1].kind = kind /\ Begins(s, n)
  BY <1>1, <1>2, KeyBegins
<1> QED
  BY <1>2, <1>3, Zenon DEF IsPrivate, n

(* A WIF key behind other base58 characters is found where it starts.      *)
LEMMA WifIsFound ==
  ASSUME NEW t \in Seq(CharShape), NEW p, NEW kind \in Wif, NEW o \in Nat \ {0},
         Lies(t, p, kind, o, 0), Base(t, o)
  PROVE  HoldsIn(t, FALSE)
<1> DEFINE n == KeyLength(kind)
<1>0. kind \in Kinds \ {"typo"}
  BY DEF Wif, Kinds
<1>1. n \in 3 .. 6
  BY <1>0, Lengths
<1>2. /\ o + n <= Len(t) /\ \A i \in o + 1 .. o + n : Base(t, i)
      /\ t[o + 1] = KeyChar(kind, 1, p)
  <2>1. /\ o + n <= Len(t) /\ \A i \in o + 1 .. o + n : Base(t, i)
        /\ \A j \in 1 .. n : t[o + j] = KeyChar(kind, j, p)
    BY <1>0, InARow
  <2>2. 1 \in 1 .. n
    BY <1>1
  <2> QED
    BY <2>1, <2>2, Zenon
<1> HIDE DEF n
<1>3. PICK a \in 1 .. o, b \in o + n .. Len(t) : RunAt(t, a, b)
  <2>1. o \in 1 .. Len(t) /\ o + n \in 1 .. Len(t) /\ o < o + n
    BY <1>1, <1>2
  <2>2. \A k \in o .. o + n : k = o \/ k \in o + 1 .. o + n
    BY <1>1
  <2>3. \A k \in o .. o + n : Base(t, k)
    BY <1>2, <2>2
  <2> QED
    BY <2>1, <2>3, RunAround
<1> DEFINE run == SubSeq(t, a, b)
           i == o - a + 2
           e == i + n - 1
           s == SubSeq(run, i, e)
<1>4. /\ a \in Nat /\ b \in Nat /\ a <= o /\ o + n <= b /\ a + i - 1 = o + 1
      /\ i \in 1 .. b - a + 1 /\ e \in i .. b - a + 1 /\ e - i + 1 = n
      /\ i \in 2 .. (b - a + 1) - 2
  BY <1>1, <1>2, <1>3
<1>5. run \in Runs(t) /\ Len(run) = b - a + 1 /\ Window(run, t, a)
  <2>1. /\ Len(run) = b - a + 1 /\ Window(run, t, a)
        /\ a \in 1 .. Len(t) /\ b \in 1 .. Len(t)
    BY <1>3, WindowOfRun
  <2> DEFINE q == <<a, b>>
  <2>2. q \in (DOMAIN t) \X (DOMAIN t) /\ q[1] = a /\ q[2] = b
    BY <2>1
  <2> HIDE DEF q, run
  <2>3. RunAt(t, q[1], q[2]) /\ run = SubSeq(t, q[1], q[2])
    BY <1>3, <2>2 DEF run
  <2> QED
    BY <2>1, <2>2, <2>3 DEF Runs
<1> HIDE DEF i, e, run
<1>6. Window(s, t, o + 1) /\ Len(s) = KeyLength(kind)
  <2>1. Len(s) = e - i + 1 /\ Window(s, t, a + i - 1)
    BY <1>3, <1>4, WindowInRun DEF run
  <2> QED
    BY <1>4, <2>1 DEF n
<1> HIDE DEF s
<1>7. IsPrivate(s)
  <2>1. o \in Nat
    OBVIOUS
  <2> QED
    BY <1>0, <1>6, <2>1, KeyIsPrivate
<1>8. run[i].kind = kind
  <2>1. run[i] = t[o + 1]
    <3>1. i \in 1 .. Len(run)
      BY <1>4, <1>5
    <3>2. run[i] = t[a + i - 1]
      BY <1>5, <3>1, Zenon DEF Window
    <3> QED
      BY <1>4, <3>2
  <2> DEFINE x == KeyChar(kind, 1, p)
  <2>2. x.kind = kind
    BY CharFields
  <2> HIDE DEF x
  <2>3. run[i] = x
    BY <1>2, <2>1, Zenon DEF x
  <2> QED
    BY <2>2, <2>3, Zenon
<1>9. i \in KeyPlaces(run) /\ e <= Len(run)
  BY <1>4, <1>5 DEF KeyPlaces
<1>10. i + KeyLength(kind) - 1 <= Len(run) /\ IsPrivate(SubSeq(run, i, i + KeyLength(kind) - 1))
  BY <1>7, <1>9, Zenon DEF s, e, n
<1> QED
  BY <1>5, <1>8, <1>9, <1>10, Zenon DEF HoldsIn

(* A key alone in its row is found.                                        *)
LEMMA AloneIsFound ==
  ASSUME NEW t \in Seq(CharShape), NEW p, NEW kind \in Kinds \ {"typo"}, NEW o \in Nat,
         Lies(t, p, kind, o, 0), o = 0 \/ ~Base(t, o),
         o + KeyLength(kind) = Len(t) \/ ~Base(t, o + KeyLength(kind) + 1)
  PROVE  HoldsIn(t, FALSE)
<1> DEFINE n == KeyLength(kind)
           a == o + 1
           b == o + n
           s == SubSeq(t, a, b)
<1>1. n \in 3 .. 6 /\ kind \in Kinds /\ DOMAIN t = 1 .. Len(t) /\ Len(t) \in Nat
  BY Lengths
<1>2. b <= Len(t) /\ \A i \in a .. b : Base(t, i)
  BY <1>1, InARow
<1>3. (o = 0 \/ ~Base(t, o)) /\ (b = Len(t) \/ ~Base(t, b + 1))
  OBVIOUS
<1> HIDE DEF n
<1>4. /\ a \in DOMAIN t /\ b \in DOMAIN t /\ a < b /\ b - a + 1 = n
      /\ a - 1 = o /\ (a = 1 <=> o = 0)
  BY <1>1, <1>2
<1> HIDE DEF a, b
<1>5. RunAt(t, a, b)
  BY <1>2, <1>3, <1>4, Zenon DEF RunAt, Base
<1>6. Window(s, t, a) /\ Len(s) = n
  BY <1>4, <1>5, WindowOfRun
<1>7. s \in Runs(t)
  <2> DEFINE q == <<a, b>>
  <2>1. q \in (DOMAIN t) \X (DOMAIN t) /\ q[1] = a /\ q[2] = b
    BY <1>4
  <2> HIDE DEF q, s
  <2>2. RunAt(t, q[1], q[2]) /\ s = SubSeq(t, q[1], q[2])
    BY <1>5, <2>1 DEF s
  <2> QED
    BY <2>1, <2>2 DEF Runs
<1> HIDE DEF s
<1>8. IsPrivate(s)
  <2>1. Window(s, t, o + 1) /\ Len(s) = KeyLength(kind)
    BY <1>6 DEF a, n
  <2> QED
    BY <2>1, KeyIsPrivate
<1> QED
  BY <1>7, <1>8, Zenon DEF HoldsIn

(* A key with the letters prv is found wherever it stands in its row.      *)
LEMMA LettersAreFound ==
  ASSUME NEW t \in Seq(CharShape), NEW p, NEW kind \in Prv, NEW o \in Nat, Lies(t, p, kind, o, 0)
  PROVE  HoldsIn(t, FALSE)
<1>0. kind \in Kinds /\ KeyLength(kind) = 6
  BY Lengths DEF Prv, Kinds
<1>1. o + 6 <= Len(t) /\ \A i \in o + 1 .. o + 6 : Base(t, i)
  BY <1>0, InARow
<1>2. PICK a \in 1 .. o + 1, b \in o + 6 .. Len(t) : RunAt(t, a, b)
  <2>1. o + 1 \in 1 .. Len(t) /\ o + 6 \in 1 .. Len(t) /\ o + 1 < o + 6
    BY <1>1
  <2> QED
    BY <1>1, <2>1, RunAround
<1> DEFINE run == SubSeq(t, a, b)
           i == o - a + 2
           s == SubSeq(run, i, b - a + 1)
<1>3. /\ a \in Nat /\ b \in Nat /\ a <= o + 1 /\ o + 6 <= b /\ a + i - 1 = o + 1
      /\ i \in 1 .. b - a + 1 /\ b - a + 1 \in i .. b - a + 1
      /\ (b - a + 1) - i + 1 >= 5 /\ (i = 1 \/ i \in 2 .. (b - a + 1) - 2)
      /\ (i = 1 => a = o + 1 /\ b - a + 1 >= 5)
  BY <1>1, <1>2
<1>4. run \in Runs(t) /\ Len(run) = b - a + 1 /\ Window(run, t, a)
  <2>1. /\ Len(run) = b - a + 1 /\ Window(run, t, a)
        /\ a \in 1 .. Len(t) /\ b \in 1 .. Len(t)
    BY <1>2, WindowOfRun
  <2> DEFINE q == <<a, b>>
  <2>2. q \in (DOMAIN t) \X (DOMAIN t) /\ q[1] = a /\ q[2] = b
    BY <2>1
  <2> HIDE DEF q, run
  <2>3. RunAt(t, q[1], q[2]) /\ run = SubSeq(t, q[1], q[2])
    BY <1>2, <2>2 DEF run
  <2> QED
    BY <2>1, <2>2, <2>3 DEF Runs
<1> HIDE DEF i, run
<1>5. ASSUME NEW x, Window(x, t, o + 1), Len(x) \in Nat, Len(x) >= 5 PROVE LooksPrivate(x)
  <2>1. 4 \in 1 .. KeyLength(kind) /\ 4 <= Len(x)
    BY <1>0, <1>5
  <2>2. x[1].kind = kind /\ Begins(x, 4)
    BY <1>0, <1>5, <2>1, KeyBegins
  <2> QED
    BY <1>5, <2>2, Zenon DEF LooksPrivate
<1>6. CASE i = 1
  <2>1. Window(run, t, o + 1) /\ Len(run) \in Nat /\ Len(run) >= 5
    BY <1>3, <1>4, <1>6
  <2>2. LooksPrivate(run)
    BY <1>5, <2>1
  <2> QED
    BY <1>4, <2>2, Zenon DEF HoldsIn
<1>7. CASE i \in 2 .. (b - a + 1) - 2
  <2>1. Len(s) = (b - a + 1) - i + 1 /\ Window(s, t, a + i - 1)
    BY <1>2, <1>3, WindowInRun DEF run
  <2> HIDE DEF s
  <2>2. Window(s, t, o + 1) /\ Len(s) \in Nat /\ Len(s) >= 5
    BY <1>3, <2>1
  <2>3. LooksPrivate(s)
    BY <1>5, <2>2
  <2>4. From(run, i) = s /\ i \in KeyPlaces(run)
    BY <1>4, <1>7 DEF From, KeyPlaces, s
  <2> QED
    BY <1>4, <2>3, <2>4, Zenon DEF HoldsIn
<1> QED
  BY <1>3, <1>6, <1>7

(* A key that stands in a text is found there, if it is not mistyped.      *)
LEMMA StandingIsFound ==
  ASSUME NEW t \in Seq(CharShape), NEW p, NEW kind \in Kinds \ {"typo"}, NEW o \in Nat,
         Stands(t, p, kind, o)
  PROVE  HoldsIn(t, FALSE)
<1>1. CASE /\ o = 0 \/ ~Base(t, o)
           /\ o + KeyLength(kind) = Len(t) \/ ~Base(t, o + KeyLength(kind) + 1)
  <2>1. Lies(t, p, kind, o, 0)
    BY Zenon DEF Stands
  <2> QED
    BY <1>1, <2>1, AloneIsFound
<1>2. CASE kind \in Wif /\ o > 0 /\ Base(t, o)
  <2>1. Lies(t, p, kind, o, 0)
    BY Zenon DEF Stands
  <2>2. o \in Nat \ {0}
    BY <1>2
  <2> QED
    BY <1>2, <2>1, <2>2, WifIsFound
<1> QED
  BY <1>1, <1>2, Zenon DEF Stands

(* In a text that is a descriptor the page and the command tell the same.  *)
LEMMA DescriptorAgrees ==
  ASSUME NEW keys \in SUBSET (Nat \ {0}), NEW kindOf \in [keys -> Kinds], NEW t, Kept(t, kindOf)
  PROVE  HoldsIn(t, TRUE) <=> PrivateLeaf(t)
<1>0. t \in Seq(CharShape) /\ Len(t) \in Nat
  <2>1. t \in Seq(CharShape)
    BY Zenon DEF Kept
  <2> QED
    BY <2>1
<1>1. ASSUME NEW run \in Runs(t), run[1].kind \in Prv, Begins(run, 4) PROVE Len(run) >= 5
  <2>1. PICK a, b : RunAt(t, a, b) /\ run = SubSeq(t, a, b)
    <3>1. \E q \in (DOMAIN t) \X (DOMAIN t) : RunAt(t, q[1], q[2]) /\ run = SubSeq(t, q[1], q[2])
      BY <1>1 DEF Runs
    <3> QED
      BY <3>1
  <2>2. /\ a \in 1 .. Len(t) /\ b \in 1 .. Len(t) /\ a < b
        /\ b = Len(t) \/ ~Base(t, b + 1)
        /\ Len(run) = b - a + 1
        /\ Window(run, t, a)
    BY <1>0, <2>1, WindowOfRun
  <2>3. PICK p \in keys, o \in Nat :
           a = o + 1 /\ run[1].kind = kindOf[p] /\ Lies(t, p, kindOf[p], o, 0)
    <3>1. Len(run) >= 2 /\ 4 \in Nat \ {0}
      BY <2>2
    <3>2. Begins(run, 4)
      BY <1>1, Zenon
    <3> QED
      BY <2>2, <3>1, <3>2, BeginsKey
  <2> DEFINE kind == kindOf[p]
  <2>4. kind \in Prv
    BY <1>1, <2>3, Zenon
  <2>5. kind \in Kinds /\ KeyLength(kind) = 6 /\ Lies(t, p, kind, o, 0)
    BY <2>3, <2>4, Lengths DEF Prv
  <2> HIDE DEF kind
  <2>6. o + 6 <= Len(t) /\ \A i \in o + 1 .. o + 6 : Base(t, i)
    BY <1>0, <2>5, InARow
  <2>7. b >= o + 6
    <3> SUFFICES ASSUME b < o + 6 PROVE FALSE
      BY <1>0, <2>2
    <3>1. b # Len(t) /\ b + 1 \in o + 1 .. o + 6
      BY <1>0, <2>2, <2>3, <2>6
    <3> QED
      BY <2>2, <2>6, <3>1
  <2> QED
    BY <2>2, <2>3, <2>7
<1>2. HoldsIn(t, TRUE) <=> \E run \in Runs(t) : LooksPrivate(run) \/ IsPrivate(run)
  BY Zenon DEF HoldsIn
<1>3. \A run \in Runs(t) : LooksPrivate(run) <=> run[1].kind \in Prv /\ Begins(run, 4)
  BY <1>1, Zenon DEF LooksPrivate
<1> QED
  BY <1>2, <1>3, Zenon DEF PrivateLeaf


(* What a text keeps, in the words of KeysFound: a key stands in it if it  *)
(* stands alone, or is a WIF key behind other base58 characters.           *)
LEMMA StandsInWords ==
  ASSUME NEW t \in Seq(CharShape), NEW p, NEW kind \in Kinds, pieces[p].kind = kind,
         NEW o \in Nat, NEW w \in 0 .. 1, Lies(t, p, kind, o, w)
  PROVE  /\ Alone(t, p) \/ (kind \in Wif /\ Whole(t, p) /\ TouchedBefore(t, p)) => Stands(t, p, kind, o)
         /\ w = 0 /\ Stands(t, p, kind, o)
               => Alone(t, p) \/ (kind \in Wif /\ Whole(t, p) /\ TouchedBefore(t, p))
<1> DEFINE n == KeyLength(kind)
<1>1. n \in 3 .. 6 /\ Len(t) \in Nat
  BY Lengths
<1> HIDE DEF n
<1>2. /\ Whole(t, p) <=> w = 0
      /\ w = 0 => /\ TouchedBefore(t, p) <=> o > 0 /\ Base(t, o)
                  /\ TouchedAfter(t, p) <=> o + n < Len(t) /\ Base(t, o + n + 1)
  BY PlaceOfKey DEF n
<1>3. w = 0 => o + n <= Len(t) /\ Lies(t, p, kind, o, 0)
  <2> SUFFICES ASSUME w = 0 PROVE o + n <= Len(t) /\ Lies(t, p, kind, o, 0)
    OBVIOUS
  <2>1. Lies(t, p, kind, o, 0)
    OBVIOUS
  <2> QED
    BY <2>1, InARow DEF n
<1>4. w = 0 => (Alone(t, p) <=>
          (o = 0 \/ ~Base(t, o)) /\ (o + n = Len(t) \/ ~Base(t, o + n + 1)))
  <2>1. Alone(t, p) <=> Whole(t, p) /\ ~TouchedBefore(t, p) /\ ~TouchedAfter(t, p)
    BY Zenon DEF Alone
  <2>2. (o > 0 <=> o # 0) /\ (w = 0 => (o + n < Len(t) <=> o + n # Len(t)))
    BY <1>1, <1>3
  <2> QED
    BY <1>2, <2>1, <2>2, Zenon
<1>5. Alone(t, p) => Whole(t, p)
  BY Zenon DEF Alone
<1>6. w = 0 => (Stands(t, p, kind, o) <=>
          \/ (o = 0 \/ ~Base(t, o)) /\ (o + n = Len(t) \/ ~Base(t, o + n + 1))
          \/ kind \in Wif /\ o > 0 /\ Base(t, o))
  BY <1>3, Zenon DEF Stands, n
<1> QED
  BY <1>2, <1>4, <1>5, <1>6, Zenon

(* The types of the pieces of a text.                                      *)
PiecesTypeOK == pieces \in Seq(PieceShapes)

(* KeysFound of every text, from the lemmas on either direction: what is   *)
(* found is a key that stands in the text or has the letters prv, and every*)
(* such key is found; and the two answers of a descriptor are one.         *)
LEMMA TypedPiecesFound ==
  ASSUME PiecesTypeOK
  PROVE  KeysFound
<1> DEFINE kindOf == KindOfKeys(pieces)
           keys == DOMAIN kindOf
           q == Len(pieces)
           whole == Text
           bare == Bare(Text)
<1>0. pieces \in Seq(PieceShapes) /\ q \in Nat
  BY DEF PiecesTypeOK
<1>1. kindOf \in [keys -> Kinds] /\ keys \in SUBSET (Nat \ {0})
  BY <1>0, KindsOfKeys
<1>2. keys = KeyPieces /\ \A p \in keys : kindOf[p] = pieces[p].kind /\ p <= q
  <2> DEFINE K == {p \in DOMAIN pieces : pieces[p].is = "key"}
  <2>1. keys = K /\ \A p \in K : kindOf[p] = pieces[p].kind
    <3>1. kindOf = [p \in K |-> pieces[p].kind]
      BY Zenon DEF KindOfKeys
    <3> HIDE DEF K, kindOf
    <3> QED
      BY <3>1
  <2>2. K = KeyPieces
    BY Zenon DEF KeyPieces
  <2>3. \A p \in DOMAIN pieces : p <= q
    BY <1>0
  <2> HIDE DEF q, kindOf, keys
  <2> QED
    BY <2>1, <2>2, <2>3, Zenon
<1>3. Holds(whole, kindOf, q)
  BY <1>0, TextHolds DEF Text
<1>4. HoldsUnwrapped(bare, kindOf, q)
  <2> HIDE DEF kindOf, q
  <2>1. Holds(whole, kindOf, q)
    BY <1>3
  <2> HIDE DEF whole
  <2>2. HoldsUnwrapped(Bare(whole), kindOf, q)
    BY <1>0, <1>1, <2>1, BareHolds
  <2> QED
    BY <2>2 DEF whole
<1> HIDE DEF kindOf, keys, q, whole, bare
<1>5. DOMAIN kindOf = keys
  BY DEF keys
<1>6. Kept(whole, kindOf) /\ Kept(bare, kindOf)
  <2>1. ASSUME NEW t, Holds(t, kindOf, q) PROVE Kept(t, kindOf)
    BY <1>2, <1>5, <2>1, Zenon DEF Holds, Kept
  <2> QED
    BY <1>3, <1>4, <2>1, Zenon DEF HoldsUnwrapped
<1>7. \A t \in {whole, bare} : Kept(t, kindOf) /\ t \in Seq(CharShape)
  BY <1>6, Zenon DEF Kept
<1> DEFINE Shows(t, p) == \/ Alone(t, p)
                          \/ pieces[p].kind \in Wif /\ Whole(t, p) /\ TouchedBefore(t, p)
<1>8. ASSUME NEW t \in {whole, bare}, HoldsIn(t, FALSE)
      PROVE  \E p \in keys : kindOf[p] \in Prv \/ Shows(t, p)
  <2>1. PICK p \in keys : kindOf[p] \in Prv \/ \E o \in Nat : Stands(t, p, kindOf[p], o)
    BY <1>1, <1>7, <1>8, OnlyKeysAreFound
  <2>2. ASSUME NEW o \in Nat, Stands(t, p, kindOf[p], o) PROVE Shows(t, p)
    <3> DEFINE kind == kindOf[p]
    <3>1. kind \in Kinds /\ pieces[p].kind = kind /\ t \in Seq(CharShape) /\ 0 \in 0 .. 1
      BY <1>1, <1>2, <1>7
    <3>2. Stands(t, p, kind, o) /\ Lies(t, p, kind, o, 0)
      BY <2>2, Zenon DEF Stands
    <3> HIDE DEF kind
    <3>3. Alone(t, p) \/ (kind \in Wif /\ Whole(t, p) /\ TouchedBefore(t, p))
      BY <3>1, <3>2, StandsInWords
    <3> QED
      BY <3>1, <3>3, Zenon
  <2> HIDE DEF Shows
  <2> QED
    BY <2>1, <2>2
<1>9. ASSUME NEW p \in keys, kindOf[p] \in Prv PROVE HoldsIn(bare, FALSE)
  <2>1. PICK o \in Nat : Lies(bare, p, kindOf[p], o, 0)
    BY <1>2, <1>4, <1>5, Zenon DEF HoldsUnwrapped
  <2> QED
    BY <1>7, <1>9, <2>1, LettersAreFound
<1>10. ASSUME NEW t \in {whole, bare}, NEW p \in keys, kindOf[p] \notin Prv, Shows(t, p)
       PROVE  HoldsIn(t, FALSE)
  <2> DEFINE kind == kindOf[p]
  <2>1. kind \in Kinds /\ pieces[p].kind = kind /\ t \in Seq(CharShape)
    BY <1>1, <1>2, <1>7
  <2>2. kind \in Kinds \ {"typo"}
    BY <1>10, <2>1 DEF Prv
  <2>3. PICK o \in Nat, w \in 0 .. 1 : Lies(t, p, kind, o, w)
    BY <1>5, <1>7, Zenon DEF Kept
  <2>4. Alone(t, p) \/ (kind \in Wif /\ Whole(t, p) /\ TouchedBefore(t, p))
    BY <1>10, <2>1, Zenon
  <2> HIDE DEF kind, Shows
  <2>5. Stands(t, p, kind, o)
    BY <2>1, <2>3, <2>4, StandsInWords
  <2> QED
    BY <2>1, <2>2, <2>5, StandingIsFound
<1>11. HoldsPrivateKey(whole, FALSE) <=> \E t \in {whole, bare} : HoldsIn(t, FALSE)
  <2>1. HoldsPrivateKey(whole, FALSE) <=> HoldsIn(whole, FALSE) \/ HoldsIn(bare, FALSE)
    BY Zenon DEF HoldsPrivateKey, bare, whole
  <2> QED
    BY <2>1, Zenon
<1>12. HoldsPrivateKey(whole, FALSE) <=>
          \E p \in keys : kindOf[p] \in Prv \/ \E t \in {whole, bare} : Shows(t, p)
  <2> HIDE DEF Shows
  <2>1. bare \in {whole, bare}
    BY Zenon
  <2> QED
    BY <1>8, <1>9, <1>10, <1>11, <2>1, Zenon
<1>13. HoldsPrivateKey(bare, TRUE) <=> PrivateLeaf(bare)
  <2>1. HoldsIn(bare, TRUE) <=> PrivateLeaf(bare)
    BY <1>1, <1>6, DescriptorAgrees
  <2> QED
    BY <2>1, Zenon DEF HoldsPrivateKey
<1>14. HoldsPrivateKey(whole, FALSE) <=>
          \E p \in KeyPieces : pieces[p].kind \in Prv \/ \E t \in {whole, bare} : Shows(t, p)
  <2> HIDE DEF Shows
  <2> QED
    BY <1>2, <1>12, Zenon
<1> QED
  BY <1>13, <1>14, Zenon DEF KeysFound, whole, bare

(* The pieces of a text are keys and single characters, however many.      *)
THEOREM PiecesTypeCorrect == PiecesSpec => []PiecesTypeOK
<1>1. PiecesInit => PiecesTypeOK
  BY DEF PiecesInit, PiecesTypeOK
<1>2. PiecesTypeOK /\ [AddPiece]_pieces => PiecesTypeOK'
  <2> SUFFICES ASSUME PiecesTypeOK, [AddPiece]_pieces PROVE PiecesTypeOK'
    OBVIOUS
  <2> USE DEF PiecesTypeOK
  <2>1. CASE UNCHANGED pieces
    BY <2>1
  <2>2. CASE \E x \in PieceShapes : pieces' = Append(pieces, x)
    BY <2>2
  <2>3. AddPiece => \E x \in PieceShapes : pieces' = Append(pieces, x)
    BY DEF AddPiece, PieceShapes
  <2> QED
    BY <2>1, <2>2, <2>3
<1> QED
  BY <1>1, <1>2, PTL DEF PiecesSpec

(* Of a text of any number of pieces, in any order and wrapped or not, the *)
(* search finds the keys that KeysFound names, and takes nothing else for  *)
(* one; in a descriptor the page and the command tell the same keys.       *)
THEOREM KeysAreFound == PiecesSpec => []KeysFound
<1>1. PiecesTypeOK => KeysFound
  BY TypedPiecesFound
<1> QED
  BY <1>1, PiecesTypeCorrect, PTL
=============================================================================
