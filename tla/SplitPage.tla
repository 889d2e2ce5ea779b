------------------------------ MODULE SplitPage ------------------------------
(***************************************************************************)
(* Tab 1 of the web page (site/app.js).  runSplit plans how to split the   *)
(* text (planFor), checks its keys, packs and splits it, and shows the     *)
(* plates.  It runs 300 ms after the last key, and at once when a control  *)
(* changes, and it gives way at every await, so that several runs are      *)
(* under way together; splitGen tells a run whether it is the latest.      *)
(***************************************************************************)
EXTENDS Integers

CONSTANTS
    Texts,       \* what can be in the text box
    KindOf,      \* what planFor makes of a text: "empty", "error", "stop",
                 \* "descriptor" or "text"
    WalletOf,    \* the quorum of each descriptor
    BadKeys,     \* descriptors with a key that fails its base58 check
    Private,     \* texts that hold a private key
    Failing,     \* texts whose packing or splitting throws
    TooLong,     \* pairs of a text and a k whose shares fit no QR code
    Empty,       \* the empty text
    None,        \* no plan, no pick, no split
    MaxN,        \* MAX_N, 255 in the code
    MaxGen       \* bound on the number of runs

\* The page begins with 2-of-3.
ASSUME MaxNAssumption == MaxN \in Nat /\ MaxN >= 3
ASSUME MaxGenAssumption == MaxGen \in Nat
ASSUME TextAssumption == Empty \in Texts /\ None \notin Texts
ASSUME KindAssumption ==
    /\ KindOf \in [Texts -> {"empty", "error", "stop", "descriptor", "text"}]
    /\ KindOf[Empty] = "empty"
\* quorum gives no k past the number of keys.
ASSUME WalletAssumption ==
    \A t \in Texts : KindOf[t] = "descriptor" =>
        WalletOf[t] \in [k : Nat, n : Nat] /\ WalletOf[t].k <= WalletOf[t].n

VARIABLES
    text,       \* inputEl.value
    encrypt,    \* encryptEl.checked
    controls,   \* the k and n of the controls
    wanted,     \* the k and n picked for text
    picked,     \* the k and n picked for a descriptor, with the descriptor
    planned,    \* the descriptor of the latest run's plan, Empty for a plan
                \* of text, or None
    lastText,   \* the text of the latest run
    timer,      \* whether the 300 ms after the last key are running
    splitGen,   \* the latest run
    runs,       \* the runs under way, by generation
    shown       \* the run whose outcome is shown, and its split if it made one

vars == <<text, encrypt, controls, wanted, picked, planned, lastText, timer,
          splitGen, runs, shown>>

Gens == 1 .. MaxGen
NoRun == [pc |-> "idle", text |-> Empty, open |-> FALSE, k |-> 0, n |-> 0]

\* current, as it is put together when a run ends.
SplitOf(run) == [text |-> run.text, open |-> run.open, k |-> run.k, n |-> run.n]
Cleared(g) == [gen |-> g, split |-> None]

Init == /\ text = Empty
        /\ encrypt = TRUE
        /\ controls = [k |-> 2, n |-> 3]
        /\ wanted = [k |-> 2, n |-> 3]
        /\ picked = None
        /\ planned = None
        /\ lastText = Empty
        /\ timer = FALSE
        /\ splitGen = 0
        /\ runs = [g \in Gens |-> NoRun]
        /\ shown = Cleared(0)

-----------------------------------------------------------------------------
(* planFor: the quorum of the plates that text t gets. *)

QuorumOf(t, want, pick) ==
    IF KindOf[t] = "descriptor"
    THEN IF pick # None /\ pick.text = t THEN [k |-> pick.k, n |-> pick.n] ELSE WalletOf[t]
    ELSE want

\* It stops a descriptor whose k is below 2 or whose n is past MAX_N.
Splits(t, q) == \/ KindOf[t] = "text"
                \/ KindOf[t] = "descriptor" /\ q.k >= 2 /\ q.n <= MaxN

(* runSplit up to its first await: without a split to make, tab 1 is       *)
(* cleared at once; else the run starts with the Encrypt switch as it is.  *)
RunSplit(t, enc, want, pick) ==
    LET g == splitGen + 1
        q == QuorumOf(t, want, pick)
    IN  /\ splitGen < MaxGen
        /\ splitGen' = g
        /\ lastText' = t
        /\ planned' = CASE KindOf[t] = "descriptor" -> t
                        [] KindOf[t] \in {"stop", "text"} -> Empty
                        [] OTHER -> None
        /\ controls' = q
        /\ IF Splits(t, q)
           THEN /\ runs' = [runs EXCEPT ![g] =
                       [pc |-> "keys", text |-> t, open |-> ~enc, k |-> q.k, n |-> q.n]]
                /\ UNCHANGED shown
           ELSE /\ shown' = Cleared(g)
                /\ UNCHANGED runs

-----------------------------------------------------------------------------
(* What the user does *)

Type(t) == /\ t # text
           /\ splitGen < MaxGen
           /\ text' = t
           /\ timer' = TRUE
           /\ UNCHANGED <<encrypt, controls, wanted, picked, planned, lastText,
                          splitGen, runs, shown>>

\* Fault: nothing is done while a run is under way.
PauseIfIdle ==
    /\ timer
    /\ timer' = FALSE
    /\ IF text # lastText /\ \A g \in Gens : runs[g].pc = "idle"
       THEN RunSplit(text, encrypt, wanted, picked)
       ELSE UNCHANGED <<controls, planned, lastText, splitGen, runs, shown>>
    /\ UNCHANGED <<text, encrypt, wanted, picked>>

\* 300 ms after the last key, unless the text is that of the latest run.
Pause ==
    /\ timer
    /\ timer' = FALSE
    /\ IF text # lastText THEN RunSplit(text, encrypt, wanted, picked)
       ELSE UNCHANGED <<controls, planned, lastText, splitGen, runs, shown>>
    /\ UNCHANGED <<text, encrypt, wanted, picked>>

\* An example, a scanned text or the button that clears; the timer runs on.
Replace(t) == /\ text' = t
              /\ RunSplit(t, encrypt, wanted, picked)
              /\ UNCHANGED <<encrypt, wanted, picked, timer>>

Clamp(v) == IF v < 2 THEN 2 ELSE IF v > MaxN THEN MaxN ELSE v

(* readQuorum: the k or n is changed to v, and the other one follows; the  *)
(* pick is the descriptor's of the latest plan, or else the one for text.  *)
SetQuorum(which, v) ==
    LET k == Clamp(IF which = "k" THEN v ELSE controls.k)
        n == Clamp(IF which = "n" THEN v ELSE controls.n)
        q == IF n >= k THEN [k |-> k, n |-> n]
             ELSE IF which = "n" THEN [k |-> n, n |-> n] ELSE [k |-> k, n |-> k]
        ofDescriptor == planned \notin {None, Empty}
    IN  /\ picked' = IF ofDescriptor THEN [text |-> planned, k |-> q.k, n |-> q.n] ELSE picked
        /\ wanted' = IF ofDescriptor THEN wanted ELSE q
        /\ RunSplit(text, encrypt, wanted', picked')
        /\ UNCHANGED <<text, encrypt, timer>>

Switch == /\ encrypt' = ~encrypt
          /\ RunSplit(text, encrypt', wanted, picked)
          /\ UNCHANGED <<text, wanted, picked, timer>>

-----------------------------------------------------------------------------
(* runSplit, one step between two awaits *)

Latest(g) == g = splitGen

Ends(g) == runs' = [runs EXCEPT ![g] = NoRun]
ClearIfLatest(g) == shown' = IF Latest(g) THEN Cleared(g) ELSE shown
MoveOn(g, pc) == runs' = [runs EXCEPT ![g].pc = pc]
Untouched == UNCHANGED <<text, encrypt, controls, wanted, picked, planned,
                         lastText, timer, splitGen>>

\* Fault: nothing looks for private keys.
CheckKeysOnly(g) ==
    /\ runs[g].pc = "keys"
    /\ IF KindOf[runs[g].text] = "descriptor" /\ runs[g].text \in BadKeys
       THEN Ends(g) /\ ClearIfLatest(g)
       ELSE MoveOn(g, "cut") /\ UNCHANGED shown
    /\ Untouched

\* badKey, for a descriptor.
CheckKeys(g) ==
    /\ runs[g].pc = "keys"
    /\ IF KindOf[runs[g].text] = "descriptor" /\ runs[g].text \in BadKeys
       THEN Ends(g) /\ ClearIfLatest(g)
       ELSE MoveOn(g, "private") /\ UNCHANGED shown
    /\ Untouched

\* holdsPrivateKey, for an open set.
CheckPrivate(g) ==
    /\ runs[g].pc = "private"
    /\ IF runs[g].open /\ runs[g].text \in Private
       THEN Ends(g) /\ ClearIfLatest(g)
       ELSE MoveOn(g, "cut") /\ UNCHANGED shown
    /\ Untouched

\* pack and split; the catch, and the first look at splitGen after them.
Cut(g) ==
    /\ runs[g].pc = "cut"
    /\ IF runs[g].text \in Failing THEN Ends(g) /\ ClearIfLatest(g)
       ELSE /\ IF Latest(g) THEN MoveOn(g, "head") ELSE Ends(g)
            /\ UNCHANGED shown
    /\ Untouched

\* Fault: no look at splitGen after parseHeader.
ShowAny(g) ==
    /\ runs[g].pc = "head"
    /\ Ends(g)
    /\ shown' = [gen |-> g, split |-> SplitOf(runs[g])]
    /\ Untouched

(* After parseHeader and the second look at splitGen: the plates are shown *)
(* unless they are too long for a QR code.                                 *)
Show(g) ==
    /\ runs[g].pc = "head"
    /\ Ends(g)
    /\ shown' = IF ~Latest(g) THEN shown
                ELSE IF <<runs[g].text, runs[g].k>> \in TooLong THEN Cleared(g)
                ELSE [gen |-> g, split |-> SplitOf(runs[g])]
    /\ Untouched

Step(g) == CheckKeys(g) \/ CheckPrivate(g) \/ Cut(g) \/ Show(g)

Next == \/ \E t \in Texts : Type(t) \/ Replace(t)
        \/ Pause
        \/ \E which \in {"k", "n"} : \E v \in 0 .. MaxN + 1 : SetQuorum(which, v)
        \/ Switch
        \/ \E g \in Gens : Step(g)

Safe == Init /\ [][Next]_vars

(* The event loop resumes every run that waits and fires the timer.        *)
(* Resumed(g) is WF_vars(Step(g)): a run has a next step until it is over. *)
Resumed(g) == []<>(runs[g].pc = "idle") \/ []<><<Step(g)>>_vars
Spec == Safe /\ WF_vars(Pause) /\ \A g \in Gens : Resumed(g)

-----------------------------------------------------------------------------
(* Properties *)

(* An open set shows its payload, and a set on show holds no private key   *)
(* in the open and no key that fails its check, whichever way the Encrypt  *)
(* switch was turned while its run was under way.                          *)
KeysStayPrivate ==
    shown.split # None =>
        /\ shown.split.open => shown.split.text \notin Private
        /\ KindOf[shown.split.text] = "descriptor" => shown.split.text \notin BadKeys

\* The split that the text box, the switch and the picks ask for.
Asked ==
    LET q == QuorumOf(text, wanted, picked)
    IN  IF /\ Splits(text, q)
           /\ ~(KindOf[text] = "descriptor" /\ text \in BadKeys)
           /\ encrypt \/ text \notin Private
           /\ text \notin Failing
           /\ <<text, q.k>> \notin TooLong
        THEN [text |-> text, open |-> ~encrypt, k |-> q.k, n |-> q.n]
        ELSE None

Quiet == ~timer /\ \A g \in Gens : runs[g].pc = "idle"

(* At rest, tab 1 shows the plates of what is in its controls, or none if  *)
(* that makes no set: no change gets lost in the 300 ms, in a run that was *)
(* superseded or in the one that superseded it.  Whatever is typed into    *)
(* the controls, a set on show has at least 2 and at most MaxN plates.     *)
ShownIsAsked ==
    /\ Quiet => shown.split = Asked
    /\ shown.split # None =>
           2 <= shown.split.k /\ shown.split.k <= shown.split.n /\ shown.split.n <= MaxN

(* The plates on show are never replaced by those of an earlier run. *)
Latest1 == INSTANCE LatestOnly WITH asked <- splitGen, shown <- shown.gen
ShowsLatest == Latest1!Spec

(* Once the user stops, what was asked for is shown in the end. *)
Settles == <>[][\A t \in Texts : ~Type(t)]_vars => <>[](shown.split = Asked)

(* readQuorum, app.js:1487: it takes the k and n "for the descriptor in    *)
(* tab 1 when there is one", and "for text otherwise".                     *)
PickGoesToText ==
    [][/\ wanted' # wanted => KindOf[text] # "descriptor"
       /\ picked' # picked => picked'.text = text]_vars
=============================================================================
