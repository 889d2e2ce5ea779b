------------------------- MODULE RecoverPage_proofs -------------------------
(***************************************************************************)
(* Tab 2, for any entries, sets, K and number of changes: at rest it shows *)
(* the outcome of the latest change, whatever overlaps; what it shows as   *)
(* recovered is, with the right blame; and without disputes it recovers    *)
(* every set that it can, or shows that it failed.                         *)
(* The invariant follows the calls under way: each has found out so much   *)
(* about the sets before the one it is at, and nothing about those after.  *)
(***************************************************************************)
EXTENDS RecoverPage, ShareSets_proofs

Looping == {"combine", "audit", "shareAt", "unpack"}
Stages == {"idle", "heads", "group", "assessed"} \cup Looping
States == {"none", "disputed", "other", "pending", "ok", "faulty", "wrong"}
Infos == [members : Seq(Entries), have : Nat, recovered : BOOLEAN, failed : BOOLEAN,
          wrong : SUBSET Nat]
Calls == [pc : Stages, selected : Seq(Entries), readable : Seq(Entries), infos : Seq(Infos),
          primary : Nat, at : Nat, bad : SUBSET Nat]

TypeOK ==
    /\ entries \in Seq(Entries)
    /\ born \in [Entries -> 0 .. recGen]
    /\ checked \subseteq OnShow
    /\ known \subseteq Entries
    /\ state \in [Entries -> States]
    /\ current \in Splits \cup {None} /\ mirrored \in Splits \cup {None}
    /\ tab \in {"split", "recover"}
    /\ recGen \in 0 .. MaxGen
    /\ calls \in [Gens -> Calls]
    /\ outcome \in [gen : 0 .. recGen, selected : Seq(Entries), infos : Seq(Infos), primary : Nat]

(* What is on show became an object in some generation.                    *)
ShownAreBorn == \A e \in OnShow : born[e] > 0

(* Only calls that were made are under way.                                *)
Begun == \A g \in Gens : g > recGen => calls[g].pc = "idle"

(* The latest call, once it has verified the shares, works on those that   *)
(* are selected now; once it is over its outcome is shown.                 *)
LatestHolds ==
    recGen \in Gens =>
        IF calls[recGen].pc = "idle"
        THEN outcome.gen = recGen /\ ToSet(outcome.selected) = checked /\ OnShow \subseteq known
        ELSE /\ outcome.gen # recGen
             /\ calls[recGen].pc # "heads" =>
                    ToSet(calls[recGen].selected) = checked /\ OnShow \subseteq known

(* The blame of one set, with the x in bad still to be looked at.          *)
Blames(info, bad) ==
    IF info.recovered
    THEN /\ Cardinality(RightXs(SharesIn(info.members))) >= K
         /\ bad \subseteq Audit(SharesIn(info.members))
         /\ info.wrong = Audit(SharesIn(info.members)) \ bad
    ELSE info.wrong = {}

(* A call that is at a set knows all about those before it and nothing of  *)
(* those after.                                                            *)
AtSet(call) ==
    /\ call.at \in DOMAIN call.infos
    /\ call.infos[call.at].recovered <=> call.pc # "combine"
    /\ \A n \in DOMAIN call.infos : n > call.at => ~call.infos[n].recovered
CallBlames(call) ==
    /\ call.pc \in Looping => AtSet(call)
    /\ \A n \in DOMAIN call.infos :
           Blames(call.infos[n],
                  IF n # call.at THEN {}
                  ELSE IF call.pc = "audit" THEN Audit(SharesIn(call.infos[n].members))
                  ELSE IF call.pc = "shareAt" THEN call.bad ELSE {})
    /\ call.pc = "shareAt" => call.bad # {}
BlamesRight ==
    /\ \A g \in Gens : CallBlames(calls[g])
    /\ \A n \in DOMAIN outcome.infos : Blames(outcome.infos[n], {})

IInv == TypeOK /\ ShownAreBorn /\ Begun /\ LatestHolds /\ BlamesRight

(* No two shares ever on show differ at one x of one set.                  *)
Agree ==
    \A e, f \in Entries :
        (/\ born[e] > 0 /\ born[f] > 0 /\ Sound(e) /\ Sound(f)
         /\ ShareOf[e].set = ShareOf[f].set /\ XOf(e) = XOf(f))
            => ShareOf[e].text = ShareOf[f].text

(* The shares of the set s among those selected, and whether they are K.   *)
Held(selected, s) == Members(Only(selected, {e \in Entries : Sound(e)}), s)
Enough(selected, s) == Cardinality(Undisputed(SharesIn(Held(selected, s)))) >= K

(* Every set with K shares selected is one that the loop stops at, or is   *)
(* done with; and those before number n that it stops at are done.         *)
Done(info) == info.recovered \/ info.failed
Found(selected, infos) ==
    \A s \in Sets : Enough(selected, s) =>
        \E n \in DOMAIN infos : SetIn(infos[n]) = s /\ (infos[n].have >= K \/ Done(infos[n]))
DoneBefore(infos, n) ==
    \A m \in DOMAIN infos : m < n /\ infos[m].have >= K => Done(infos[m])

CallCovers(call) ==
    /\ call.pc = "group" =>
           /\ ToSet(call.readable) = {e \in ToSet(call.selected) : Sound(e)}
           /\ \A e \in ToSet(call.readable) : born[e] > 0
    /\ call.pc \in Looping \cup {"assessed"} => Found(call.selected, call.infos)
    /\ call.pc \in Looping => DoneBefore(call.infos, call.at)
    /\ call.pc = "assessed" => DoneBefore(call.infos, Len(call.infos) + 1)

(* Without disputes no share is marked, and no call passes over a set.     *)
Covers ==
    Agree => /\ \A e \in Entries : state[e] # "disputed"
             /\ \A g \in Gens : CallCovers(calls[g])
             /\ EverySetIn(outcome)

-----------------------------------------------------------------------------
(* A call that has not begun knows nothing.                                *)
LEMMA FreshCalls ==
  /\ NewCall \in Calls /\ CallBlames(NewCall)
  /\ NoCall \in Calls /\ CallBlames(NoCall)
<1>1. /\ NewCall \in Calls /\ NewCall.pc = "heads" /\ NewCall.infos = <<>>
      /\ NoCall \in Calls /\ NoCall.pc = "idle" /\ NoCall.infos = <<>>
  <2>1. /\ <<>> \in Seq(Entries) /\ <<>> \in Seq(Infos) /\ {} \in SUBSET Nat /\ 0 \in Nat
        /\ "heads" \in Stages /\ "idle" \in Stages
    BY DEF Stages
  <2> HIDE DEF Stages
  <2>2. NewCall \in Calls /\ NewCall.pc = "heads" /\ NewCall.infos = <<>>
    BY <2>1 DEF NewCall, Calls
  <2> HIDE DEF NewCall
  <2>3. NoCall \in Calls /\ NoCall.pc = "idle" /\ NoCall.infos = <<>>
    BY <2>1, <2>2 DEF NoCall, Calls
  <2> QED
    BY <2>2, <2>3
<1>2. ASSUME NEW call, call.infos = <<>>, call.pc \in {"heads", "idle"} PROVE CallBlames(call)
  <2>1. DOMAIN call.infos = {}
    BY <1>2
  <2> QED
    BY <1>2, <2>1 DEF CallBlames, Looping
<1> QED
  BY <1>1, <1>2

(* At first nothing is on show.                                            *)
LEMMA PageInit == Init => IInv
<1> SUFFICES ASSUME Init PROVE IInv
  OBVIOUS
<1>1. /\ recGen = 0 /\ recGen \in 0 .. MaxGen /\ Gens = 1 .. MaxGen
      /\ \A g \in Gens : g > 0
  BY MaxGenAssumption DEF Init, Gens
<1>2. calls \in [Gens -> Calls] /\ \A g \in Gens : calls[g] = NoCall
  BY FreshCalls DEF Init
<1>3. /\ outcome \in [gen : 0 .. recGen, selected : Seq(Entries), infos : Seq(Infos), primary : Nat]
      /\ born \in [Entries -> 0 .. recGen]
      /\ state \in [Entries -> States]
  BY <1>1 DEF Init, NoOutcome, States
<1>4. entries \in Seq(Entries) /\ checked \subseteq OnShow /\ known \subseteq Entries
  BY DEF Init
<1>5. TypeOK
  BY <1>1, <1>2, <1>3, <1>4 DEF Init, TypeOK
<1>6. BlamesRight /\ Begun
  <2>1. NoCall.pc = "idle"
    BY DEF NoCall, NewCall
  <2>2. DOMAIN outcome.infos = {}
    BY DEF Init, NoOutcome
  <2> QED
    BY <1>2, <2>1, <2>2, FreshCalls DEF BlamesRight, Begun
<1>7. ShownAreBorn /\ LatestHolds
  BY <1>1 DEF Init, ShownAreBorn, LatestHolds, OnShow, ToSet
<1> QED
  BY <1>5, <1>6, <1>7 DEF IInv

(* A change on the page begins a call, whatever it does to the entries.    *)
LEMMA UpdateKeeps ==
  ASSUME IInv, Update, UNCHANGED outcome,
         entries' \in Seq(Entries), born' \in [Entries -> 0 .. recGen + 1],
         checked' \subseteq OnShow', known' \subseteq Entries, state' \in [Entries -> States],
         current' \in Splits \cup {None}, mirrored' \in Splits \cup {None},
         tab' \in {"split", "recover"}, ShownAreBorn'
  PROVE  IInv'
<1>1. /\ recGen \in 0 .. MaxGen /\ recGen' = recGen + 1 /\ recGen' \in 0 .. MaxGen
      /\ recGen' \in Gens
      /\ calls' = [calls EXCEPT ![recGen'] = NewCall]
  BY MaxGenAssumption DEF IInv, TypeOK, Update, Gens
<1>2. calls' \in [Gens -> Calls] /\ calls'[recGen'] = NewCall
  BY <1>1, FreshCalls DEF IInv, TypeOK
<1>3. outcome' \in [gen : 0 .. recGen', selected : Seq(Entries), infos : Seq(Infos), primary : Nat]
  <2>1. outcome.gen \in 0 .. recGen'
    BY <1>1 DEF IInv, TypeOK
  <2> QED
    BY <2>1 DEF IInv, TypeOK
<1>4. TypeOK'
  BY <1>1, <1>2, <1>3 DEF TypeOK
<1>5. Begun'
  <2>1. \A g \in Gens : g > recGen' => calls'[g] = calls[g] /\ g > recGen
    BY <1>1 DEF IInv, TypeOK, Gens
  <2> QED
    BY <2>1 DEF IInv, Begun
<1>6. BlamesRight'
  BY <1>1, <1>2, FreshCalls DEF IInv, TypeOK, BlamesRight
<1>7. LatestHolds'
  <2>1. outcome'.gen # recGen'
    BY <1>1 DEF IInv, TypeOK
  <2> QED
    BY <1>2, <2>1 DEF LatestHolds, NewCall
<1> QED
  BY <1>4, <1>5, <1>6, <1>7 DEF IInv

(* A call that goes on to an await past the heads.                         *)
LEMMA CallKeeps ==
  ASSUME IInv, NEW g \in Gens, NEW c \in Calls, calls' = [calls EXCEPT ![g] = c],
         calls[g].pc # "idle", c.pc \notin {"idle", "heads"}, CallBlames(c),
         UNCHANGED <<entries, born, checked, known, current, mirrored, tab, recGen, outcome>>,
         state' \in [Entries -> States],
         IF calls[g].pc = "heads" THEN ToSet(c.selected) = checked /\ OnShow \subseteq known
         ELSE c.selected = calls[g].selected
  PROVE  IInv'
<1>1. calls' \in [Gens -> Calls] /\ calls'[g] = c /\ \A h \in Gens : h # g => calls'[h] = calls[h]
  BY DEF IInv, TypeOK
<1>2. TypeOK' /\ ShownAreBorn'
  BY <1>1 DEF IInv, TypeOK, ShownAreBorn, OnShow
<1>3. Begun' /\ BlamesRight'
  BY <1>1 DEF IInv, Begun, BlamesRight
<1>4. LatestHolds'
  BY <1>1 DEF IInv, LatestHolds, OnShow
<1> QED
  BY <1>2, <1>3, <1>4 DEF IInv

-----------------------------------------------------------------------------
(* What the user and the camera do                                         *)

LEMMA UntouchedEntries ==
  ASSUME IInv, UNCHANGED <<entries, born, known, state>>
  PROVE  /\ entries' \in Seq(Entries) /\ born' \in [Entries -> 0 .. recGen + 1]
         /\ known' \subseteq Entries /\ state' \in [Entries -> States]
         /\ OnShow' = OnShow /\ ShownAreBorn'
<1>1. recGen \in Nat /\ \A n \in 0 .. recGen : n \in 0 .. recGen + 1
  BY DEF IInv, TypeOK
<1> QED
  BY <1>1 DEF IInv, TypeOK, ShownAreBorn, OnShow

(* Entries made anew are born now, and the others stay as they are.        *)
LEMMA CreateKeeps ==
  ASSUME IInv, NEW S \in SUBSET Entries, Create(S),
         entries' \in Seq(Entries), OnShow' \subseteq OnShow \cup S
  PROVE  /\ born' \in [Entries -> 0 .. recGen + 1]
         /\ known' \subseteq Entries /\ state' \in [Entries -> States]
         /\ ShownAreBorn'
<1>1. recGen \in Nat /\ \A n \in 0 .. recGen : n \in 0 .. recGen + 1
  BY DEF IInv, TypeOK
<1>2. born' \in [Entries -> 0 .. recGen + 1]
  BY <1>1 DEF IInv, TypeOK, Create
<1>3. state' \in [Entries -> States]
  BY DEF IInv, TypeOK, Create, States
<1>4. OnShow' \subseteq Entries
  BY DEF OnShow, ToSet
<1>5. ShownAreBorn'
  BY <1>1, <1>4 DEF IInv, TypeOK, ShownAreBorn, Create
<1> QED
  BY <1>2, <1>3, <1>5 DEF IInv, TypeOK, Create

LEMMA OnShowEntries == IInv => OnShow \subseteq Entries
BY DEF IInv, TypeOK, OnShow, ToSet

LEMMA ScanKeeps ==
  ASSUME IInv, NEW e \in Entries, Scan(e)
  PROVE  IInv'
<1> DEFINE same == {n \in DOMAIN entries : ShareOf[entries[n]] = ShareOf[e]}
<1>1. entries \in Seq(Entries) /\ DOMAIN entries \subseteq Nat /\ checked \subseteq OnShow
  BY DEF IInv, TypeOK
<1>2. Update /\ UNCHANGED <<current, mirrored, tab, outcome>>
  BY DEF Scan
<1>3. CASE same = {}
  <2>1. entries' = Append(entries, e) /\ checked' = checked \cup {e} /\ Create({e})
    BY <1>3 DEF Scan
  <2>2. entries' \in Seq(Entries) /\ OnShow' = OnShow \cup {e}
    BY <1>1, <2>1, AppendAdds DEF OnShow
  <2> QED
    BY <1>1, <1>2, <2>1, <2>2, CreateKeeps, UpdateKeeps DEF IInv, TypeOK
<1>4. CASE same # {}
  <2>1. checked' = checked \cup {entries[Min(same)]} /\ UNCHANGED <<entries, born, known, state>>
    BY <1>4 DEF Scan
  <2>2. Min(same) \in same
    BY <1>1, <1>4, MinIsLeast
  <2>3. checked' \subseteq OnShow'
    BY <1>1, <2>1, <2>2 DEF OnShow, ToSet
  <2> QED
    BY <1>2, <2>1, <2>3, UntouchedEntries, UpdateKeeps DEF IInv, TypeOK
<1> QED
  BY <1>3, <1>4

(* The elements of two sequences, one behind the other.                    *)
LEMMA ConcatAdds ==
  ASSUME NEW s \in Seq(Entries), NEW t \in Seq(Entries)
  PROVE  s \o t \in Seq(Entries) /\ ToSet(s \o t) = ToSet(s) \cup ToSet(t)
<1>1. /\ DOMAIN s = 1 .. Len(s) /\ Len(s) \in Nat /\ DOMAIN t = 1 .. Len(t) /\ Len(t) \in Nat
      /\ s \o t \in Seq(Entries) /\ DOMAIN (s \o t) = 1 .. Len(s) + Len(t)
      /\ \A i \in 1 .. Len(s) : (s \o t)[i] = s[i]
      /\ \A i \in 1 .. Len(t) : (s \o t)[Len(s) + i] = t[i]
  OBVIOUS
<1>2. \A i \in 1 .. Len(s) + Len(t) : i \in 1 .. Len(s) \/ \E m \in 1 .. Len(t) : i = Len(s) + m
  <2> SUFFICES ASSUME NEW i \in 1 .. Len(s) + Len(t), i \notin 1 .. Len(s)
               PROVE  \E m \in 1 .. Len(t) : i = Len(s) + m
    OBVIOUS
  <2>1. i - Len(s) \in 1 .. Len(t) /\ i = Len(s) + (i - Len(s))
    BY <1>1
  <2> QED
    BY <2>1
<1>3. ToSet(s \o t) \subseteq ToSet(s) \cup ToSet(t)
  BY <1>1, <1>2 DEF ToSet
<1>4. ToSet(s) \subseteq ToSet(s \o t)
  BY <1>1 DEF ToSet
<1>5. ToSet(t) \subseteq ToSet(s \o t)
  <2>1. \A i \in 1 .. Len(t) : Len(s) + i \in 1 .. Len(s) + Len(t)
    BY <1>1
  <2> QED
    BY <1>1, <2>1 DEF ToSet
<1> QED
  BY <1>1, <1>3, <1>4, <1>5

LEMMA PasteKeeps ==
  ASSUME IInv, NEW S \in SUBSET Pasted, Paste(S)
  PROVE  IInv'
<1> DEFINE kept == Only(entries, Entries \ Pasted)
<1>1. /\ entries' = kept \o SetToSeq(S)
      /\ checked' = (checked \ Pasted) \cup (S \ OnShow) \cup (S \cap checked)
      /\ Create(S) /\ Update /\ UNCHANGED <<current, mirrored, tab, outcome>>
  BY DEF Paste
<1>2. entries \in Seq(Entries) /\ checked \subseteq OnShow /\ OnShow \subseteq Entries
  BY OnShowEntries DEF IInv, TypeOK
<1>3. kept \in Seq(Entries) /\ ToSet(kept) = OnShow \cap (Entries \ Pasted)
  BY <1>2, OnlyKeeps DEF OnShow
<1>4. S \in SUBSET Entries /\ IsFiniteSet(S)
  BY EntriesAssumption, FS_Subset DEF Pasted
<1>5. SetToSeq(S) \in Seq(Entries) /\ ToSet(SetToSeq(S)) = S
  BY <1>4, SetToSeqLists
<1> HIDE DEF kept
<1>6. entries' \in Seq(Entries) /\ OnShow' = (OnShow \cap (Entries \ Pasted)) \cup S
  BY <1>1, <1>3, <1>5, ConcatAdds DEF OnShow
<1>7. checked' \subseteq OnShow' /\ OnShow' \subseteq OnShow \cup S
  BY <1>1, <1>2, <1>6
<1> QED
  BY <1>1, <1>4, <1>6, <1>7, CreateKeeps, UpdateKeeps DEF IInv, TypeOK

LEMMA ShowRecoverKeeps ==
  ASSUME IInv, ShowRecover, mirrored # current
  PROVE  IInv'
<1> DEFINE plates == {e \in Entries : SourceOf[e] = current}
           kept == Only(entries, Pasted)
<1>1. /\ tab' = "recover" /\ mirrored' = current /\ entries' = SetToSeq(plates) \o kept
      /\ checked' = checked \cap ToSet(kept)
      /\ Create(plates) /\ Update /\ UNCHANGED <<current, outcome>>
  BY DEF ShowRecover
<1>2. entries \in Seq(Entries) /\ OnShow \subseteq Entries
  BY OnShowEntries DEF IInv, TypeOK
<1>3. kept \in Seq(Entries) /\ ToSet(kept) = OnShow \cap Pasted
  BY <1>2, OnlyKeeps DEF OnShow
<1>4. plates \in SUBSET Entries /\ IsFiniteSet(plates)
  BY EntriesAssumption, FS_Subset
<1> HIDE DEF kept, plates
<1>5. SetToSeq(plates) \in Seq(Entries) /\ ToSet(SetToSeq(plates)) = plates
  <2>1. SetToSeq(plates) \in Seq(plates) /\ ToSet(SetToSeq(plates)) = plates
    BY <1>4, SetToSeqLists
  <2> QED
    BY <1>4, <2>1
<1>6. entries' \in Seq(Entries) /\ OnShow' = plates \cup (OnShow \cap Pasted)
  BY <1>1, <1>3, <1>5, ConcatAdds DEF OnShow
<1>7. checked' \subseteq OnShow' /\ OnShow' \subseteq OnShow \cup plates
  BY <1>1, <1>3, <1>6
<1> QED
  BY <1>1, <1>4, <1>6, <1>7, CreateKeeps, UpdateKeeps DEF IInv, TypeOK

(* Plates selected or not, a tab or a split shown: the entries stay.       *)
LEMMA SelectKeeps ==
  ASSUME IInv, Update, checked' \subseteq OnShow,
         UNCHANGED <<entries, born, known, state, current, mirrored, tab, outcome>>
  PROVE  IInv'
BY UntouchedEntries, UpdateKeeps DEF IInv, TypeOK

LEMMA ShowKeeps ==
  ASSUME IInv, UNCHANGED <<entries, born, checked, known, state, mirrored, recGen, calls, outcome>>,
         tab' \in {"split", "recover"}, current' \in Splits \cup {None}
  PROVE  IInv'
<1>1. TypeOK'
  BY DEF IInv, TypeOK, OnShow
<1>2. ShownAreBorn' /\ Begun'
  BY DEF IInv, ShownAreBorn, Begun, OnShow
<1>3. LatestHolds' /\ BlamesRight'
  BY DEF IInv, LatestHolds, BlamesRight, OnShow
<1> QED
  BY <1>1, <1>2, <1>3 DEF IInv

-----------------------------------------------------------------------------
(* The calls under way                                                     *)

(* A share verified is known to every call.                                *)
LEMMA ReadHeadKeeps ==
  ASSUME IInv, NEW g \in Gens, NEW e \in Entries, ReadHead(g, e)
  PROVE  IInv'
<1>1. /\ known' = known \cup {e}
      /\ UNCHANGED <<entries, born, checked, state, current, mirrored, tab, recGen, calls, outcome>>
  BY DEF ReadHead
<1>2. TypeOK'
  BY <1>1 DEF IInv, TypeOK, OnShow
<1>3. ShownAreBorn' /\ Begun'
  BY <1>1 DEF IInv, ShownAreBorn, Begun, OnShow
<1>4. LatestHolds' /\ BlamesRight'
  BY <1>1 DEF IInv, LatestHolds, BlamesRight, OnShow
<1> QED
  BY <1>2, <1>3, <1>4 DEF IInv

(* A call that is over, the latest one with its outcome shown.             *)
LEMMA EndKeeps ==
  ASSUME IInv, NEW g \in Gens, calls' = [calls EXCEPT ![g] = NoCall],
         UNCHANGED <<entries, born, checked, known, state, current, mirrored, tab, recGen>>,
         outcome' \in [gen : 0 .. recGen, selected : Seq(Entries), infos : Seq(Infos), primary : Nat],
         g = recGen => /\ outcome'.gen = recGen /\ ToSet(outcome'.selected) = checked
                       /\ OnShow \subseteq known
                       /\ \A n \in DOMAIN outcome'.infos : Blames(outcome'.infos[n], {}),
         g # recGen => outcome' = outcome
  PROVE  IInv'
<1>1. /\ calls' \in [Gens -> Calls] /\ calls'[g] = NoCall /\ NoCall.pc = "idle"
      /\ \A h \in Gens : h # g => calls'[h] = calls[h]
  <2>1. NoCall.pc = "idle"
    BY DEF NoCall, NewCall
  <2> QED
    BY <2>1, FreshCalls DEF IInv, TypeOK
<1>2. TypeOK' /\ ShownAreBorn'
  BY <1>1 DEF IInv, TypeOK, ShownAreBorn, OnShow
<1>3. Begun' /\ BlamesRight'
  BY <1>1, FreshCalls DEF IInv, Begun, BlamesRight
<1>4. LatestHolds'
  BY <1>1 DEF IInv, LatestHolds, OnShow
<1> QED
  BY <1>2, <1>3, <1>4 DEF IInv

LEMMA GiveWayKeeps ==
  ASSUME IInv, NEW g \in Gens, GiveWay(g)
  PROVE  IInv'
BY EndKeeps DEF IInv, TypeOK, GiveWay

LEMMA ShowOutcomeKeeps ==
  ASSUME IInv, NEW g \in Gens, Show(g)
  PROVE  IInv'
<1>1. /\ calls[g].pc = "assessed" /\ calls' = [calls EXCEPT ![g] = NoCall]
      /\ outcome' = IF g # recGen THEN outcome
                    ELSE [gen |-> g, selected |-> calls[g].selected,
                          infos |-> calls[g].infos, primary |-> calls[g].primary]
      /\ UNCHANGED <<entries, born, checked, known, state, current, mirrored, tab, recGen>>
  BY DEF Show
<1>2. calls[g] \in Calls /\ g \in Nat /\ recGen \in Nat
  BY DEF IInv, TypeOK, Gens
<1>3. outcome' \in [gen : 0 .. recGen, selected : Seq(Entries), infos : Seq(Infos), primary : Nat]
  BY <1>1, <1>2 DEF IInv, TypeOK, Calls
<1>4. g = recGen => ToSet(calls[g].selected) = checked /\ OnShow \subseteq known
  BY <1>1 DEF IInv, LatestHolds
<1>5. \A n \in DOMAIN calls[g].infos : Blames(calls[g].infos[n], {})
  BY <1>1 DEF IInv, BlamesRight, CallBlames
<1> QED
  BY <1>1, <1>3, <1>4, <1>5, EndKeeps

(* assess begins with the shares that are selected, all of them verified.  *)
LEMMA StartAssessKeeps ==
  ASSUME IInv, NEW g \in Gens, StartAssess(g)
  PROVE  IInv'
<1> DEFINE sel == Only(entries, checked)
           read == Only(sel, {e \in known : Sound(e)})
           c == [calls[g] EXCEPT !.pc = "group", !.selected = sel, !.readable = read]
<1>1. /\ calls[g].pc = "heads" /\ Unread(g) = {} /\ g = recGen
      /\ calls' = [calls EXCEPT ![g].pc = "group", ![g].selected = sel, ![g].readable = read]
      /\ state' = [e \in Entries |-> IF e \in OnShow THEN "none" ELSE state[e]]
      /\ UNCHANGED <<entries, born, checked, known, current, mirrored, tab, recGen, outcome>>
  BY DEF StartAssess
<1>2. sel \in Seq(Entries) /\ ToSet(sel) = checked
  <2>1. entries \in Seq(Entries) /\ checked \subseteq ToSet(entries)
    BY DEF IInv, TypeOK, OnShow
  <2>2. sel \in Seq(Entries) /\ ToSet(sel) = ToSet(entries) \cap checked
    BY <2>1, OnlyKeeps
  <2> QED
    BY <2>1, <2>2
<1> HIDE DEF sel
<1>3. read \in Seq(Entries)
  BY <1>2, OnlyKeeps
<1> HIDE DEF read
<1>4. OnShow \subseteq known
  <2>1. \A e \in OnShow : Reaches(g, e)
    <3>1. OnShow \subseteq Entries
      BY OnShowEntries
    <3> QED
      BY <1>1, <3>1 DEF IInv, TypeOK, Reaches
  <2> QED
    BY <1>1, <2>1 DEF Unread
<1>5. calls[g] \in Calls /\ "group" \in Stages
  BY DEF IInv, TypeOK, Stages
<1>6. /\ c \in Calls /\ c.pc = "group" /\ c.selected = sel /\ c.infos = calls[g].infos
      /\ c.at = calls[g].at
  BY <1>2, <1>3, <1>5 DEF Calls
<1>7. calls' = [calls EXCEPT ![g] = c]
  BY <1>1
<1>8. CallBlames(c)
  BY <1>1, <1>6 DEF IInv, BlamesRight, CallBlames, Looping
<1>9. state' \in [Entries -> States]
  BY <1>1 DEF IInv, TypeOK, States
<1> HIDE DEF c
<1> QED
  BY <1>1, <1>2, <1>4, <1>6, <1>7, <1>8, <1>9, CallKeeps

(* What one set is found to be, among the sets of a call.                  *)
LEMMA InfoAt ==
  ASSUME NEW infos \in Seq(Infos), NEW n \in DOMAIN infos, NEW v \in Infos
  PROVE  LET new == [infos EXCEPT ![n] = v]
         IN  /\ new \in Seq(Infos) /\ DOMAIN new = DOMAIN infos /\ new[n] = v
             /\ \A m \in DOMAIN infos : m # n => new[m] = infos[m]
OBVIOUS

(* The shares of a sequence of entries.                                    *)
LEMMA SharesInSeq ==
  ASSUME NEW es \in Seq(Entries)
  PROVE  SharesIn(es) \in Seq(Shares) /\ Len(SharesIn(es)) = Len(es)
BY EntriesAssumption DEF SharesIn

LEMMA XOfFinite ==
  ASSUME NEW S \in SUBSET Entries
  PROVE  Cardinality({XOf(e) : e \in S}) \in Nat
<1>1. 0 \in Int /\ 255 \in Int
  OBVIOUS
<1>2. IsFiniteSet(0 .. 255)
  BY <1>1, FS_Interval
<1>3. \A e \in Entries : ShareOf[e].x \in 0 .. 255
  <2>1. \A sh \in Shares : sh.x \in Xs \/ sh.x = 0
    BY DEF Shares, Good, Faulty
  <2>2. \A x \in Xs : x \in 0 .. 255
    BY XsAssumption
  <2> QED
    BY <2>1, <2>2, EntriesAssumption
<1>4. {XOf(e) : e \in S} \subseteq 0 .. 255
  BY <1>3 DEF XOf
<1> QED
  BY <1>2, <1>4, FS_Subset, FS_CardinalityType

LEMMA SetStates ==
  ASSUME NEW st \in [Entries -> States], NEW g, NEW es, NEW s \in States
  PROVE  Set(st, g, es, s) \in [Entries -> States]
BY DEF Set

(* The loop goes on: nothing is known of the sets from n on.               *)
LEMMA ContinueKeeps ==
  ASSUME IInv, NEW g \in Gens, calls[g].pc \notin {"idle", "heads"},
         NEW call \in Calls, NEW st \in [Entries -> States], NEW n \in Nat \ {0},
         call.selected = calls[g].selected,
         \A m \in DOMAIN call.infos : Blames(call.infos[m], {}),
         \A m \in DOMAIN call.infos : m >= n => ~call.infos[m].recovered,
         Continue(g, call, st, n),
         UNCHANGED <<entries, born, checked, known, current, mirrored, tab, recGen, outcome>>
  PROVE  IInv'
<1> DEFINE ready == {m \in n .. Len(call.infos) : call.infos[m].have >= K}
           stop == IF ready = {} THEN Len(call.infos) ELSE Min(ready)
           others == UNION {ToSet(call.infos[m].members) : m \in (n .. stop) \ {call.primary}}
           marked == Set(st, g, others, "other")
           rest == {e \in ToSet(call.selected) : marked[e] = "none"}
           onward == [call EXCEPT !.pc = "combine", !.at = stop]
           over == [call EXCEPT !.pc = "assessed"]
<1>1. IF ready # {}
      THEN calls' = [calls EXCEPT ![g] = onward] /\ state' = marked
      ELSE /\ calls' = [calls EXCEPT ![g] = over]
           /\ state' = [e \in Entries |->
                           IF e \notin rest \/ ~Reaches(g, e) THEN marked[e]
                           ELSE IF e \notin known THEN "pending"
                           ELSE IF Sound(e) THEN "ok" ELSE "faulty"]
  BY DEF Continue
<1>2. /\ call.infos \in Seq(Infos) /\ DOMAIN call.infos = 1 .. Len(call.infos)
      /\ Len(call.infos) \in Nat /\ call.selected \in Seq(Entries)
  BY DEF Calls
<1>3. marked \in [Entries -> States]
  <2>1. "other" \in States
    BY DEF States
  <2> QED
    BY <2>1, SetStates
<1> HIDE DEF marked
<1>4. state' \in [Entries -> States]
  BY <1>1, <1>3 DEF States
<1>5. CASE ready # {}
  <2>1. ready \subseteq Nat
    BY <1>2
  <2>2. Min(ready) \in ready
    BY <1>5, <2>1, MinIsLeast
  <2>3. stop \in DOMAIN call.infos /\ stop >= n /\ stop \in Nat
    BY <1>2, <1>5, <2>2
  <2> HIDE DEF stop, ready
  <2>4. /\ onward \in Calls /\ onward.pc = "combine" /\ onward.at = stop
        /\ onward.infos = call.infos /\ onward.selected = call.selected
    <3>1. "combine" \in Stages
      BY DEF Stages, Looping
    <3> QED
      BY <2>3, <3>1 DEF Calls
  <2> HIDE DEF onward
  <2>5. AtSet(onward)
    <3>1. \A m \in DOMAIN call.infos : m >= stop => m >= n
      BY <1>2, <2>3
    <3> QED
      BY <1>2, <2>3, <2>4, <3>1 DEF AtSet
  <2>6. CallBlames(onward)
    BY <2>4, <2>5 DEF CallBlames
  <2> QED
    BY <1>1, <1>4, <1>5, <2>4, <2>6, CallKeeps
<1>6. CASE ready = {}
  <2>1. /\ over \in Calls /\ over.pc = "assessed"
        /\ over.infos = call.infos /\ over.selected = call.selected
    <3>1. "assessed" \in Stages
      BY DEF Stages
    <3> QED
      BY <3>1 DEF Calls
  <2> HIDE DEF over, ready
  <2>2. CallBlames(over)
    BY <2>1 DEF CallBlames, Looping
  <2> QED
    BY <1>1, <1>4, <1>6, <2>1, <2>2, CallKeeps
<1> QED
  BY <1>5, <1>6

(* A set is settled once its blame is complete.                            *)
LEMMA SettleKeeps ==
  ASSUME IInv, NEW g \in Gens, calls[g].pc \notin {"idle", "heads"},
         NEW call \in Calls, NEW st \in [Entries -> States],
         call.selected = calls[g].selected,
         call.at \in DOMAIN call.infos, call.infos[call.at].recovered,
         \A m \in DOMAIN call.infos : Blames(call.infos[m], {}),
         \A m \in DOMAIN call.infos : m > call.at => ~call.infos[m].recovered,
         Settle(g, call, st),
         UNCHANGED <<entries, born, checked, known, current, mirrored, tab, recGen, outcome>>
  PROVE  IInv'
<1> DEFINE n == call.at
           ms == ToSet(call.infos[n].members)
           have == Cardinality({XOf(e) : e \in ms})
           info == [call.infos[n] EXCEPT !.have = have]
           infos == [call.infos EXCEPT ![n] = info]
           c == [call EXCEPT !.pc = "unpack", !.infos = infos]
<1>1. /\ state' = Set(st, g, {e \in ms : st[e] = "disputed"}, "ok")
      /\ calls' = [calls EXCEPT ![g] = c]
  BY DEF Settle
<1>2. call.infos \in Seq(Infos) /\ call.infos[n] \in Infos /\ call.infos[n].members \in Seq(Entries)
  <2>1. call.infos \in Seq(Infos)
    BY DEF Calls
  <2>2. call.infos[call.at] \in Infos
    BY <2>1
  <2>3. call.infos[call.at].members \in Seq(Entries)
    BY <2>2 DEF Infos
  <2> QED
    BY <2>1, <2>2, <2>3
<1>3. have \in Nat
  <2>1. ms \in SUBSET Entries
    BY <1>2 DEF ToSet
  <2> HIDE DEF ms
  <2> QED
    BY <2>1, XOfFinite
<1> HIDE DEF have
<1>4. /\ info \in Infos /\ info.recovered /\ info.wrong = call.infos[n].wrong
      /\ info.members = call.infos[n].members
  BY <1>2, <1>3 DEF Infos
<1> HIDE DEF info
<1>5. /\ infos \in Seq(Infos) /\ DOMAIN infos = DOMAIN call.infos /\ infos[n] = info
      /\ \A m \in DOMAIN call.infos : m # n => infos[m] = call.infos[m]
  BY <1>2, <1>4, InfoAt
<1> HIDE DEF infos
<1>6. c \in Calls /\ c.pc = "unpack" /\ c.infos = infos /\ c.at = n /\ c.selected = call.selected
  <2>1. "unpack" \in Stages
    BY DEF Stages, Looping
  <2> QED
    BY <1>5, <2>1 DEF Calls
<1> HIDE DEF c
<1>7. AtSet(c)
  <2>1. n \in Nat /\ \A m \in DOMAIN infos : m > n => m # n
    BY DEF Calls
  <2> QED
    BY <1>4, <1>5, <1>6, <2>1 DEF AtSet
<1>8. \A m \in DOMAIN infos : Blames(infos[m], {})
  <2>1. Blames(info, {})
    BY <1>4 DEF Blames
  <2> QED
    BY <1>5, <2>1
<1>9. CallBlames(c)
  BY <1>6, <1>7, <1>8 DEF CallBlames
<1>10. state' \in [Entries -> States]
  <2>1. "ok" \in States
    BY DEF States
  <2> QED
    BY <1>1, <2>1, SetStates
<1> QED
  BY <1>1, <1>6, <1>9, <1>10, CallKeeps

(* The sets of some shares, counted.                                       *)
LEMMA GroupTypes ==
  ASSUME NEW g \in Gens, NEW es \in Seq(Entries), NEW st, NEW bad
  PROVE  LET infos == CountedSets(g, es, st, bad)
         IN  /\ infos \in Seq(Infos) /\ Primary(infos) \in Nat
             /\ \A m \in DOMAIN infos : ~infos[m].recovered /\ infos[m].wrong = {}
<1> DEFINE firsts == FirstOfSets(es)
           sets == Groups(es)
           counted(ms) == Counted(g, ms, st, bad)
           infos == CountedSets(g, es, st, bad)
<1>0. /\ DOMAIN sets = DOMAIN firsts /\ DOMAIN infos = DOMAIN sets
      /\ infos = [n \in DOMAIN sets |-> Info(sets[n], Cardinality(counted(sets[n])))]
  BY DEF Groups, CountedSets
<1>1. \A n \in DOMAIN sets : sets[n] \in Seq(Entries)
  BY OnlyKeeps DEF Members, Groups
<1>2. firsts \in Seq(Nat)
  <2> DEFINE all == [n \in DOMAIN es |-> n]
  <2>1. all \in Seq(Nat)
    OBVIOUS
  <2>2. PICK S : firsts = Only(all, S)
    BY DEF FirstOfSets
  <2> HIDE DEF all, firsts
  <2> QED
    BY <2>1, <2>2, OnlyKeeps
<1> HIDE DEF firsts
<1>3. \A n \in DOMAIN sets : Cardinality(counted(sets[n])) \in Nat
  <2> SUFFICES ASSUME NEW n \in DOMAIN sets PROVE Cardinality(counted(sets[n])) \in Nat
    OBVIOUS
  <2> DEFINE S == {f \in ToSet(sets[n]) :
                     IF Reaches(g, f) THEN st[f] # "disputed" ELSE f \notin bad}
  <2>1. S \in SUBSET Entries
    BY <1>1 DEF ToSet
  <2>2. counted(sets[n]) = {XOf(e) : e \in S}
    BY DEF Counted
  <2> HIDE DEF S
  <2> QED
    BY <2>1, <2>2, XOfFinite
<1> HIDE DEF infos, sets, counted
<1>4. \A n \in DOMAIN sets : infos[n] \in Infos /\ ~infos[n].recovered /\ infos[n].wrong = {}
  BY <1>0, <1>1, <1>3 DEF Info, Infos
<1>5. infos \in Seq(Infos) /\ DOMAIN infos = DOMAIN sets
  <2>1. DOMAIN sets = 1 .. Len(firsts) /\ Len(firsts) \in Nat
    BY <1>0, <1>2
  <2>2. infos = [n \in DOMAIN infos |-> infos[n]]
    BY <1>0
  <2>3. infos \in [1 .. Len(firsts) -> Infos]
    BY <1>0, <1>4, <2>1, <2>2
  <2> QED
    BY <1>0, <2>1, <2>3
<1>6. Primary(infos) \in Nat
  <2>1. DOMAIN infos \subseteq Nat
    BY <1>5
  <2> QED
    BY <2>1, MinIsLeast DEF Primary
<1>7. /\ infos \in Seq(Infos) /\ Primary(infos) \in Nat
      /\ \A m \in DOMAIN infos : ~infos[m].recovered /\ infos[m].wrong = {}
  BY <1>4, <1>5, <1>6
<1> QED
  BY <1>7 DEF infos

LEMMA AfterGroupKeeps ==
  ASSUME IInv, NEW g \in Gens, AfterGroup(g)
  PROVE  IInv'
<1> DEFINE es == calls[g].readable
           bad == InDispute(es)
           st == Set(state, g, bad, "disputed")
           infos == CountedSets(g, es, st, bad)
           c == [calls[g] EXCEPT !.infos = infos, !.primary = Primary(infos)]
<1>1. /\ calls[g].pc = "group" /\ Continue(g, c, st, 1)
      /\ UNCHANGED <<entries, born, checked, known, current, mirrored, tab, recGen, outcome>>
  BY DEF AfterGroup
<1>2. calls[g] \in Calls /\ es \in Seq(Entries)
  BY DEF IInv, TypeOK, Calls
<1>3. st \in [Entries -> States]
  <2>1. "disputed" \in States /\ state \in [Entries -> States]
    BY DEF IInv, TypeOK, States
  <2> QED
    BY <2>1, SetStates
<1> HIDE DEF st, bad
<1>4. /\ infos \in Seq(Infos) /\ Primary(infos) \in Nat
      /\ \A m \in DOMAIN infos : ~infos[m].recovered /\ infos[m].wrong = {}
  BY <1>2, GroupTypes
<1> HIDE DEF infos
<1>5. c \in Calls /\ c.infos = infos /\ c.selected = calls[g].selected
  BY <1>2, <1>4 DEF Calls
<1> HIDE DEF c
<1>6. \A m \in DOMAIN c.infos : Blames(c.infos[m], {}) /\ ~c.infos[m].recovered
  BY <1>4, <1>5 DEF Blames
<1> QED
  BY <1>1, <1>3, <1>5, <1>6, ContinueKeeps

(* At a set: it is one of the call's sets.                                 *)
LEMMA AtThis ==
  ASSUME IInv, NEW g \in Gens, calls[g].pc \in Looping
  PROVE  /\ calls[g] \in Calls /\ calls[g].at \in DOMAIN calls[g].infos
         /\ calls[g].infos \in Seq(Infos) /\ calls[g].at \in Nat /\ This(g) \in Infos
         /\ This(g).members \in Seq(Entries)
         /\ SharesIn(This(g).members) \in Seq(Shares)
         /\ Len(SharesIn(This(g).members)) = Len(This(g).members)
         /\ AtSet(calls[g])
<1>1. calls[g] \in Calls /\ AtSet(calls[g])
  BY DEF IInv, TypeOK, BlamesRight, CallBlames
<1>2. /\ calls[g].at \in DOMAIN calls[g].infos /\ calls[g].infos \in Seq(Infos)
      /\ calls[g].at \in Nat
  BY <1>1 DEF AtSet, Calls
<1>3. This(g) \in Infos
  BY <1>2 DEF This
<1>4. This(g).members \in Seq(Entries)
  BY <1>3 DEF Infos
<1> QED
  BY <1>1, <1>2, <1>3, <1>4, SharesInSeq

(* A set combined: by "ok" it holds K right shares, and when it has no     *)
(* more than K of them there is none to blame.                             *)
LEMMA AfterCombineKeeps ==
  ASSUME IInv, NEW g \in Gens, AfterCombine(g)
  PROVE  IInv'
<1> DEFINE n == calls[g].at
           shares == SharesIn(This(g).members)
           good == [This(g) EXCEPT !.recovered = TRUE]
           poor == [This(g) EXCEPT !.failed = TRUE]
           done == [calls[g] EXCEPT !.infos[n].recovered = TRUE]
           lost == [calls[g] EXCEPT !.infos[n].failed = TRUE]
           audit == [done EXCEPT !.pc = "audit"]
<1>1. /\ calls[g].pc = "combine"
      /\ UNCHANGED <<entries, born, checked, known, current, mirrored, tab, recGen, outcome>>
  BY DEF AfterCombine
<1>2. PICK how \in Solves(shares) :
        IF how # "ok" THEN Continue(g, lost, state, n + 1)
        ELSE IF Len(This(g).members) > K
        THEN calls' = [calls EXCEPT ![g] = audit] /\ UNCHANGED state
        ELSE Settle(g, done, state)
  BY DEF AfterCombine
<1>3. /\ calls[g] \in Calls /\ n \in DOMAIN calls[g].infos /\ calls[g].infos \in Seq(Infos)
      /\ n \in Nat /\ This(g) \in Infos /\ shares \in Seq(Shares)
      /\ Len(shares) = Len(This(g).members) /\ AtSet(calls[g])
      /\ This(g).members \in Seq(Entries)
  BY <1>1, AtThis DEF Looping
<1>4. /\ \A m \in DOMAIN calls[g].infos : Blames(calls[g].infos[m], {})
      /\ ~This(g).recovered
      /\ \A m \in DOMAIN calls[g].infos : m > n => ~calls[g].infos[m].recovered
  BY <1>1, <1>3 DEF IInv, BlamesRight, CallBlames, AtSet, This
<1>5. state \in [Entries -> States]
  BY DEF IInv, TypeOK
<1>6. /\ good \in Infos /\ good.recovered /\ good.members = This(g).members
      /\ good.wrong = This(g).wrong
      /\ poor \in Infos /\ ~poor.recovered /\ poor.wrong = This(g).wrong
  BY <1>3, <1>4 DEF Infos
<1>7. This(g).wrong = {}
  BY <1>3, <1>4 DEF Blames, This
<1> DEFINE goods == [calls[g].infos EXCEPT ![n] = good]
           poors == [calls[g].infos EXCEPT ![n] = poor]
<1>8. done = [calls[g] EXCEPT !.infos = goods] /\ lost = [calls[g] EXCEPT !.infos = poors]
  BY DEF This
<1> HIDE DEF good, poor
<1>9. /\ goods \in Seq(Infos) /\ DOMAIN goods = DOMAIN calls[g].infos /\ goods[n] = good
      /\ \A m \in DOMAIN calls[g].infos : m # n => goods[m] = calls[g].infos[m]
      /\ poors \in Seq(Infos) /\ DOMAIN poors = DOMAIN calls[g].infos /\ poors[n] = poor
      /\ \A m \in DOMAIN calls[g].infos : m # n => poors[m] = calls[g].infos[m]
  BY <1>3, <1>6, InfoAt
<1> HIDE DEF goods, poors, done, lost
<1>10. /\ done \in Calls /\ done.infos = goods /\ done.at = n /\ done.selected = calls[g].selected
       /\ lost \in Calls /\ lost.infos = poors /\ lost.at = n /\ lost.selected = calls[g].selected
  BY <1>3, <1>8, <1>9 DEF Calls
<1>11. CASE how # "ok"
  <2>1. Blames(poor, {})
    BY <1>6, <1>7 DEF Blames
  <2>2. \A m \in DOMAIN poors : Blames(poors[m], {})
    BY <1>4, <1>9, <2>1
  <2>3. \A m \in DOMAIN poors : m >= n + 1 => ~poors[m].recovered
    <3>1. \A m \in DOMAIN poors : m >= n + 1 => m > n /\ m # n
      BY <1>3, <1>9
    <3> QED
      BY <1>4, <1>9, <3>1
  <2>4. n + 1 \in Nat \ {0} /\ Continue(g, lost, state, n + 1)
    BY <1>2, <1>3, <1>11
  <2> HIDE DEF n
  <2> QED
    BY <1>1, <1>5, <1>10, <2>2, <2>3, <2>4, ContinueKeeps
<1>12. CASE how = "ok"
  <2>1. Cardinality(RightXs(shares)) >= K
    BY <1>2, <1>3, <1>12, SolvesFromRight
  <2>2. \A m \in DOMAIN goods : m > n => ~goods[m].recovered /\ m # n
    BY <1>3, <1>4, <1>9
  <2>3. CASE Len(This(g).members) > K
    <3>1. calls' = [calls EXCEPT ![g] = audit] /\ UNCHANGED state
      BY <1>2, <1>12, <2>3
    <3>2. /\ audit \in Calls /\ audit.pc = "audit" /\ audit.infos = goods /\ audit.at = n
          /\ audit.selected = calls[g].selected
      <4>1. "audit" \in Stages
        BY DEF Stages, Looping
      <4> QED
        BY <1>10, <4>1 DEF Calls
    <3> HIDE DEF audit
    <3>3. AtSet(audit)
      BY <1>3, <1>6, <1>9, <2>2, <3>2 DEF AtSet
    <3>4. Blames(good, Audit(shares))
      BY <1>6, <1>7, <2>1 DEF Blames
    <3>5. CallBlames(audit)
      BY <1>4, <1>6, <1>9, <3>2, <3>3, <3>4 DEF CallBlames
    <3> QED
      BY <1>1, <1>5, <3>1, <3>2, <3>5, CallKeeps
  <2>4. CASE ~(Len(This(g).members) > K)
    <3>1. Len(shares) <= K
      BY <1>3, <2>4, KAssumption
    <3>2. Audit(shares) = {}
      BY <1>3, <2>1, <3>1, FewAreAllRight
    <3>3. Blames(good, {})
      BY <1>6, <1>7, <2>1, <3>2 DEF Blames
    <3>4. \A m \in DOMAIN goods : Blames(goods[m], {})
      BY <1>4, <1>9, <3>3
    <3>5. Settle(g, done, state)
      BY <1>2, <1>12, <2>4
    <3> QED
      BY <1>1, <1>3, <1>5, <1>6, <1>9, <1>10, <2>2, <3>4, <3>5, SettleKeeps
  <2> QED
    BY <2>3, <2>4
<1> QED
  BY <1>11, <1>12

(* A set audited: what audit blames is still to be compared, and nothing   *)
(* is blamed yet.                                                          *)
LEMMA AfterAuditKeeps ==
  ASSUME IInv, NEW g \in Gens, AfterAudit(g)
  PROVE  IInv'
<1> DEFINE n == calls[g].at
           bad == Audit(SharesIn(This(g).members))
           c == [calls[g] EXCEPT !.pc = "shareAt", !.bad = bad]
<1>1. /\ calls[g].pc = "audit"
      /\ UNCHANGED <<entries, born, checked, known, current, mirrored, tab, recGen, outcome>>
      /\ IF bad = {} THEN Settle(g, calls[g], state)
         ELSE calls' = [calls EXCEPT ![g].pc = "shareAt", ![g].bad = bad] /\ UNCHANGED state
  BY DEF AfterAudit
<1>2. /\ calls[g] \in Calls /\ n \in DOMAIN calls[g].infos /\ n \in Nat
      /\ SharesIn(This(g).members) \in Seq(Shares) /\ AtSet(calls[g])
  BY <1>1, AtThis DEF Looping
<1>3. /\ \A m \in DOMAIN calls[g].infos : m # n => Blames(calls[g].infos[m], {})
      /\ Blames(This(g), bad) /\ This(g).recovered
      /\ \A m \in DOMAIN calls[g].infos : m > n => ~calls[g].infos[m].recovered
  BY <1>1, <1>2 DEF IInv, BlamesRight, CallBlames, AtSet, This
<1>4. state \in [Entries -> States]
  BY DEF IInv, TypeOK
<1>5. CASE bad = {}
  <2>1. \A m \in DOMAIN calls[g].infos : Blames(calls[g].infos[m], {})
    BY <1>3, <1>5 DEF This
  <2> QED
    BY <1>1, <1>2, <1>3, <1>4, <1>5, <2>1, SettleKeeps DEF This
<1>6. CASE bad # {}
  <2>1. calls' = [calls EXCEPT ![g] = c] /\ UNCHANGED state
    BY <1>1, <1>6
  <2>2. bad \subseteq Nat
    BY <1>2, XsFinite DEF Audit
  <2> HIDE DEF bad
  <2>3. /\ c \in Calls /\ c.pc = "shareAt" /\ c.infos = calls[g].infos /\ c.at = n
        /\ c.selected = calls[g].selected /\ c.bad = bad
    <3>1. "shareAt" \in Stages
      BY DEF Stages, Looping
    <3> QED
      BY <1>2, <2>2, <3>1 DEF Calls
  <2> HIDE DEF c
  <2>4. AtSet(c)
    BY <1>1, <1>2, <2>3 DEF AtSet
  <2>5. CallBlames(c)
    BY <1>3, <1>6, <2>3, <2>4 DEF CallBlames, This
  <2> QED
    BY <1>1, <1>4, <2>1, <2>3, <2>5, CallKeeps
<1> QED
  BY <1>5, <1>6

(* An x compared: it goes from what is to be looked at to the blame.       *)
LEMMA AfterShareAtKeeps ==
  ASSUME IInv, NEW g \in Gens, AfterShareAt(g)
  PROVE  IInv'
<1> DEFINE n == calls[g].at
           x == Min(calls[g].bad)
           off == {e \in ToSet(This(g).members) :
                      XOf(e) = x /\ ShareOf[e] # ShareAt(SetIn(This(g)), x)}
           left == calls[g].bad \ {x}
           info == [This(g) EXCEPT !.wrong = @ \cup {x}]
           infos == [calls[g].infos EXCEPT ![n] = info]
           call == [calls[g] EXCEPT !.bad = @ \ {x}, !.infos[n].wrong = @ \cup {x}]
           st == Set(state, g, off, "wrong")
<1>1. /\ calls[g].pc = "shareAt"
      /\ UNCHANGED <<entries, born, checked, known, current, mirrored, tab, recGen, outcome>>
      /\ IF call.bad = {} THEN Settle(g, call, st)
         ELSE calls' = [calls EXCEPT ![g] = call] /\ state' = st
  BY DEF AfterShareAt
<1>2. /\ calls[g] \in Calls /\ n \in DOMAIN calls[g].infos /\ n \in Nat /\ This(g) \in Infos
      /\ calls[g].infos \in Seq(Infos)
      /\ SharesIn(This(g).members) \in Seq(Shares) /\ AtSet(calls[g])
  BY <1>1, AtThis DEF Looping
<1>3. /\ \A m \in DOMAIN calls[g].infos : m # n => Blames(calls[g].infos[m], {})
      /\ Blames(This(g), calls[g].bad) /\ This(g).recovered
      /\ \A m \in DOMAIN calls[g].infos : m > n => ~calls[g].infos[m].recovered
      /\ calls[g].bad # {}
  BY <1>1, <1>2 DEF IInv, BlamesRight, CallBlames, AtSet, This
<1>4. calls[g].bad \subseteq Nat
  BY <1>2 DEF Calls
<1>5. x \in calls[g].bad
  BY <1>3, <1>4, MinIsLeast
<1>6. st \in [Entries -> States]
  <2>1. state \in [Entries -> States] /\ "wrong" \in States
    BY DEF IInv, TypeOK, States
  <2> QED
    BY <2>1, SetStates
<1> HIDE DEF x, st
<1>7. /\ info \in Infos /\ info.members = This(g).members /\ info.recovered
      /\ info.wrong = This(g).wrong \cup {x}
  BY <1>2, <1>3, <1>4, <1>5 DEF Infos
<1>8. Blames(info, left)
  BY <1>3, <1>5, <1>7 DEF Blames
<1>9. call = [calls[g] EXCEPT !.bad = left, !.infos = infos]
  BY DEF This
<1> HIDE DEF info, left
<1>10. /\ infos \in Seq(Infos) /\ DOMAIN infos = DOMAIN calls[g].infos /\ infos[n] = info
       /\ \A m \in DOMAIN calls[g].infos : m # n => infos[m] = calls[g].infos[m]
  BY <1>2, <1>7, InfoAt
<1> HIDE DEF infos, call
<1>11. /\ call \in Calls /\ call.pc = "shareAt" /\ call.infos = infos /\ call.at = n
       /\ call.bad = left /\ call.selected = calls[g].selected
  <2>1. left \subseteq Nat
    BY <1>4 DEF left
  <2> QED
    BY <1>1, <1>2, <1>9, <1>10, <2>1 DEF Calls
<1>12. \A m \in DOMAIN infos : m > n => ~infos[m].recovered /\ m # n
  BY <1>2, <1>3, <1>10
<1>13. \A m \in DOMAIN infos : m # n => Blames(infos[m], {})
  BY <1>3, <1>10
<1>14. CASE left = {}
  <2>1. \A m \in DOMAIN infos : Blames(infos[m], {})
    BY <1>8, <1>10, <1>13, <1>14
  <2>2. Settle(g, call, st)
    BY <1>1, <1>11, <1>14
  <2> QED
    BY <1>1, <1>2, <1>6, <1>7, <1>10, <1>11, <1>12, <2>1, <2>2, SettleKeeps
<1>15. CASE left # {}
  <2>1. calls' = [calls EXCEPT ![g] = call] /\ state' = st
    BY <1>1, <1>11, <1>15
  <2>2. AtSet(call)
    BY <1>2, <1>7, <1>10, <1>11, <1>12 DEF AtSet
  <2>3. CallBlames(call)
    BY <1>8, <1>10, <1>11, <1>13, <1>15, <2>2 DEF CallBlames
  <2> QED
    BY <1>1, <1>6, <1>11, <2>1, <2>3, CallKeeps
<1> QED
  BY <1>14, <1>15

(* A set unpacked: the loop goes on behind it.                             *)
LEMMA AfterUnpackKeeps ==
  ASSUME IInv, NEW g \in Gens, AfterUnpack(g)
  PROVE  IInv'
<1>1. /\ calls[g].pc = "unpack" /\ Continue(g, calls[g], state, calls[g].at + 1)
      /\ UNCHANGED <<entries, born, checked, known, current, mirrored, tab, recGen, outcome>>
  BY DEF AfterUnpack
<1>2. calls[g] \in Calls /\ calls[g].at \in Nat /\ AtSet(calls[g])
      /\ calls[g].infos \in Seq(Infos)
  BY <1>1, AtThis DEF Looping
<1>3. \A m \in DOMAIN calls[g].infos : Blames(calls[g].infos[m], {})
  BY <1>1 DEF IInv, BlamesRight, CallBlames
<1>4. \A m \in DOMAIN calls[g].infos : m >= calls[g].at + 1 => ~calls[g].infos[m].recovered
  BY <1>2 DEF AtSet
<1>5. state \in [Entries -> States] /\ calls[g].at + 1 \in Nat \ {0}
  BY <1>2 DEF IInv, TypeOK
<1> QED
  BY <1>1, <1>2, <1>3, <1>4, <1>5, ContinueKeeps

-----------------------------------------------------------------------------
(* Every step of tab 2 keeps the invariant.                                *)
LEMMA PageStep == IInv /\ [Next]_vars => IInv'
<1> SUFFICES ASSUME IInv, [Next]_vars PROVE IInv'
  OBVIOUS
<1>1. ASSUME NEW e \in Entries, Toggle(e) PROVE IInv'
  <2>1. checked' \subseteq OnShow
    BY <1>1 DEF IInv, TypeOK, Toggle
  <2> QED
    BY <1>1, <2>1, SelectKeeps DEF Toggle
<1>2. ASSUME NEW on \in BOOLEAN, SelectEvery(on) PROVE IInv'
  <2>1. checked' \subseteq OnShow
    BY <1>2 DEF SelectEvery
  <2> QED
    BY <1>2, <2>1, SelectKeeps DEF SelectEvery
<1>3. ASSUME ShowRecover PROVE IInv'
  <2>1. CASE mirrored = current
    <3>1. /\ UNCHANGED <<entries, born, checked, known, state, mirrored, recGen, calls, outcome>>
          /\ tab' = "recover" /\ current' = current
      BY <1>3, <2>1 DEF ShowRecover
    <3> QED
      BY <3>1, ShowKeeps DEF IInv, TypeOK
  <2> QED
    BY <1>3, <2>1, ShowRecoverKeeps
<1>4. ASSUME ShowSplit PROVE IInv'
  BY <1>4, ShowKeeps DEF ShowSplit, IInv, TypeOK
<1>5. ASSUME NEW c \in Splits \cup {None}, FinishSplit(c) PROVE IInv'
  BY <1>5, ShowKeeps DEF FinishSplit, IInv, TypeOK
<1>6. ASSUME NEW g \in Gens, Step(g) PROVE IInv'
  BY <1>6, ReadHeadKeeps, GiveWayKeeps, StartAssessKeeps, AfterGroupKeeps, AfterCombineKeeps,
     AfterAuditKeeps, AfterShareAtKeeps, AfterUnpackKeeps, ShowOutcomeKeeps DEF Step
<1>7. ASSUME UNCHANGED vars PROVE IInv'
  <2>1. UNCHANGED <<entries, born, checked, known, state, mirrored, recGen, calls, outcome>>
        /\ tab' \in {"split", "recover"} /\ current' \in Splits \cup {None}
    BY <1>7 DEF vars, IInv, TypeOK
  <2> QED
    BY <2>1, ShowKeeps
<1> QED
  BY <1>1, <1>2, <1>3, <1>4, <1>5, <1>6, <1>7, ScanKeeps, PasteKeeps DEF Next

LEMMA PageInvariant == Safe => []IInv
BY PageInit, PageStep, PTL DEF Safe

-----------------------------------------------------------------------------
(* Nothing recoverable is passed over                                      *)

(* The x and the disputes of a sequence of entries.                        *)
LEMMA XsOfEntries ==
  ASSUME NEW es \in Seq(Entries)
  PROVE  /\ XsOf(SharesIn(es)) = {XOf(e) : e \in ToSet(es)}
         /\ \A x : x \in Disputed(SharesIn(es)) <=>
                      \E e, f \in ToSet(es) :
                         XOf(e) = x /\ XOf(f) = x /\ ShareOf[e].text # ShareOf[f].text
<1>1. /\ SharesIn(es) \in Seq(Shares) /\ DOMAIN SharesIn(es) = DOMAIN es
      /\ \A i \in DOMAIN es : SharesIn(es)[i] = ShareOf[es[i]]
  BY SharesInSeq DEF SharesIn
<1>2. XsOf(SharesIn(es)) = {XOf(e) : e \in ToSet(es)}
  BY <1>1 DEF XsOf, XOf, ToSet
<1>3. ASSUME NEW x
      PROVE  x \in Disputed(SharesIn(es)) <=>
                \E e, f \in ToSet(es) :
                   XOf(e) = x /\ XOf(f) = x /\ ShareOf[e].text # ShareOf[f].text
  <2>1. x \in Disputed(SharesIn(es)) <=>
           \E i, j \in DOMAIN es : /\ ShareOf[es[i]].x = x /\ ShareOf[es[j]].x = x
                                   /\ ShareOf[es[i]].text # ShareOf[es[j]].text
    BY <1>1, DisputedDiffer
  <2> QED
    BY <2>1 DEF XOf, ToSet
<1> QED
  BY <1>2, <1>3

(* The entries of one set.                                                 *)
LEMMA MembersOf ==
  ASSUME NEW es \in Seq(Entries), NEW s
  PROVE  /\ Members(es, s) \in Seq(Entries)
         /\ ToSet(Members(es, s)) = {e \in ToSet(es) : ShareOf[e].set = s}
<1> DEFINE S == {e \in Entries : ShareOf[e].set = s}
<1>1. Members(es, s) = Only(es, S)
  BY DEF Members
<1>2. ToSet(es) \subseteq Entries
  BY DEF ToSet
<1> HIDE DEF S
<1>3. Members(es, s) \in Seq(Entries) /\ ToSet(Members(es, s)) = ToSet(es) \cap S
  BY <1>1, OnlyKeeps
<1> QED
  BY <1>2, <1>3 DEF S

(* The shares of a set that are selected.                                  *)
LEMMA HeldOf ==
  ASSUME NEW selected \in Seq(Entries), NEW s
  PROVE  /\ Held(selected, s) \in Seq(Entries)
         /\ ToSet(Held(selected, s)) =
               {e \in ToSet(selected) : Sound(e) /\ ShareOf[e].set = s}
<1> DEFINE S == {e \in Entries : Sound(e)}
<1>1. Held(selected, s) = Members(Only(selected, S), s)
  BY DEF Held
<1>2. ToSet(selected) \subseteq Entries
  BY DEF ToSet
<1> HIDE DEF S
<1>3. Only(selected, S) \in Seq(Entries) /\ ToSet(Only(selected, S)) = ToSet(selected) \cap S
  BY OnlyKeeps
<1>4. /\ Held(selected, s) \in Seq(Entries)
      /\ ToSet(Held(selected, s)) = {e \in ToSet(selected) \cap S : ShareOf[e].set = s}
  BY <1>1, <1>3, MembersOf
<1> QED
  BY <1>2, <1>4 DEF S

(* group has a place for the set of every share.                           *)
LEMMA FirstsReach ==
  ASSUME NEW es \in Seq(Entries)
  PROVE  /\ FirstOfSets(es) \in Seq(Nat)
         /\ \A n \in DOMAIN FirstOfSets(es) : FirstOfSets(es)[n] \in DOMAIN es
         /\ \A e \in ToSet(es) : \E n \in DOMAIN FirstOfSets(es) :
                ShareOf[es[FirstOfSets(es)[n]]].set = ShareOf[e].set
<1> DEFINE all == [n \in DOMAIN es |-> n]
           P == {n \in DOMAIN es : \A m \in 1 .. n - 1 : ShareOf[es[m]].set # ShareOf[es[n]].set}
<1>1. all \in Seq(Nat) /\ ToSet(all) = DOMAIN es
  <2>1. all \in Seq(Nat) /\ DOMAIN all = DOMAIN es /\ \A n \in DOMAIN es : all[n] = n
    OBVIOUS
  <2> HIDE DEF all
  <2> QED
    BY <2>1 DEF ToSet
<1>2. FirstOfSets(es) = Only(all, P)
  BY DEF FirstOfSets
<1> HIDE DEF all, P
<1>3. FirstOfSets(es) \in Seq(Nat) /\ ToSet(FirstOfSets(es)) = DOMAIN es \cap P
  BY <1>1, <1>2, OnlyKeeps
<1>4. \A n \in DOMAIN FirstOfSets(es) : FirstOfSets(es)[n] \in DOMAIN es
  BY <1>3 DEF ToSet
<1>5. ASSUME NEW e \in ToSet(es)
      PROVE  \E n \in DOMAIN FirstOfSets(es) :
                ShareOf[es[FirstOfSets(es)[n]]].set = ShareOf[e].set
  <2> DEFINE same == {n \in DOMAIN es : ShareOf[es[n]].set = ShareOf[e].set}
  <2>1. same # {} /\ same \subseteq Nat /\ DOMAIN es = 1 .. Len(es) /\ Len(es) \in Nat
    BY DEF ToSet
  <2> HIDE DEF same
  <2>2. PICK n \in same : \A m \in same : n <= m
    BY <2>1, LeastNat
  <2>3. n \in DOMAIN es /\ ShareOf[es[n]].set = ShareOf[e].set
    BY <2>2 DEF same
  <2>4. \A m \in 1 .. n - 1 : ShareOf[es[m]].set # ShareOf[es[n]].set
    <3> SUFFICES ASSUME NEW m \in 1 .. n - 1, ShareOf[es[m]].set = ShareOf[es[n]].set PROVE FALSE
      OBVIOUS
    <3>1. m \in DOMAIN es /\ ~(n <= m)
      BY <2>1, <2>3
    <3> QED
      BY <2>2, <2>3, <3>1 DEF same
  <2>5. n \in ToSet(FirstOfSets(es))
    BY <1>3, <2>3, <2>4 DEF P
  <2> QED
    BY <2>3, <2>5 DEF ToSet
<1> QED
  BY <1>3, <1>4, <1>5

(* Two shares at one x of a set that differ are a dispute.                 *)
LEMMA UndisputedAgree ==
  ASSUME NeverDisputed
  PROVE  Agree
<1> DEFINE E == {e \in Entries : born[e] > 0}
           ever == SetToSeq(E)
<1>1. \A s \in Sets : Disputed(SharesIn(Members(ever, s))) = {}
  BY DEF NeverDisputed
<1>2. IsFiniteSet(E) /\ E \in SUBSET Entries
  BY EntriesAssumption, FS_Subset
<1> HIDE DEF E
<1>3. ever \in Seq(Entries) /\ ToSet(ever) = E
  <2>1. ever \in Seq(E) /\ ToSet(ever) = E
    BY <1>2, SetToSeqLists
  <2> QED
    BY <1>2, <2>1
<1> HIDE DEF ever
<1> SUFFICES ASSUME NEW e \in Entries, NEW f \in Entries, born[e] > 0, born[f] > 0,
                    Sound(e), Sound(f), ShareOf[e].set = ShareOf[f].set, XOf(e) = XOf(f),
                    ShareOf[e].text # ShareOf[f].text
             PROVE  FALSE
  BY DEF Agree
<1> DEFINE s == ShareOf[e].set
<1>4. s \in Sets
  BY EntriesAssumption, FaultsAssumption DEF Sound, Parses, Shares, Good, Faulty
<1> DEFINE ms == Members(ever, s)
<1>5. ms \in Seq(Entries) /\ ToSet(ms) = {d \in E : ShareOf[d].set = s}
  BY <1>3, MembersOf
<1>6. e \in ToSet(ms) /\ f \in ToSet(ms)
  BY <1>5 DEF E
<1> HIDE DEF ms
<1>7. XOf(e) \in Disputed(SharesIn(ms))
  BY <1>5, <1>6, XsOfEntries
<1> QED
  BY <1>1, <1>4, <1>7 DEF ms

(* The loop stops at the next set that holds K, and not before all are done. *)
LEMMA ContinueCovers ==
  ASSUME calls \in [Gens -> Calls], NEW g \in Gens, NEW call \in Calls,
         NEW st \in [Entries -> States], \A e \in Entries : st[e] # "disputed",
         NEW n \in Nat, Found(call.selected, call.infos), DoneBefore(call.infos, n),
         Continue(g, call, st, n)
  PROVE  CallCovers(calls[g])' /\ \A e \in Entries : state'[e] # "disputed"
<1> DEFINE ready == {m \in n .. Len(call.infos) : call.infos[m].have >= K}
           stop == IF ready = {} THEN Len(call.infos) ELSE Min(ready)
           others == UNION {ToSet(call.infos[m].members) : m \in (n .. stop) \ {call.primary}}
           marked == Set(st, g, others, "other")
           rest == {e \in ToSet(call.selected) : marked[e] = "none"}
           onward == [call EXCEPT !.pc = "combine", !.at = stop]
           over == [call EXCEPT !.pc = "assessed"]
<1>1. IF ready # {}
      THEN calls' = [calls EXCEPT ![g] = onward] /\ state' = marked
      ELSE /\ calls' = [calls EXCEPT ![g] = over]
           /\ state' = [e \in Entries |->
                           IF e \notin rest \/ ~Reaches(g, e) THEN marked[e]
                           ELSE IF e \notin known THEN "pending"
                           ELSE IF Sound(e) THEN "ok" ELSE "faulty"]
  BY DEF Continue
<1>2. /\ call.infos \in Seq(Infos) /\ DOMAIN call.infos = 1 .. Len(call.infos)
      /\ Len(call.infos) \in Nat
  BY DEF Calls
<1>3. \A e \in Entries : marked[e] # "disputed"
  BY DEF Set
<1> HIDE DEF marked
<1>4. \A e \in Entries : state'[e] # "disputed"
  BY <1>1, <1>3
<1>5. CASE ready # {}
  <2>1. ready \subseteq Nat
    BY <1>2
  <2>2. Min(ready) \in ready /\ \A m \in ready : Min(ready) <= m
    BY <1>5, <2>1, MinIsLeast
  <2>3. stop \in ready /\ \A m \in ready : stop <= m
    BY <1>5, <2>2
  <2> HIDE DEF stop
  <2>4. DoneBefore(call.infos, stop)
    <3> SUFFICES ASSUME NEW m \in DOMAIN call.infos, m < stop, call.infos[m].have >= K
                 PROVE  Done(call.infos[m])
      BY DEF DoneBefore
    <3>1. m \notin ready
      BY <2>1, <2>3, <1>2
    <3>2. m < n
      BY <3>1, <1>2
    <3> QED
      BY <3>2 DEF DoneBefore
  <2>5. calls'[g] = onward
    BY <1>1, <1>5
  <2>6. /\ onward.pc = "combine" /\ onward.at = stop
        /\ onward.infos = call.infos /\ onward.selected = call.selected
    BY DEF Calls
  <2> HIDE DEF onward
  <2>7. CallCovers(calls[g])'
    BY <2>4, <2>5, <2>6 DEF CallCovers, Looping
  <2> QED
    BY <1>4, <2>7
<1>6. CASE ready = {}
  <2>1. DoneBefore(call.infos, Len(call.infos) + 1)
    <3> SUFFICES ASSUME NEW m \in DOMAIN call.infos, call.infos[m].have >= K
                 PROVE  Done(call.infos[m])
      BY DEF DoneBefore
    <3>1. m < n
      BY <1>2, <1>6
    <3> QED
      BY <3>1 DEF DoneBefore
  <2>2. calls'[g] = over
    BY <1>1, <1>6
  <2>3. over.pc = "assessed" /\ over.infos = call.infos /\ over.selected = call.selected
    BY DEF Calls
  <2> HIDE DEF over
  <2>4. CallCovers(calls[g])'
    BY <2>1, <2>2, <2>3 DEF CallCovers, Looping
  <2> QED
    BY <1>4, <2>4
<1> QED
  BY <1>5, <1>6

(* What is found out about a set does not lose it.                         *)
LEMMA FoundStays ==
  ASSUME NEW selected, NEW infos \in Seq(Infos), NEW n \in DOMAIN infos, NEW v \in Infos,
         v.members = infos[n].members, Done(v), Found(selected, infos)
  PROVE  Found(selected, [infos EXCEPT ![n] = v])
<1> DEFINE new == [infos EXCEPT ![n] = v]
<1>1. /\ DOMAIN new = DOMAIN infos /\ new[n] = v
      /\ \A m \in DOMAIN infos : m # n => new[m] = infos[m]
  BY InfoAt
<1> HIDE DEF new
<1>2. \A m \in DOMAIN infos : /\ SetIn(new[m]) = SetIn(infos[m])
                              /\ infos[m].have >= K \/ Done(infos[m])
                                     => new[m].have >= K \/ Done(new[m])
  BY <1>1 DEF SetIn
<1>3. Found(selected, new)
  BY <1>1, <1>2 DEF Found
<1> QED
  BY <1>3 DEF new

LEMMA DoneStays ==
  ASSUME NEW infos \in Seq(Infos), NEW n \in DOMAIN infos, NEW v \in Infos, Done(v),
         NEW m \in {n, n + 1}, DoneBefore(infos, n)
  PROVE  DoneBefore([infos EXCEPT ![n] = v], m)
<1> DEFINE new == [infos EXCEPT ![n] = v]
<1>1. /\ DOMAIN new = DOMAIN infos /\ new[n] = v
      /\ \A i \in DOMAIN infos : i # n => new[i] = infos[i]
  BY InfoAt
<1> HIDE DEF new
<1>2. \A i \in DOMAIN infos : i < m => i = n \/ i < n
  OBVIOUS
<1>3. DoneBefore(new, m)
  BY <1>1, <1>2 DEF DoneBefore
<1> QED
  BY <1>3 DEF new

(* A set done with is settled.                                             *)
LEMMA SettleCovers ==
  ASSUME calls \in [Gens -> Calls], NEW g \in Gens, NEW call \in Calls,
         NEW st, \A e \in Entries : st[e] # "disputed",
         call.at \in DOMAIN call.infos, call.infos[call.at].recovered,
         Found(call.selected, call.infos), DoneBefore(call.infos, call.at),
         Settle(g, call, st)
  PROVE  CallCovers(calls[g])' /\ \A e \in Entries : state'[e] # "disputed"
<1> DEFINE n == call.at
           ms == ToSet(call.infos[n].members)
           have == Cardinality({XOf(e) : e \in ms})
           info == [call.infos[n] EXCEPT !.have = have]
           infos == [call.infos EXCEPT ![n] = info]
           c == [call EXCEPT !.pc = "unpack", !.infos = infos]
<1>1. /\ state' = Set(st, g, {e \in ms : st[e] = "disputed"}, "ok")
      /\ calls' = [calls EXCEPT ![g] = c]
  BY DEF Settle
<1>2. \A e \in Entries : state'[e] # "disputed"
  BY <1>1 DEF Set
<1>3. call.infos \in Seq(Infos) /\ call.infos[n] \in Infos /\ call.infos[n].members \in Seq(Entries)
  <2>1. call.infos \in Seq(Infos)
    BY DEF Calls
  <2>2. call.infos[call.at] \in Infos
    BY <2>1
  <2>3. call.infos[call.at].members \in Seq(Entries)
    BY <2>2 DEF Infos
  <2> QED
    BY <2>1, <2>2, <2>3
<1>4. have \in Nat
  <2>1. ms \in SUBSET Entries
    BY <1>3 DEF ToSet
  <2> HIDE DEF ms
  <2> QED
    BY <2>1, XOfFinite
<1> HIDE DEF have
<1>5. info \in Infos /\ Done(info) /\ info.members = call.infos[n].members
  BY <1>3, <1>4 DEF Infos, Done
<1> HIDE DEF info
<1>6. Found(call.selected, infos)
  BY <1>3, <1>5, FoundStays
<1>7. DoneBefore(infos, n)
  BY <1>3, <1>5, DoneStays
<1> HIDE DEF infos
<1>8. calls'[g] = c
  BY <1>1
<1>9. c.pc = "unpack" /\ c.infos = infos /\ c.selected = call.selected /\ c.at = n
  BY DEF Calls
<1> HIDE DEF c
<1>10. CallCovers(calls[g])'
  BY <1>6, <1>7, <1>8, <1>9 DEF CallCovers, Looping
<1> QED
  BY <1>2, <1>10

(* What is on show stays an entry that was made, so that shares that agree *)
(* agreed before.                                                          *)
LEMMA OthersCover ==
  ASSUME Covers, Agree', \A e \in Entries : born[e] > 0 => born'[e] > 0
  PROVE  /\ Agree /\ EverySetIn(outcome) /\ \A e \in Entries : state[e] # "disputed"
         /\ \A g \in Gens : calls[g] \in Calls /\ calls'[g] = calls[g] => CallCovers(calls[g])'
<1>1. Agree
  BY DEF Agree
<1>2. ASSUME NEW g \in Gens, calls[g] \in Calls, calls'[g] = calls[g] PROVE CallCovers(calls[g])'
  <2>1. CallCovers(calls[g])
    BY <1>1 DEF Covers
  <2>2. calls[g].pc = "group" => ToSet(calls[g].readable) \subseteq Entries
    BY <1>2 DEF Calls, ToSet
  <2> QED
    BY <1>2, <2>1, <2>2 DEF CallCovers
<1> QED
  BY <1>1, <1>2 DEF Covers

(* A step of one call.                                                     *)
LEMMA StepCovers ==
  ASSUME IInv, Covers, NEW g \in Gens, UNCHANGED <<born, outcome>>,
         \A h \in Gens : h # g => calls'[h] = calls[h],
         Agree => CallCovers(calls[g])' /\ \A e \in Entries : state'[e] # "disputed"
  PROVE  Covers'
<1> SUFFICES ASSUME Agree'
             PROVE  /\ \A e \in Entries : state'[e] # "disputed"
                    /\ \A h \in Gens : CallCovers(calls[h])'
                    /\ EverySetIn(outcome')
  BY DEF Covers
<1>1. \A h \in Gens : calls[h] \in Calls
  BY DEF IInv, TypeOK
<1>2. Agree /\ EverySetIn(outcome) /\ \A h \in Gens : h # g => CallCovers(calls[h])'
  BY <1>1, OthersCover
<1> QED
  BY <1>2

(* A change begins a call that has found nothing yet.                      *)
LEMMA UpdateCovers ==
  ASSUME IInv, Covers, Update, UNCHANGED outcome,
         \A e \in Entries : born[e] > 0 => born'[e] > 0,
         \A e \in Entries : state'[e] \in {"none", state[e]}
  PROVE  Covers'
<1> SUFFICES ASSUME Agree'
             PROVE  /\ \A e \in Entries : state'[e] # "disputed"
                    /\ \A h \in Gens : CallCovers(calls[h])'
                    /\ EverySetIn(outcome')
  BY DEF Covers
<1>1. \A h \in Gens : calls[h] \in Calls
  BY DEF IInv, TypeOK
<1>2. /\ Agree /\ EverySetIn(outcome) /\ \A e \in Entries : state[e] # "disputed"
      /\ \A h \in Gens : calls'[h] = calls[h] => CallCovers(calls[h])'
  BY <1>1, OthersCover
<1>3. ASSUME NEW h \in Gens PROVE CallCovers(calls[h])'
  <2>1. CASE h = recGen + 1
    <3>1. calls'[h] = NewCall /\ NewCall.pc = "heads"
      BY <2>1 DEF IInv, TypeOK, Update, NewCall
    <3> QED
      BY <3>1 DEF CallCovers, Looping
  <2>2. CASE h # recGen + 1
    <3>1. calls'[h] = calls[h]
      BY <2>2 DEF IInv, TypeOK, Update
    <3> QED
      BY <1>2, <3>1
  <2> QED
    BY <2>1, <2>2
<1> QED
  BY <1>2, <1>3

(* What is selected is on show, and what is on show was made.              *)
LEMMA StartAssessCovers ==
  ASSUME IInv, Covers, NEW g \in Gens, StartAssess(g)
  PROVE  Covers'
<1> DEFINE sel == Only(entries, checked)
           S == {e \in known : Sound(e)}
           read == Only(sel, S)
           c == [calls[g] EXCEPT !.pc = "group", !.selected = sel, !.readable = read]
<1>1. /\ calls[g].pc = "heads" /\ Unread(g) = {} /\ g = recGen
      /\ calls' = [calls EXCEPT ![g].pc = "group", ![g].selected = sel, ![g].readable = read]
      /\ state' = [e \in Entries |-> IF e \in OnShow THEN "none" ELSE state[e]]
      /\ UNCHANGED <<entries, born, checked, known, current, mirrored, tab, recGen, outcome>>
  BY DEF StartAssess
<1>2. sel \in Seq(Entries) /\ ToSet(sel) = checked /\ checked \subseteq OnShow
  <2>1. entries \in Seq(Entries) /\ checked \subseteq ToSet(entries)
    BY DEF IInv, TypeOK, OnShow
  <2>2. sel \in Seq(Entries) /\ ToSet(sel) = ToSet(entries) \cap checked
    BY <2>1, OnlyKeeps
  <2> QED
    BY <2>1, <2>2 DEF OnShow
<1> HIDE DEF sel, S
<1>3. read \in Seq(Entries) /\ ToSet(read) = ToSet(sel) \cap S
  BY <1>2, OnlyKeeps
<1> HIDE DEF read
<1>4. OnShow \subseteq known /\ \A e \in OnShow : born[e] > 0
  <2>1. \A e \in OnShow : Reaches(g, e) /\ born[e] > 0
    BY <1>1, OnShowEntries DEF IInv, TypeOK, Reaches, ShownAreBorn
  <2> QED
    BY <1>1, <2>1 DEF Unread
<1>5. ToSet(read) = {e \in ToSet(sel) : Sound(e)} /\ \A e \in ToSet(read) : born[e] > 0
  BY <1>2, <1>3, <1>4 DEF S
<1>6. calls[g] \in Calls /\ calls \in [Gens -> Calls]
  BY DEF IInv, TypeOK
<1>7. calls'[g] = c /\ \A h \in Gens : h # g => calls'[h] = calls[h]
  BY <1>1, <1>6
<1>8. c.pc = "group" /\ c.selected = sel /\ c.readable = read
  BY <1>6 DEF Calls
<1> HIDE DEF c
<1>9. CallCovers(calls[g])'
  BY <1>1, <1>5, <1>7, <1>8 DEF CallCovers, Looping
<1>10. Agree => \A e \in Entries : state'[e] # "disputed"
  BY <1>1 DEF Covers
<1> QED
  BY <1>1, <1>7, <1>9, <1>10, StepCovers

(* Without disputes every share of a set counts, so that a set with K      *)
(* shares selected is one the loop stops at.                               *)
LEMMA GroupFinds ==
  ASSUME NEW g \in Gens, NEW selected \in Seq(Entries), NEW es \in Seq(Entries),
         NEW st \in [Entries -> States], NEW bad,
         ToSet(es) = {e \in ToSet(selected) : Sound(e)},
         bad = {}, \A e \in Entries : st[e] # "disputed"
  PROVE  Found(selected, CountedSets(g, es, st, bad))
<1> DEFINE firsts == FirstOfSets(es)
           counted(ms) == Counted(g, ms, st, bad)
           infos == CountedSets(g, es, st, bad)
<1> SUFFICES ASSUME NEW s \in Sets, Enough(selected, s)
             PROVE  \E n \in DOMAIN infos :
                       SetIn(infos[n]) = s /\ (infos[n].have >= K \/ Done(infos[n]))
  BY DEF Found
<1> DEFINE held == Held(selected, s)
           ms == Members(es, s)
<1>1. held \in Seq(Entries) /\ ToSet(held) = {e \in ToSet(es) : ShareOf[e].set = s}
  BY HeldOf
<1>2. ms \in Seq(Entries) /\ ToSet(ms) = ToSet(held)
  BY <1>1, MembersOf
<1>3. Cardinality(Undisputed(SharesIn(held))) >= K
  BY DEF Enough
<1> HIDE DEF held, ms
<1>4. /\ XsOf(SharesIn(held)) = {XOf(e) : e \in ToSet(held)}
      /\ SharesIn(held) \in Seq(Shares)
  BY <1>1, XsOfEntries, SharesInSeq
<1>5. Cardinality(XsOf(SharesIn(held))) >= K /\ XsOf(SharesIn(held)) # {}
  <2>1. /\ IsFiniteSet(XsOf(SharesIn(held))) /\ Cardinality(XsOf(SharesIn(held))) \in Nat
        /\ Undisputed(SharesIn(held)) \subseteq XsOf(SharesIn(held))
    BY <1>4, XsFinite
  <2>2. /\ Cardinality(Undisputed(SharesIn(held))) <= Cardinality(XsOf(SharesIn(held)))
        /\ Cardinality(Undisputed(SharesIn(held))) \in Nat
    BY <2>1, FS_Subset, FS_CardinalityType
  <2>3. Cardinality(XsOf(SharesIn(held))) >= K
    BY <1>3, <2>1, <2>2, KAssumption
  <2>4. XsOf(SharesIn(held)) = {} => Cardinality(XsOf(SharesIn(held))) = 0
    BY FS_EmptySet
  <2> QED
    BY <2>3, <2>4, KAssumption
<1>6. PICK e \in ToSet(es) : ShareOf[e].set = s
  BY <1>1, <1>4, <1>5
<1>7. PICK n \in DOMAIN firsts : ShareOf[es[firsts[n]]].set = s
  BY <1>6, FirstsReach
<1>8. n \in DOMAIN infos /\ infos[n] = Info(ms, Cardinality(counted(ms)))
  BY <1>7 DEF ms, CountedSets, Groups
<1>9. counted(ms) = XsOf(SharesIn(held))
  <2>1. ToSet(ms) \subseteq Entries
    BY <1>2 DEF ToSet
  <2> QED
    BY <1>2, <1>4, <2>1 DEF Counted
<1> HIDE DEF counted, infos
<1>10. infos[n].have >= K /\ infos[n].members = ms
  BY <1>5, <1>8, <1>9 DEF Info
<1>11. ms # <<>>
  <2>1. e \in ToSet(ms)
    BY <1>1, <1>2, <1>6
  <2> QED
    BY <2>1 DEF ToSet
<1>12. SetIn(infos[n]) = s
  <2>1. Head(ms) \in ToSet(ms)
    BY <1>2, <1>11 DEF ToSet
  <2> QED
    BY <1>1, <1>2, <1>10, <2>1 DEF SetIn
<1> QED
  BY <1>8, <1>10, <1>12

LEMMA AfterGroupCovers ==
  ASSUME IInv, Covers, NEW g \in Gens, AfterGroup(g)
  PROVE  Covers'
<1> DEFINE es == calls[g].readable
           bad == InDispute(es)
           st == Set(state, g, bad, "disputed")
           infos == CountedSets(g, es, st, bad)
           c == [calls[g] EXCEPT !.infos = infos, !.primary = Primary(infos)]
<1>1. /\ calls[g].pc = "group" /\ Continue(g, c, st, 1)
      /\ UNCHANGED <<entries, born, checked, known, current, mirrored, tab, recGen, outcome>>
  BY DEF AfterGroup
<1>2. calls[g] \in Calls /\ es \in Seq(Entries) /\ calls \in [Gens -> Calls]
  BY DEF IInv, TypeOK, Calls
<1>3. st \in [Entries -> States]
  <2>1. "disputed" \in States /\ state \in [Entries -> States]
    BY DEF IInv, TypeOK, States
  <2> QED
    BY <2>1, SetStates
<1>4. infos \in Seq(Infos) /\ Primary(infos) \in Nat
  <2> HIDE DEF st, bad
  <2> QED
    BY <1>2, GroupTypes
<1>5. /\ c \in Calls /\ c.infos = infos /\ c.selected = calls[g].selected
      /\ \A h \in Gens : h # g => calls'[h] = calls[h]
  <2>1. /\ c \in Calls /\ c.infos = infos /\ c.selected = calls[g].selected
    BY <1>2, <1>4 DEF Calls
  <2>2. \A h \in Gens : h # g => calls'[h] = calls[h]
    BY <1>1, <1>2 DEF Continue
  <2> QED
    BY <2>1, <2>2
<1>6. ASSUME Agree
      PROVE  CallCovers(calls[g])' /\ \A e \in Entries : state'[e] # "disputed"
  <2>1. /\ ToSet(es) = {e \in ToSet(calls[g].selected) : Sound(e)}
        /\ \A e \in ToSet(es) : born[e] > 0 /\ Sound(e)
        /\ \A e \in Entries : state[e] # "disputed"
    BY <1>1, <1>6 DEF Covers, CallCovers
  <2>2. bad = {}
    <3> SUFFICES ASSUME NEW n \in DOMAIN Groups(es), NEW e \in ToSet(es),
                        XOf(e) \in Disputed(SharesIn(Groups(es)[n]))
                 PROVE  FALSE
      BY DEF InDispute
    <3> DEFINE ms == Groups(es)[n]
    <3>1. PICK s : ms = Members(es, s)
      BY DEF Groups
    <3> HIDE DEF ms
    <3>2. ms \in Seq(Entries) /\ ToSet(ms) = {f \in ToSet(es) : ShareOf[f].set = s}
      BY <1>2, <3>1, MembersOf
    <3>3. PICK d \in ToSet(ms), f \in ToSet(ms) :
              XOf(d) = XOf(e) /\ XOf(f) = XOf(e) /\ ShareOf[d].text # ShareOf[f].text
      BY <3>2, XsOfEntries DEF ms
    <3>4. d \in Entries /\ f \in Entries
      BY <3>2, <1>2 DEF ToSet
    <3> QED
      BY <1>6, <2>1, <3>2, <3>3, <3>4 DEF Agree
  <2>3. \A e \in Entries : st[e] # "disputed"
    <3> HIDE DEF bad
    <3> QED
      BY <2>1, <2>2 DEF Set
  <2>4. calls[g].selected \in Seq(Entries)
    BY <1>2 DEF Calls
  <2> HIDE DEF bad, st
  <2>5. Found(calls[g].selected, infos)
    BY <1>2, <1>3, <2>1, <2>2, <2>3, <2>4, GroupFinds
  <2>6. DoneBefore(infos, 1)
    <3>1. \A m \in DOMAIN infos : ~(m < 1)
      BY <1>4
    <3> QED
      BY <3>1 DEF DoneBefore
  <2> HIDE DEF infos, c
  <2> QED
    BY <1>1, <1>2, <1>3, <1>5, <2>3, <2>5, <2>6, ContinueCovers
<1> HIDE DEF c
<1> QED
  BY <1>1, <1>5, <1>6, StepCovers

(* A call at a set knows the sets before it.                               *)
LEMMA AtThisCovers ==
  ASSUME IInv, Covers, Agree, NEW g \in Gens, calls[g].pc \in Looping
  PROVE  /\ Found(calls[g].selected, calls[g].infos) /\ DoneBefore(calls[g].infos, calls[g].at)
         /\ \A e \in Entries : state[e] # "disputed"
BY DEF Covers, CallCovers

(* A set that is combined is recovered, or has failed and is left behind.  *)
LEMMA AfterCombineCovers ==
  ASSUME IInv, Covers, NEW g \in Gens, AfterCombine(g)
  PROVE  Covers'
<1> DEFINE n == calls[g].at
           shares == SharesIn(This(g).members)
           good == [This(g) EXCEPT !.recovered = TRUE]
           poor == [This(g) EXCEPT !.failed = TRUE]
           goods == [calls[g].infos EXCEPT ![n] = good]
           poors == [calls[g].infos EXCEPT ![n] = poor]
           done == [calls[g] EXCEPT !.infos[n].recovered = TRUE]
           lost == [calls[g] EXCEPT !.infos[n].failed = TRUE]
           audit == [done EXCEPT !.pc = "audit"]
<1>1. /\ calls[g].pc = "combine"
      /\ UNCHANGED <<entries, born, checked, known, current, mirrored, tab, recGen, outcome>>
  BY DEF AfterCombine
<1>2. PICK how \in Solves(shares) :
        IF how # "ok" THEN Continue(g, lost, state, n + 1)
        ELSE IF Len(This(g).members) > K
        THEN calls' = [calls EXCEPT ![g] = audit] /\ UNCHANGED state
        ELSE Settle(g, done, state)
  BY DEF AfterCombine
<1>3. /\ calls[g] \in Calls /\ n \in DOMAIN calls[g].infos /\ calls[g].infos \in Seq(Infos)
      /\ n \in Nat /\ This(g) \in Infos
  BY <1>1, AtThis DEF Looping
<1>4. calls \in [Gens -> Calls] /\ state \in [Entries -> States]
  BY DEF IInv, TypeOK
<1>5. /\ good \in Infos /\ Done(good) /\ good.members = This(g).members /\ good.recovered
      /\ poor \in Infos /\ Done(poor) /\ poor.members = This(g).members
  BY <1>3 DEF Infos, Done
<1>6. done = [calls[g] EXCEPT !.infos = goods] /\ lost = [calls[g] EXCEPT !.infos = poors]
  BY DEF This
<1> HIDE DEF good, poor
<1>7. /\ goods \in Seq(Infos) /\ DOMAIN goods = DOMAIN calls[g].infos /\ goods[n] = good
      /\ poors \in Seq(Infos)
  BY <1>3, <1>5, InfoAt
<1>8. \A h \in Gens : h # g => calls'[h] = calls[h]
  BY <1>2, <1>4 DEF Continue, Settle
<1>9. ASSUME Agree
      PROVE  CallCovers(calls[g])' /\ \A e \in Entries : state'[e] # "disputed"
  <2>1. /\ Found(calls[g].selected, calls[g].infos) /\ DoneBefore(calls[g].infos, n)
        /\ \A e \in Entries : state[e] # "disputed"
    BY <1>1, <1>9, AtThisCovers DEF Looping
  <2>2. /\ Found(calls[g].selected, goods) /\ DoneBefore(goods, n)
        /\ Found(calls[g].selected, poors) /\ DoneBefore(poors, n + 1)
    BY <1>3, <1>5, <2>1, FoundStays, DoneStays DEF This
  <2> HIDE DEF goods, poors, done, lost
  <2>3. /\ done \in Calls /\ done.infos = goods /\ done.at = n /\ done.selected = calls[g].selected
        /\ lost \in Calls /\ lost.infos = poors /\ lost.selected = calls[g].selected
    BY <1>3, <1>6, <1>7 DEF Calls
  <2>4. CASE how # "ok"
    <3>1. Continue(g, lost, state, n + 1) /\ n + 1 \in Nat
      BY <1>2, <1>3, <2>4
    <3> HIDE DEF n
    <3> QED
      BY <1>4, <2>1, <2>2, <2>3, <3>1, ContinueCovers
  <2>5. CASE how = "ok" /\ Len(This(g).members) > K
    <3>1. calls'[g] = audit /\ UNCHANGED state
      BY <1>2, <1>4, <2>5
    <3>2. audit.pc = "audit" /\ audit.infos = goods /\ audit.at = n
          /\ audit.selected = calls[g].selected
      BY <2>3 DEF Calls
    <3> HIDE DEF audit
    <3>3. CallCovers(calls[g])'
      BY <2>2, <3>1, <3>2 DEF CallCovers, Looping
    <3> QED
      BY <2>1, <3>1, <3>3
  <2>6. CASE how = "ok" /\ ~(Len(This(g).members) > K)
    <3>1. Settle(g, done, state)
      BY <1>2, <2>6
    <3> QED
      BY <1>3, <1>4, <1>5, <1>7, <2>1, <2>2, <2>3, <3>1, SettleCovers
  <2> QED
    BY <2>4, <2>5, <2>6
<1> HIDE DEF n
<1> QED
  BY <1>1, <1>8, <1>9, StepCovers

LEMMA AfterAuditCovers ==
  ASSUME IInv, Covers, NEW g \in Gens, AfterAudit(g)
  PROVE  Covers'
<1> DEFINE bad == Audit(SharesIn(This(g).members))
           c == [calls[g] EXCEPT !.pc = "shareAt", !.bad = bad]
<1>1. /\ calls[g].pc = "audit"
      /\ UNCHANGED <<entries, born, checked, known, current, mirrored, tab, recGen, outcome>>
      /\ IF bad = {} THEN Settle(g, calls[g], state)
         ELSE calls' = [calls EXCEPT ![g].pc = "shareAt", ![g].bad = bad] /\ UNCHANGED state
  BY DEF AfterAudit
<1>2. /\ calls[g] \in Calls /\ calls[g].at \in DOMAIN calls[g].infos
      /\ calls[g].infos[calls[g].at].recovered /\ calls \in [Gens -> Calls]
  BY <1>1, AtThis DEF Looping, AtSet, IInv, TypeOK
<1>3. \A h \in Gens : h # g => calls'[h] = calls[h]
  BY <1>1, <1>2 DEF Settle
<1>4. ASSUME Agree
      PROVE  CallCovers(calls[g])' /\ \A e \in Entries : state'[e] # "disputed"
  <2>1. /\ Found(calls[g].selected, calls[g].infos) /\ DoneBefore(calls[g].infos, calls[g].at)
        /\ \A e \in Entries : state[e] # "disputed"
    BY <1>1, <1>4, AtThisCovers DEF Looping
  <2>2. CASE bad = {}
    BY <1>1, <1>2, <2>1, <2>2, SettleCovers
  <2>3. CASE bad # {}
    <3> HIDE DEF bad
    <3>1. calls'[g] = c /\ UNCHANGED state
      BY <1>1, <1>2, <2>3
    <3>2. c.pc = "shareAt" /\ c.infos = calls[g].infos /\ c.at = calls[g].at
          /\ c.selected = calls[g].selected
      BY <1>2 DEF Calls
    <3> HIDE DEF c
    <3>3. CallCovers(calls[g])'
      BY <2>1, <3>1, <3>2 DEF CallCovers, Looping
    <3> QED
      BY <2>1, <3>1, <3>3
  <2> QED
    BY <2>2, <2>3
<1> QED
  BY <1>1, <1>3, <1>4, StepCovers

LEMMA AfterShareAtCovers ==
  ASSUME IInv, Covers, NEW g \in Gens, AfterShareAt(g)
  PROVE  Covers'
<1> DEFINE n == calls[g].at
           x == Min(calls[g].bad)
           off == {e \in ToSet(This(g).members) :
                      XOf(e) = x /\ ShareOf[e] # ShareAt(SetIn(This(g)), x)}
           info == [This(g) EXCEPT !.wrong = @ \cup {x}]
           infos == [calls[g].infos EXCEPT ![n] = info]
           call == [calls[g] EXCEPT !.bad = @ \ {x}, !.infos[n].wrong = @ \cup {x}]
           st == Set(state, g, off, "wrong")
<1>1. /\ calls[g].pc = "shareAt"
      /\ UNCHANGED <<entries, born, checked, known, current, mirrored, tab, recGen, outcome>>
      /\ IF call.bad = {} THEN Settle(g, call, st)
         ELSE calls' = [calls EXCEPT ![g] = call] /\ state' = st
  BY DEF AfterShareAt
<1>2. /\ calls[g] \in Calls /\ n \in DOMAIN calls[g].infos /\ This(g) \in Infos /\ n \in Nat
      /\ calls[g].infos \in Seq(Infos) /\ This(g).recovered /\ calls \in [Gens -> Calls]
      /\ calls[g].bad \subseteq Nat /\ calls[g].bad # {}
  <2>1. calls[g] \in Calls /\ AtSet(calls[g]) /\ CallBlames(calls[g])
    BY <1>1, AtThis DEF Looping, IInv, BlamesRight
  <2> QED
    BY <1>1, <2>1, AtThis DEF Looping, AtSet, IInv, TypeOK, This, CallBlames, Calls
<1>3. x \in Nat
  BY <1>2, MinIsLeast
<1>4. (\A e \in Entries : state[e] # "disputed") => \A e \in Entries : st[e] # "disputed"
  BY DEF Set
<1> HIDE DEF x, st
<1>5. info \in Infos /\ info.members = This(g).members /\ info.recovered /\ Done(info)
  BY <1>2, <1>3 DEF Infos, Done
<1>6. call = [calls[g] EXCEPT !.bad = @ \ {x}, !.infos = infos]
  BY DEF This
<1> HIDE DEF info
<1>7. infos \in Seq(Infos) /\ DOMAIN infos = DOMAIN calls[g].infos /\ infos[n] = info
  BY <1>2, <1>5, InfoAt
<1>8. \A h \in Gens : h # g => calls'[h] = calls[h]
  <2> HIDE DEF call
  <2> QED
    BY <1>1, <1>2 DEF Settle
<1>9. ASSUME Agree
      PROVE  CallCovers(calls[g])' /\ \A e \in Entries : state'[e] # "disputed"
  <2>1. /\ Found(calls[g].selected, calls[g].infos) /\ DoneBefore(calls[g].infos, n)
        /\ \A e \in Entries : st[e] # "disputed"
    BY <1>1, <1>4, <1>9, AtThisCovers DEF Looping
  <2>2. Found(calls[g].selected, infos) /\ DoneBefore(infos, n)
    BY <1>2, <1>5, <2>1, FoundStays, DoneStays DEF This
  <2> HIDE DEF infos, call
  <2>3. /\ call \in Calls /\ call.pc = "shareAt" /\ call.infos = infos /\ call.at = n
        /\ call.selected = calls[g].selected
    BY <1>1, <1>2, <1>6, <1>7 DEF Calls
  <2>4. CASE call.bad = {}
    <3>1. Settle(g, call, st)
      BY <1>1, <2>4
    <3> QED
      BY <1>2, <1>5, <1>7, <2>1, <2>2, <2>3, <3>1, SettleCovers
  <2>5. CASE call.bad # {}
    <3>1. calls'[g] = call /\ state' = st
      BY <1>1, <1>2, <2>5
    <3>2. CallCovers(calls[g])'
      BY <2>2, <2>3, <3>1 DEF CallCovers, Looping
    <3> QED
      BY <2>1, <3>1, <3>2
  <2> QED
    BY <2>4, <2>5
<1> HIDE DEF call
<1> QED
  BY <1>1, <1>8, <1>9, StepCovers

LEMMA AfterUnpackCovers ==
  ASSUME IInv, Covers, NEW g \in Gens, AfterUnpack(g)
  PROVE  Covers'
<1> DEFINE n == calls[g].at
<1>1. /\ calls[g].pc = "unpack" /\ Continue(g, calls[g], state, n + 1)
      /\ UNCHANGED <<entries, born, checked, known, current, mirrored, tab, recGen, outcome>>
  BY DEF AfterUnpack
<1>2. /\ calls[g] \in Calls /\ n \in Nat /\ n \in DOMAIN calls[g].infos
      /\ calls[g].infos[n].recovered /\ calls[g].infos \in Seq(Infos)
      /\ calls \in [Gens -> Calls] /\ state \in [Entries -> States]
  BY <1>1, AtThis DEF Looping, AtSet, IInv, TypeOK
<1>3. \A h \in Gens : h # g => calls'[h] = calls[h]
  BY <1>1, <1>2 DEF Continue
<1>4. ASSUME Agree
      PROVE  CallCovers(calls[g])' /\ \A e \in Entries : state'[e] # "disputed"
  <2>1. /\ Found(calls[g].selected, calls[g].infos) /\ DoneBefore(calls[g].infos, n)
        /\ \A e \in Entries : state[e] # "disputed"
    BY <1>1, <1>4, AtThisCovers DEF Looping
  <2>2. DoneBefore(calls[g].infos, n + 1)
    <3>1. \A m \in DOMAIN calls[g].infos : m < n + 1 => m < n \/ m = n
      BY <1>2
    <3> QED
      BY <1>2, <2>1, <3>1 DEF DoneBefore, Done
  <2>3. n + 1 \in Nat
    BY <1>2
  <2> HIDE DEF n
  <2> QED
    BY <1>1, <1>2, <2>1, <2>2, <2>3, ContinueCovers
<1> HIDE DEF n
<1> QED
  BY <1>1, <1>3, <1>4, StepCovers

(* A call that is over, and the outcome that it shows.                     *)
LEMMA EndCovers ==
  ASSUME IInv, Covers, NEW g \in Gens, calls' = [calls EXCEPT ![g] = NoCall],
         UNCHANGED <<born, state>>,
         outcome' = outcome \/ (Agree => EverySetIn(outcome'))
  PROVE  Covers'
<1> SUFFICES ASSUME Agree'
             PROVE  /\ \A e \in Entries : state'[e] # "disputed"
                    /\ \A h \in Gens : CallCovers(calls[h])'
                    /\ EverySetIn(outcome')
  BY DEF Covers
<1>1. \A h \in Gens : calls[h] \in Calls
  BY DEF IInv, TypeOK
<1>2. /\ Agree /\ EverySetIn(outcome) /\ \A e \in Entries : state[e] # "disputed"
      /\ \A h \in Gens : calls'[h] = calls[h] => CallCovers(calls[h])'
  BY <1>1, OthersCover
<1>3. calls'[g] = NoCall /\ NoCall.pc = "idle" /\ \A h \in Gens : h # g => calls'[h] = calls[h]
  BY DEF IInv, TypeOK, NoCall, NewCall
<1>4. CallCovers(calls[g])'
  BY <1>3 DEF CallCovers, Looping
<1> QED
  BY <1>2, <1>3, <1>4

LEMMA ShowCovers ==
  ASSUME IInv, Covers, NEW g \in Gens, Show(g)
  PROVE  Covers'
<1> DEFINE result == [gen |-> g, selected |-> calls[g].selected,
                      infos |-> calls[g].infos, primary |-> calls[g].primary]
<1>1. /\ calls[g].pc = "assessed" /\ calls' = [calls EXCEPT ![g] = NoCall]
      /\ outcome' = outcome \/ outcome' = result
      /\ UNCHANGED <<entries, born, checked, known, state, current, mirrored, tab, recGen>>
  BY DEF Show
<1>2. ASSUME Agree PROVE EverySetIn(result)
  <2>1. /\ Found(calls[g].selected, calls[g].infos)
        /\ DoneBefore(calls[g].infos, Len(calls[g].infos) + 1)
    BY <1>1, <1>2 DEF Covers, CallCovers
  <2>2. \A n \in DOMAIN calls[g].infos : n < Len(calls[g].infos) + 1
    <3>1. calls[g].infos \in Seq(Infos)
      BY DEF IInv, TypeOK, Calls
    <3> QED
      BY <3>1
  <2>3. \A n \in DOMAIN calls[g].infos :
            calls[g].infos[n].have >= K => Done(calls[g].infos[n])
    BY <2>1, <2>2 DEF DoneBefore
  <2> QED
    BY <2>1, <2>3 DEF EverySetIn, Found, Done, Enough, Held
<1> HIDE DEF result
<1> QED
  BY <1>1, <1>2, EndCovers

(* At first nothing is selected and nothing is under way.                  *)
LEMMA CoversInit == Init => Covers
<1> SUFFICES ASSUME Init PROVE Covers
  OBVIOUS
<1>1. ASSUME NEW g \in Gens PROVE CallCovers(calls[g])
  <2>1. calls[g].pc = "idle"
    BY DEF Init, NoCall, NewCall
  <2> QED
    BY <2>1 DEF CallCovers, Looping
<1>2. ASSUME NEW s \in Sets PROVE ~Enough(<<>>, s)
  <2>1. ToSet(<<>>) = {} /\ <<>> \in Seq(Entries)
    BY DEF ToSet
  <2>2. Held(<<>>, s) \in Seq(Entries) /\ ToSet(Held(<<>>, s)) = {}
    BY <2>1, HeldOf
  <2>3. XsOf(SharesIn(Held(<<>>, s))) = {}
    BY <2>2, XsOfEntries
  <2>4. Undisputed(SharesIn(Held(<<>>, s))) = {}
    BY <2>3 DEF Undisputed
  <2>5. Cardinality(Undisputed(SharesIn(Held(<<>>, s)))) = 0
    BY <2>4, FS_EmptySet
  <2> QED
    BY <2>5, KAssumption DEF Enough
<1>3. EverySetIn(outcome)
  BY <1>2 DEF Init, NoOutcome, EverySetIn, Enough, Held
<1> QED
  BY <1>1, <1>3 DEF Init, Covers

(* No step passes over a set.                                              *)
LEMMA CoversStep == IInv /\ Covers /\ [Next]_vars => Covers'
<1> SUFFICES ASSUME IInv, Covers, [Next]_vars PROVE Covers'
  OBVIOUS
<1>1. ASSUME Update, UNCHANGED <<born, state, outcome>> PROVE Covers'
  BY <1>1, UpdateCovers
<1>2. ASSUME NEW S \in SUBSET Entries, Create(S), Update, UNCHANGED outcome PROVE Covers'
  <2>1. \A e \in Entries : state'[e] \in {"none", state[e]}
    BY <1>2 DEF Create
  <2>2. \A e \in Entries : born[e] > 0 => born'[e] > 0
    BY <1>2 DEF Create, IInv, TypeOK
  <2> QED
    BY <1>2, <2>1, <2>2, UpdateCovers
<1>3. ASSUME UNCHANGED <<born, state, calls, outcome>> PROVE Covers'
  BY <1>3 DEF Covers, Agree, CallCovers
<1>4. ASSUME NEW e \in Entries, Scan(e) PROVE Covers'
  <2>1. Create({e}) \/ UNCHANGED <<born, state>>
    BY <1>4 DEF Scan
  <2>2. Update /\ UNCHANGED outcome
    BY <1>4 DEF Scan
  <2> QED
    BY <1>1, <1>2, <2>1, <2>2
<1>5. ASSUME NEW S \in SUBSET Pasted, Paste(S) PROVE Covers'
  <2>1. Create(S) /\ Update /\ UNCHANGED outcome /\ S \in SUBSET Entries
    BY <1>5 DEF Paste, Pasted
  <2> QED
    BY <1>2, <2>1
<1>6. ASSUME ShowRecover PROVE Covers'
  <2>1. CASE mirrored = current
    BY <1>3, <1>6, <2>1 DEF ShowRecover
  <2>2. CASE mirrored # current
    <3> DEFINE plates == {e \in Entries : SourceOf[e] = current}
    <3>1. Create(plates) /\ Update /\ UNCHANGED outcome /\ plates \in SUBSET Entries
      BY <1>6, <2>2 DEF ShowRecover
    <3> HIDE DEF plates
    <3> QED
      BY <1>2, <3>1
  <2> QED
    BY <2>1, <2>2
<1>7. ASSUME NEW g \in Gens, Step(g) PROVE Covers'
  <2>1. ASSUME NEW e \in Entries, ReadHead(g, e) PROVE Covers'
    BY <1>3, <2>1 DEF ReadHead
  <2>2. ASSUME GiveWay(g) PROVE Covers'
    BY <2>2, EndCovers DEF GiveWay
  <2> QED
    BY <1>7, <2>1, <2>2, StartAssessCovers, AfterGroupCovers, AfterCombineCovers,
       AfterAuditCovers, AfterShareAtCovers, AfterUnpackCovers, ShowCovers DEF Step
<1>8. ASSUME ShowSplit \/ (\E c \in Splits \cup {None} : FinishSplit(c)) \/ UNCHANGED vars
      PROVE  Covers'
  BY <1>3, <1>8 DEF ShowSplit, FinishSplit, vars
<1>9. ASSUME \/ \E e \in Entries : Toggle(e)
             \/ \E on \in BOOLEAN : SelectEvery(on)
      PROVE  Covers'
  BY <1>1, <1>9 DEF Toggle, SelectEvery
<1> QED
  BY <1>4, <1>5, <1>6, <1>7, <1>8, <1>9 DEF Next

LEMMA PageCovers == Safe => []Covers
BY PageInvariant, CoversInit, CoversStep, PTL DEF Safe

-----------------------------------------------------------------------------
(* Every variable of tab 2 keeps its type.                                 *)
THEOREM RecoverPageTypeCorrect == Safe => []TypeOK
BY PageInvariant, PTL DEF IInv

(* At rest, tab 2 shows the outcome of the latest change, of the shares    *)
(* that are selected now, all of them verified.                            *)
THEOREM PageSettlesOnLatest == Safe => []SettledOutcomeIsLatest
<1>1. IInv => SettledOutcomeIsLatest
  <2> SUFFICES ASSUME IInv, Quiet, recGen > 0
               PROVE  /\ outcome.gen = recGen
                      /\ ToSet(outcome.selected) = checked /\ OnShow \subseteq known
    BY DEF SettledOutcomeIsLatest
  <2>1. recGen \in Gens
    BY MaxGenAssumption DEF IInv, TypeOK, Gens
  <2> QED
    BY <2>1 DEF IInv, LatestHolds, Quiet
<1> QED
  BY <1>1, PageInvariant, PTL

(* However calls overlap, a set shown as recovered holds K right shares    *)
(* and the plates blamed are exactly those off it.                         *)
THEOREM PageBlamesRight == Safe => []BlameSurvivesOverlap
<1>1. IInv => BlameSurvivesOverlap
  BY DEF IInv, BlamesRight, BlameSurvivesOverlap, Blames
<1> QED
  BY <1>1, PageInvariant, PTL

(* As long as no two shares ever on show differ at one x of one set, the   *)
(* outcome recovers every set with K selected shares, or says that it      *)
(* failed: the loop over the sets passes none over.                        *)
THEOREM PageRecoversUndisputed == Safe => []RecoversUndisputed
<1>1. Covers => RecoversUndisputed
  BY UndisputedAgree DEF Covers, RecoversUndisputed
<1> QED
  BY <1>1, PageCovers, PTL

(* Tab 2 implements the safety part of LatestOnly.                         *)
THEOREM PageShowsLatestOutcome == Safe => Latest2!Safe
<1>1. Init => Latest2!Init
  BY DEF Init, NoOutcome, Latest2!Init
<1>2. IInv /\ [Next]_vars => [Latest2!Next]_Latest2!lvars
  <2> SUFFICES ASSUME IInv, [Next]_vars PROVE [Latest2!Next]_Latest2!lvars
    OBVIOUS
  <2> USE DEF Latest2!Next, Latest2!Ask, Latest2!Present, Latest2!lvars
  <2>1. ASSUME Update, UNCHANGED outcome PROVE Latest2!Next
    BY <2>1 DEF Update
  <2>2. ASSUME NEW g \in Gens, Step(g) PROVE [Latest2!Next]_Latest2!lvars
    <3>1. CASE Show(g)
      <4>1. g = recGen => outcome.gen # recGen
        BY <3>1 DEF Show, IInv, LatestHolds
      <4> QED
        BY <3>1, <4>1 DEF Show
    <3>2. CASE ~Show(g)
      BY <2>2, <3>2 DEF Step, ReadHead, GiveWay, StartAssess, AfterGroup, AfterCombine,
         AfterAudit, AfterShareAt, AfterUnpack
    <3> QED
      BY <3>1, <3>2
  <2> QED
    BY <2>1, <2>2 DEF Next, Toggle, SelectEvery, Scan, Paste, ShowRecover, ShowSplit,
       FinishSplit, vars
<1> QED
  BY <1>1, <1>2, PageInvariant, PTL DEF Safe, Latest2!Safe
=============================================================================
