----------------------------- MODULE RecoverPage -----------------------------
(***************************************************************************)
(* Tab 2 of the web page (site/app.js).  rec.entries holds the shares on   *)
(* show.  Every change of them calls updateRec, an async function that     *)
(* verifies new shares (readHeads), works out the state of each selected   *)
(* one and recovers what it can (assess), and shows the outcome.  It gives *)
(* way at every await, so that calls of several generations are under way  *)
(* at once, and all of them write the state fields of the same entries.    *)
(* recGen tells a call whether it is the latest.                           *)
(***************************************************************************)
EXTENDS ShareSets

CONSTANTS
    Entries,     \* what can be on show
    ShareOf,     \* the share in each entry
    SourceOf,    \* "scan", "paste" or the split that the entry mirrors
    Splits,      \* splits that tab 1 may have on show
    SplitSet,    \* the set of each split
    None,        \* no split
    MaxGen       \* bound on the number of changes

ASSUME MaxGenAssumption == MaxGen \in Nat
ASSUME EntriesAssumption == IsFiniteSet(Entries) /\ ShareOf \in [Entries -> Shares]

VARIABLES
    entries,   \* rec.entries
    born,      \* the generation in which an entry became the object it is
    checked,   \* e.checked
    known,     \* e.intrinsic is set, and e.head if the share parses
    state,     \* e.state
    current,   \* the split on show in tab 1
    mirrored,  \* rec.signature: the split that entries mirrors
    tab,       \* the tab on show
    recGen,    \* the latest generation
    calls,     \* the calls of updateRec, by generation
    outcome    \* recOutcome, of generation 0 before there is one

vars == <<entries, born, checked, known, state, current, mirrored, tab, recGen,
          calls, outcome>>

Gens == 1 .. MaxGen

OnShow == ToSet(entries)
Sound(e) == Parses(ShareOf[e])
XOf(e) == ShareOf[e].x
SharesIn(es) == [n \in DOMAIN es |-> ShareOf[es[n]]]

\* A set that assess found: its entries, what it counts and what it found out.
Info(es, have) == [members |-> es, have |-> have, recovered |-> FALSE,
                   failed |-> FALSE, wrong |-> {}]
SetIn(info) == ShareOf[Head(info.members)].set

NewCall == [pc |-> "heads", selected |-> <<>>, readable |-> <<>>, infos |-> <<>>, primary |-> 0,
            at |-> 0, bad |-> {}]
NoCall == [NewCall EXCEPT !.pc = "idle"]
NoOutcome == [gen |-> 0, selected |-> <<>>, infos |-> <<>>, primary |-> 0]

Init == /\ entries = <<>>
        /\ born = [e \in Entries |-> 0]
        /\ checked = {}
        /\ known = {}
        /\ state = [e \in Entries |-> "none"]
        /\ current = None
        /\ mirrored = None
        /\ tab = "split"
        /\ recGen = 0
        /\ calls = [g \in Gens |-> NoCall]
        /\ outcome = NoOutcome

-----------------------------------------------------------------------------
(* What the user and the camera do.  Each of these ends in updateRec.      *)

\* updateRec up to its first await.
Update == /\ recGen < MaxGen
          /\ recGen' = recGen + 1
          /\ calls' = [calls EXCEPT ![recGen + 1] = NewCall]

\* New objects for the entries in S: unverified and without a state.
Create(S) == /\ born' = [e \in Entries |-> IF e \in S THEN recGen + 1 ELSE born[e]]
             /\ known' = known \ S
             /\ state' = [e \in Entries |-> IF e \in S THEN "none" ELSE state[e]]

\* A click on a plate.
Toggle(e) ==
    /\ tab = "recover"
    /\ e \in OnShow
    /\ checked' = IF e \in checked THEN checked \ {e} ELSE checked \cup {e}
    /\ Update
    /\ UNCHANGED <<entries, born, known, state, current, mirrored, tab, outcome>>

\* The buttons that select every plate and none.
SelectEvery(on) ==
    /\ tab = "recover"
    /\ checked' = IF on THEN OnShow ELSE {}
    /\ Update
    /\ UNCHANGED <<entries, born, known, state, current, mirrored, tab, outcome>>

\* addScanned: a share not on show yet, or one on show and not selected.
Scan(e) ==
    /\ tab = "recover"
    /\ SourceOf[e] = "scan"
    /\ LET same == {n \in DOMAIN entries : ShareOf[entries[n]] = ShareOf[e]}
       IN  IF same = {}
           THEN /\ entries' = Append(entries, e)
                /\ checked' = checked \cup {e}
                /\ Create({e})
           ELSE /\ entries[Min(same)] \notin checked
                /\ checked' = checked \cup {entries[Min(same)]}
                /\ UNCHANGED <<entries, born, known, state>>
    /\ Update
    /\ UNCHANGED <<current, mirrored, tab, outcome>>

Pasted == {e \in Entries : SourceOf[e] = "paste"}

(* readPaste: the entries of the text box are made anew, and one whose     *)
(* share was there before stays selected or not.                           *)
Paste(S) ==
    /\ tab = "recover"
    /\ LET kept == Only(entries, Entries \ Pasted)
       IN  /\ entries' = kept \o SetToSeq(S)
           /\ checked' = (checked \ Pasted) \cup (S \ OnShow) \cup (S \cap checked)
           /\ Create(S)
    /\ Update
    /\ UNCHANGED <<current, mirrored, tab, outcome>>

(* syncRecover: the plates of the current split, unselected, take the      *)
(* place of earlier ones and of what the camera read for those.            *)
ShowRecover ==
    /\ tab = "split" \/ mirrored # current
    /\ tab' = "recover"
    /\ IF mirrored = current
       THEN UNCHANGED <<entries, born, checked, known, state, mirrored, recGen, calls>>
       ELSE LET plates == {e \in Entries : SourceOf[e] = current}
                kept == Only(entries, Pasted)
            IN  /\ mirrored' = current
                /\ entries' = SetToSeq(plates) \o kept
                /\ checked' = checked \cap ToSet(kept)
                /\ Create(plates)
                /\ Update
    /\ UNCHANGED <<current, outcome>>

ShowSplit == /\ tab = "recover"
             /\ tab' = "split"
             /\ UNCHANGED <<entries, born, checked, known, state, current, mirrored,
                            recGen, calls, outcome>>

(* runSplit puts a split on show or clears it, whichever tab is shown: it  *)
(* started 300 ms after the last key and has awaited the shares.           *)
FinishSplit(c) ==
    /\ c # current
    /\ current' = c
    /\ UNCHANGED <<entries, born, checked, known, state, mirrored, tab, recGen,
                   calls, outcome>>

-----------------------------------------------------------------------------
(* updateRec, one step between two awaits *)

\* A call writes only the objects that were there when it started.
Reaches(g, e) == e \in OnShow /\ born[e] <= g
Unread(g) == {e \in OnShow : Reaches(g, e) /\ e \notin known}

\* readHeads: one share verified.
ReadHead(g, e) ==
    /\ calls[g].pc = "heads"
    /\ e \in Unread(g)
    /\ known' = known \cup {e}
    /\ UNCHANGED <<entries, born, checked, state, current, mirrored, tab, recGen,
                   calls, outcome>>

\* Superseded while it read heads.
GiveWay(g) ==
    /\ calls[g].pc = "heads"
    /\ Unread(g) = {}
    /\ g # recGen
    /\ calls' = [calls EXCEPT ![g] = NoCall]
    /\ UNCHANGED <<entries, born, checked, known, state, current, mirrored, tab,
                   recGen, outcome>>

\* assess up to its first await: what is selected, and every state reset.
StartAssess(g) ==
    /\ calls[g].pc = "heads"
    /\ Unread(g) = {}
    /\ g = recGen
    /\ LET selected == Only(entries, checked)
       IN  calls' = [calls EXCEPT ![g].pc = "group", ![g].selected = selected,
                        ![g].readable = Only(selected, {e \in known : Sound(e)})]
    /\ state' = [e \in Entries |-> IF e \in OnShow THEN "none" ELSE state[e]]
    /\ UNCHANGED <<entries, born, checked, known, current, mirrored, tab, recGen,
                   outcome>>

Set(st, g, es, s) == [e \in Entries |-> IF e \in es /\ Reaches(g, e) THEN s ELSE st[e]]

(* The loop over the sets from number n on, up to its next await: a set    *)
(* that is not the primary one is another set, and one that holds fewer    *)
(* than K plates is passed over.                                           *)
Continue(g, call, st, n) ==
    LET ready == {m \in n .. Len(call.infos) : call.infos[m].have >= K}
        stop == IF ready = {} THEN Len(call.infos) ELSE Min(ready)
        others == UNION {ToSet(call.infos[m].members) : m \in (n .. stop) \ {call.primary}}
        marked == Set(st, g, others, "other")
        rest == {e \in ToSet(call.selected) : marked[e] = "none"}
    IN  IF ready # {}
        THEN /\ calls' = [calls EXCEPT ![g] = [call EXCEPT !.pc = "combine", !.at = stop]]
             /\ state' = marked
        ELSE /\ calls' = [calls EXCEPT ![g] = [call EXCEPT !.pc = "assessed"]]
             /\ state' = [e \in Entries |->
                             IF e \notin rest \/ ~Reaches(g, e) THEN marked[e]
                             ELSE IF e \notin known THEN "pending"
                             ELSE IF Sound(e) THEN "ok" ELSE "faulty"]

\* The sets that group sorts shares into, in order of their first share.
Members(es, s) == Only(es, {e \in Entries : ShareOf[e].set = s})
FirstOfSets(es) ==
    Only([n \in DOMAIN es |-> n],
         {n \in DOMAIN es : \A m \in 1 .. n - 1 : ShareOf[es[m]].set # ShareOf[es[n]].set})

Groups(es) == [n \in DOMAIN FirstOfSets(es) |->
                  Members(es, ShareOf[es[FirstOfSets(es)[n]]].set)]

\* The shares whose x another share of their set disputes.
InDispute(es) == {e \in ToSet(es) : \E n \in DOMAIN Groups(es) :
                     e \in ToSet(Groups(es)[n]) /\ XOf(e) \in Disputed(SharesIn(Groups(es)[n]))}

(* The plates of each set, by the x of those of its shares that are not    *)
(* marked as disputed in st; bad are those that are, reached or not.       *)
Counted(g, ms, st, bad) ==
    {XOf(e) : e \in {f \in ToSet(ms) : IF Reaches(g, f) THEN st[f] # "disputed"
                                       ELSE f \notin bad}}
CountedSets(g, es, st, bad) ==
    LET sets == Groups(es)
    IN  [n \in DOMAIN sets |-> Info(sets[n], Cardinality(Counted(g, sets[n], st, bad)))]

(* The set to recover: that of the current split; without it, the set with *)
(* the most plates of those that hold K, or of all when there is no split. *)
Primary(infos) ==
    LET mine == {m \in DOMAIN infos : current # None /\ SetIn(infos[m]) = SplitSet[current]}
        ready == {m \in DOMAIN infos : infos[m].have >= K}
        pool == IF current # None \/ ready # {} THEN ready ELSE DOMAIN infos
        best == {m \in pool : \A o \in pool : infos[o].have <= infos[m].have}
    IN  CASE mine # {} -> Min(mine) [] mine = {} /\ best # {} -> Min(best) [] OTHER -> 0

(* After group: the disputed shares are marked, and the sets counted.      *)
AfterGroup(g) ==
    /\ calls[g].pc = "group"
    /\ LET es == calls[g].readable
           bad == InDispute(es)
           st == Set(state, g, bad, "disputed")
           infos == CountedSets(g, es, st, bad)
       IN  Continue(g, [calls[g] EXCEPT !.infos = infos, !.primary = Primary(infos)],
                    st, 1)
    /\ UNCHANGED <<entries, born, checked, known, current, mirrored, tab, recGen, outcome>>

This(g) == calls[g].infos[calls[g].at]

\* The set is settled: its disputed shares that are not wrong are right.
Settle(g, call, st) ==
    LET ms == ToSet(call.infos[call.at].members)
        open == {e \in ms : st[e] = "disputed"}
    IN  /\ state' = Set(st, g, open, "ok")
        /\ calls' = [calls EXCEPT ![g] = [call EXCEPT !.pc = "unpack",
                        !.infos[call.at].have = Cardinality({XOf(e) : e \in ms})]]

AfterCombine(g) ==
    /\ calls[g].pc = "combine"
    /\ LET n == calls[g].at
           done == [calls[g] EXCEPT !.infos[n].recovered = TRUE]
       IN  \E how \in Solves(SharesIn(This(g).members)) :
             IF how # "ok"
             THEN Continue(g, [calls[g] EXCEPT !.infos[n].failed = TRUE], state, n + 1)
             ELSE IF Len(This(g).members) > K
             THEN /\ calls' = [calls EXCEPT ![g] = [done EXCEPT !.pc = "audit"]]
                  /\ UNCHANGED state
             ELSE Settle(g, done, state)
    /\ UNCHANGED <<entries, born, checked, known, current, mirrored, tab, recGen, outcome>>

\* Fault: the x to blame are read from the entries instead of from audit.
AfterAuditStates(g) ==
    /\ calls[g].pc = "audit"
    /\ LET off == {XOf(e) : e \in {f \in ToSet(This(g).members) :
                                       state[f] \in {"wrong", "disputed"}}}
       IN  Settle(g, [calls[g] EXCEPT !.infos[calls[g].at].wrong = off], state)
    /\ UNCHANGED <<entries, born, checked, known, current, mirrored, tab, recGen, outcome>>

AfterAudit(g) ==
    /\ calls[g].pc = "audit"
    /\ LET bad == Audit(SharesIn(This(g).members))
       IN  IF bad = {} THEN Settle(g, calls[g], state)
           ELSE /\ calls' = [calls EXCEPT ![g].pc = "shareAt", ![g].bad = bad]
                /\ UNCHANGED state
    /\ UNCHANGED <<entries, born, checked, known, current, mirrored, tab, recGen, outcome>>

\* The lowest of the bad x: its share as it should be, to compare with.
AfterShareAt(g) ==
    /\ calls[g].pc = "shareAt"
    /\ LET n == calls[g].at
           x == Min(calls[g].bad)
           off == {e \in ToSet(This(g).members) :
                      XOf(e) = x /\ ShareOf[e] # ShareAt(SetIn(This(g)), x)}
           call == [calls[g] EXCEPT !.bad = @ \ {x}, !.infos[n].wrong = @ \cup {x}]
           st == Set(state, g, off, "wrong")
       IN  IF call.bad = {} THEN Settle(g, call, st)
           ELSE calls' = [calls EXCEPT ![g] = call] /\ state' = st
    /\ UNCHANGED <<entries, born, checked, known, current, mirrored, tab, recGen, outcome>>

\* Fault: the loop does not go on to the next set.
AfterUnpackAgain(g) ==
    /\ calls[g].pc = "unpack"
    /\ Continue(g, calls[g], state, calls[g].at)
    /\ UNCHANGED <<entries, born, checked, known, current, mirrored, tab, recGen, outcome>>

\* Fault: the loop ends with the first set it recovers.
AfterUnpackLast(g) ==
    /\ calls[g].pc = "unpack"
    /\ Continue(g, calls[g], state, Len(calls[g].infos) + 1)
    /\ UNCHANGED <<entries, born, checked, known, current, mirrored, tab, recGen, outcome>>

AfterUnpack(g) ==
    /\ calls[g].pc = "unpack"
    /\ Continue(g, calls[g], state, calls[g].at + 1)
    /\ UNCHANGED <<entries, born, checked, known, current, mirrored, tab, recGen, outcome>>

\* Fault: no second look at recGen.
ShowAny(g) ==
    /\ calls[g].pc = "assessed"
    /\ calls' = [calls EXCEPT ![g] = NoCall]
    /\ outcome' = [gen |-> g, selected |-> calls[g].selected,
                   infos |-> calls[g].infos, primary |-> calls[g].primary]
    /\ UNCHANGED <<entries, born, checked, known, state, current, mirrored, tab, recGen>>

\* The rest of updateRec: the outcome is shown unless a newer call has begun.
Show(g) ==
    /\ calls[g].pc = "assessed"
    /\ calls' = [calls EXCEPT ![g] = NoCall]
    /\ outcome' = IF g # recGen THEN outcome
                  ELSE [gen |-> g, selected |-> calls[g].selected,
                        infos |-> calls[g].infos, primary |-> calls[g].primary]
    /\ UNCHANGED <<entries, born, checked, known, state, current, mirrored, tab, recGen>>

Step(g) == \/ \E e \in Entries : ReadHead(g, e)
           \/ GiveWay(g) \/ StartAssess(g) \/ AfterGroup(g) \/ AfterCombine(g)
           \/ AfterAudit(g) \/ AfterShareAt(g) \/ AfterUnpack(g) \/ Show(g)

Next == \/ \E e \in Entries : Toggle(e) \/ Scan(e)
        \/ \E on \in BOOLEAN : SelectEvery(on)
        \/ \E S \in SUBSET Pasted : Paste(S)
        \/ ShowRecover \/ ShowSplit
        \/ \E c \in Splits \cup {None} : FinishSplit(c)
        \/ \E g \in Gens : Step(g)

Safe == Init /\ [][Next]_vars

(* The event loop resumes every call that waits; the user need not act.    *)
(* This is WF_vars(Step(g)): a call has a next step until it is over.      *)
Resumed(g) == []<>(calls[g].pc = "idle") \/ []<><<Step(g)>>_vars
Spec == Safe /\ \A g \in Gens : Resumed(g)

-----------------------------------------------------------------------------
(* Properties *)

Quiet == \A g \in Gens : calls[g].pc = "idle"

(* What is shown once the page is at rest is the outcome of the latest     *)
(* change, of the shares that are selected now, all of them verified: no   *)
(* slower call of an earlier generation puts its outcome back.             *)
SettledOutcomeIsLatest ==
    Quiet /\ recGen > 0 =>
        /\ outcome.gen = recGen
        /\ ToSet(outcome.selected) = checked
        /\ OnShow \subseteq known

(* Whatever overlaps, a set shown as recovered holds K right shares, and   *)
(* the plates it tells the user to replace are exactly those off the set:  *)
(* the blame never rests on what another call wrote.                       *)
BlameSurvivesOverlap ==
    \A n \in DOMAIN outcome.infos :
        LET info == outcome.infos[n]
            shares == SharesIn(info.members)
        IN  info.recovered =>
                /\ Cardinality(RightXs(shares)) >= K
                /\ info.wrong = Audit(shares)

(* assess, app.js:781: it "recovers every set that holds k of them", the   *)
(* selected shares, or says why a set with K undisputed plates failed.     *)
EverySetIn(result) ==
    \A s \in Sets :
        LET held == Members(Only(result.selected, {e \in Entries : Sound(e)}), s)
            infos == {n \in DOMAIN result.infos : SetIn(result.infos[n]) = s}
        IN  Cardinality(Undisputed(SharesIn(held))) >= K =>
                \E n \in infos : result.infos[n].recovered \/ result.infos[n].failed
RecoversEverySet == EverySetIn(outcome)

(* That holds, whatever overlaps, as long as no two shares ever on show    *)
(* differ at one x of one set.                                             *)
NeverDisputed ==
    LET ever == SetToSeq({e \in Entries : born[e] > 0})
    IN  \A s \in Sets : Disputed(SharesIn(Members(ever, s))) = {}
RecoversUndisputed == NeverDisputed => EverySetIn(outcome)

(* app.js:83: the entries are plates "mirrored from the current split",    *)
(* codes the camera read and shares in the text box.                       *)
MirrorsCurrentSplit ==
    tab = "recover" => \A e \in OnShow : SourceOf[e] \in Splits => SourceOf[e] = current

(* Every change is settled in the end: each call runs to its end. *)
Settles == <>[]Quiet

(* The outcome on show is never replaced by that of an earlier change, and *)
(* the latest one is shown in the end.                                     *)
Latest2 == INSTANCE LatestOnly WITH asked <- recGen, shown <- outcome.gen
ShowsLatest == Latest2!Spec
=============================================================================
