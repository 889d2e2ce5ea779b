------------------------------- MODULE Recover -------------------------------
(***************************************************************************)
(* descbackup recover and descbackup replace (cmd/descbackup/main.go) on   *)
(* one input: Scan's finds, Group over them (shaqr.go), then for every set *)
(* open, which tries Combine on the set and then on each choice of one     *)
(* text for each disputed x, and a report.  Shares are named by their      *)
(* position in the input, which stands for their line.                     *)
(***************************************************************************)
EXTENDS ShareSets

CONSTANTS
    Inputs,       \* the inputs given: sequences of Shares and Undecoded
    Undecoded,    \* text after SHAQR: that does not decode
    Descriptors,  \* the sets whose payload is a packed descriptor
    MaxChoices,   \* 64 in the code
    Commands,     \* subset of {"recover", "replace"}
    Args,         \* for replace: records of x, n (the -n flag or 0)
    WalletN       \* defaultN of a recovered descriptor, 0 when it has none

ASSUME InputsAssumption == Inputs \subseteq Seq(Shares \cup {Undecoded})
ASSUME UndecodedAssumption == Undecoded \notin Shares
ASSUME DescriptorsAssumption == Descriptors \subseteq Sets
ASSUME MaxChoicesAssumption == MaxChoices \in Nat \ {0}
ASSUME CommandsAssumption == Commands \subseteq {"recover", "replace"}
ASSUME ArgsAssumption == Args \subseteq [x : 1 .. 255, n : 0 .. 255]
ASSUME WalletAssumption == WalletN \in {0} \cup K .. 255

VARIABLES
    command, args, input,
    pc,        \* the function at work
    i,         \* Group: the next position of the input
    groups,    \* Group: the sets, each as the positions of its shares
    rejected,  \* Group: positions left out, in input order when it returns
    j,         \* recoverSets: the set being opened
    todo,      \* open: the choices not tried yet
    opened,    \* open: its error, "ok" for none, and the positions it solved from
    results,   \* recoverSets: the sets that held K shares
    said,      \* what the log says
    printed,   \* the lines printed
    exit       \* "none" while running, then "ok" or "error"

vars == <<command, args, input, pc, i, groups, rejected, j, todo, opened,
          results, said, printed, exit>>

At(p) == input[p]
GroupOf(ps) == [n \in DOMAIN ps |-> At(ps[n])]
Unopened == [err |-> "none", solving |-> <<>>]

\* A line of the log: what it says, of which set (by number), at which position.
Says(kind, set, at) == [kind |-> kind, set |-> set, at |-> at]

Init == /\ command \in Commands
        /\ args \in (IF command = "replace" THEN Args ELSE {[x |-> 1, n |-> 0]})
        /\ input \in Inputs
        /\ pc = "group"
        /\ i = 1
        /\ groups = <<>>
        /\ rejected = <<>>
        /\ j = 1
        /\ todo = <<>>
        /\ opened = Unopened
        /\ results = <<>>
        /\ said = {}
        /\ printed = <<>>
        /\ exit = "none"

-----------------------------------------------------------------------------
(* Reading and grouping *)

Exits(how) == pc' = "exited" /\ exit' = how

NothingFound ==
    /\ pc = "group"
    /\ input = <<>>
    /\ Exits("error")
    /\ UNCHANGED <<command, args, input, i, groups, rejected, j, todo, opened,
                   results, said, printed>>

\* recoverSets: text that Scan found and could not decode joins no plates.
SkipUndecoded ==
    /\ pc = "group"
    /\ i <= Len(input)
    /\ At(i) = Undecoded
    /\ said' = said \cup {Says("undecoded", 0, i)}
    /\ i' = i + 1
    /\ UNCHANGED <<command, args, input, pc, groups, rejected, j, todo, opened,
                   results, printed, exit>>

RejectFaulty ==
    /\ pc = "group"
    /\ i <= Len(input)
    /\ At(i) # Undecoded
    /\ ~Parses(At(i))
    /\ rejected' = Append(rejected, i)
    /\ i' = i + 1
    /\ UNCHANGED <<command, args, input, pc, groups, j, todo, opened, results,
                   said, printed, exit>>

(* Fault: only the last group is compared. *)
JoinLastGroup ==
    /\ pc = "group"
    /\ i <= Len(input)
    /\ At(i) # Undecoded
    /\ Parses(At(i))
    /\ groups' = IF groups # <<>> /\ At(Head(Last(groups))).set = At(i).set
                 THEN [groups EXCEPT ![Len(groups)] = Append(@, i)]
                 ELSE Append(groups, <<i>>)
    /\ i' = i + 1
    /\ UNCHANGED <<command, args, input, pc, rejected, j, todo, opened, results,
                   said, printed, exit>>

\* The group of a share is the first with its key, or a new one at the end.
JoinGroup ==
    /\ pc = "group"
    /\ i <= Len(input)
    /\ At(i) # Undecoded
    /\ Parses(At(i))
    /\ LET same == {g \in DOMAIN groups : At(Head(groups[g])).set = At(i).set}
       IN  groups' = IF same = {} THEN Append(groups, <<i>>)
                     ELSE [g \in DOMAIN groups |-> IF g \in same
                              THEN Append(groups[g], i) ELSE groups[g]]
    /\ i' = i + 1
    /\ UNCHANGED <<command, args, input, pc, rejected, j, todo, opened, results,
                   said, printed, exit>>

\* Fault: the first text at a disputed x is not marked.
LaterDisputedAt == {p \in DOMAIN input : \E g \in DOMAIN groups :
                       /\ p \in ToSet(groups[g])
                       /\ \E q \in ToSet(groups[g]) :
                             q < p /\ At(q).x = At(p).x /\ At(q) # At(p)}

(* Group's second loop, its sort, and the report of what it left out: each *)
(* faulty share by its line and each disputed x once, with all its lines.  *)
DisputedAt == {p \in DOMAIN input : \E g \in DOMAIN groups :
                  /\ p \in ToSet(groups[g])
                  /\ At(p).x \in Disputed(GroupOf(groups[g]))}
MarkDisputed ==
    /\ pc = "group"
    /\ input # <<>>
    /\ i > Len(input)
    /\ LET out == ToSet(rejected) \cup DisputedAt
       IN  /\ rejected' = Ascending(out)
           /\ said' = said \cup {Says("left out", 0, p) : p \in out}
    /\ pc' = "open"
    /\ UNCHANGED <<command, args, input, i, groups, j, todo, opened, results,
                   printed, exit>>

-----------------------------------------------------------------------------
(* Opening one set *)

(* choices: the shares at undisputed x, and to each such set one text for  *)
(* every disputed x, in order of x and of first appearance; nothing when   *)
(* they pass the bound on the way.                                         *)
BaseChoice(ps) == Only(ps, {p \in ToSet(ps) : At(p).x \notin Disputed(GroupOf(ps))})
FirstTexts(ps, x) ==
    Only(ps, {p \in ToSet(ps) : /\ At(p).x = x
                                /\ \A q \in ToSet(ps) : q < p => At(q) # At(p)})

\* Each of the choices with each of the texts.
WithEach(all, texts) ==
    [n \in 1 .. Len(all) * Len(texts) |->
        Append(all[((n - 1) \div Len(texts)) + 1], texts[((n - 1) % Len(texts)) + 1])]
\* Fault: no bound.
UnboundedWith(ps, all, x) == WithEach(all, FirstTexts(ps, x))
ChoicesWith(ps, all, x) ==
    LET next == WithEach(all, FirstTexts(ps, x))
    IN  IF Len(next) > MaxChoices THEN <<>> ELSE next
ChoiceSeq(ps) ==
    LET xs == Ascending(Disputed(GroupOf(ps)))
        made[n \in 0 .. Len(xs)] ==
            IF n = 0 THEN <<BaseChoice(ps)>> ELSE ChoicesWith(ps, made[n - 1], xs[n])
    IN  made[Len(xs)]

\* descriptorOf: how a set that Combine recovered comes out.
Content(ps) == IF At(Head(ps)).set \in Descriptors THEN "ok" ELSE "content"

(* open: Combine on the whole set.  The choices follow only if too few x   *)
(* are undisputed and the disputed ones would do.                          *)
OpenSet ==
    /\ pc = "open"
    /\ j <= Len(groups)
    /\ LET ps == groups[j]
           g == GroupOf(ps)
           tryChoices == Cardinality(XsOf(g)) >= K /\ Disputed(g) # {}
       IN  \E how \in Solves(g) :
              /\ opened' = [err |-> IF how = "ok" THEN Content(ps) ELSE how,
                            solving |-> ps]
              /\ IF how = "too few" /\ tryChoices
                 THEN pc' = "choose" /\ todo' = ChoiceSeq(ps)
                 ELSE pc' = "report" /\ todo' = <<>>
    /\ UNCHANGED <<command, args, input, i, groups, rejected, j, results, said,
                   printed, exit>>

(* Combine on the next choice.  Any error but ErrID ends the search; the   *)
(* one that says the search stopped is an ErrID too.                       *)
TryChoice ==
    /\ pc = "choose"
    /\ todo # <<>>
    /\ \E how \in Solves(GroupOf(Head(todo))) :
          IF how \in {"id", "stopped"}
          THEN UNCHANGED <<pc, opened>>
          ELSE /\ pc' = "report"
               /\ opened' = [err |-> IF how = "ok" THEN Content(Head(todo)) ELSE how,
                             solving |-> Head(todo)]
    /\ todo' = Tail(todo)
    /\ UNCHANGED <<command, args, input, i, groups, rejected, j, results, said,
                   printed, exit>>

\* No choice fits: open returns the error of the whole set.
NoChoiceFits ==
    /\ pc = "choose"
    /\ todo = <<>>
    /\ pc' = "report"
    /\ UNCHANGED <<command, args, input, i, groups, rejected, j, todo, opened,
                   results, said, printed, exit>>

-----------------------------------------------------------------------------
(* Reporting it *)

Proceed == /\ j' = j + 1
           /\ pc' = "open"
           /\ opened' = Unopened
           /\ todo' = <<>>
           /\ UNCHANGED <<command, args, input, i, groups, rejected, printed, exit>>

(* held: a set short of K shares is reported and is no result.  The second *)
(* line stands for "and give no set that passes its id".                   *)
ReportTooFew ==
    /\ pc = "report"
    /\ opened.err = "too few"
    /\ LET g == GroupOf(groups[j])
       IN  said' = said \cup {Says("too few", j, 0)} \cup
               (IF Disputed(g) # {} /\ Cardinality(XsOf(g)) >= K
                THEN {Says("no choice fits", j, 0)} ELSE {})
    /\ UNCHANGED results
    /\ Proceed

(* failure: "no k of these m shares fit together" when the input holds     *)
(* more than K x values of the set, and else that one of them is wrong.    *)
Failure(err, g) ==
    IF err = "content" THEN "wrong content"
    ELSE IF Cardinality(XsOf(g)) <= K THEN "do not fit"
    ELSE IF err = "stopped" THEN "search stopped" ELSE "no k fit"
ReportFailure ==
    /\ pc = "report"
    /\ opened.err \in {"id", "stopped", "content"}
    /\ said' = said \cup {Says(Failure(opened.err, GroupOf(groups[j])), j, 0)}
    /\ results' = Append(results, [set |-> j, err |-> opened.err,
                                   solving |-> opened.solving])
    /\ Proceed

\* Fault: Audit's x values blame every text given at them.
BlameByX(ps, solving) ==
    {Says("is wrong", j, p) : p \in {q \in ToSet(ps) :
         At(q).x \in Audit(GroupOf(ps))}}

(* audit: an x with one text is wrong when Audit of the solving shares     *)
(* says so; where texts differ, ShareAt decides which of them is right.    *)
Blame(ps, solving) ==
    LET s == At(Head(ps)).set
        bad == Audit(GroupOf(solving))
        only(p) == \A q \in ToSet(ps) : At(q).x = At(p).x => At(q) = At(p)
        right(p) == At(p) = ShareAt(s, At(p).x)
    IN  {Says("is wrong", j, p) : p \in {q \in ToSet(ps) :
             IF only(q) THEN At(q).x \in bad ELSE ~right(q)}}
        \cup
        {Says("is right", j, p) : p \in {q \in ToSet(ps) : ~only(q) /\ right(q)}}
ReportResult ==
    /\ pc = "report"
    /\ opened.err = "ok"
    /\ said' = said \cup Blame(groups[j], opened.solving)
    /\ results' = Append(results, [set |-> j, err |-> "ok",
                                   solving |-> opened.solving])
    /\ Proceed

-----------------------------------------------------------------------------
(* The two commands *)

AllOpened == pc = "open" /\ j > Len(groups)
Recovered == Only(results, {r \in ToSet(results) : r.err = "ok"})
SetOf(r) == At(Head(r.solving)).set

\* Fault: one failed set keeps the others from being printed.
FinishIfAllRecovered ==
    /\ AllOpened
    /\ command = "recover"
    /\ printed' = IF Recovered # results THEN <<>>
                  ELSE [r \in DOMAIN Recovered |->
                           [set |-> SetOf(Recovered[r]), x |-> 0, n |-> 0]]
    /\ Exits(IF results # <<>> /\ Recovered = results THEN "ok" ELSE "error")
    /\ UNCHANGED <<command, args, input, i, groups, rejected, j, todo, opened,
                   results, said>>

FinishRecover ==
    /\ AllOpened
    /\ command = "recover"
    /\ printed' = [r \in DOMAIN Recovered |->
                      [set |-> SetOf(Recovered[r]), x |-> 0, n |-> 0]]
    /\ Exits(IF results # <<>> /\ Recovered = results THEN "ok" ELSE "error")
    /\ UNCHANGED <<command, args, input, i, groups, rejected, j, todo, opened,
                   results, said>>

(* replaceCmd's refusals, in its order: not exactly one set with K shares, *)
(* one that failed, an -n below K or below x.                              *)
RefuseReplace ==
    /\ AllOpened
    /\ command = "replace"
    /\ \/ Len(results) # 1
       \/ Len(results) = 1 /\ results[1].err # "ok"
       \/ args.n # 0 /\ (args.n < K \/ args.x > args.n)
    /\ Exits("error")
    /\ UNCHANGED <<command, args, input, i, groups, rejected, j, todo, opened,
                   results, said, printed>>

\* Fault: the first of several sets is taken for the only one.
ReplaceFirst ==
    /\ AllOpened
    /\ command = "replace"
    /\ results # <<>>
    /\ results[1].err = "ok"
    /\ args.n # 0 => args.n >= K /\ args.x <= args.n
    /\ printed' = <<[set |-> SetOf(results[1]), x |-> args.x, n |-> args.n]>>
    /\ Exits("ok")
    /\ UNCHANGED <<command, args, input, i, groups, rejected, j, todo, opened,
                   results, said>>

(* The share, labelled with -n or else with the wallet's number of keys    *)
(* unless the share is past it (0 stands for "k needed").                  *)
Replace ==
    /\ AllOpened
    /\ command = "replace"
    /\ Len(results) = 1
    /\ results[1].err = "ok"
    /\ args.n # 0 => args.n >= K /\ args.x <= args.n
    /\ LET n == IF args.n # 0 THEN args.n
                ELSE IF args.x > WalletN THEN 0 ELSE WalletN
           sh == ShareAt(SetOf(results[1]), args.x)
       IN  printed' = <<[set |-> sh.set, x |-> sh.x, n |-> n]>>
    /\ Exits("ok")
    /\ UNCHANGED <<command, args, input, i, groups, rejected, j, todo, opened,
                   results, said>>

Next == \/ NothingFound \/ SkipUndecoded \/ RejectFaulty \/ JoinGroup
        \/ MarkDisputed \/ OpenSet \/ TryChoice \/ NoChoiceFits
        \/ ReportTooFew \/ ReportFailure \/ ReportResult
        \/ FinishRecover \/ RefuseReplace \/ Replace
        \/ pc = "exited" /\ UNCHANGED vars   \* no other state is stuck

Spec == Init /\ [][Next]_vars

-----------------------------------------------------------------------------
(* Properties *)

TypeOK ==
    /\ command \in Commands
    /\ input \in Seq(Shares \cup {Undecoded})
    /\ pc \in {"group", "open", "choose", "report", "exited"}
    /\ i \in 1 .. Len(input) + 1
    /\ \A g \in DOMAIN groups : groups[g] \in Seq(DOMAIN input) /\ groups[g] # <<>>
    /\ rejected \in Seq(DOMAIN input)
    /\ j \in 1 .. Len(groups) + 1
    /\ \A c \in DOMAIN todo : todo[c] \in Seq(DOMAIN input)
    /\ Len(todo) <= MaxChoices
    /\ opened.err \in {"none", "ok", "too few", "id", "stopped", "content"}
    /\ \A r \in DOMAIN results : results[r].set \in DOMAIN groups
    /\ exit \in {"none", "ok", "error"}

(* The shares of s in the input as a set: no order, no copies. *)
Held(s) == {input[p] : p \in {q \in DOMAIN input :
               input[q] # Undecoded /\ Parses(input[q]) /\ input[q].set = s}}
Given == {s \in Sets : Held(s) # {}}
XsHeld(s) == {sh.x : sh \in Held(s)}
TextsHeld(s, x) == {sh.text : sh \in {h \in Held(s) : h.x = x}}
OneText(s) == {x \in XsHeld(s) : Cardinality(TextsHeld(s, x)) = 1}
RightHeld(s) == {x \in XsHeld(s) : Right \in TextsHeld(s, x)}
NumberOfChoices(s) ==
    LET xs == Ascending(XsHeld(s) \ OneText(s))
        product[n \in 0 .. Len(xs)] ==
            IF n = 0 THEN 1 ELSE product[n - 1] * Cardinality(TextsHeld(s, xs[n]))
    IN  product[Len(xs)]

GroupNumber(s) == CHOOSE g \in DOMAIN groups : At(Head(groups[g])).set = s
Verdict(s) ==
    LET r == {n \in DOMAIN results : results[n].set = GroupNumber(s)}
    IN  IF r = {} THEN "too few" ELSE results[CHOOSE n \in r : TRUE].err

(* What may become of s by the shares held of it alone. *)
Fitting(s) ==
    LET ok == IF s \in Descriptors THEN {"ok"} ELSE {"content"}
        stop == IF MayStop THEN {"stopped"} ELSE {}
        first == {x \in OneText(s) :
                     Cardinality({y \in OneText(s) : y < x}) < K}
    IN  IF Cardinality(OneText(s)) >= K
        THEN IF first \subseteq RightHeld(s) THEN ok
             ELSE IF Cardinality(OneText(s) \cap RightHeld(s)) >= K THEN ok \cup stop
             ELSE {"id"} \cup stop
        ELSE IF Cardinality(RightHeld(s)) >= K /\ NumberOfChoices(s) <= MaxChoices
             THEN ok \cup (IF MayStop THEN {"too few"} ELSE {})
             ELSE {"too few"}

(* main.go recoverSets: "a share from another wallet's plate must not get  *)
(* in the way of a recovery".  What becomes of a set follows from the      *)
(* shares held of it alone: the order of the input, copies, other sets'    *)
(* plates and text that does not decode change nothing, and where texts    *)
(* differ at too many x, the choices recover it whenever K right texts are *)
(* among them.                                                             *)
SetsStandAlone ==
    pc = "exited" => \A s \in Given : Verdict(s) \in Fitting(s)

(* SPEC.md, Finding a bad share: "the blame is right whenever the id       *)
(* passes".  Of the shares of a recovered set, exactly those off the       *)
(* polynomials are called wrong, also where texts differ at an x and where *)
(* the solving shares hold only one choice of those texts; and a right     *)
(* text among differing ones is called right.                              *)
BlameExact ==
    pc = "exited" =>
        \A r \in {n \in DOMAIN results : results[n].err = "ok"} :
            LET g == results[r].set IN
            \A p \in ToSet(groups[g]) :
                /\ (Says("is wrong", g, p) \in said) <=> (At(p).text # Right)
                /\ (Says("is right", g, p) \in said)
                      <=> /\ At(p).text = Right
                          /\ At(p).x \notin OneText(At(p).set)

(* No share vanishes: each one is in the one group of its set, or the log  *)
(* says that it was left out, and a disputed one is in both.               *)
EveryShareAccounted ==
    pc = "exited" => \A p \in DOMAIN input :
        IF At(p) = Undecoded THEN Says("undecoded", 0, p) \in said
        ELSE /\ ~Parses(At(p)) \/ At(p).x \notin OneText(At(p).set)
                  <=> Says("left out", 0, p) \in said
             /\ Parses(At(p)) =>
                  \A g \in DOMAIN groups :
                      (p \in ToSet(groups[g])) <=> (g = GroupNumber(At(p).set))

(* recoverCmd: every set that gave a descriptor is printed, once and in    *)
(* order of its first share, also when another set failed; and success     *)
(* means that no set with K shares failed.                                 *)
PrintsWhatItRecovers ==
    pc = "exited" /\ command = "recover" /\ input # <<>> =>
        LET firstAt(s) == groups[GroupNumber(s)][1]
            good == {s \in Given : Verdict(s) = "ok"}
            failed == {s \in Given : Verdict(s) \notin {"ok", "too few"}}
        IN  /\ Len(printed) = Cardinality(good)
            /\ {printed[n].set : n \in DOMAIN printed} = good
            /\ \A m, n \in DOMAIN printed :
                  m < n => firstAt(printed[m].set) < firstAt(printed[n].set)
            /\ exit = "ok" <=> good # {} /\ failed = {}

(* replaceCmd prints a share only when exactly one set holds K shares and  *)
(* that set gave its descriptor, so that no plate of a second wallet is    *)
(* cut by mistake, and never labels a share as one past the last plate.    *)
ReplacesTheOnlySet ==
    pc = "exited" /\ printed # <<>> /\ command = "replace" =>
        /\ exit = "ok" /\ Len(printed) = 1
        /\ {s \in Given : Verdict(s) # "too few"} = {printed[1].set}
        /\ Cardinality(RightHeld(printed[1].set)) >= K
        /\ printed[1].x = args.x
        /\ printed[1].n # 0 => printed[1].n >= K /\ printed[1].x <= printed[1].n
=============================================================================
