# shaqr, modelled in TLA+

shaqr cuts a wallet descriptor, or any short text, into n shares of which any k
recover it. The repository holds the Go package (`src/shaqr.go` and beside it),
its JavaScript twin (`src/js/`), the command `descbackup`
(`src/cmd/descbackup/main.go`) and a web page that splits, scans and recovers
(`src/site/app.js`). This directory models the logic of all four, checks it with
TLC on small instances and proves the most important parts with TLAPS for all of
them.

Line numbers below are those of the files under `src/`.

## 1. The system

| Part | State it keeps | Operations | Talks to |
|---|---|---|---|
| search for k shares that fit (`shaqr.go` solve, candidates, next, fits; `js/shaqr.js` solve, subsets) | the current pick, the subsets tried, the work spent | try a run, try a subset, stop at a bound | called by Combine, Audit, ShareAt and by the self-check of Split |
| sets of shares (`shaqr.go` Group, Combine, Audit, ShareAt) | none between calls | parse, group, find disputes, recover, blame, make a share | the search; called by the command and the page |
| `descbackup recover`, `replace` | groups, left-out shares, results, log, output | Scan, Group, open with the choices among disputed texts, report, print | the package |
| `descbackup split` | flags | canonical form, check of keys, private keys, k and n, Split | the package |
| splitting (`shaqr.go` Split, build, verify; `js/shaqr.js` split) | secrets in buffers, the shares made | seal, draw, encrypt, build, read back, recover, compare, erase | the search |
| tab 1 of the page (`site/app.js` runSplit and its controls) | text box, Encrypt switch, k and n, picks, the plan, `splitGen`, `current` | type, pause, replace, pick, switch, the steps of a run | tab 2 mirrors `current` |
| tab 2 of the page (`updateRec`, `assess`, `readHeads`, `syncRecover`) | entries and their states, `recGen`, `recOutcome` | select, scan, paste, mirror, the steps of a call | tab 1, the camera, the package |
| camera (`camStart`, `camLoop`, `camStop`, `maybeCloseCamera`) | stream, dialog, timers | start, grant, play, tune, frame, stop, close | tab 2 gets its shares and closes it |
| text form (`text.go` Scan, cut, indexAll; `unprefixed` in the command) | none | find the shares in a text, warn of base32 that was lost | the command |
| packed descriptors (`descriptor/pack.go`; pack and unpack in `js/descriptor.js`) | none between calls; the path of the last origin within one | pack a text, unpack bytes, refuse what is not the packed form | the command and the page |
| canonical descriptors (`js/descriptor.js` canonical, quorum; `descriptor/descriptor.go`) | none | parse, rewrite keys, sort, print, read the quorum | the command and the page |
| search for private keys (`holdsPrivateKey` of the page, `private` of the command) | none | look at the rows of base58 in a text | both ways to split |
| field (`js/gf256.js`, `gf256.go`) | none | mul, inv, weights, interpolate | the package |
| print cards (`site/cards.js`) | none | lay a share and its QR code out on a card | tab 1 |
| base58, ciphers, drawing, QR codes | none | pure functions and rendering | all of the above |

What is hard to get right in them:

* **Order of the search.** Runs wrap around, the lexicographic part must leave
  nothing out, two bounds can end it, and three errors tell the caller why.
* **Mixed inputs.** Plates of several wallets, copies, damaged shares and texts
  that differ at one x arrive in any order; what becomes of one wallet must
  not depend on the others.
* **Asynchronous calls on the page.** `runSplit` and `updateRec` give way at
  every await, several of them are under way at once, they share the objects
  they write, and only a generation number tells the latest.
* **Timers and devices.** A 300 ms debounce, a 700 ms close timer and a camera
  whose permission dialog may take for ever all race with the user.
* **One form.** A set is a function of the packed bytes, so that two tools that
  pack one wallet differently cut sets that do not match; and the bound on the
  text must hold for the sender exactly where it holds for the receiver.
* **One wallet, one set.** The exports of a wallet differ in the order of keys,
  in ' and h, in case and in the spelling of the children, and give one text;
  anything else is another wallet. Who holds enough plates can spend, and no
  smaller group.
* **Private keys.** A text may hold one anywhere, wrapped over lines or run on
  into other characters, and an open set must never show it.
* **Faults in the computation.** Split promises that a wrong result anywhere
  gives an error and no shares, and erases its secrets on every way out.

## 2. The modules

| Module | Models | Extends |
|---|---|---|
| `Subsets` | positions of held shares, picks of k of them, order, what "fits" means | |
| `SearchContract` | what a caller of solve may rely on, whatever the order of tries | `Subsets` |
| `SubsetSearch` | solve and candidates step by step | `Subsets` |
| `SubsetSearch_proofs` | theorems of the search | `SubsetSearch`, TLAPS |
| `ShareSets` | shares, disputes, and what Combine, Audit and ShareAt give | |
| `ShareSets_proofs` | what its operators return for every sequence of shares | `ShareSets`, TLAPS |
| `Recover` | `descbackup recover` and `replace` | `ShareSets` |
| `Recover_proofs` | theorems of both commands | `Recover`, `ShareSets_proofs` |
| `RecoverPage` | tab 2, its overlapping calls, the mirror of tab 1 | `ShareSets` |
| `RecoverPage_proofs` | theorems of tab 2 | `RecoverPage`, `ShareSets_proofs` |
| `LatestOnly` | abstract: only the latest answer is ever shown, and in the end it is | |
| `SplitPage` | tab 1, its debounce, picks and overlapping runs | |
| `Camera` | the camera | |
| `Page_proofs` | theorems of tab 1, of the camera and of the search for private keys | `SplitPage`, `Camera`, `PrivateKeys`, TLAPS |
| `Splitter` | Split with its self-check, with results that go wrong | |
| `Splitter_proofs` | theorems of Split | `Splitter`, TLAPS |
| `TextForm` | Scan, cut, and the warning about lost base32 | |
| `TextForm_proofs` | theorems of Scan and the warning | `TextForm`, TLAPS |
| `Packing` | Pack and Unpack of descriptors | |
| `Packing_proofs` | theorems of Pack and Unpack | `Packing`, TLAPS |
| `Canonical` | parse, print, canonical form and quorum of a descriptor, over tokens | |
| `SplitPlan` | what `planFor` and `runSplit` of the page, and `descbackup split`, make of a text | `Canonical` |
| `Exports` | wallet software that writes a descriptor, and people who alter it | `SplitPlan` |
| `PrivateKeys` | the search for private keys in what is to be split | |
| `Field` | GF(2^8), its inverse, and interpolation | |
| `Cards` | the layout of a card | |
| `MCFunctions` | the functions that keep no state in one instance | `TextForm`, `Packing`, `PrivateKeys`, `Splitter`, the others by INSTANCE |
| `MCWallets` | the texts of fourteen wallets | `Canonical` |
| `MCExports` | those wallets and their exports alone | `Exports`, `MCWallets` |
| `MCRecover`, `MCRecoverPage`, `MCSplitPage` | inputs and constants of the instances | the module they name |

`SubsetSearch` implements `SearchContract` (`ContractKept`), and both pages
implement `LatestOnly` (`ShowsLatest`). `ShareSets` stands in its operator
`Solves` for the search: it gives the outcomes that `SearchContract` allows when
the cap on subsets is out of reach.

`MCSplitPage` ties the two models of tab 1 together: `SplitPage` takes from
constants what kind of text each one is, what its quorum is, whether its keys
are bad or private and which of its shares fit no QR code, and `PlanAssumption`
says that `SplitPlan` makes just that of the texts those stand for. TLC evaluates it in every run of the module.

Definitions keep the names of the code where there are any. A definition under a
comment that begins "Fault:" is part of no specification. It is the definition
below or beside it with a mistake the code could contain; for every property that
is checked there is a fault that breaks it, so that no property holds whatever the
code does.

### How state and steps correspond

* **Search.** `start`, `idx`, `tries` are the variables of `candidates`
  (`shaqr.go:656`), `sol`, `tried`, `work` those of `solve` (`shaqr.go:625`). One
  step is one subset. `wrong` is the set of positions whose share is off the
  polynomials; the id is taken for a perfect hash, so that a subset fits exactly
  when it avoids `wrong`.
* **Recover.** One input goes through `Group`'s loop (`SkipUndecoded`,
  `RejectFaulty`, `JoinGroup`, `MarkDisputed`), then for each set `OpenSet`,
  `TryChoice`, `NoChoiceFits`, and one of three reports, then `FinishRecover`,
  `Replace` or a refusal. The log is a set of facts; the wording is left out.
* **RecoverPage.** `calls[g]` is the call of `updateRec` with generation g and
  `pc` the await it waits at: `heads`, `group`, `combine`, `audit`, `shareAt`,
  `unpack`, `assessed`. Entries are objects: one made anew (`born`) is not
  reached by calls that began before it. Every set that was recovered awaits
  `unpack`.
* **SplitPage.** `runs[g]` is the run of `runSplit` with generation g, at the
  await `keys`, `private`, `cut` or `head`. The page runs in a secure context.
* **Camera.** `start[c]` and `loop[c]` are the awaits of the c-th `camStart` and
  of its frame loop, `live` the streams whose tracks run, `camCloseTimer` the
  stream that was on show when its timer began (for `ClosesItsOwn` only; the code
  keeps the timer alone). The dialog may open without a stream when the
  camera is stopped while it is tuned, as in the code.
* **Splitter.** Each result of the computation is right or wrong; up to
  `MaxFaults` of them go wrong, anywhere. Cipher, hash and field are ideal:
  a wrong input gives a wrong output.
* **TextForm.** Characters by class: the prefix, base32, a stray one, a line
  feed. The scan is a function of the text; the step adds one character, so that
  `EndedSharesStand` can say what later text may not change.
* **Packing.** A text is a sequence of items (an origin, a key, a hex key, the
  children, or another character by its class), packed bytes a sequence of
  tokens, each with its length. Every item may also be spelled out
  character by character in the bytes, as foreign bytes may have it. `PackNext` is
  `packer.next`, `UnpackNext` is `unpacker.next` with the look at the length.
  Keys end in base58 characters that are not hex, hex keys in ones that are
  both; the four kinds of key with a token of their own are one (`known`). A path
  repeats one step, since the code looks only at its length, its last step
  and whether it is equal to another.
* **Canonical.** A descriptor is a sequence of tokens: brackets, commas, and the
  words between them. A key is a word with an origin, a kind, an id for its
  characters, children, a mark (h or ') and a case. Two origins (`BadStep`,
  `BadFingerprint`), two kinds of children (`/0H/*`, `/0]`) and a word with a stray
  bracket are texts that `canonical` takes and no wallet software would. `Bracket` is one turn of
  the first pass of `parse`, `Build` its inner function; `Before` compares what
  the texts of two arguments begin with, in the order of the code. `Parse` gives
  `Bad` where the code throws.
* **SplitPlan.** `PlanFor` and `RunSplit` are the page, `Threshold` and `SplitCmd`
  the command, on the same texts; flags that are not given are 0, as in the
  code. The two look at keys differently: `BadKey` is `badKey` of the page, the
  base58check alone, and `CheckKeys` is `checkKeys` of the command, with origins, steps
  and brackets. A regular expression is the set of the texts of the instance that do
  not match it. Shares fit a QR code when a slice of the payload has at
  most `MaxShare` tokens (`Fits`), so that a larger k makes them fit. How runs of the page overlap is left to `SplitPage`.
* **PrivateKeys.** A character is one of base58, white space or another, and
  knows the key it belongs to and its place there; no other row of characters
  passes a base58check. `HoldsPrivateKey` is the loop over `texts`, `HoldsIn` the
  one over the runs of one of them, `KeyPlaces` the bounds of its inner loop, and
  `PrivateLeaf` is `private` of the command.
* **Field.** A byte is the set of the places of its ones. The loops are folds:
  `Mul` over eight bits, `Inv` over the bits of 254. `Weights` is what `basis`
  returns, at a target.
* **Cards.** Lengths in units of 0.05 mm, so that each size the loop tries is a
  whole number; the code adds floating-point numbers there, and what it
  does in the last digit of one is not modelled. The share grows by a character
  a step.

## 3. What the runs check

Six runs pass; together they take every action and every disjunct of their
next-state relations.

| Run | Properties | Bounds and why they are enough |
|---|---|---|
| `Search` | `TypeOK`, `SoundSolution`, `AdjacentWrongFound`, `FirstSufficesAlways`, `LexProgress`, `ContractKept` | k = 3 of 6 shares and every `wrong`. The cap of 6 subsets is below the 20 there are and the work of 14 below what the dear tries cost, so that each of the three endings occurs. |
| `Recover` | `TypeOK`, `SetsStandAlone`, `EveryShareAccounted`, `PrintsWhatItRecovers`, `BlameExact`, `ReplacesTheOnlySet` | All sequences of up to four shares of two wallets and a text set with faulty and undecoded ones: the shortest input where two sets hold k = 2. And every set of shares of one wallet at three x with three texts: up to 27 choices against a bound of 8, which 8 choices just pass. Every input for both commands and five pairs of X and -n. No state but the exit is stuck. |
| `PageRecover` | `SettledOutcomeIsLatest`, `BlameSurvivesOverlap`, `RecoversUndisputed`, `Settles`, `ShowsLatest` | Two benches. On the first, three generations, so that a superseded call meets both an older and a newer one; plates of a split, forged shares of which one disputes a plate, and one that is damaged. On the second, two sets with k plates and a forged share, two generations: a call that goes through its loop over sets twice while another is under way. Searches may stop. |
| `Split` | `KeysStayPrivate`, `ShownIsAsked`, `ShowsLatest`, `Settles` | Three runs over six texts: empty, a text, a 1-of-1 wallet (whose packing fails once a pick lets it get that far), a mistyped key, a private key, a bad checksum. MAX_N is 3, so that controls go past both ends. |
| `Camera` | `OffWhenClosed`, `ClosesItsOwn`, `LoopsEnd` | Three starts, one at a time: the third meets timers and loops of both earlier ones. |
| `Functions` | `ReadsAsTyped`, `LostTextIsReported`, `EndedSharesStand` | Every text of up to eight characters: two shares on two lines, with a stray character between them. |
| | `RoundTrip`, `OnePackedForm` | Every payload of up to three items or three foreign tokens: an item and both its neighbours, a path that is repeated and taken up again. Three origins of 170 steps are just as long as Unpack allows and three of 171 are over; 256 steps are more than a depth can say. |
| | `ScansItsGrammar` | Every row of up to six tokens, with a depth of two allowed: a call in a call and what is one too deep, both kinds of brackets crossed, and a text behind either. |
| | `OneTextPerWallet`, `GroupsHoldQuorum`, `CanonicalStands`, `SamePlates` | Fourteen wallets, each exported up to three times over with every change an exporter may make, and then altered in every other way. They have keys of every kind, in a multi or a sortedmulti, alone, beside a hash, beside a key of their own and in a musig. Three have an origin or a bracket that the command refuses, and an alteration gives any key such an origin or path. A set may have three shares, so that a wallet of four keys is over; a share fits a QR code up to five tokens, so that wallets under `wsh` fit none at k = 2 and one at k = 3. |
| | `KeysFound` | Every text of up to three pieces: a key, wrapped or not, with base58, white space or another character before and after, and two or three keys run together. Lengths are scaled so that the order of all the lengths the code names is kept: 2 for the 50 of a run that is looked at, 3 and 4 for a WIF key, 5 for 100, 6 for an extended key, 7 for the 112. |
| | `InterpolatesExactly` | One point at each of the 256 bytes, which says that `inv` inverts, and up to three points, in every order, among 0, 1, 2, 3, 128 and 255; every power below the number of points, at every one of those as the target. Interpolation is linear in the values, so that powers stand for all polynomials. |
| | `CardIsReadable` | Every share from 20 to 1100 characters; the longest that fits a card has 1056. |
| | `TypeOK`, `GivenSetIsSound`, `NothingKept` (`Splitter`) | Up to four shares and two wrong results, so that one can hide another. |

`SettledOutcomeIsLatest`, `SetsStandAlone` and the like compare what the code does
with a definition that knows nothing of its steps (`Fitting`, `Asked`, `Held`):
the order of the input, copies and overlaps do not occur in it. `ScansItsGrammar` has a
grammar, `GroupsHoldQuorum` the least number of keys that satisfies an
expression, and `InterpolatesExactly` the remainder of a product of
polynomials. `OnePackedForm` does so for Unpack: `InPackedForm` says for one token and its neighbours what
`DESCRIPTOR.md` says, and packs nothing.

In `Functions` a behaviour chooses one subject and feeds it larger and larger
inputs, or takes one request through the steps of Split; the others stay at their first input, and none shares a variable with
another. The invariants of a subject are asked while it is the one that is fed.

### Fairness

* `RecoverPage`, `SplitPage`: an async function that waits is resumed, since each
  of its awaits is for a promise that settles (`Resumed`). `Resumed(g)` is weak
  fairness of the step of call g, written with the condition under which such a
  step exists. The timer of the debounce fires (`WF(Pause)`). The user owes
  nothing: `Settles` of tab 1 speaks of the time after the last key.
* `Camera`: the browser answers each call and fires each timer. A permission
  dialog that is never answered is outside `LoopsEnd`, which is about loops.
* `SubsetSearch`, `Recover`, `Splitter` and everything else in `Functions` are checked for
  safety only. The first three are sequential loops with a measure: `LexProgress` and the two
  bounds for the search, the list of choices for open.

### Disagreements with what the code says of itself

Each has a run with one property, which TLC finds violated.

* **`PageStaleState`** (`site/app.js:794`). `assess` resets the state of every
  entry, awaits `group`, then counts the plates whose state is not "disputed". A
  call that was overtaken may resume in between and mark a share that was
  disputed among the shares selected *then*. The later call counts one plate too
  few, and if that leaves fewer than k the set is neither recovered nor reported,
  although "every set that holds k of them" is to be (`app.js:781`).
  `RecoversUndisputed` shows that this takes a disputed share.
* **`PageStaleMirror`** (`site/app.js:574`). A run of tab 1 that ends while tab 2
  is shown changes `current`; only a tab change calls `syncRecover`. Tab 2 shows
  plates of a split that is gone.
* **`SplitPick`** (`site/app.js:1497`). k or n changed within 300 ms after a key is
  kept for the descriptor of the run before, since `planned` is that run's.
* **`CameraTwice`** (`site/app.js:1131`). Two starts that wait for permission
  together: the second stream takes the place of the first in `camStream`, and
  nothing stops the first any more. The passing runs and the theorems of the
  camera assume one start at a time (`OneStart`).

* **`PrivateKeys`** (`site/app.js:411`). In a text, the search for a WIF key begins
  at the second character of a row of base58; the first place is tried only as
  the whole row. A WIF key at the beginning of a row that goes on is not
  found: `KEY` wrapped over two lines and followed by a word gives, once the white
  space is deleted, such a row. The comment says "at every place in a run where a
  private key can start" (`app.js:403`), and the page says that it refuses an open
  set of anything that holds one (`site/index.html:240`). `KeysFound` says what
  holds.
* **`TwoTools`** (`site/app.js:424`). For a wallet with an origin such as
  `[d34db33f/48H/0H]`, a fingerprint that is not 8 hex digits, or a step such as
  `/0H` or a bracket behind the key, the page cuts a derived set and the command
  refuses: `checkKey` looks at origins, steps and brackets (`main.go:302-327`),
  `badKey` and `realKey` of the page do not (`app.js:424-430`, `294-298`). The page says
  that "the same wallet and k always cut the same plates, in any tool that follows
  the spec" (`site/index.html:307`), and the command refuses H "so that a wallet that
  wallet software would refuse does not go onto the plates" (`main.go:278-280`).
  A lost plate of such a set cannot be cut again from the descriptor with the
  command.
  `SamePlates` says what holds: that refusal is the only thing the two differ in
  where the page cuts a set of a descriptor.

Four smaller ones have no run. Where the text of a card goes on below the QR code,
its letters stand up to 2.1 mm inside the 2.4 mm of the code's quiet zone
(`site/cards.js:90`: the lines beside the code are rounded down); `CardIsReadable`
says that none reaches a module. `js/shaqr.js:81` says "no k shares match the set
id" also when the search ended at its cap on subsets (`SearchContract`, `GiveUp`,
allows it; below the cap the statement is proved). The log of `recover` says
that "no k of these m shares fit together" with the disputed x counted in m
(`main.go:702`) and that texts "give no set that passes its id" when they were
more than the bound and none was tried (`main.go:800`). And split recovers the
payload but does not compare the key polynomial with the one that step 2 derives
(`js/shaqr.js:148`): a wrong one gives a set that recovers, and that a second
split of the same payload does not match. `GivenSetIsSound` is what holds.

## 4. What is proved

Every property that a run checks of the search, the two commands, both tabs, the
camera, Split, the text form and packed descriptors is a theorem for all values of the constants,
liveness aside, and so is what the search for private keys finds. tlapm checks all of the proofs. They rest on nothing but the
assumptions on constants that the modules name, which TLC evaluates in every run,
and on the ideal hash. What they assume is: k is at least 2; x values are 1 to
255; the right text is not among the wrong ones, undecoded text is not a share and
no fault is called "none"; bounds are natural numbers, positive where the code's
are; the sets with a packed descriptor are sets of the instance; X of `replace`
is 1 to 255 and -n at most 255, as the command checks; a wallet has no default
number of shares or one from k to 255; and a path has a number of steps and a key
a depth of one byte.

* **The search** (`SubsetSearch_proofs`). `SearchInvariant` is the inductive
  invariant: every run and every subset tried so far met a wrong share, the
  current subset is increasing, and every increasing pick below it was
  tried. `TypeOK` alone is not enough: that no fitting subset was passed
  over is a statement about all earlier steps, and needs `AfterIsNext`, that
  `next` gives the least pick above the current one. From it follow
  `SearchIsSound`, `SearchIsExhaustive` (the plain error below the cap means that
  no k shares fit; the instance of the run has a cap below the end, so this
  one is proved only), `RunsCoverAdjacent` (a counting argument over the
  wrapping runs), `FirstTrySuffices`, `SearchMovesOn`, and the refinement
  `SearchKeepsContract`.
* **Split** (`Splitter_proofs`). The invariant ties each check that was passed to
  the results it compares; `SplitIsSound`: whatever went wrong, any k shares of a
  set that is given recover the payload. `SplitErases`: no exit keeps a
  secret. `SealedLenFits`: sealedLen is the least multiple of k that holds the
  payload, its two bytes and minLen.
* **The camera** (`Page_proofs`). The invariant follows the one call of
  `camStart` that may be under way: there is at most one and none while the
  dialog is open (`OneAtATime`), the tracks that run are those of the stream
  that `camStop` stops (`StreamKnown`), and a stream is there only past the
  permission, in a call or in the dialog (`StreamInUse`). `CameraIsOff` and
  `CameraClosesItsOwn` assume `OneStart`; `CameraTypeCorrect` does not.
* **Tab 1** (`Page_proofs`). `KeysStayPrivate` alone is not inductive: a
  run that is past its search for private keys shows its set later. The
  invariant says of every run which checks it has passed (`RunsChecked`), and of
  the latest that it holds what the controls ask for, or has shown it
  (`LatestHolds`); a text that no run has seen has its timer running. It
  gives `PageKeepsKeysPrivate`, `PageShowsAsked`, and each step as a step of
  `LatestOnly` (`PageShowsOnlyLatest`).
* **Private keys** (`Page_proofs`). `KeysAreFound`: of a text of any number of
  pieces the search finds exactly the keys that `KeysFound` names. The text is
  made by a loop over the pieces and its white space taken out by another one;
  along both, every character knows its key and every key lies at one place
  (`Holds`, `TextHolds`, `BareHolds`), there with at most one line break in it and
  afterwards with none. From that, what begins like a key in a run is the key that
  lies there (`BeginsKey`), so that nothing else is found (`OnlyKeysAreFound`), and
  a key in a row lies in a longest run, at a place the loop looks at (`RunAround`,
  `WifIsFound`, `LettersAreFound`, `AloneIsFound`). The page asks for 100 characters
  from the letters prv on and the command only for the letters; that the two agree
  on a descriptor (`DescriptorAgrees`) holds since a run goes on to the end of
  the key it begins with.
* **Shares and sets** (`ShareSets_proofs`). `SolvesFromRight`: whatever shares are
  given, what comes out was fitted to k right texts. `FewAreAllRight`: a set of no
  more than k shares that recovers has none to blame. The lemmas beside them
  are what the two ways to recover share: `Only` keeps exactly the elements asked
  for, in order; `Ascending` sorts; disputed x are those with two texts.
* **Tab 2** (`RecoverPage_proofs`). The invariant follows every call under way, the
  overtaken ones included: it knows all about the sets before the one it is at
  and nothing about those behind (`AtSet`), and what it blames so far is what is
  wrong less what is still to be looked at (`Blames`). `LatestHolds` ties the
  latest call to the shares selected now. From it follow
  `PageSettlesOnLatest`, `PageBlamesRight` and `PageShowsLatestOutcome`.
  `PageRecoversUndisputed` needs more (`Covers`): where no two shares ever on show
  differ at one x, no state is "disputed" in any call, and so no call counts
  too few. Without that condition it is false (`PageStaleState`).
* **The text form** (`TextForm_proofs`). The texts only grow, at the end. All three
  theorems rest on what `Stop` is, the first character after a prefix that is a
  prefix or other, and that it stays once it is there: `ScanReadsAsTyped`,
  `EndedSharesKept`, `NoTextLostUnreported` (which counts line feeds, since
  the code reports lines by number).
* **Packed descriptors** (`Packing_proofs`). For every text and all bytes, of any
  length, and all paths and keys. `PackedTextReturns`: the loops of pack and of Unpack walk the items
  and their tokens in step. What Unpack knows of the last origin follows what
  pack knows of it (`Follows`), so that each token reads as the item it was
  made of, and lengths only grow (`TooLongStays`), so that the look at the length
  behind each token of Unpack says what the one look of Pack says.
  `OneFormIsTaken`: `InPackedForm` looks at the tokens alone and Unpack at
  what it has read; `Tells` ties the two, and token by token the form is
  what pack would write of what was read (`FormIsPacked`). Where one token is
  not, the first such one makes the text that is packed again differ, and where a
  token cannot be read, or the text is too long, neither side holds.
* **The commands** (`Recover_proofs`). `IInv` has six parts, one for each thing that
  a later step relies on: `Grouped` (a group has the shares read so far of one
  set, in order, and all of them), `LeftOut`, `Opening` (what was solved, and
  from which shares), `Blamed`, `Ending`, and `Types`. It gives
  `SharesAccounted`, `BlameIsExact`, `PrintsRecovered` and `ReplacesOnlySet`. For
  `BlameIsExact` the shares that solved a set may be one choice of its differing
  texts; that choice holds all shares at undisputed x (`From`), which is why its
  Audit speaks for the ones left out. `SetsAlone` needs more, `Standing`: what
  became of each set so far agrees with the shares of it that the input holds,
  and while the choices of a set are tried, one that comes out is still to be tried
  if any is to come out. That is a statement about what `choices` makes
  (`ChoicesComplete`): nothing exactly when the product of the numbers of texts
  is over the bound, and otherwise one text for every x, the right one
  wherever it is held in one of them.

Loops over data are functions with a recursive definition (`Only`, `ChoiceSeq`,
`NumberOfChoices`, `PackText`, `ReadAll`, `CharsOf`, `Bare`). Induction over them goes by the set of counterexamples: it is a
set of natural numbers without 0, and each n + 1 in it has n in it, so it is empty
(`NoCounterexample`); this needs no theorem with an operator for a parameter. The
invariants were checked by TLC before they were proved.

Only model-checked:

* Liveness: `Settles` of both tabs, `ShowsLatest` beyond its safety part, and
  `LoopsEnd`. Fairness and ENABLED are out of the prover's reach.
* What the folds and recursive definitions of `Canonical`, `Exports`,
  `Field` and `Cards` compute: `ScansItsGrammar`, `GroupsHoldQuorum`, `CanonicalStands`,
  `SamePlates`, `OneTextPerWallet`, `InterpolatesExactly`, `CardIsReadable`. They
  compare one computation over data with another, by induction over both.
  `Canonical` and `Exports` have RECURSIVE operators besides (`Build`, `Written`,
  `Canonicalize`, `Calls`, `KeysNeeded`), and no theorem is about them or a module
  that uses them.

## 5. What is left out

* Bytes: base32, the check code, header layout, QR codes. A share has a set, an x
  and a text; the right text is the one on the polynomials.
* ChaCha20, SHA-256 and HMAC are ideal; the repository's test vectors cover them.
  The modules of shares take the field as exact, and `Field` checks that it is.
* Of canonical descriptors: white space, the polynomial of the checksum (it is
  there or not, and right or wrong), miniscript wrappers in front of a name, and
  the characters of keys; of steps of paths that are no numbers there is one
  (`48H`, `0H`). Of `descbackup split`: the parsing of flags, the warnings and the
  labels.
* Drawing: the SVG of cards and sheets, head and foot lines, styles, the cards of
  plates on the page, printing and downloads; torch and zoom of the camera, and
  its decoders.
* The wording of what the page says, and that of the search beyond the errors its
  callers tell apart.
* `site/tools/make-cards.js`, a script that writes example cards,
  `site/examples.js`, which is data, `py/bw_sketch.py`, which no program uses, and
  vendored code.

## 6. Plan

Done, in this order: the search with its contract and its proofs; sets and the
two commands; tab 2; tab 1 with the abstract `LatestOnly`; the camera and its
proofs; splitting and its proofs; the text form; packed descriptors; canonical
descriptors, the plans of the page and the command, and their tie to tab 1;
private keys; the field; cards; the proofs of tab 1, tab 2, the text form, the
two commands, packed descriptors and the search for private keys.

Next: one module that composes both tabs and the camera, so that `FinishSplit` and
`Scan` of tab 2 come from the modules that model them.

## 7. Running it

    tlc -config Search.cfg SubsetSearch.tla
    tlc -config Recover.cfg MCRecover.tla
    tlc -config PageRecover.cfg MCRecoverPage.tla      # likewise PageStaleState, PageStaleMirror
    tlc -config Split.cfg MCSplitPage.tla              # likewise SplitPick
    tlc -config Camera.cfg Camera.tla                  # likewise CameraTwice
    tlc -config Functions.cfg MCFunctions.tla          # two to three minutes
    tlc -config TwoTools.cfg MCExports.tla
    tlc -config PrivateKeys.cfg PrivateKeys.tla
    tlapm SubsetSearch_proofs.tla                      # likewise every module named *_proofs
    tlapm Recover_proofs.tla                           # the longest, some minutes

`PROJECT.json` lists the components, the runs, the faults with the property each
one breaks, the source lines of every definition, the hazards and the theorems.
