SPECIFICATION MCSpec
CONSTANTS
    K = 2
    A = A
    B = B
    Sets = {A, B}
    Xs = {1, 2, 3}
    Right = r
    forged = forged
    Wrong = {forged}
    Faults = {"check"}
    MayStop = TRUE
    a1 = a1
    a2 = a2
    a3 = a3
    f2 = f2
    f3 = f3
    b1 = b1
    b2 = b2
    c1 = c1
    p1 = p1
    p2 = p2
    splitA = splitA
    Benches <- BothBenches
    Entries = {a1, a3, f2, f3, b1, b2, c1, p1, p2}
    ShareOf <- EntryShares
    SourceOf <- EntrySources
    Splits = {splitA}
    SplitSet <- SplitSets
    None = none
    MaxGen = 3
INVARIANTS
    SettledOutcomeIsLatest
    BlameSurvivesOverlap
    RecoversUndisputed
PROPERTIES
    Settles
    ShowsLatest
