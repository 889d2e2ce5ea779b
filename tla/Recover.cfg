SPECIFICATION Spec
CONSTANTS
    K = 2
    Sets = {s1, s2, t1}
    Xs = {1, 2, 3}
    Right = r
    w1 = w1
    w2 = w2
    Wrong = {w1, w2}
    Faults = {"check"}
    MayStop = TRUE
    Inputs <- AllInputs
    Undecoded = undecoded
    Descriptors = {s1, s2}
    MaxChoices = 8
    Commands = {"recover", "replace"}
    Args <- ReplaceArgs
    WalletN = 4
    MixedXs = {1, 2}
    MaxInput = 4
INVARIANTS
    TypeOK
    SetsStandAlone
    EveryShareAccounted
    PrintsWhatItRecovers
    BlameExact
    ReplacesTheOnlySet
