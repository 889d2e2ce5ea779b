SPECIFICATION FunctionsSpec
CONSTANTS
    MaxText = 8
    MinRun = 2
    Paths <- SomePaths
    ExtendedKeys <- SomeKeys
    MaxItems = 3
    MaxTokens = 3
    MaxDepth = 2
    MaxN = 3
    MaxShare = 5
    MaxTyped = 6
    MaxExports = 3
    MaxPieces = 3
    MaxPoints = 3
    FirstChars = 20
    MaxChars = 1100
    MaxShares = 4
    MaxFaults = 2
    MaxSealed = 10
    PayloadLens = {0, 7}
    MinLens = {0, 8, 11}
INVARIANTS
    ReadsAsTyped
    LostTextIsReported
    RoundTrip
    OnePackedForm
    ScansItsGrammar
    GroupsHoldQuorum
    CanonicalStands
    SamePlates
    KeysFound
    InterpolatesExactly
    CardIsReadable
    TypeOK
    GivenSetIsSound
    NothingKept
PROPERTIES
    EndedSharesStand
    OneTextPerWallet
\* Every input has an end.
CHECK_DEADLOCK FALSE
