SPECIFICATION Spec
CONSTANTS
    empty = empty
    d23 = d23
    d11 = d11
    dbad = dbad
    dprv = dprv
    note = note
    bad = bad
    Texts = {empty, d11, dbad, dprv, note, bad}
    KindOf <- Kinds
    WalletOf <- Wallets
    BadKeys = {dbad}
    Private = {dbad, dprv}
    Failing = {d11}
    TooLong <- LongPairs
    Empty = empty
    None = none
    MaxN = 3
    MaxGen = 3
INVARIANTS
    KeysStayPrivate
    ShownIsAsked
PROPERTIES
    ShowsLatest
    Settles
\* At the bound on runs the page is at rest.
CHECK_DEADLOCK FALSE
