SPECIFICATION Spec
CONSTANTS
    empty = empty
    d23 = d23
    d11 = d11
    dbad = dbad
    dprv = dprv
    note = note
    bad = bad
    Texts = {empty, d23, note}
    KindOf <- Kinds
    WalletOf <- Wallets
    BadKeys = {}
    Private = {}
    Failing = {}
    TooLong <- LongPairs
    Empty = empty
    None = none
    MaxN = 3
    MaxGen = 2
PROPERTIES
    PickGoesToText
\* At the bound on runs the page is at rest.
CHECK_DEADLOCK FALSE
