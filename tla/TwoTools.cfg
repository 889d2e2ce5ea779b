SPECIFICATION Spec
CONSTANTS
    MaxDepth = 2
    MaxN = 3
    MaxShare = 5
    MaxTyped = 6
    MaxExports = 3
    Wallets <- SomeWallets
INVARIANT SamePlatesInAnyTool
\* A text that was altered is done with.
CHECK_DEADLOCK FALSE
