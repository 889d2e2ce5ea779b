SPECIFICATION PiecesSpec
CONSTANT MaxPieces = 2
INVARIANTS
    EveryWifFound
CHECK_DEADLOCK FALSE
