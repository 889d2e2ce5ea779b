SPECIFICATION CamSpec
CONSTANTS
    MaxStarts = 3
    OneStart = TRUE
INVARIANTS
    OffWhenClosed
    ClosesItsOwn
PROPERTIES
    LoopsEnd
