SPECIFICATION CamSpec
CONSTANTS
    MaxStarts = 2
    OneStart = FALSE
PROPERTIES
    RecoveryClosesCamera
