CONSTANTS
    Profiles <- OneStream
    MaxBoot = 3
    MaxClear = 1
    MaxSequence = 2
SPECIFICATION Spec
INVARIANTS TypeOK  
PROPERTIES ClearsOnce RevokedStaysRevoked
