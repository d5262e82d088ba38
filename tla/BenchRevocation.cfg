CONSTANTS
    CommandTimeout = 2
    MaxUptime = 2
    MaxPeerBoot = 2
SPECIFICATION Spec
INVARIANT RevokedIsClosed
CHECK_DEADLOCK FALSE
