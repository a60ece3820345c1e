CONSTANTS
    Senders = {s1, s2}
    Host = h
    MaxSends = 2
SPECIFICATION FairSpec
CHECK_DEADLOCK FALSE
INVARIANTS TypeOK NoLostWakeup ArmedFlagIsLive
PROPERTY EventuallyDrained
