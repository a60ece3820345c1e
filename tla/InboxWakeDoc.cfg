CONSTANTS
    Senders = {s1, s2}
    Host = h
    MaxSends = 2
SPECIFICATION Spec
CHECK_DEADLOCK FALSE
INVARIANT NeverLostWakeup
