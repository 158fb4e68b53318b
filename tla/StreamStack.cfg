\* Two small messages, the second of which is written from the stack.
CONSTANTS
    v1 = v1
    v2 = v2
    v3 = v3
    Small = {m}
    Big <- MCBig
    None = None
    Lossy <- MCLossy
    SectionCount <- MCSectionCount
    Limit = 2
    LateCopy = TRUE
    MaxSends = 2
    MaxBeats = 0
SPECIFICATION Spec
INVARIANTS
    QueueIsSentAsQueued
CHECK_DEADLOCK FALSE
