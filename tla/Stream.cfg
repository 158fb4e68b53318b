\* Two messages out of a small one and large ones of one and two sections.
CONSTANTS
    v1 = v1
    v2 = v2
    v3 = v3
    Small = {m}
    Big <- MCBig
    None = None
    Lossy <- MCLossy
    SectionCount <- MCSectionCount
    Limit = 2
    LateCopy = FALSE
    MaxSends = 2
    MaxBeats = 1
SPECIFICATION Spec
INVARIANTS
    TypeOK
    WriteOutstanding
    BacklogNotOverstated
PROPERTIES
    ImplementsChannel
\* A bounded number of messages is sent.
CHECK_DEADLOCK FALSE
