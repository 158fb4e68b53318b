\* Three connections on two slots, sids 1 and 2: the pool fills, a slot is used
\* again and m_id wraps.
CONSTANTS
    Session = {s1, s2, s3}
    NoSession = NoSession
    MaxLinks = 2
    MaxSid = 2
    MaxData = 1
    MaxWrite = 1
SPECIFICATION Spec
SYMMETRY SessionSymmetry
INVARIANTS
    TypeOK
    OnlineCount
    SlotOwner
    HeldLinkIsRead
    AnnouncedIsLive
    EventsBracketed
    SidReuse
    StaleHandleRefused
\* The accepted connections end and a crash ends everything.
CHECK_DEADLOCK FALSE
