\* Two connections on two slots; the queue overflows at its third event.
CONSTANTS
    Session = {s1, s2}
    NoSession = NoSession
    MaxLinks = 2
    MaxSid = 2
    MaxData = 1
    MaxWrite = 1
    QueueMax = 3
SPECIFICATION ServiceSpec
INVARIANTS
    UsersFollowLinks
    UserCallsAreSafe
PROPERTIES
    GoneUsersLeave
\* The accepted connections end and a crash ends everything.
CHECK_DEADLOCK FALSE
