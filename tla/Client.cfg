\* Two threads that send a package each, or one a large message; two heartbeats and a
\* message of the server.
CONSTANTS
    BigCount = 2
    Limit = 1
    MaxSends = 2
    MaxBeats = 2
    MaxTold = 1
SPECIFICATION Spec
INVARIANTS
    EventsTellTheStory
PROPERTIES
    ImplementsChannel
    HeartbeatAnswered
    BreakIsHandled
\* A bounded number of messages is sent.
CHECK_DEADLOCK FALSE
