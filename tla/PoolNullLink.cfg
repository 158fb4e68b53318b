\* One connection on one slot: its write fails, a message of it is read after
\* that, and the application answers the message.
CONSTANTS
    Session = {s1}
    NoSession = NoSession
    MaxLinks = 1
    MaxSid = 2
    MaxData = 1
    MaxWrite = 1
SPECIFICATION Spec
INVARIANTS
    SendToInvalidLinkReturns
CHECK_DEADLOCK FALSE
