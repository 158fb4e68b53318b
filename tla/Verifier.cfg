\* Two kinds of requests through queues of two places.
CONSTANTS
    Request = {r1, r2}
    None = None
    MaxSize = 2
    MaxRequests = 6
SPECIFICATION Spec
INVARIANTS
    TypeOK
    NoLostWakeup
PROPERTIES
    ImplementsChannel
\* A bounded number of requests comes.
CHECK_DEADLOCK FALSE
