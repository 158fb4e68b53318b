\* Queues up to one longer than the limit, which large messages make possible.
CONSTANTS
    Content = {a, b}
    Address = {p1, p2}
    NullPtr = NullPtr
    QueueMax = 2
    MaxLength = 3
SPECIFICATION Spec
INVARIANTS
    TypeOK
    BuffersOwned
PROPERTIES
    ImplementsFifo
