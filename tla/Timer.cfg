\* Three clients, and a buffer that holds the transforms of two.
CONSTANTS
    Client = {c1, c2, c3}
    NoClient = NoClient
    Center = Center
    Capacity = 2
SPECIFICATION Spec
INVARIANTS
    TypeOK
    CollectedAreListed
    MovesAreMarked
    LateAtMostOnce
PROPERTIES
    MovesAreShown
