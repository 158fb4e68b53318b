\* Three users, of whom any may be a source at the center server, and two types
\* of headers that come up to twice.
CONSTANTS
    Server = {"center", "scene"}
    User = {u1, u2, u3}
    HeaderType = {audio, video}
    MaxVersion = 2
    InitialFlag = {TRUE, FALSE}
SPECIFICATION Spec
SYMMETRY UserSymmetry
INVARIANTS
    TypeOK
    FirstFrameDecodable
    OnlyUserUpToDate
\* The connections end.
CHECK_DEADLOCK FALSE
