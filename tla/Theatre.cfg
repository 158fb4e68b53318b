\* Two scenes. What happens in them is one of the scripts of MCTheatre.
CONSTANTS
    sA = sA
    sB = sB
    a1 = a1
    a2 = a2
    a3 = a3
    b1 = b1
    k1 = k1
    k2 = k2
    Scene = {sA, sB}
    Client = {a1, a2, a3, b1, k1, k2}
    NoClient = NoClient
    SceneOf <- MCSceneOf
    Kind <- MCKind
    SeatOf <- MCSeatOf
    Command = {begin_flying, play_video}
    Script <- MCScript
    MaxQueue = 1
    MaxLost = 1
SPECIFICATION TheatreSpec
INVARIANTS
    TheatreTypeOK
    LocalViews
    ExternalViews
    CommandsInOneOrder
    SeatGivenOnce
\* The clients leave.
CHECK_DEADLOCK FALSE
