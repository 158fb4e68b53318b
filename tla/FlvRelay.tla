------------------------------ MODULE FlvRelay ------------------------------
(***************************************************************************)
(* The distribution of the video stream: a server caches the sequence      *)
(* headers (one per type of data, needed to decode what follows) and sends *)
(* every frame to its users, with the headers before it where it thinks    *)
(* they are missing.  The center server gets frames from a user and sends  *)
(* them to the scene servers, its other users (UserManager); a scene       *)
(* server gets them from the center and sends them to its clients          *)
(* (PlayerManager).  Both have the same code, but for mIsOBSClient.        *)
(*                                                                         *)
(* Frames are sent user by user on the main loop's thread; links break on  *)
(* the io thread in between.                                               *)
(***************************************************************************)
EXTENDS Integers, Sequences

CONSTANTS
    Server,         \* the servers to look at: "center", "scene"
    User,           \* the connections of users
    HeaderType,     \* the types of sequence headers
    MaxVersion,     \* bound: how often the header of a type comes
    InitialFlag     \* what a flag that is not initialised may hold

ASSUME FlvRelayAssumption ==
    /\ Server \subseteq {"center", "scene"}
    /\ MaxVersion \in Nat
    /\ InitialFlag \subseteq BOOLEAN /\ InitialFlag # {}

VARIABLES
    server,             \* which server this is
    users,              \* the list of users
    mIsOBSClient,       \* user -> it has sent frames
    mFlvSeqHeaderFlag,  \* user -> it counts as having been sent the headers
    flvSeqHeaderMap,    \* type -> version of the cached header, 0 for none
    flvSeqHeaderChange,
    valid,              \* the users whose LinkID Send accepts
    gone,               \* the users whose connection has ended
    position,           \* the user SendFlvStream has got to, 0 between frames
    decoder,            \* user -> type -> version of the last header sent to it
    cleared,            \* ghost: the users whose flag happened to begin FALSE
    framed,             \* ghost: the users SendFlvStream has sent a frame to
    needed              \* ghost: user -> the headers cached at its first frame

listVars == <<server, users, mIsOBSClient, valid, gone>>
headerVars == <<flvSeqHeaderMap, flvSeqHeaderChange>>
ghostVars == <<cleared, framed, needed>>
flvVars == <<listVars, mFlvSeqHeaderFlag, headerVars, position, decoder, ghostVars>>

Listed == {users[k] : k \in DOMAIN users}

NoHeaders == [t \in HeaderType |-> 0]

Init ==
    /\ server \in Server
    /\ users = << >>
    /\ mIsOBSClient = [u \in User |-> FALSE]
    /\ mFlvSeqHeaderFlag \in [User -> InitialFlag]
    /\ cleared = {u \in User : ~mFlvSeqHeaderFlag[u]}
    /\ flvSeqHeaderMap = NoHeaders
    /\ flvSeqHeaderChange \in IF server = "center" THEN {FALSE} ELSE InitialFlag
    /\ valid = {}
    /\ gone = {}
    /\ position = 0
    /\ decoder = [u \in User |-> NoHeaders]
    /\ framed = {}
    /\ needed = [u \in User |-> NoHeaders]

-----------------------------------------------------------------------------
(* The list of users. *)

AddUser(u) ==
    /\ position = 0
    /\ u \notin Listed \cup gone
    /\ users' = Append(users, u)
    /\ valid' = valid \cup {u}
    /\ UNCHANGED <<server, mIsOBSClient, gone, mFlvSeqHeaderFlag, headerVars, position, decoder, ghostVars>>

\* The io thread takes the connection out of the pool.
LinkLost(u) ==
    /\ u \in valid
    /\ valid' = valid \ {u}
    /\ gone' = gone \cup {u}
    /\ UNCHANGED <<server, users, mIsOBSClient, mFlvSeqHeaderFlag, headerVars, position, decoder, ghostVars>>

\* Fault: the first user goes, whoever has left.
DeleteFirstUser(u) ==
    /\ position = 0
    /\ u \in Listed \cap gone
    /\ users' = Tail(users)
    /\ UNCHANGED <<server, mIsOBSClient, valid, gone, mFlvSeqHeaderFlag, headerVars,
                   position, decoder, ghostVars>>

\* The list once its k-th user is erased.
Erase(list, k) == SubSeq(list, 1, k - 1) \o SubSeq(list, k + 1, Len(list))

\* The main loop gets its ID_Disconnect: the user is erased where it is found.
DeleteUser(u) ==
    /\ position = 0
    /\ u \in gone
    /\ \E k \in DOMAIN users : users[k] = u /\ users' = Erase(users, k)
    /\ UNCHANGED <<server, mIsOBSClient, valid, gone, mFlvSeqHeaderFlag, headerVars,
                   position, decoder, ghostVars>>

-----------------------------------------------------------------------------
(* Headers. *)

\* Fault: a replaced header does not count as a change.
CacheSilently(t) ==
    /\ position = 0
    /\ flvSeqHeaderMap[t] < MaxVersion
    /\ flvSeqHeaderMap' = [flvSeqHeaderMap EXCEPT ![t] = @ + 1]
    /\ UNCHANGED <<listVars, mFlvSeqHeaderFlag, flvSeqHeaderChange, position, decoder, ghostVars>>

\* A header that replaces one counts as a change, the first of its type does not.
CacheFlvSeqHeaderData(t) ==
    /\ position = 0
    /\ flvSeqHeaderMap[t] < MaxVersion
    /\ flvSeqHeaderMap' = [flvSeqHeaderMap EXCEPT ![t] = @ + 1]
    /\ flvSeqHeaderChange' = (flvSeqHeaderChange \/ flvSeqHeaderMap[t] # 0)
    /\ UNCHANGED <<listVars, mFlvSeqHeaderFlag, position, decoder, ghostVars>>

\* Fault: one header is sent, not all of the map.
SendFirstSeqHeader(u) ==
    /\ decoder' =
        IF u \in valid /\ \E t \in HeaderType : flvSeqHeaderMap[t] # 0
        THEN [decoder EXCEPT ![u][CHOOSE t \in HeaderType : flvSeqHeaderMap[t] # 0] =
                flvSeqHeaderMap[CHOOSE t \in HeaderType : flvSeqHeaderMap[t] # 0]]
        ELSE decoder
    /\ mFlvSeqHeaderFlag' = [mFlvSeqHeaderFlag EXCEPT ![u] = @ \/ u \in valid]

\* All cached headers are sent, if the user's link is there.  With nothing cached
\* the user counts as served.
SendFlvSeqHeaderData(u) ==
    LET sent == u \in valid
        served == sent \/ flvSeqHeaderMap = NoHeaders
    IN  /\ decoder' = IF sent THEN [decoder EXCEPT ![u] = flvSeqHeaderMap] ELSE decoder
        /\ mFlvSeqHeaderFlag' = [mFlvSeqHeaderFlag EXCEPT ![u] = @ \/ served]

-----------------------------------------------------------------------------
(* Frames. *)

\* The center server gets ID_FLV_Stream from u: SetOBSStreamClient, then
\* SendFlvStream begins.
BeginFrame(u) ==
    /\ server = "center"
    /\ position = 0
    /\ u \in Listed
    /\ mIsOBSClient' = [mIsOBSClient EXCEPT ![u] = TRUE]
    /\ position' = 1
    /\ UNCHANGED <<server, users, valid, gone, mFlvSeqHeaderFlag, headerVars, decoder, ghostVars>>

\* A scene server gets ID_FLV_Stream from the center: SendFlvStream begins.
BeginSceneFrame ==
    /\ server = "scene"
    /\ position = 0
    /\ position' = 1
    /\ UNCHANGED <<listVars, mFlvSeqHeaderFlag, headerVars, decoder, ghostVars>>

\* The body of the loop in SendFlvStream: the headers, if they have not been sent
\* or have changed, and the frame.
SendTo(u) ==
    /\ IF ~mFlvSeqHeaderFlag[u] \/ flvSeqHeaderChange
       THEN SendFlvSeqHeaderData(u) /\ flvSeqHeaderChange' = FALSE
       ELSE UNCHANGED <<mFlvSeqHeaderFlag, flvSeqHeaderChange, decoder>>
    /\ framed' = framed \cup {u}
    /\ needed' = IF u \in valid \ framed
                 THEN [needed EXCEPT ![u] = flvSeqHeaderMap] ELSE needed

\* The next user's turn; one that sends frames itself is passed over.
SendFrame ==
    /\ position \in DOMAIN users
    /\ position' = position + 1
    /\ LET u == users[position] IN
       \/ ~mIsOBSClient[u] /\ SendTo(u)
       \/ /\ mIsOBSClient[u]
          /\ UNCHANGED <<mFlvSeqHeaderFlag, flvSeqHeaderChange, decoder, framed, needed>>
    /\ UNCHANGED <<listVars, flvSeqHeaderMap, cleared>>

\* The loop has come to the end of the list.
EndFrame ==
    /\ position > Len(users)
    /\ position' = 0
    /\ UNCHANGED <<listVars, mFlvSeqHeaderFlag, headerVars, decoder, ghostVars>>

-----------------------------------------------------------------------------
Next ==
    \/ \E u \in User : AddUser(u) \/ LinkLost(u) \/ DeleteUser(u) \/ BeginFrame(u)
    \/ \E t \in HeaderType : CacheFlvSeqHeaderData(t)
    \/ BeginSceneFrame \/ SendFrame \/ EndFrame

Spec == Init /\ [][Next]_flvVars

-----------------------------------------------------------------------------
(* Properties. *)

\* Every variable keeps its type, and the loop its place in the list.
TypeOK ==
    /\ users \in Seq(User)
    /\ mIsOBSClient \in [User -> BOOLEAN]
    /\ mFlvSeqHeaderFlag \in [User -> BOOLEAN]
    /\ flvSeqHeaderMap \in [HeaderType -> 0 .. MaxVersion]
    /\ flvSeqHeaderChange \in BOOLEAN
    /\ valid \subseteq Listed /\ gone \subseteq User
    /\ position \in 0 .. Len(users) + 1
    /\ decoder \in [User -> [HeaderType -> 0 .. MaxVersion]]

\* A user whose flag did not begin TRUE by accident can decode from its first
\* frame on: it has been sent a header of every type that was cached then, as new
\* as that or newer.
FirstFrameDecodable ==
    \A u \in framed \cap cleared : \A t \in HeaderType : decoder[u][t] >= needed[u][t]

\* User u has been sent a frame and has no outdated header.
UpToDate(u) == \A t \in HeaderType : decoder[u][t] \in {0, flvSeqHeaderMap[t]}

\* The users that have been sent the frame under way.
Reached == {users[k] : k \in 1 .. position - 1} \cap framed \cap valid

\* As long as frames have been sent to one user only, it never decodes a frame
\* with an outdated header.
OnlyUserUpToDate ==
    \A u \in Reached : framed = {u} /\ ~mIsOBSClient[u] => UpToDate(u)
=============================================================================
