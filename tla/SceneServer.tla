----------------------------- MODULE SceneServer -----------------------------
(***************************************************************************)
(* The main loop of the scene servers: the list of players each keeps      *)
(* (PlayerManager), what it tells its clients, and what it exchanges with  *)
(* the center server.  One action is one turn of the loop: the handling of *)
(* a message of a client, or of one the center has sent.                   *)
(*                                                                         *)
(* A client here is one connection; a message to a client is modelled by   *)
(* what it changes in the client's picture of the theatre (told), since    *)
(* one link keeps the order of its messages.                               *)
(***************************************************************************)
EXTENDS Integers, Sequences, FiniteSets

CONSTANTS
    Scene,      \* the scene servers
    Client,     \* the connections of clients
    NoClient,   \* no player (a null Player*)
    SceneOf,    \* client -> the server it connects to
    Kind,       \* client -> the type it tells with c2s_tell_user_type
    SeatOf,     \* client -> the seat it tells with c2s_tell_seat_num
    Command,    \* begin_flying, play_video, stand_up, walk
    Script,     \* bound: what may happen in one behaviour, a set of sets of
                \* clients that come, commands given, states told, scenes sent
                \* c2s_seen_external, and "center_lost"
    MaxQueue    \* bound: messages of one scene the center has not handled

UserType == {"VIP", "Capsule", "VideoCamera"}

\* Several connections may tell the same seat: a chair that comes back is a new
\* connection with the old seat.
ASSUME SceneAssumption ==
    /\ NoClient \notin Client
    /\ SceneOf \in [Client -> Scene]
    /\ Kind \in [Client -> UserType]
    /\ SeatOf \in [Client -> Nat \ {0}]
    /\ MaxQueue \in Nat

VARIABLES
    players,        \* scene -> PlayerManager's list of players
    mUserType, mSeatNumber, bBoundUser,     \* client -> fields of its Player
    user_visible_flag,  \* scene -> its users are visible to other scenes
    script,     \* the member of Script this behaviour keeps to
    said,       \* client -> what it has told its server that is told once
    told,       \* client -> what it has been told
    issued,     \* the commands given, each once, and the scenes sent seen_external
    link,       \* scene -> the connection to the center
    toCenter,   \* scene -> messages the center has still to handle
    fromCenter, \* scene -> messages the scene has still to handle
    missed,     \* scene -> ghost: since its last list that reached all scenes, a
                \* message to the center was refused or not all scenes got it
    asked       \* ghost: clients seated when their scene sent a request for lists

playerVars == <<players, mUserType, mSeatNumber, bBoundUser>>
clientVars == <<script, said, told, issued>>
linkVars == <<link, toCenter, fromCenter, missed, asked>>
sceneVars == <<playerVars, user_visible_flag, clientVars, linkVars>>

Seat == {SeatOf[c] : c \in Client}

\* A client's picture: the seats taken in its own scene and in others, the
\* commands it got, and the seats it was given, with the players they are of.
Nothing == [seats |-> {}, external |-> [s \in Scene |-> {}],
            commands |-> << >>, given |-> << >>]

Init ==
    /\ players = [s \in Scene |-> << >>]
    /\ mUserType = [c \in Client |-> "VIP"]
    /\ mSeatNumber = [c \in Client |-> 0]
    /\ bBoundUser = [c \in Client |-> FALSE]
    /\ user_visible_flag = [s \in Scene |-> FALSE]
    /\ script \in Script
    /\ said = [c \in Client |-> {}]
    /\ told = [c \in Client |-> Nothing]
    /\ issued = {}
    /\ link = [s \in Scene |-> "connecting"]
    /\ toCenter = [s \in Scene |-> << >>]
    /\ fromCenter = [s \in Scene |-> << >>]
    /\ missed = [s \in Scene |-> FALSE]
    /\ asked = {}

-----------------------------------------------------------------------------
(* PlayerManager. *)

Present(s) == {players[s][k] : k \in DOMAIN players[s]}

\* Where the first player of the list that is one of C stands.
IsFirst(s, C, k) ==
    /\ k \in DOMAIN players[s]
    /\ players[s][k] \in C
    /\ \A j \in 1 .. k - 1 : players[s][j] \notin C

FirstOf(s, C) ==
    IF C \cap Present(s) = {} THEN NoClient
    ELSE players[s][CHOOSE k \in DOMAIN players[s] : IsFirst(s, C, k)]

FindPlayerBySeatNumber(s, n) == FirstOf(s, {c \in Client : mSeatNumber[c] = n})

\* A player nobody is bound to and who is not known to be something else than a
\* VIP client.
GetFreePlayer(s) ==
    FirstOf(s, {c \in Client : ~bBoundUser[c] /\ mUserType[c] = "VIP"})

\* The list once its k-th player is erased.
Erase(list, k) ==
    [i \in 1 .. Len(list) - 1 |-> IF i < k THEN list[i] ELSE list[i + 1]]

\* DeletePlayer: the list and the player's own fields.
DeletePlayer(c) ==
    /\ \E k \in DOMAIN players[SceneOf[c]] :
        /\ IsFirst(SceneOf[c], {c}, k)
        /\ players' = [players EXCEPT ![SceneOf[c]] = Erase(@, k)]
    /\ mUserType' = [mUserType EXCEPT ![c] = "VIP"]
    /\ mSeatNumber' = [mSeatNumber EXCEPT ![c] = 0]
    /\ bBoundUser' = [bBoundUser EXCEPT ![c] = FALSE]

\* The seats of a client list; the buffer holds more profiles than there are
\* seats.
ClientList(s) ==
    {mSeatNumber[c] : c \in {d \in Present(s) : mUserType[d] = "VIP" /\ mSeatNumber[d] > 0}}

-----------------------------------------------------------------------------
(* The link to the center server. *)

Request(s) == [kind |-> "req_usr_list", scene |-> s]

\* Send of HXLibClient: nothing is sent without a connection, and no caller
\* looks at the result.
SendToCenter(s, msgs) ==
    /\ toCenter' = IF link[s] = "up" THEN [toCenter EXCEPT ![s] = @ \o msgs] ELSE toCenter
    /\ missed' = [missed EXCEPT ![s] = @ \/ (link[s] # "up" /\ msgs # << >>)]
    /\ asked' = IF link[s] = "up" /\ \E k \in DOMAIN msgs : msgs[k] = Request(s)
                THEN asked \cup {c \in Present(s) : mSeatNumber'[c] > 0} ELSE asked

\* SendClientListToCenterServer: an empty list is not sent.
ListMessages(s) ==
    IF ClientList(s) = {} THEN << >>
    ELSE << [kind |-> "client_list_external", scene |-> s, seats |-> ClientList(s)] >>

\* The part of BroadcastUserState for the center.
StateMessages(s, c, state) ==
    IF user_visible_flag[s] /\ mUserType[c] = "VIP"
    THEN << [kind |-> "upd_user_state", scene |-> s, seat |-> mSeatNumber[c], state |-> state] >>
    ELSE << >>

-----------------------------------------------------------------------------
(* What a client is told. *)

ShowSeat(s, n) ==
    [c \in Client |-> IF c \in Present(s)
                      THEN [told[c] EXCEPT !.seats = @ \cup {n}] ELSE told[c]]

HideSeat(s, n) ==
    [c \in Client |-> IF c \in Present(s)
                      THEN [told[c] EXCEPT !.seats = @ \ {n}] ELSE told[c]]

\* SendMsg of a message about another scene, whose seats become what f gives.
ShowExternal(s, from, f) ==
    [c \in Client |-> IF c \in Present(s)
                      THEN [told[c] EXCEPT !.external[from] = f[@]] ELSE told[c]]

\* BroadcastControlCmd leaves capsule clients out.
ShowCommand(s, cmd) ==
    [c \in Client |-> IF c \in Present(s) /\ mUserType[c] # "Capsule"
                      THEN [told[c] EXCEPT !.commands = Append(@, cmd)] ELSE told[c]]

-----------------------------------------------------------------------------
(* Messages of the clients. *)

\* Environment: the end of a chair's last connection has been handled before its
\* next one comes.
ChairIsFree(c) == \A d \in Present(SceneOf[c]) : SeatOf[d] # SeatOf[c]

\* ID_Connect: a new player, who is sent the list of the seated VIP clients.
Connect(c) ==
    LET s == SceneOf[c] IN
    /\ c \in script
    /\ "connect" \notin said[c]
    /\ ChairIsFree(c)
    /\ said' = [said EXCEPT ![c] = {"connect"}]
    /\ players' = [players EXCEPT ![s] = Append(@, c)]
    /\ told' = [told EXCEPT ![c] = [Nothing EXCEPT !.seats = ClientList(s)]]
    /\ UNCHANGED <<mUserType, mSeatNumber, bBoundUser, user_visible_flag, script, issued, linkVars>>

\* Fault: the player is deleted first, and then not found any more.
DisconnectDeletesFirst(c) ==
    /\ c \in Present(SceneOf[c])
    /\ told' = [told EXCEPT ![c] = Nothing]
    /\ DeletePlayer(c)
    /\ UNCHANGED <<user_visible_flag, script, said, issued, linkVars>>

\* ID_Disconnect, SendPlayerLeaveMsg: all clients, and the center if the users
\* are visible, are told that the seat is left; then the player is deleted.
Disconnect(c) ==
    LET s == SceneOf[c]
        leave == [kind |-> "user_leave_external", scene |-> s, seat |-> mSeatNumber[c]]
    IN  /\ c \in Present(s)
        /\ told' = [HideSeat(s, mSeatNumber[c]) EXCEPT ![c] = Nothing]
        /\ SendToCenter(s, IF user_visible_flag[s] THEN <<leave>> ELSE << >>)
        /\ DeletePlayer(c)
        /\ UNCHANGED <<user_visible_flag, script, said, issued, link, fromCenter>>

\* Fault: the type goes to the first player of the list.
TellUserTypeOfFirst(c) ==
    /\ c \in Present(SceneOf[c])
    /\ mUserType' = [mUserType EXCEPT ![Head(players[SceneOf[c]])] = Kind[c]]
    /\ UNCHANGED <<players, mSeatNumber, bBoundUser, user_visible_flag, clientVars, linkVars>>

\* c2s_tell_user_type.
TellUserType(c) ==
    /\ c \in Present(SceneOf[c])
    /\ mUserType' = [mUserType EXCEPT ![c] = Kind[c]]
    /\ UNCHANGED <<players, mSeatNumber, bBoundUser, user_visible_flag, clientVars, linkVars>>

\* c2s_tell_seat_num of a VIP client: all clients learn of the seat, the center
\* too if the users are visible, and then the lists of both scenes are exchanged
\* once more.
TellSeatNumber(c) ==
    LET s == SceneOf[c] IN
    /\ Kind[c] = "VIP"
    /\ c \in Present(s)
    /\ mSeatNumber[c] = 0
    /\ mSeatNumber' = [mSeatNumber EXCEPT ![c] = SeatOf[c]]
    /\ UNCHANGED <<players, mUserType, bBoundUser, user_visible_flag, script, said, issued, link, fromCenter>>
    /\ told' = ShowSeat(s, SeatOf[c])
    /\ SendToCenter(s, IF user_visible_flag[s]
                       THEN StateMessages(s, c, "initial")' \o ListMessages(s)' \o <<Request(s)>>
                       ELSE << >>)

\* Fault: the player is not marked as bound.
TellUserProfileUnbound(c) ==
    LET s == SceneOf[c]
        p == GetFreePlayer(s)
    IN  /\ Kind[c] = "Capsule" /\ c \in Present(s) /\ p # NoClient
        /\ "profile" \notin said[c]
        /\ said' = [said EXCEPT ![c] = @ \cup {"profile"}]
        /\ told' = [told EXCEPT ![c].given = Append(@, [player |-> p, seat |-> mSeatNumber[p]])]
        /\ SendToCenter(s, StateMessages(s, p, "entering"))
        /\ UNCHANGED <<playerVars, user_visible_flag, script, issued, link, fromCenter>>

\* c2s_tell_user_profile of a capsule client: it is bound to the first free
\* player, whose seat it is given.  With no free player it gets an error, and
\* the state is broadcast for the player an uninitialised retPlyId names.
TellUserProfile(c) ==
    LET s == SceneOf[c]
        p == GetFreePlayer(s)
    IN  /\ Kind[c] = "Capsule"
        /\ c \in Present(s)
        /\ "profile" \notin said[c]
        /\ said' = [said EXCEPT ![c] = @ \cup {"profile"}]
        /\ \/ /\ p # NoClient
              /\ told' = [told EXCEPT ![c].given = Append(@, [player |-> p, seat |-> mSeatNumber[p]])]
              /\ bBoundUser' = [bBoundUser EXCEPT ![p] = TRUE]
              /\ SendToCenter(s, StateMessages(s, p, "entering"))
           \/ /\ p = NoClient
              /\ \/ \E r \in Present(s) : SendToCenter(s, StateMessages(s, r, "entering"))
                 \/ UNCHANGED <<toCenter, missed, asked>>
              /\ UNCHANGED <<bBoundUser, told>>
        /\ UNCHANGED <<players, mUserType, mSeatNumber, user_visible_flag,
                       script, issued, link, fromCenter>>

\* c2s_tell_ready: the profile of the player in the seat goes to all clients.
TellReady(c) ==
    LET s == SceneOf[c]
        p == FindPlayerBySeatNumber(s, SeatOf[c])
    IN  /\ c \in Present(s)
        /\ mSeatNumber[c] # 0
        /\ told' = IF p # NoClient /\ mUserType[p] = "VIP" THEN ShowSeat(s, SeatOf[c]) ELSE told
        /\ UNCHANGED <<playerVars, user_visible_flag, script, said, issued, linkVars>>

\* c2s_present_flowers and c2s_stop_present_flowers.
PresentFlowers(c, state) ==
    LET s == SceneOf[c] IN
    /\ c \in Present(s)
    /\ state \in script
    /\ Len(toCenter[s]) < MaxQueue
    /\ SendToCenter(s, StateMessages(s, c, state))
    /\ UNCHANGED <<playerVars, user_visible_flag, clientVars, link, fromCenter>>

\* Fault: the server tells its own clients at once.
GlobalCommandAtOnce(c, cmd) ==
    LET s == SceneOf[c] IN
    /\ c \in Present(s)
    /\ cmd \in script \ issued
    /\ issued' = issued \cup {cmd}
    /\ told' = ShowCommand(s, cmd)
    /\ SendToCenter(s, << [kind |-> "command", scene |-> s, command |-> cmd] >>)
    /\ UNCHANGED <<playerVars, user_visible_flag, script, said, link, fromCenter>>

\* A global command goes to the center, which sends it back to every scene.
GlobalCommand(c, cmd) ==
    LET s == SceneOf[c] IN
    /\ c \in Present(s)
    /\ cmd \in script \ issued
    /\ issued' = issued \cup {cmd}
    /\ SendToCenter(s, << [kind |-> "command", scene |-> s, command |-> cmd] >>)
    /\ UNCHANGED <<playerVars, user_visible_flag, script, said, told, link, fromCenter>>

\* c2s_seen_external, which a scene gets once.
SeenExternal(c) ==
    LET s == SceneOf[c] IN
    /\ c \in Present(s)
    /\ s \in script \ issued
    /\ issued' = issued \cup {s}
    /\ user_visible_flag' = [user_visible_flag EXCEPT ![s] = TRUE]
    /\ UNCHANGED <<playerVars, script, said, told, link, fromCenter>>
    /\ SendToCenter(s, ListMessages(s) \o <<Request(s)>>)

-----------------------------------------------------------------------------
(* Messages of the center. *)

\* Fault: a scene that is visible already does not answer.
HandleRequestOnce(s) ==
    /\ user_visible_flag' = [user_visible_flag EXCEPT ![s] = TRUE]
    /\ SendToCenter(s, IF user_visible_flag[s] THEN << >> ELSE ListMessages(s))
    /\ UNCHANGED told

\* s2s_req_usr_list makes the users visible and is answered with their list.
HandleRequest(s) ==
    /\ user_visible_flag' = [user_visible_flag EXCEPT ![s] = TRUE]
    /\ SendToCenter(s, ListMessages(s))
    /\ UNCHANGED told

\* The others are passed on to the clients.
PassOn(s, m) ==
    /\ told' =
        CASE m.kind = "command" -> ShowCommand(s, m.command)
          [] m.kind = "client_list_external" ->
                ShowExternal(s, m.scene, [S \in SUBSET Seat |-> S \cup m.seats])
          [] m.kind = "user_leave_external" ->
                ShowExternal(s, m.scene, [S \in SUBSET Seat |-> S \ {m.seat}])
          [] m.kind = "upd_user_state" ->
                IF m.state = "initial"
                THEN ShowExternal(s, m.scene, [S \in SUBSET Seat |-> S \cup {m.seat}])
                ELSE told
    /\ UNCHANGED <<user_visible_flag, toCenter, missed, asked>>

HandleCenterMessage(s) ==
    /\ fromCenter[s] # << >>
    /\ fromCenter' = [fromCenter EXCEPT ![s] = Tail(@)]
    /\ LET m == Head(fromCenter[s]) IN
       \/ m.kind = "req_usr_list" /\ HandleRequest(s)
       \/ m.kind # "req_usr_list" /\ PassOn(s, m)
    /\ UNCHANGED <<playerVars, script, said, issued, link>>

-----------------------------------------------------------------------------
SceneNext ==
    \/ \E c \in Client :
        \/ Connect(c) \/ Disconnect(c)
        \/ TellUserType(c) \/ TellSeatNumber(c) \/ TellUserProfile(c) \/ TellReady(c)
        \/ \E state \in {"present_flowers", "stop_present_flowers"} : PresentFlowers(c, state)
        \/ \E cmd \in Command : GlobalCommand(c, cmd)
        \/ SeenExternal(c)
    \/ \E s \in Scene : HandleCenterMessage(s)
=============================================================================
