------------------------------ MODULE Theatre ------------------------------
(***************************************************************************)
(* Scene servers connected by the center server, which forwards what one   *)
(* scene says to the others, and global commands to all of them.           *)
(***************************************************************************)
EXTENDS SceneServer

CONSTANT MaxLost    \* bound: connections to the center that break, where the
                    \* script has that

VARIABLE centerUsers    \* the scenes in the center's UserManager

theatreVars == <<sceneVars, centerUsers>>

TheatreInit ==
    /\ Init
    /\ centerUsers = {}

-----------------------------------------------------------------------------
(* The connection of a scene to the center. *)

\* handle_connect: from now on messages can be sent, the first the center gets
\* being the service's ID_Connect.
CenterConnected(s) ==
    /\ link[s] = "connecting"
    /\ link' = [link EXCEPT ![s] = "up"]
    /\ toCenter' = [toCenter EXCEPT ![s] = << [kind |-> "connect", scene |-> s] >>]
    /\ UNCHANGED <<playerVars, user_visible_flag, clientVars, fromCenter, missed, asked, centerUsers>>

\* The connection breaks: what was under way may be lost from some message on,
\* and the center gets ID_Disconnect last.  The scene goes on without it.
CenterLost(s) ==
    /\ "center_lost" \in script
    /\ link[s] = "up"
    /\ Cardinality({t \in Scene : link[t] = "down"}) < MaxLost
    /\ link' = [link EXCEPT ![s] = "down"]
    /\ \E k \in 0 .. Len(toCenter[s]) :
        toCenter' = [toCenter EXCEPT ![s] =
            (IF k = 0 /\ s \notin centerUsers THEN SubSeq(@, 1, 1) ELSE SubSeq(@, 1, k))
                \o << [kind |-> "disconnect", scene |-> s] >>]
    /\ \E k \in 0 .. Len(fromCenter[s]) :
        fromCenter' = [fromCenter EXCEPT ![s] = SubSeq(@, 1, k)]
    /\ UNCHANGED <<playerVars, user_visible_flag, clientVars, missed, asked, centerUsers>>

-----------------------------------------------------------------------------
(* The center server. *)

\* Send to users: those with a connection get the message.
Forward(users, m) ==
    fromCenter' = [s \in Scene |->
        IF s \in users /\ link[s] = "up" THEN Append(fromCenter[s], m) ELSE fromCenter[s]]

ForwardCommand(m) == Forward(centerUsers, m)

\* A message goes to the users whose sid is not the source's.
ForwardMsg(source, m) == Forward(centerUsers \ {source}, m)

\* A turn of the center's main loop.
CenterHandle(s) ==
    /\ toCenter[s] # << >>
    /\ toCenter' = [toCenter EXCEPT ![s] = Tail(@)]
    /\ LET m == Head(toCenter[s]) IN
       \/ /\ m.kind = "connect"
          /\ centerUsers' = centerUsers \cup {s}
          /\ UNCHANGED <<fromCenter, missed>>
       \/ /\ m.kind = "disconnect"
          /\ centerUsers' = centerUsers \ {s}
          /\ UNCHANGED <<fromCenter, missed>>
       \/ /\ m.kind = "command"
          /\ ForwardCommand(m)
          /\ UNCHANGED <<centerUsers, missed>>
       \/ /\ m.kind \notin {"connect", "disconnect", "command"}
          /\ ForwardMsg(s, m)
          /\ missed' = [missed EXCEPT ![s] =
                          centerUsers # Scene \/ (@ /\ m.kind # "client_list_external")]
          /\ UNCHANGED centerUsers
    /\ UNCHANGED <<playerVars, user_visible_flag, clientVars, link, asked>>

-----------------------------------------------------------------------------
TheatreNext ==
    \/ SceneNext /\ UNCHANGED centerUsers
    \/ \E s \in Scene : CenterConnected(s) \/ CenterLost(s) \/ CenterHandle(s)

TheatreSpec == TheatreInit /\ [][TheatreNext]_theatreVars

-----------------------------------------------------------------------------
(* Properties. *)

Message ==
    [kind : {"connect", "disconnect", "req_usr_list"}, scene : Scene]
        \cup [kind : {"client_list_external"}, scene : Scene, seats : SUBSET Seat]
        \cup [kind : {"user_leave_external"}, scene : Scene, seat : Seat \cup {0}]
        \cup [kind : {"upd_user_state"}, scene : Scene, seat : Seat \cup {0},
              state : {"initial", "entering", "present_flowers", "stop_present_flowers"}]
        \cup [kind : {"command"}, scene : Scene, command : Command]

\* Every variable keeps its type; a player has the type and the seat its own
\* client has told, or the ones it began with.
TheatreTypeOK ==
    /\ players \in [Scene -> Seq(Client)]
    /\ \A c \in Client : /\ mUserType[c] \in {"VIP", Kind[c]}
                         /\ mSeatNumber[c] \in {0, SeatOf[c]}
    /\ bBoundUser \in [Client -> BOOLEAN]
    /\ user_visible_flag \in [Scene -> BOOLEAN]
    /\ told \in [Client -> [seats : SUBSET Seat, external : [Scene -> SUBSET Seat],
                            commands : Seq(Command),
                            given : Seq([player : Client, seat : Seat \cup {0}])]]
    /\ link \in [Scene -> {"connecting", "up", "down"}]
    /\ \A s \in Scene : /\ toCenter[s] \in Seq(Message)
                        /\ fromCenter[s] \in Seq(Message)
    /\ centerUsers \subseteq Scene

\* Each client of a scene shows exactly the seats of the VIP clients there,
\* whenever it came and whoever has come and gone since.
LocalViews ==
    \A s \in Scene : \A c \in Present(s) : told[c].seats = ClientList(s)

Quiet == \A s \in Scene : toCenter[s] = << >> /\ fromCenter[s] = << >>

\* Scenes that are connected and visible to each other agree: once all messages
\* between the servers are handled, the clients that were seated when their scene
\* last asked for lists show exactly the seats taken in the other scene, whatever
\* the order of joining, leaving, connecting and becoming visible.
ExternalViews ==
    \A s, t \in Scene :
        /\ s # t /\ Quiet
        /\ link[s] = "up" /\ user_visible_flag[s] /\ ~missed[s]
        /\ link[t] = "up" /\ user_visible_flag[t] /\ ~missed[t]
        => \A c \in Present(s) \cap asked : told[c].external[t] = ClientList(t)

\* Two clients, of one scene or of two, never get two commands in different
\* orders.
CommandsInOneOrder ==
    \A c, d \in Client :
        LET p == told[c].commands
            q == told[d].commands
        IN  \A i, j \in DOMAIN p : \A k, l \in DOMAIN q :
                i < j /\ p[i] = q[k] /\ p[j] = q[l] => k < l

\* No player is given away twice, and no two players of a scene that are there at
\* the same time are given away with the same seat, whoever comes, tells its seat,
\* leaves or comes back in between.  (A chair that has left and come back is a new
\* player that nobody is bound to, so its seat may be given away once more.  A
\* player that has told no seat may be given away too: seat 0 is no seat.)
SeatGivenOnce ==
    \A c, d \in Client : \A i \in DOMAIN told[c].given : \A j \in DOMAIN told[d].given :
        LET g == told[c].given[i]
            h == told[d].given[j]
        IN  \/ g.player = h.player
            \/ /\ \E s \in Scene : {g.player, h.player} \subseteq Present(s)
               /\ g.seat = h.seat /\ g.seat # 0
            => c = d /\ i = j
=============================================================================
