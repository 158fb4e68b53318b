----------------------------- MODULE SceneTimer -----------------------------
(***************************************************************************)
(* The transforms of a scene server's players.  The main loop stores the   *)
(* transform a client sends (UpdatePlayerTransform); every 30 ms the timer *)
(* thread (SvcTimer) collects the new ones and sends them to all clients   *)
(* and, once the users are visible to other scenes, to the center.         *)
(*                                                                         *)
(* The threads share the list of players.  The timer holds mMutex while it *)
(* walks, and the main loop for each of its operations but the message     *)
(* that a player leaves, whose own loop takes no lock.  An operation of    *)
(* the main loop under the lock is one step, possible while the timer does *)
(* not have it; the timer's walk is a step per player.                     *)
(***************************************************************************)
EXTENDS Integers, Sequences, FiniteSets

CONSTANTS
    Client,     \* the connections of clients, and their Player objects
    NoClient,   \* no player
    Center,     \* the center server
    Capacity    \* the transforms that fit in buffer

ASSUME SceneTimerAssumption ==
    /\ NoClient \notin Client
    /\ Center \notin Client
    /\ Capacity \in Nat \ {0}

VARIABLES
    players,    \* the list of players
    update,     \* client -> transInfo.update of its player
    user_visible_flag,
    used,       \* the connections that have begun
    leaving,    \* the player SendPlayerLeaveMsg has announced and not yet deleted
    timerPc,    \* "waiting", or what the timer does with the lock held
    position,   \* where it is in the list
    buffer,     \* the players whose transforms it has collected
    due,        \* client -> those who were there when it last moved and have
                \* not been sent that transform
    late        \* ghost: receiver -> transforms of the player leaving it has
                \* been sent after that player was announced as gone

listVars == <<players, used, leaving, user_visible_flag>>
timerVars == <<timerPc, position, buffer>>
sceneTimerVars == <<listVars, timerVars, update, due, late>>

Receiver == Client \cup {Center}

Listed == {players[k] : k \in DOMAIN players}

\* mMutex can be taken by the main loop.
Unlocked == timerPc = "waiting"

\* The main loop is not inside SendPlayerLeaveMsg.
MainIdle == leaving = NoClient

Init ==
    /\ players = << >>
    /\ update = [c \in Client |-> FALSE]
    /\ user_visible_flag = FALSE
    /\ used = {}
    /\ leaving = NoClient
    /\ timerPc = "waiting"
    /\ position = 1
    /\ buffer = {}
    /\ due = [c \in Client |-> {}]
    /\ late = [r \in Receiver |-> 0]

-----------------------------------------------------------------------------
(* The main loop. *)

AddPlayer(c) ==
    /\ MainIdle /\ Unlocked
    /\ c \notin used
    /\ used' = used \cup {c}
    /\ players' = Append(players, c)
    /\ UNCHANGED <<leaving, user_visible_flag, timerVars, update, due, late>>

\* SetUserVisibilityExternal(true), which takes no lock.
ShowUsers ==
    /\ MainIdle
    /\ user_visible_flag' = TRUE
    /\ UNCHANGED <<players, used, leaving, timerVars, update, due, late>>

\* ID_User_Transform: everybody who is there is to be sent the new transform.
UpdatePlayerTransform(c) ==
    /\ MainIdle /\ Unlocked
    /\ c \in Listed
    /\ update' = [update EXCEPT ![c] = TRUE]
    /\ due' = [due EXCEPT ![c] = Listed \cup IF user_visible_flag THEN {Center} ELSE {}]
    /\ UNCHANGED <<listVars, timerVars, late>>

\* SendPlayerLeaveMsg up to DeletePlayer: everybody is told that c leaves, while
\* the timer may be at work.  What matters here is, for each receiver, what it is
\* sent after its message, so that the messages are one step is no restriction.
SendPlayerLeaveMsg(c) ==
    /\ MainIdle
    /\ c \in Listed
    /\ leaving' = c
    /\ UNCHANGED <<players, used, user_visible_flag, timerVars, update, due, late>>

\* The list once its k-th player is erased.
Erase(list, k) ==
    [i \in 1 .. Len(list) - 1 |-> IF i < k THEN list[i] ELSE list[i + 1]]

\* The player that leaves is nobody's any more.
Forget(c) ==
    /\ \E k \in DOMAIN players : players[k] = c /\ players' = Erase(players, k)
    /\ update' = [update EXCEPT ![c] = FALSE]
    /\ due' = [d \in Client |-> IF d = c THEN {} ELSE due[d] \ {c}]
    /\ leaving' = NoClient
    /\ late' = [r \in Receiver |-> 0]
    /\ UNCHANGED <<used, user_visible_flag, timerVars>>

\* Fault: the player is erased without the lock.
DeletePlayerUnlocked ==
    /\ ~MainIdle
    /\ Forget(leaving)

DeletePlayer ==
    /\ ~MainIdle /\ Unlocked
    /\ Forget(leaving)

-----------------------------------------------------------------------------
(* The timer's handler. *)

\* 30 ms have passed; the handler takes the lock.
TimerBegin ==
    /\ timerPc = "waiting"
    /\ timerPc' = "collecting"
    /\ position' = 1
    /\ buffer' = {}
    /\ UNCHANGED <<listVars, update, due, late>>

\* Fault: the flag of the player is left set.
CollectKeepsUpdate ==
    /\ timerPc = "collecting"
    /\ position \in DOMAIN players
    /\ Cardinality(buffer) < Capacity
    /\ buffer' = IF update[players[position]] THEN buffer \cup {players[position]} ELSE buffer
    /\ position' = position + 1
    /\ UNCHANGED <<listVars, timerPc, update, due, late>>

\* The next player's transform, if it is new, goes into the buffer.
Collect ==
    /\ timerPc = "collecting"
    /\ position \in DOMAIN players
    /\ Cardinality(buffer) < Capacity
    /\ LET c == players[position] IN
       /\ buffer' = IF update[c] THEN buffer \cup {c} ELSE buffer
       /\ update' = [update EXCEPT ![c] = FALSE]
    /\ position' = position + 1
    /\ UNCHANGED <<listVars, timerPc, due, late>>

\* Faults: the flags of players that did not fit in the buffer are cleared too;
\* a full buffer is given up.
CollectEndClearsAll ==
    /\ timerPc = "collecting"
    /\ position > Len(players) \/ Cardinality(buffer) = Capacity
    /\ timerPc' = IF buffer = {} THEN "waiting" ELSE "sending"
    /\ position' = 1
    /\ update' = [c \in Client |-> FALSE]
    /\ UNCHANGED <<listVars, buffer, due, late>>

CollectEndGivesUp ==
    /\ timerPc = "collecting"
    /\ position > Len(players) \/ Cardinality(buffer) = Capacity
    /\ timerPc' = IF position > Len(players) /\ buffer # {} THEN "sending" ELSE "waiting"
    /\ position' = 1
    /\ update' = [c \in Client |-> update[c] \/ (c \in buffer /\ position <= Len(players))]
    /\ UNCHANGED <<listVars, buffer, due, late>>

\* The list is at its end or the buffer full; with nothing new the handler ends.
CollectEnd ==
    /\ timerPc = "collecting"
    /\ position > Len(players) \/ Cardinality(buffer) = Capacity
    /\ timerPc' = IF buffer = {} THEN "waiting" ELSE "sending"
    /\ position' = 1
    /\ UNCHANGED <<listVars, buffer, update, due, late>>

\* Receiver r is sent the buffer.
Deliver(r) ==
    /\ due' = [c \in Client |-> IF c \in buffer THEN due[c] \ {r} ELSE due[c]]
    /\ late' = IF leaving \in buffer THEN [late EXCEPT ![r] = @ + 1] ELSE late

\* The buffer goes to the next client of the list.
SendTransforms ==
    /\ timerPc = "sending"
    /\ position \in DOMAIN players
    /\ Deliver(players[position])
    /\ position' = position + 1
    /\ UNCHANGED <<listVars, timerPc, buffer, update>>

\* Last to the center; the handler ends.
SendToCenter ==
    /\ timerPc = "sending"
    /\ position > Len(players)
    /\ IF user_visible_flag THEN Deliver(Center) ELSE UNCHANGED <<due, late>>
    /\ timerPc' = "waiting"
    /\ position' = 1
    /\ buffer' = {}
    /\ UNCHANGED <<listVars, update>>

-----------------------------------------------------------------------------
Timer == TimerBegin \/ Collect \/ CollectEnd \/ SendTransforms \/ SendToCenter

MainLoop ==
    \/ \E c \in Client : AddPlayer(c) \/ UpdatePlayerTransform(c) \/ SendPlayerLeaveMsg(c)
    \/ ShowUsers \/ DeletePlayer

Next == Timer \/ MainLoop

\* The timer is set again at the end of every handler.
Spec == Init /\ [][Next]_sceneTimerVars /\ WF_sceneTimerVars(Timer)

-----------------------------------------------------------------------------
(* Properties. *)

\* Every variable keeps its type, and the timer's iterator its place in the list,
\* whatever the main loop does meanwhile.
TypeOK ==
    /\ players \in Seq(Client)
    /\ update \in [Client -> BOOLEAN]
    /\ user_visible_flag \in BOOLEAN
    /\ used \subseteq Client
    /\ leaving \in Client \cup {NoClient}
    /\ timerPc \in {"waiting", "collecting", "sending"}
    /\ position \in 1 .. Len(players) + 1
    /\ buffer \subseteq Client
    /\ due \in [Client -> SUBSET Receiver]
    /\ late \in [Receiver -> Nat]

\* The timer never sends what it took from a player that has been deleted since.
CollectedAreListed == ~Unlocked => buffer \subseteq Listed

\* Those the timer has still to send its buffer to.
Ahead ==
    CASE timerPc = "waiting"    -> {}
      [] timerPc = "collecting" -> Receiver
      [] timerPc = "sending"    -> {players[k] : k \in position .. Len(players)} \cup {Center}

\* No movement gets lost between the threads: whoever has not been sent a
\* player's last transform will be, as it is marked as new or on its way.
MovesAreMarked ==
    \A c \in Client : \A r \in due[c] : update[c] \/ (c \in buffer /\ r \in Ahead)

\* A client can be sent a transform of a player it has been told is gone, but
\* only one.
LateAtMostOnce == \A r \in Receiver : late[r] <= 1

\* A player that moves is seen to move, if it is not behind more players than
\* fit in the buffer.
MovesAreShown ==
    \A c \in Client, r \in Receiver :
        LET first == \E k \in DOMAIN players : k <= Capacity /\ players[k] = c
        IN  (first /\ r \in due[c]) ~> r \notin due[c]
=============================================================================
