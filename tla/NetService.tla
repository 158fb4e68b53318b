----------------------------- MODULE NetService -----------------------------
(***************************************************************************)
(* The service as a server program uses it: the connection pool, the       *)
(* double-buffered queue its events go through, and the main loop that     *)
(* keeps a list of users from Connect and Disconnect events alone (the     *)
(* loop of CenterServer.cpp with UserManager; SceneServer.cpp has the same *)
(* shape with PlayerManager).                                              *)
(*                                                                         *)
(* The pool is LinkPool.  Its log m_queue is kept as a history: the events *)
(* the main loop gets are those of the queue, which is MessageQueueAB.     *)
(***************************************************************************)
EXTENDS LinkPool

CONSTANT QueueMax   \* m_queueMax

VARIABLES
    queue, m_current, index, heap,  \* HXMessageQueueAB, see MessageQueueAB
    users,  \* UserManager: the LinkIDs of the users, in order of arrival
    lost    \* ghost: the queue has dropped a message

\* The pool's events are never large messages, so a queue stays within its limit.
Queue == INSTANCE MessageQueueAB WITH
    Content <- Event, Address <- {}, NullPtr <- NoSession, MaxLength <- QueueMax

queueVars == <<queue, m_current, index, heap>>
netServiceVars == <<linkVars, queueVars, users, lost>>

ServiceInit ==
    /\ Init
    /\ Queue!Init
    /\ users = << >>
    /\ lost = FALSE

-----------------------------------------------------------------------------
(* The io thread: what LinkPool logs goes into the queue. *)

Push ==
    LET e == m_queue'[Len(m_queue')] IN
    /\ \/ PushConnect
       \/ PushDisconnect
       \/ \E s \in Session : ReadMessage(s)
    /\ Queue!AddPackage(e)
    /\ lost' = (lost \/ Len(queue[m_current]) + 1 >= QueueMax)
    /\ UNCHANGED users

NoPush ==
    /\ \/ StartRead
       \/ \E s \in Session :
            \/ Join(s) \/ AcceptThrows(s) \/ ReadHeartbeat(s)
            \/ ReadError(s) \/ WriteOk(s) \/ WriteError(s)
       \/ Network
    /\ UNCHANGED <<queueVars, users, lost>>

-----------------------------------------------------------------------------
(* The main loop. *)

\* The users left once DeleteUser has erased the first one with this sid.
DeleteUser(list, sid) ==
    IF \A k \in DOMAIN list : list[k].sid # sid
    THEN list
    ELSE LET first == CHOOSE k \in DOMAIN list :
                          /\ list[k].sid = sid
                          /\ \A j \in 1 .. k - 1 : list[j].sid # sid
         IN  SubSeq(list, 1, first - 1) \o SubSeq(list, first + 1, Len(list))

\* Fault: users are told apart by slot.
DispatchBySlot(list, e) ==
    CASE e.kind = "Connect"    -> Append(list, e.linkid)
      [] e.kind = "Disconnect" -> DeleteUser(list, e.linkid.sindex)
      [] OTHER                 -> list

\* What the switch of the main loop does to the list of users.
Dispatch(list, e) ==
    CASE e.kind = "Connect"    -> Append(list, e.linkid)
      [] e.kind = "Disconnect" -> DeleteUser(list, e.linkid.sid)
      [] OTHER                 -> list

\* One turn of the loop.  A piece of a video stream is answered on the LinkID
\* the message itself carries, which is null if the message came after its
\* connection had left; every other message may carry no answer.
MainLoopHandle ==
    /\ Queue!GetPackage
    /\ LET e == Queue!Get[index'].content IN
       /\ users' = Dispatch(users, e)
       /\ \/ UNCHANGED linkVars
          \/ e.kind = "Data" /\ Send(e.linkid)
    /\ UNCHANGED lost

MainLoopSwap ==
    /\ Queue!Swap
    /\ UNCHANGED <<linkVars, users, lost>>

\* A message forwarded to a user of the list, or a user turned away.
CallForUser ==
    /\ \E k \in DOMAIN users : Send(users[k]) \/ Close(users[k])
    /\ UNCHANGED <<queueVars, users, lost>>

ServiceNext == ~crashed /\ (Push \/ NoPush \/ MainLoopHandle \/ MainLoopSwap \/ CallForUser)

\* As in LinkPool the io thread finishes what it has begun, and runs the queued
\* handlers of messages that have arrived and of reads on closed sockets; the
\* main loop runs for ever.
ServiceSpec ==
    /\ ServiceInit
    /\ [][ServiceNext]_netServiceVars
    /\ WF_netServiceVars(~crashed /\ Push)
    /\ WF_netServiceVars(~crashed /\ StartRead /\ UNCHANGED <<queueVars, users, lost>>)
    /\ \A s \in Session :
        SF_netServiceVars(/\ ~crashed /\ socket[s] = "closed" /\ ReadError(s)
                          /\ UNCHANGED <<queueVars, users, lost>>)
    /\ WF_netServiceVars(~crashed /\ MainLoopHandle)
    /\ WF_netServiceVars(~crashed /\ MainLoopSwap)

-----------------------------------------------------------------------------
(* Properties. *)

\* The messages the main loop has still to handle, oldest first.
Undelivered == SubSeq(Queue!Get, index + 1, Len(Queue!Get)) \o queue[m_current]

\* The list of users after the main loop has handled k undelivered messages.
UsersAfter[k \in Nat] ==
    IF k = 0 THEN users ELSE Dispatch(UsersAfter[k - 1], Undelivered[k].content)

\* The list the main loop is heading for.
FinalUsers == UsersAfter[Len(Undelivered)]

\* As long as the queue has dropped nothing and no sid has been used twice, the
\* undelivered events turn the present list of users into the links announced
\* by the pool, each listed once.
UsersFollowLinks ==
    ~lost /\ joins <= MaxSid =>
        /\ {FinalUsers[k] : k \in DOMAIN FinalUsers} = Announced
        /\ \A j, k \in DOMAIN FinalUsers : FinalUsers[j] = FinalUsers[k] => j = k

\* The LinkIDs the main loop keeps never resolve to a free slot: it can send to
\* any user of its list, however late, and turn it away, without using a null
\* link.  That says nothing of CenterServer.cpp:203, which answers a LinkID that
\* no Connect announced: if the process has used a null link, it was in
\* answering a message stamped with the LinkID of a connection that had left.
UserCallsAreSafe ==
    /\ \A k \in DOMAIN users :
        Resolves(users[k]) => m_links[users[k].sindex].link # NoSession
    /\ crashed =>
        /\ index > 0
        /\ Queue!Get[index].content = [kind |-> "Data", linkid |-> NullLinkID]

\* A user whose connection has left the pool, or is closed, leaves the list, if
\* no message is lost, no sid is used twice, the io thread lives and the answer
\* to a message does not end the process.
GoneUsersLeave ==
    \A s \in Session :
        LET listed == \E k \in DOMAIN users : users[k] = given[s]
        IN  (listed /\ (~Holds(s) \/ socket[s] = "closed"))
                ~> (~listed \/ lost \/ joins > MaxSid \/ ioPc = "dead" \/ crashed)
=============================================================================
