------------------------------ MODULE LinkPool ------------------------------
(***************************************************************************)
(* The connection pool of HXLibAsioServer: the table m_links of accepted   *)
(* connections, the connections themselves (HXLibAccept) and the events    *)
(* they push for the main loop.                                            *)
(*                                                                         *)
(* Two kinds of thread touch it.  The io thread (OnService) runs every     *)
(* completion handler: accept, read, write.  Application threads call Send *)
(* and Close with a LinkID that some event carried, possibly long ago.     *)
(* A step is what a thread does between taking and releasing m_linkMutex,  *)
(* or between two such critical sections; ioPc tells how far the io thread *)
(* is in a handler that has several of them.                               *)
(***************************************************************************)
EXTENDS Integers, Sequences, FiniteSets

CONSTANTS
    Session,    \* the connections accepted in a behaviour (HXLibAccept objects)
    NoSession,  \* the null HXLibAcceptPtr
    MaxLinks,   \* m_maxLinks
    MaxSid,     \* MAXSHORT, the last sid before m_id wraps
    MaxData,    \* bound: messages that arrive in a behaviour
    MaxWrite    \* bound: messages waiting in one write_msgs_

ASSUME LinkPoolAssumption ==
    /\ NoSession \notin Session
    /\ IsFiniteSet(Session)
    /\ MaxLinks \in Nat
    /\ MaxSid \in Nat \ {0}
    /\ MaxData \in Nat
    /\ MaxWrite \in Nat

VARIABLES
    m_links,        \* slot -> the link it holds and the sid it was given
    m_onlineLinks,
    m_id,
    m_linkid,       \* session -> HXLibAccept::m_linkid
    socket,         \* session -> "none" (not accepted yet), "open" or "closed"
    reading,        \* session -> state of its asynchronous read
    writing,        \* session -> state of its asynchronous write
    write_msgs,     \* session -> Len(write_msgs_)
    ioPc, ioSession, ioLink, \* where the io thread is, for which session, with which LinkID
    m_queue,        \* every event handed to HXMessageQueueAB::add, in order
    arrived,        \* number of messages that have arrived (bounded by MaxData)
    crashed,        \* a null link has been dereferenced: the process is gone
    given, birth, joins \* ghosts: the LinkID Join gave each session, in which of
                        \* its calls (0: none), and the calls so far

poolVars == <<m_links, m_onlineLinks, m_id, m_linkid>>
netVars  == <<socket, reading, writing, write_msgs, arrived>>
ioVars   == <<ioPc, ioSession, ioLink>>
ghosts   == <<given, birth, joins>>
linkVars == <<poolVars, netVars, ioVars, ghosts, m_queue, crashed>>

-----------------------------------------------------------------------------
(* Data types. *)

Slots == 0 .. MaxLinks - 1

\* union { int id; struct { unsigned short sid, sindex; }; }
LinkID == [sid : 0 .. MaxSid, sindex : Slots \cup {0}]

\* The LinkID whose int view is 0: what the constructor and ResetLinkID leave.
NullLinkID == [sid |-> 0, sindex |-> 0]

Event == [kind : {"Connect", "Data", "Disconnect"}, linkid : LinkID]

FreeSlots == {i \in Slots : m_links[i].sid = 0}

Occupied == {i \in Slots : m_links[i].link # NoSession}

\* The slot the for loop of Join finds first.
IsFirstFree(i) == i \in FreeSlots /\ \A j \in FreeSlots : i <= j

\* Fault: a LinkID resolves by its slot alone.
ResolvesByIndex(h) == h.sindex < MaxLinks

\* The test every operation makes before it uses a LinkID.
Resolves(h) == h.sindex < MaxLinks /\ h.sid = m_links[h.sindex].sid

\* LinkIDs an application can hold: those of the events it was handed.
Handles == {m_queue[k].linkid : k \in DOMAIN m_queue}

-----------------------------------------------------------------------------
Init ==
    /\ m_links = [i \in Slots |-> [link |-> NoSession, sid |-> 0]]
    /\ m_onlineLinks = 0
    /\ m_id = 0
    /\ m_linkid = [s \in Session |-> NullLinkID]
    /\ socket = [s \in Session |-> "none"]
    /\ reading = [s \in Session |-> "idle"]
    /\ writing = [s \in Session |-> "idle"]
    /\ write_msgs = [s \in Session |-> 0]
    /\ ioPc = "idle"
    /\ ioSession = NoSession
    /\ ioLink = NullLinkID
    /\ m_queue = << >>
    /\ arrived = 0
    /\ crashed = FALSE
    /\ given = [s \in Session |-> NullLinkID]
    /\ birth = [s \in Session |-> 0]
    /\ joins = 0

-----------------------------------------------------------------------------
(* Accepting a connection: handle_accept, HXLibAccept::start, Join. *)

\* Faults: m_id wraps one call late, or one call early.
NextSidLate  == IF m_id > MaxSid THEN 1 ELSE m_id + 1
NextSidEarly == IF m_id >= MaxSid - 1 THEN 1 ELSE m_id + 1

\* m_id after the increment at the top of Join.
NextSid == IF m_id >= MaxSid THEN 1 ELSE m_id + 1

\* start() up to the end of the critical section of Join.  The sid advances
\* whether or not a slot is free; without one the socket is closed.
Join(s) ==
    /\ ioPc = "idle"
    /\ socket[s] = "none"
    /\ m_id' = NextSid
    /\ joins' = joins + 1
    /\ \/ /\ FreeSlots = {}
          /\ socket' = [socket EXCEPT ![s] = "closed"]
          /\ UNCHANGED <<m_links, m_onlineLinks, given, birth, ioVars>>
       \/ \E i \in Slots :
          /\ IsFirstFree(i)
          /\ m_links' = [m_links EXCEPT ![i] = [link |-> s, sid |-> NextSid]]
          /\ m_onlineLinks' = m_onlineLinks + 1
          /\ socket' = [socket EXCEPT ![s] = "open"]
          /\ ioPc' = "pushConnect"
          /\ ioSession' = s
          /\ ioLink' = [sid |-> NextSid, sindex |-> i]
          /\ given' = [given EXCEPT ![s] = [sid |-> NextSid, sindex |-> i]]
          /\ birth' = [birth EXCEPT ![s] = joins + 1]
    /\ UNCHANGED <<m_linkid, reading, writing, write_msgs, arrived, m_queue, crashed>>

\* The end of Join: the event is pushed after m_linkMutex is released.
PushConnect ==
    /\ ioPc = "pushConnect"
    /\ m_queue' = Append(m_queue, [kind |-> "Connect", linkid |-> ioLink])
    /\ ioPc' = "startRead"
    /\ UNCHANGED <<poolVars, netVars, ioSession, ioLink, ghosts, crashed>>

\* The rest of start(): keep the LinkID, start the first read.
StartRead ==
    /\ ioPc = "startRead"
    /\ m_linkid' = [m_linkid EXCEPT ![ioSession] = ioLink]
    /\ reading' = [reading EXCEPT ![ioSession] = "armed"]
    /\ ioPc' = "idle"
    /\ ioSession' = NoSession
    /\ ioLink' = NullLinkID
    /\ UNCHANGED <<m_links, m_onlineLinks, m_id, socket, writing, write_msgs,
                   arrived, ghosts, m_queue, crashed>>

\* remote_endpoint() throws when the peer is gone already; nothing catches the
\* exception before OnService, which logs it and lets the io thread end.
AcceptThrows(s) ==
    /\ ioPc = "idle"
    /\ socket[s] = "none"
    /\ socket' = [socket EXCEPT ![s] = "closed"]
    /\ ioPc' = "dead"
    /\ UNCHANGED <<poolVars, reading, writing, write_msgs, arrived, ioSession,
                   ioLink, ghosts, m_queue, crashed>>

-----------------------------------------------------------------------------
(* The operating system completes reads and writes. *)

\* A whole message has been received; its handler is queued for the io thread.
Arrive(s) ==
    /\ reading[s] = "armed"
    /\ socket[s] = "open"
    /\ arrived < MaxData
    /\ arrived' = arrived + 1
    /\ reading' = [reading EXCEPT ![s] = "done"]
    /\ UNCHANGED <<poolVars, socket, writing, write_msgs, ioVars, ghosts, m_queue, crashed>>

\* The outstanding write has been transmitted; its handler is queued.
Transmit(s) ==
    /\ writing[s] = "armed"
    /\ socket[s] = "open"
    /\ writing' = [writing EXCEPT ![s] = "done"]
    /\ UNCHANGED <<poolVars, socket, reading, write_msgs, arrived, ioVars, ghosts, m_queue, crashed>>

-----------------------------------------------------------------------------
(* Completion handlers on the io thread. *)

\* HXLibAccept::send: nothing on a closed socket, else queue the message and
\* start a write if none is outstanding.
Enqueue(s) ==
    IF socket[s] # "open"
    THEN UNCHANGED <<write_msgs, writing>>
    ELSE /\ write_msgs[s] < MaxWrite
         /\ write_msgs' = [write_msgs EXCEPT ![s] = @ + 1]
         /\ writing' = [writing EXCEPT ![s] = IF write_msgs[s] = 0 THEN "armed" ELSE @]

\* handle_read_body for an application message: stamp it with the connection's
\* LinkID, push it, read on.
ReadMessage(s) ==
    /\ ioPc = "idle"
    /\ reading[s] = "done"
    /\ m_queue' = Append(m_queue, [kind |-> "Data", linkid |-> m_linkid[s]])
    /\ reading' = [reading EXCEPT ![s] = "armed"]
    /\ UNCHANGED <<poolVars, socket, writing, write_msgs, arrived, ioVars, ghosts, crashed>>

\* Fault: the heartbeat is echoed, but no further read is started.
ReadHeartbeatOnly(s) ==
    /\ ioPc = "idle"
    /\ reading[s] = "done"
    /\ Enqueue(s)
    /\ reading' = [reading EXCEPT ![s] = "idle"]
    /\ UNCHANGED <<poolVars, socket, arrived, ioVars, ghosts, m_queue, crashed>>

\* handle_read_body for a heartbeat: echo it, read on.
ReadHeartbeat(s) ==
    /\ ioPc = "idle"
    /\ reading[s] = "done"
    /\ Enqueue(s)
    /\ reading' = [reading EXCEPT ![s] = "armed"]
    /\ UNCHANGED <<poolVars, socket, arrived, ioVars, ghosts, m_queue, crashed>>

\* Faults: a link is counted as gone without a look whether there was one; the
\* freed slot keeps its sid.
FreeSlotMiscounts(h) ==
    IF Resolves(h)
    THEN /\ m_onlineLinks' = m_onlineLinks - 1
         /\ m_links' = [m_links EXCEPT ![h.sindex] = [link |-> NoSession, sid |-> 0]]
    ELSE UNCHANGED <<m_onlineLinks, m_links>>

FreeSlotKeepsSid(h) ==
    IF Resolves(h)
    THEN /\ m_onlineLinks' = m_onlineLinks - 1
         /\ m_links' = [m_links EXCEPT ![h.sindex].link = NoSession]
    ELSE UNCHANGED <<m_onlineLinks, m_links>>

\* Leave gives up the slot its LinkID names.
FreeSlot(h) ==
    IF Resolves(h)
    THEN /\ m_onlineLinks' = IF m_links[h.sindex].link # NoSession
                             THEN m_onlineLinks - 1 ELSE m_onlineLinks
         /\ m_links' = [m_links EXCEPT ![h.sindex] = [link |-> NoSession, sid |-> 0]]
    ELSE UNCHANGED <<m_onlineLinks, m_links>>

\* Leave announces the end of a connection that had a LinkID.
LeaveEvent(s, h) ==
    IF h # NullLinkID
    THEN /\ ioPc' = "pushDisconnect"
         /\ ioSession' = s
         /\ ioLink' = h
    ELSE UNCHANGED ioVars

\* Fault: the connection's own LinkID is not reset.
LeaveKeepsLinkID(s) ==
    /\ FreeSlot(m_linkid[s])
    /\ LeaveEvent(s, m_linkid[s])
    /\ UNCHANGED <<m_id, m_linkid>>

\* The critical section of Leave.  A session leaves for the first time with
\* its own LinkID and for a second time (read and write both failed) with the
\* null one, which matches slot 0 when that slot is free.
Leave(s) ==
    /\ m_linkid' = [m_linkid EXCEPT ![s] = NullLinkID]
    /\ FreeSlot(m_linkid[s])
    /\ LeaveEvent(s, m_linkid[s])
    /\ UNCHANGED m_id

\* handle_read_header or handle_read_body with an error: the peer closed, the
\* connection broke, or the socket was closed here.
ReadError(s) ==
    /\ ioPc = "idle"
    /\ reading[s] = "armed"
    /\ reading' = [reading EXCEPT ![s] = "idle"]
    /\ Leave(s)
    /\ UNCHANGED <<socket, writing, write_msgs, arrived, ghosts, m_queue, crashed>>

\* handle_write without error: drop the message sent, write the next one.
WriteOk(s) ==
    /\ ioPc = "idle"
    /\ writing[s] = "done"
    /\ write_msgs' = [write_msgs EXCEPT ![s] = @ - 1]
    /\ writing' = [writing EXCEPT ![s] = IF write_msgs[s] > 1 THEN "armed" ELSE "idle"]
    /\ UNCHANGED <<poolVars, socket, reading, arrived, ioVars, ghosts, m_queue, crashed>>

\* handle_write with an error.  The socket stays open and a read may still be
\* outstanding; write_msgs_ keeps its messages, so no later send starts a write.
WriteError(s) ==
    /\ ioPc = "idle"
    /\ writing[s] = "armed"
    /\ writing' = [writing EXCEPT ![s] = "failed"]
    /\ Leave(s)
    /\ UNCHANGED <<socket, reading, write_msgs, arrived, ghosts, m_queue, crashed>>

\* The end of Leave: the event is pushed after m_linkMutex is released.
PushDisconnect ==
    /\ ioPc = "pushDisconnect"
    /\ m_queue' = Append(m_queue, [kind |-> "Disconnect", linkid |-> ioLink])
    /\ ioPc' = "idle"
    /\ ioSession' = NoSession
    /\ ioLink' = NullLinkID
    /\ UNCHANGED <<poolVars, netVars, ghosts, crashed>>

-----------------------------------------------------------------------------
(* Application threads, each call under m_linkMutex. *)

\* Send, and each section of a large one: false unless the LinkID resolves.
Send(h) ==
    /\ Resolves(h)
    /\ LET s == m_links[h.sindex].link IN
       IF s = NoSession
       THEN /\ crashed' = TRUE
            /\ UNCHANGED <<write_msgs, writing>>
       ELSE /\ Enqueue(s)
            /\ UNCHANGED crashed
    /\ UNCHANGED <<poolVars, socket, reading, arrived, ioVars, ghosts, m_queue>>

\* Fault: Close also frees the slot, with no event.
CloseFrees(h) ==
    /\ Resolves(h)
    /\ LET s == m_links[h.sindex].link IN
       IF s = NoSession
       THEN /\ crashed' = TRUE
            /\ UNCHANGED <<socket, m_links, m_onlineLinks>>
       ELSE /\ socket' = [socket EXCEPT ![s] = "closed"]
            /\ m_links' = [m_links EXCEPT ![h.sindex] = [link |-> NoSession, sid |-> 0]]
            /\ m_onlineLinks' = m_onlineLinks - 1
            /\ UNCHANGED crashed
    /\ UNCHANGED <<m_id, m_linkid, reading, writing, write_msgs, arrived, ioVars,
                   ghosts, m_queue>>

\* Close only closes the socket: the slot is freed when the read fails.
Close(h) ==
    /\ Resolves(h)
    /\ LET s == m_links[h.sindex].link IN
       IF s = NoSession
       THEN /\ crashed' = TRUE
            /\ UNCHANGED socket
       ELSE /\ socket' = [socket EXCEPT ![s] = "closed"]
            /\ UNCHANGED crashed
    /\ UNCHANGED <<poolVars, reading, writing, write_msgs, arrived, ioVars, ghosts, m_queue>>

-----------------------------------------------------------------------------
Handler(s) ==
    \/ ReadMessage(s) \/ ReadHeartbeat(s) \/ ReadError(s)
    \/ WriteOk(s) \/ WriteError(s)

IoThread ==
    \/ PushConnect \/ StartRead \/ PushDisconnect
    \/ \E s \in Session : Join(s) \/ AcceptThrows(s) \/ Handler(s)

Network == \E s \in Session : Arrive(s) \/ Transmit(s)

Application == \E h \in Handles : Send(h) \/ Close(h)

Next == ~crashed /\ (IoThread \/ Network \/ Application)

Spec == Init /\ [][Next]_linkVars

-----------------------------------------------------------------------------
(* Properties. *)

PoolType ==
    /\ m_links \in [Slots -> [link : Session \cup {NoSession}, sid : 0 .. MaxSid]]
    /\ m_onlineLinks \in Int
    /\ m_id \in 0 .. MaxSid
    /\ m_linkid \in [Session -> LinkID]

NetType ==
    /\ socket \in [Session -> {"none", "open", "closed"}]
    /\ reading \in [Session -> {"idle", "armed", "done"}]
    /\ writing \in [Session -> {"idle", "armed", "done", "failed"}]
    /\ write_msgs \in [Session -> Nat]
    /\ arrived \in Nat

IoType ==
    /\ ioPc \in {"idle", "pushConnect", "startRead", "pushDisconnect", "dead"}
    /\ ioSession \in Session \cup {NoSession}
    /\ ioLink \in LinkID

LogType == m_queue \in Seq(Event) /\ crashed \in BOOLEAN

GhostType ==
    /\ given \in [Session -> LinkID]
    /\ birth \in [Session -> Nat]
    /\ joins \in Nat

\* Every variable keeps its type.
TypeOK == PoolType /\ NetType /\ IoType /\ LogType /\ GhostType

\* The connection is being set up: Join has returned or is about to.
Starting(s) == ioPc \in {"pushConnect", "startRead"} /\ ioSession = s

\* Session s holds the slot its LinkID names.
Holds(s) == given[s] # NullLinkID /\ m_links[given[s].sindex] = [link |-> s, sid |-> given[s].sid]

\* m_onlineLinks counts the occupied slots, however often a session leaves
\* (a failed read and a failed write both call Leave) and whoever frees slot 0.
OnlineCount == m_onlineLinks = Cardinality(Occupied)

\* The pool and the connections agree: an occupied slot belongs to a session
\* that knows it by that LinkID (or is being started), a free slot has no link,
\* and a session with a LinkID holds the slot that LinkID names, so its own
\* Leave can free no other connection's slot.
SlotOwner ==
    /\ \A i \in Slots : m_links[i].link = NoSession <=> m_links[i].sid = 0
    /\ \A i \in Slots, s \in Session :
        m_links[i].link = s =>
            /\ given[s] = [sid |-> m_links[i].sid, sindex |-> i]
            /\ m_linkid[s] = given[s] \/ Starting(s)
    /\ \A s \in Session :
        m_linkid[s] # NullLinkID => m_linkid[s] = given[s] /\ Holds(s)

\* Every connection in the pool has a read outstanding (or its first one is
\* about to start).  A read is what notices that the peer is gone, so without
\* it the slot would stay occupied for ever.
HeldLinkIsRead == \A s \in Session : Holds(s) => reading[s] # "idle" \/ Starting(s)

\* The links the events pushed so far have opened and not closed again.
Announced ==
    {h \in Handles \ {NullLinkID} :
        \E k \in DOMAIN m_queue :
            /\ m_queue[k] = [kind |-> "Connect", linkid |-> h]
            /\ \A l \in DOMAIN m_queue :
                l > k => m_queue[l] # [kind |-> "Disconnect", linkid |-> h]}

\* The links in the pool.
Live == {given[m_links[i].link] : i \in Occupied}

\* The events tell the application exactly which links exist: those in the
\* pool, up to the one event the io thread is about to push.
AnnouncedIsLive ==
    Announced = CASE ioPc = "pushConnect"    -> Live \ {ioLink}
                  [] ioPc = "pushDisconnect" -> Live \cup {ioLink}
                  [] OTHER                   -> Live

\* Position k of the log lies inside a connection of h: h connected before k
\* and has not disconnected since.
InsideConnection(h, k) ==
    \E j \in 1 .. k - 1 :
        /\ m_queue[j] = [kind |-> "Connect", linkid |-> h]
        /\ \A l \in j + 1 .. k - 1 : m_queue[l] # [kind |-> "Disconnect", linkid |-> h]

\* Of any LinkID the application sees Connect, then messages, then Disconnect,
\* and only then a next Connect: no event comes early, late or twice.
EventsBracketed ==
    \A k \in DOMAIN m_queue :
        LET e == m_queue[k] IN
        IF e.kind = "Connect" THEN e.linkid # NullLinkID /\ ~InsideConnection(e.linkid, k)
        ELSE IF e.linkid = NullLinkID THEN e.kind = "Data"
        ELSE InsideConnection(e.linkid, k)

\* The same sid is given out again only after MaxSid calls of Join.
SidReuse ==
    \A s, t \in Session :
        /\ birth[s] > 0
        /\ birth[s] < birth[t]
        /\ given[s].sid = given[t].sid
        => birth[t] - birth[s] >= MaxSid

\* A LinkID kept after its connection left reaches another connection's slot
\* only after MaxSid further calls of Join.
StaleHandleRefused ==
    \A s \in Session :
        LET h == given[s] IN
        /\ h # NullLinkID
        /\ Resolves(h)
        /\ m_links[h.sindex].link # s
        => joins - birth[s] >= MaxSid

\* HXLibNetwork.h says of Send that it returns false only when the connection
\* is no longer valid: on an invalid one it must return, not use a null link.
SendToInvalidLinkReturns == ~crashed
=============================================================================
