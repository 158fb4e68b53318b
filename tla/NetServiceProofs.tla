-------------------------- MODULE NetServiceProofs --------------------------
(* What holds of the connection pool for every number of slots, of *)
(* connections and of sids, and then of the service around it: the events the *)
(* main loop gets through the queue, and the list of users it makes of them. *)
EXTENDS NetService, FiniteSetTheorems, SequenceTheorems, WellFoundedInduction, TLAPS

-----------------------------------------------------------------------------
(* Types. *)

\* write_msgs_ is empty exactly while nothing is being written; that is why
\* handle_write finds a message to pop.
WriteInv == \A s \in Session : writing[s] = "idle" <=> write_msgs[s] = 0

TypeInv == TypeOK /\ WriteInv

LEMMA LinkIDFacts ==
    /\ NullLinkID \in LinkID
    /\ NullLinkID.sid = 0 /\ NullLinkID.sindex = 0
    /\ \A h \in LinkID : h = [sid |-> h.sid, sindex |-> h.sindex]
    /\ \A h \in LinkID : h.sid \in 0 .. MaxSid /\ h.sindex \in Nat
    /\ \A h \in LinkID : h.sindex < MaxLinks => h.sindex \in Slots
    /\ \A n \in 0 .. MaxSid, i \in Slots : [sid |-> n, sindex |-> i] \in LinkID
  BY LinkPoolAssumption DEF LinkID, NullLinkID, Slots

LEMMA NextSidType == ASSUME PoolType PROVE NextSid \in 1 .. MaxSid
  BY LinkPoolAssumption DEF PoolType, NextSid

\* An event for a LinkID keeps the log a sequence of events.
LEMMA LogAppend ==
    ASSUME NEW q \in Seq(Event), NEW h \in LinkID,
           NEW k \in {"Connect", "Data", "Disconnect"}
    PROVE  Append(q, [kind |-> k, linkid |-> h]) \in Seq(Event)
  <1>1. [kind |-> k, linkid |-> h] \in Event
    BY DEF Event
  <1> QED
    BY <1>1, AppendProperties

\* Every LinkID an event carried is a LinkID.
LEMMA HandleType == ASSUME LogType, NEW h \in Handles PROVE h \in LinkID
  <1>1. PICK k \in DOMAIN m_queue : h = m_queue[k].linkid
    BY DEF Handles
  <1>2. m_queue[k] \in Event
    BY ElementOfSeq, LenProperties DEF LogType
  <1> QED
    BY <1>1, <1>2 DEF Event

\* What an action leaves alone keeps its type.
LEMMA Frames ==
    /\ PoolType /\ UNCHANGED poolVars => PoolType'
    /\ NetType /\ UNCHANGED netVars => NetType'
    /\ IoType /\ UNCHANGED ioVars => IoType'
    /\ GhostType /\ UNCHANGED ghosts => GhostType'
    /\ LogType /\ UNCHANGED <<m_queue, crashed>> => LogType'
    /\ WriteInv /\ UNCHANGED <<writing, write_msgs>> => WriteInv'
  <1>1. PoolType /\ UNCHANGED poolVars => PoolType'
    BY DEF PoolType, poolVars
  <1>2. NetType /\ UNCHANGED netVars => NetType'
    BY DEF NetType, netVars
  <1>3. IoType /\ UNCHANGED ioVars => IoType'
    BY DEF IoType, ioVars
  <1>4. GhostType /\ UNCHANGED ghosts => GhostType'
    BY DEF GhostType, ghosts
  <1>5. LogType /\ UNCHANGED <<m_queue, crashed>> => LogType'
    BY DEF LogType
  <1>6. WriteInv /\ UNCHANGED <<writing, write_msgs>> => WriteInv'
    BY DEF WriteInv
  <1> QED
    BY <1>1, <1>2, <1>3, <1>4, <1>5, <1>6

LEMMA TypeInit == Init => TypeInv
  <1> SUFFICES ASSUME Init PROVE TypeInv
    OBVIOUS
  <1>1. PoolType
    BY LinkPoolAssumption, LinkIDFacts DEF Init, PoolType
  <1>2. NetType
    BY DEF Init, NetType
  <1>3. IoType
    BY LinkIDFacts DEF Init, IoType
  <1>4. LogType
    BY EmptySeq DEF Init, LogType
  <1>5. GhostType
    BY LinkIDFacts DEF Init, GhostType
  <1>6. WriteInv
    BY DEF Init, WriteInv
  <1> QED
    BY <1>1, <1>2, <1>3, <1>4, <1>5, <1>6 DEF TypeInv, TypeOK

LEMMA EnqueueType ==
    ASSUME NetType, WriteInv, NEW s \in Session, Enqueue(s),
           UNCHANGED <<socket, arrived>>,
           reading' \in [Session -> {"idle", "armed", "done"}]
    PROVE  NetType' /\ WriteInv'
  <1>1. CASE socket[s] # "open"
    BY <1>1 DEF Enqueue, NetType, WriteInv
  <1>2. CASE socket[s] = "open"
    <2>1. /\ write_msgs' = [write_msgs EXCEPT ![s] = write_msgs[s] + 1]
          /\ writing' = [writing EXCEPT ![s] = IF write_msgs[s] = 0 THEN "armed"
                                               ELSE writing[s]]
      BY <1>2 DEF Enqueue
    <2>2. NetType'
      BY <2>1 DEF NetType
    <2>3. WriteInv'
      BY <2>1 DEF NetType, WriteInv
    <2> QED
      BY <2>2, <2>3
  <1> QED
    BY <1>1, <1>2

LEMMA LeaveType ==
    ASSUME PoolType, IoType, NEW s \in Session, Leave(s)
    PROVE  PoolType' /\ IoType'
  <1> DEFINE h == m_linkid[s]
  <1>1. h \in LinkID
    BY DEF PoolType
  <1>2. IoType'
    BY <1>1 DEF Leave, FreeSlot, LeaveEvent, IoType, ioVars
  <1>3. m_linkid' \in [Session -> LinkID] /\ m_id' \in 0 .. MaxSid
    BY LinkIDFacts DEF Leave, FreeSlot, LeaveEvent, PoolType
  <1>4. m_onlineLinks' \in Int
    BY DEF Leave, FreeSlot, LeaveEvent, PoolType
  <1>5. m_links' \in [Slots -> [link : Session \cup {NoSession}, sid : 0 .. MaxSid]]
    BY LinkPoolAssumption DEF Leave, FreeSlot, LeaveEvent, PoolType
  <1> QED
    BY <1>2, <1>3, <1>4, <1>5 DEF PoolType

LEMMA JoinType ==
    ASSUME TypeInv, NEW s \in Session, Join(s)
    PROVE  TypeInv'
  <1> USE LinkPoolAssumption, LinkIDFacts, NextSidType DEF TypeInv, TypeOK
  <1>1. LogType' /\ WriteInv'
    BY Frames DEF Join
  <1>2. NetType'
    BY DEF Join, NetType
  <1>3. m_id' \in 0 .. MaxSid /\ m_linkid' \in [Session -> LinkID] /\ joins' \in Nat
    BY DEF Join, PoolType, GhostType
  <1>4. CASE FreeSlots = {} /\ UNCHANGED <<m_links, m_onlineLinks, given, birth, ioVars>>
    BY <1>1, <1>2, <1>3, <1>4, Frames DEF PoolType, GhostType
  <1>5. ASSUME NEW i \in Slots,
               m_links' = [m_links EXCEPT ![i] = [link |-> s, sid |-> NextSid]],
               m_onlineLinks' = m_onlineLinks + 1,
               ioPc' = "pushConnect",
               ioSession' = s,
               ioLink' = [sid |-> NextSid, sindex |-> i],
               given' = [given EXCEPT ![s] = [sid |-> NextSid, sindex |-> i]],
               birth' = [birth EXCEPT ![s] = joins + 1]
        PROVE  TypeInv'
    <2>1. NextSid \in 0 .. MaxSid /\ [sid |-> NextSid, sindex |-> i] \in LinkID
      OBVIOUS
    <2>2. PoolType'
      BY <1>3, <1>5, <2>1 DEF PoolType
    <2>3. IoType'
      BY <1>5, <2>1 DEF IoType
    <2>4. GhostType'
      BY <1>3, <1>5, <2>1 DEF GhostType
    <2> QED
      BY <1>1, <1>2, <2>2, <2>3, <2>4
  <1> QED
    BY <1>4, <1>5 DEF Join

LEMMA TypeNext == TypeInv /\ [Next]_linkVars => TypeInv'
  <1> SUFFICES ASSUME TypeInv, [Next]_linkVars PROVE TypeInv'
    OBVIOUS
  <1> USE Frames DEF TypeInv, TypeOK
  <1>1. ASSUME NEW s \in Session, Join(s) PROVE TypeInv'
    BY <1>1, JoinType
  <1>2. CASE PushConnect
    <2>1. LogType'
      BY <1>2, LogAppend DEF PushConnect, LogType, IoType
    <2>2. IoType'
      BY <1>2 DEF PushConnect, IoType
    <2> QED
      BY <1>2, <2>1, <2>2 DEF PushConnect, netVars
  <1>3. CASE StartRead
    <2>1. ioSession \in Session => PoolType' /\ NetType'
      BY <1>3 DEF StartRead, PoolType, NetType, IoType
    <2>2. ioSession \notin Session => PoolType' /\ NetType'
      BY <1>3 DEF StartRead, PoolType, NetType, IoType
    <2>3. IoType'
      BY <1>3, LinkIDFacts DEF StartRead, IoType
    <2> QED
      BY <1>3, <2>1, <2>2, <2>3 DEF StartRead
  <1>4. ASSUME NEW s \in Session, AcceptThrows(s) PROVE TypeInv'
    <2>1. NetType'
      BY <1>4 DEF AcceptThrows, NetType
    <2>2. IoType'
      BY <1>4 DEF AcceptThrows, IoType
    <2> QED
      BY <1>4, <2>1, <2>2 DEF AcceptThrows
  <1>5. ASSUME NEW s \in Session, Arrive(s) PROVE TypeInv'
    <2>1. NetType'
      BY <1>5 DEF Arrive, NetType
    <2> QED
      BY <1>5, <2>1 DEF Arrive
  <1>6. ASSUME NEW s \in Session, Transmit(s) PROVE TypeInv'
    <2>1. NetType' /\ WriteInv'
      BY <1>6 DEF Transmit, NetType, WriteInv
    <2> QED
      BY <1>6, <2>1 DEF Transmit
  <1>7. ASSUME NEW s \in Session, ReadMessage(s) PROVE TypeInv'
    <2>1. LogType'
      BY <1>7, LogAppend DEF ReadMessage, LogType, PoolType
    <2>2. NetType'
      BY <1>7 DEF ReadMessage, NetType
    <2> QED
      BY <1>7, <2>1, <2>2 DEF ReadMessage
  <1>8. ASSUME NEW s \in Session, ReadHeartbeat(s) PROVE TypeInv'
    <2>1. reading' \in [Session -> {"idle", "armed", "done"}]
      BY <1>8 DEF ReadHeartbeat, NetType
    <2>2. NetType' /\ WriteInv'
      BY <1>8, <2>1, EnqueueType DEF ReadHeartbeat
    <2> QED
      BY <1>8, <2>2 DEF ReadHeartbeat
  <1>9. ASSUME NEW s \in Session, ReadError(s) PROVE TypeInv'
    <2>1. NetType'
      BY <1>9 DEF ReadError, NetType
    <2>2. PoolType' /\ IoType'
      BY <1>9, LeaveType DEF ReadError
    <2> QED
      BY <1>9, <2>1, <2>2 DEF ReadError
  <1>10. ASSUME NEW s \in Session, WriteOk(s) PROVE TypeInv'
    <2>1. write_msgs[s] \in Nat \ {0}
      BY <1>10 DEF WriteOk, NetType, WriteInv
    <2>2. NetType' /\ WriteInv'
      BY <1>10, <2>1 DEF WriteOk, NetType, WriteInv
    <2> QED
      BY <1>10, <2>2 DEF WriteOk
  <1>11. ASSUME NEW s \in Session, WriteError(s) PROVE TypeInv'
    <2>1. NetType' /\ WriteInv'
      BY <1>11 DEF WriteError, NetType, WriteInv
    <2>2. PoolType' /\ IoType'
      BY <1>11, LeaveType DEF WriteError
    <2> QED
      BY <1>11, <2>1, <2>2 DEF WriteError
  <1>12. CASE PushDisconnect
    <2>1. LogType'
      BY <1>12, LogAppend DEF PushDisconnect, LogType, IoType
    <2>2. IoType'
      BY <1>12, LinkIDFacts DEF PushDisconnect, IoType
    <2> QED
      BY <1>12, <2>1, <2>2 DEF PushDisconnect, netVars
  <1>13. ASSUME NEW h \in Handles, Send(h) PROVE TypeInv'
    <2> DEFINE s == m_links[h.sindex].link
    <2>1. h \in LinkID
      BY HandleType
    <2>2. s \in Session \cup {NoSession}
      BY <1>13, <2>1, LinkIDFacts DEF Send, Resolves, PoolType
    <2>3. CASE s = NoSession
      BY <1>13, <2>3 DEF Send, LogType, NetType, WriteInv
    <2>4. CASE s # NoSession
      <3>1. Enqueue(s) /\ UNCHANGED <<socket, arrived, reading>>
        BY <1>13, <2>4 DEF Send
      <3>2. NetType' /\ WriteInv'
        BY <3>1, <2>2, <2>4, EnqueueType DEF NetType
      <3> QED
        BY <1>13, <2>4, <3>2 DEF Send
    <2> QED
      BY <2>3, <2>4
  <1>14. ASSUME NEW h \in Handles, Close(h) PROVE TypeInv'
    <2>1. LogType' /\ NetType'
      BY <1>14 DEF Close, LogType, NetType
    <2> QED
      BY <1>14, <2>1 DEF Close
  <1>15. CASE UNCHANGED linkVars
    BY <1>15 DEF linkVars, netVars
  <1> QED
    BY <1>1, <1>2, <1>3, <1>4, <1>5, <1>6, <1>7, <1>8, <1>9, <1>10, <1>11,
       <1>12, <1>13, <1>14, <1>15
       DEF Next, IoThread, Network, Application, Handler

LEMMA PoolTypeInv == Spec => []TypeInv
  BY TypeInit, TypeNext, PTL DEF Spec

\* The variables of the pool always have the types TypeOK gives them, for every
\* number of connections, slots and sids.
THEOREM PoolTyped == Spec => []TypeOK
  BY PoolTypeInv, PTL DEF TypeInv

-----------------------------------------------------------------------------
(* Slots and sessions. *)

\* A connection that was never accepted has nothing; one that was given a
\* LinkID was given one that names a slot.
GivenInv ==
    \A s \in Session :
        /\ given[s] # NullLinkID => given[s].sid # 0 /\ given[s].sindex \in Slots
        /\ socket[s] = "none" => given[s] = NullLinkID

\* The connection the io thread is starting holds its slot already, but does
\* not know its LinkID yet.
StartInv ==
    ioPc \in {"pushConnect", "startRead"} =>
        /\ ioSession \in Session
        /\ ioLink = given[ioSession]
        /\ m_linkid[ioSession] = NullLinkID
        /\ Holds(ioSession)

\* SlotOwner made inductive.
OwnerInv == SlotOwner /\ GivenInv /\ StartInv

LEMMA OwnerInit == Init => OwnerInv
  BY LinkPoolAssumption DEF Init, OwnerInv, SlotOwner, GivenInv, StartInv

LEMMA OwnerFrame ==
    ASSUME OwnerInv,
           UNCHANGED <<m_links, m_linkid, given, ioVars>>,
           \A s \in Session : socket'[s] = "none" => socket[s] = "none"
    PROVE  OwnerInv'
  <1>1. \A s \in Session : (Holds(s)' <=> Holds(s)) /\ (Starting(s)' <=> Starting(s))
    BY DEF Holds, Starting, ioVars
  <1>2. SlotOwner'
    BY <1>1 DEF OwnerInv, SlotOwner, Starting, ioVars
  <1>3. GivenInv'
    BY DEF OwnerInv, GivenInv
  <1>4. StartInv'
    BY <1>1 DEF OwnerInv, StartInv, Holds, ioVars
  <1> QED
    BY <1>2, <1>3, <1>4 DEF OwnerInv

\* A connection that joins takes a free slot and disturbs no other.
LEMMA OwnerJoin ==
    ASSUME TypeInv, OwnerInv, NEW s \in Session, Join(s)
    PROVE  OwnerInv'
  <1> USE LinkPoolAssumption DEF TypeInv, TypeOK
  <1>1. CASE FreeSlots = {} /\ UNCHANGED <<m_links, m_onlineLinks, given, birth, ioVars>>
    BY <1>1, OwnerFrame DEF Join, NetType
  <1>2. ASSUME NEW i \in Slots, i \in FreeSlots,
               m_links' = [m_links EXCEPT ![i] = [link |-> s, sid |-> NextSid]],
               socket' = [socket EXCEPT ![s] = "open"],
               ioPc' = "pushConnect",
               ioSession' = s,
               ioLink' = [sid |-> NextSid, sindex |-> i],
               given' = [given EXCEPT ![s] = [sid |-> NextSid, sindex |-> i]]
        PROVE  OwnerInv'
    <2>1. NextSid \in 1 .. MaxSid
      BY NextSidType
    <2>2. given[s] = NullLinkID /\ ioPc = "idle" /\ UNCHANGED m_linkid
      BY DEF Join, OwnerInv, GivenInv
    <2>3. m_links[i].link = NoSession
      BY <1>2 DEF FreeSlots, OwnerInv, SlotOwner
    <2>4. m_linkid[s] = NullLinkID
      BY <2>2 DEF OwnerInv, SlotOwner
    <2>5. \A t \in Session \ {s} : given'[t] = given[t]
      BY <1>2 DEF GhostType
    <2>6. given'[s] = [sid |-> NextSid, sindex |-> i] /\ given'[s] # NullLinkID
      BY <1>2, <2>1 DEF GhostType, NullLinkID
    <2>7. m_links'[i] = [link |-> s, sid |-> NextSid]
      BY <1>2 DEF PoolType
    <2>8. \A j \in Slots \ {i} : m_links'[j] = m_links[j]
      BY <1>2 DEF PoolType
    <2>9. Holds(s)'
      BY <2>6, <2>7 DEF Holds
    <2>10. ASSUME NEW t \in Session \ {s}, Holds(t) PROVE Holds(t)'
      <3>1. given[t].sindex \in Slots /\ given[t].sindex # i
        BY <2>3, <2>10, LinkPoolAssumption DEF Holds, OwnerInv, GivenInv
      <3> QED
        BY <3>1, <2>5, <2>8, <2>10 DEF Holds
    <2>11. \A j \in Slots : m_links'[j].link = NoSession <=> m_links'[j].sid = 0
      BY <2>1, <2>7, <2>8 DEF OwnerInv, SlotOwner
    <2>12. ASSUME NEW j \in Slots, NEW t \in Session, m_links'[j].link = t
           PROVE  /\ given'[t] = [sid |-> m_links'[j].sid, sindex |-> j]
                  /\ m_linkid'[t] = given'[t] \/ Starting(t)'
      <3>1. CASE j = i
        BY <3>1, <2>6, <2>7, <2>12, <1>2 DEF Starting
      <3>2. CASE j # i
        <4>1. m_links[j].link = t /\ m_links'[j].sid = m_links[j].sid
          BY <3>2, <2>8, <2>12
        <4>2. /\ given[t] = [sid |-> m_links[j].sid, sindex |-> j]
              /\ m_linkid[t] = given[t] \/ Starting(t)
              /\ m_links[j].sid # 0
          BY <4>1 DEF OwnerInv, SlotOwner
        <4>3. t # s
          BY <4>2, <2>2 DEF NullLinkID
        <4>4. ~Starting(t)
          BY <2>2 DEF Starting
        <4> QED
          BY <4>1, <4>2, <4>3, <4>4, <2>2, <2>5
      <3> QED
        BY <3>1, <3>2
    <2>13. ASSUME NEW t \in Session, m_linkid'[t] # NullLinkID
           PROVE  m_linkid'[t] = given'[t] /\ Holds(t)'
      <3>1. t # s /\ m_linkid[t] = given[t] /\ Holds(t)
        BY <2>13, <2>2, <2>4 DEF OwnerInv, SlotOwner
      <3> QED
        BY <3>1, <2>2, <2>5, <2>10
    <2>14. SlotOwner'
      BY <2>11, <2>12, <2>13 DEF SlotOwner
    <2>15. GivenInv'
      BY <1>2, <2>1, <2>5, <2>6 DEF OwnerInv, GivenInv, NetType
    <2>16. StartInv'
      BY <1>2, <2>2, <2>4, <2>6, <2>9 DEF StartInv
    <2> QED
      BY <2>14, <2>15, <2>16 DEF OwnerInv
  <1> QED
    BY <1>1, <1>2 DEF Join, IsFirstFree

\* A connection that leaves frees its own slot; when it leaves once more, its
\* LinkID being null by then, it changes nothing.
LEMMA LeaveEffect ==
    ASSUME TypeInv, OwnerInv, NEW s \in Session, Leave(s)
    PROVE  /\ m_linkid' = [m_linkid EXCEPT ![s] = NullLinkID]
           /\ m_linkid[s] = NullLinkID =>
                UNCHANGED <<m_links, m_onlineLinks, ioVars>>
           /\ m_linkid[s] # NullLinkID =>
                /\ m_linkid[s] = given[s]
                /\ given[s].sindex \in Slots
                /\ m_links[given[s].sindex].link = s
                /\ m_links' = [m_links EXCEPT ![given[s].sindex] =
                                    [link |-> NoSession, sid |-> 0]]
                /\ m_onlineLinks' = m_onlineLinks - 1
                /\ ioPc' = "pushDisconnect"
  <1> USE LinkPoolAssumption DEF TypeInv, TypeOK
  <1>1. CASE m_linkid[s] = NullLinkID
    <2> DEFINE h == m_linkid[s]
    <2>1. h.sindex = 0 /\ h.sid = 0
      BY <1>1, LinkIDFacts
    <2>2. CASE Resolves(h)
      <3>1. 0 \in Slots /\ m_links[0].sid = 0
        BY <2>1, <2>2 DEF Resolves, Slots
      <3>2. m_links[0].link = NoSession
        BY <3>1 DEF OwnerInv, SlotOwner
      <3>3. m_links[0] = [link |-> NoSession, sid |-> 0]
        BY <3>1, <3>2 DEF PoolType
      <3>4. /\ m_onlineLinks' = m_onlineLinks
            /\ m_links' = [m_links EXCEPT ![0] = [link |-> NoSession, sid |-> 0]]
        BY <2>1, <2>2, <3>2 DEF Leave, FreeSlot, LeaveEvent
      <3>5. m_links' = m_links
        BY <3>1, <3>3, <3>4 DEF PoolType
      <3> QED
        BY <1>1, <3>4, <3>5 DEF Leave, FreeSlot, LeaveEvent
    <2>3. CASE ~Resolves(h)
      BY <1>1, <2>3 DEF Leave, FreeSlot, LeaveEvent
    <2> QED
      BY <2>2, <2>3
  <1>2. CASE m_linkid[s] # NullLinkID
    <2>1. m_linkid[s] = given[s] /\ Holds(s)
      BY <1>2 DEF OwnerInv, SlotOwner
    <2>2. given[s].sindex \in Slots /\ given[s].sid # 0
      BY <2>1 DEF Holds, OwnerInv, GivenInv
    <2>3. m_links[given[s].sindex] = [link |-> s, sid |-> given[s].sid]
      BY <2>1 DEF Holds
    <2>4. Resolves(given[s])
      BY <2>2, <2>3 DEF Resolves, Slots
    <2> QED
      BY <1>2, <2>1, <2>2, <2>3, <2>4 DEF Leave, FreeSlot, LeaveEvent
  <1> QED
    BY <1>1, <1>2

LEMMA OwnerLeave ==
    ASSUME TypeInv, OwnerInv, NEW s \in Session, Leave(s), ioPc = "idle",
           UNCHANGED <<given, socket>>
    PROVE  OwnerInv'
  <1> DEFINE i == given[s].sindex
  <1>a. PoolType
    BY DEF TypeInv, TypeOK
  <1>b. /\ m_linkid' = [m_linkid EXCEPT ![s] = NullLinkID]
        /\ m_linkid[s] = NullLinkID => UNCHANGED <<m_links, m_onlineLinks, ioVars>>
        /\ m_linkid[s] # NullLinkID =>
                /\ given[s].sindex \in Slots
                /\ m_links[given[s].sindex].link = s
                /\ m_links' = [m_links EXCEPT ![given[s].sindex] =
                                    [link |-> NoSession, sid |-> 0]]
                /\ ioPc' = "pushDisconnect"
    BY LeaveEffect
  <1>1. CASE m_linkid[s] = NullLinkID
    <2>1. m_linkid' = m_linkid
      BY <1>1, <1>a, <1>b DEF PoolType
    <2> QED
      BY <1>1, <1>b, <2>1, OwnerFrame
  <1>2. CASE m_linkid[s] # NullLinkID
    <2>1. /\ i \in Slots
          /\ m_links[i].link = s
          /\ ioPc' = "pushDisconnect"
          /\ m_links' = [m_links EXCEPT ![i] = [link |-> NoSession, sid |-> 0]]
          /\ m_linkid' = [m_linkid EXCEPT ![s] = NullLinkID]
      BY <1>2, <1>b
    <2>2. m_links'[i] = [link |-> NoSession, sid |-> 0]
      BY <2>1, <1>a DEF PoolType
    <2>3. \A j \in Slots \ {i} : m_links'[j] = m_links[j]
      BY <2>1, <1>a DEF PoolType
    <2>4. m_linkid'[s] = NullLinkID /\ \A t \in Session \ {s} : m_linkid'[t] = m_linkid[t]
      BY <2>1, <1>a DEF PoolType
    <2>5. \A j \in Slots : m_links'[j].link = NoSession <=> m_links'[j].sid = 0
      BY <2>2, <2>3 DEF OwnerInv, SlotOwner
    <2>6. ASSUME NEW j \in Slots, NEW t \in Session, m_links'[j].link = t
          PROVE  /\ given'[t] = [sid |-> m_links'[j].sid, sindex |-> j]
                 /\ m_linkid'[t] = given'[t]
      <3>1. j # i /\ m_links'[j] = m_links[j]
        BY <2>2, <2>3, <2>6, LinkPoolAssumption
      <3>2. m_links[j].link = t
        BY <2>6, <3>1
      <3>3. given[t] = [sid |-> m_links[j].sid, sindex |-> j] /\ m_linkid[t] = given[t]
        BY <3>2 DEF OwnerInv, SlotOwner, Starting
      <3>4. t # s
        BY <3>1, <3>3
      <3> QED
        BY <3>1, <3>3, <3>4, <2>4
    <2>7. ASSUME NEW t \in Session, m_linkid'[t] # NullLinkID
          PROVE  m_linkid'[t] = given'[t] /\ Holds(t)'
      <3>1. t # s /\ m_linkid[t] = given[t] /\ Holds(t) /\ m_linkid'[t] = m_linkid[t]
        BY <2>4, <2>7 DEF OwnerInv, SlotOwner
      <3>2. given[t].sindex # i /\ given[t].sindex \in Slots
        BY <2>1, <3>1 DEF Holds, OwnerInv, GivenInv
      <3> QED
        BY <2>3, <3>1, <3>2 DEF Holds
    <2>8. SlotOwner'
      BY <2>5, <2>6, <2>7 DEF SlotOwner
    <2>9. GivenInv'
      BY DEF OwnerInv, GivenInv
    <2>10. StartInv'
      BY <2>1 DEF StartInv
    <2> QED
      BY <2>8, <2>9, <2>10 DEF OwnerInv
  <1> QED
    BY <1>1, <1>2

\* The connection being started learns its LinkID.
LEMMA OwnerStartRead ==
    ASSUME TypeInv, OwnerInv, StartRead
    PROVE  OwnerInv'
  <1> USE DEF TypeInv, TypeOK
  <1> DEFINE s == ioSession
  <1>1. s \in Session /\ ioLink = given[s] /\ Holds(s)
    BY DEF StartRead, OwnerInv, StartInv
  <1>2. /\ m_linkid'[s] = given[s]
        /\ \A t \in Session \ {s} : m_linkid'[t] = m_linkid[t]
        /\ UNCHANGED <<m_links, given, socket>>
        /\ ioPc' = "idle"
    BY <1>1 DEF StartRead, PoolType, ghosts
  <1>3. \A t \in Session : Holds(t)' <=> Holds(t)
    BY <1>2 DEF Holds
  <1>4. SlotOwner'
    BY <1>1, <1>2, <1>3 DEF OwnerInv, SlotOwner, Starting
  <1>5. GivenInv' /\ StartInv'
    BY <1>2 DEF OwnerInv, GivenInv, StartInv
  <1> QED
    BY <1>4, <1>5 DEF OwnerInv

\* Only Leave and StartRead change a connection's own LinkID, and only Join and
\* Leave change a slot.
LEMMA OwnerNext == TypeInv /\ OwnerInv /\ [Next]_linkVars => OwnerInv'
  <1> SUFFICES ASSUME TypeInv, OwnerInv, [Next]_linkVars PROVE OwnerInv'
    OBVIOUS
  <1>1. ASSUME NEW s \in Session, Join(s) PROVE OwnerInv'
    BY <1>1, OwnerJoin
  <1>2. CASE PushConnect
    <2>1. /\ ioPc = "pushConnect" /\ ioPc' = "startRead"
          /\ UNCHANGED <<m_links, m_linkid, given, socket, ioSession, ioLink>>
      BY <1>2 DEF PushConnect, poolVars, netVars, ghosts
    <2>2. \A s \in Session : (Holds(s)' <=> Holds(s)) /\ (Starting(s)' <=> Starting(s))
      BY <2>1 DEF Holds, Starting
    <2>3. SlotOwner'
      BY <2>1, <2>2 DEF OwnerInv, SlotOwner
    <2>4. GivenInv' /\ StartInv'
      BY <2>1, <2>2 DEF OwnerInv, GivenInv, StartInv
    <2> QED
      BY <2>3, <2>4 DEF OwnerInv
  <1>3. CASE StartRead
    BY <1>3, OwnerStartRead
  <1>4. CASE PushDisconnect
    <2>1. /\ ioPc = "pushDisconnect" /\ ioPc' = "idle"
          /\ UNCHANGED <<m_links, m_linkid, given, socket>>
      BY <1>4 DEF PushDisconnect, poolVars, netVars, ghosts
    <2>2. \A s \in Session : (Holds(s)' <=> Holds(s)) /\ (Starting(s)' <=> Starting(s))
      BY <2>1 DEF Holds, Starting
    <2>3. SlotOwner'
      BY <2>1, <2>2 DEF OwnerInv, SlotOwner
    <2>4. GivenInv' /\ StartInv'
      BY <2>1, <2>2 DEF OwnerInv, GivenInv, StartInv
    <2> QED
      BY <2>3, <2>4 DEF OwnerInv
  <1>5. ASSUME NEW s \in Session, AcceptThrows(s) PROVE OwnerInv'
    <2>1. /\ ioPc = "idle" /\ ioPc' = "dead"
          /\ UNCHANGED <<m_links, m_linkid, given>>
          /\ socket' = [socket EXCEPT ![s] = "closed"]
      BY <1>5 DEF AcceptThrows, poolVars, ghosts
    <2>2. \A t \in Session : (Holds(t)' <=> Holds(t)) /\ (Starting(t)' <=> Starting(t))
      BY <2>1 DEF Holds, Starting
    <2>3. SlotOwner'
      BY <2>1, <2>2 DEF OwnerInv, SlotOwner
    <2>4. \A t \in Session : socket'[t] = "none" => socket[t] = "none"
      BY <2>1 DEF TypeInv, TypeOK, NetType
    <2>5. GivenInv' /\ StartInv'
      BY <2>1, <2>4 DEF OwnerInv, GivenInv, StartInv
    <2> QED
      BY <2>3, <2>5 DEF OwnerInv
  <1>6. ASSUME NEW s \in Session, ReadError(s) PROVE OwnerInv'
    BY <1>6, OwnerLeave DEF ReadError, ghosts
  <1>7. ASSUME NEW s \in Session, WriteError(s) PROVE OwnerInv'
    BY <1>7, OwnerLeave DEF WriteError, ghosts
  <1>8. ASSUME NEW s \in Session,
               Arrive(s) \/ Transmit(s) \/ ReadMessage(s) \/ ReadHeartbeat(s) \/ WriteOk(s)
        PROVE  OwnerInv'
    <2>1. UNCHANGED <<m_links, m_linkid, given, ioVars, socket>>
      BY <1>8 DEF Arrive, Transmit, ReadMessage, ReadHeartbeat, WriteOk, poolVars, ghosts
    <2> QED
      BY <2>1, OwnerFrame
  <1>9. ASSUME NEW h \in Handles, Send(h) PROVE OwnerInv'
    <2>1. UNCHANGED <<m_links, m_linkid, given, ioVars, socket>>
      BY <1>9 DEF Send, poolVars, ghosts
    <2> QED
      BY <2>1, OwnerFrame
  <1>10. ASSUME NEW h \in Handles, Close(h) PROVE OwnerInv'
    <2>1. UNCHANGED <<m_links, m_linkid, given, ioVars>>
      BY <1>10 DEF Close, poolVars, ghosts
    <2>2. \A s \in Session : socket'[s] = "none" => socket[s] = "none"
      BY <1>10 DEF Close, TypeInv, TypeOK, NetType
    <2> QED
      BY <2>1, <2>2, OwnerFrame
  <1>11. CASE UNCHANGED linkVars
    <2>1. UNCHANGED <<m_links, m_linkid, given, ioVars, socket>>
      BY <1>11 DEF linkVars, poolVars, netVars, ghosts
    <2> QED
      BY <2>1, OwnerFrame
  <1> QED
    BY <1>1, <1>2, <1>3, <1>4, <1>5, <1>6, <1>7, <1>8, <1>9, <1>10, <1>11
       DEF Next, IoThread, Network, Application, Handler

LEMMA PoolOwnerInv == Spec => []OwnerInv
  <1>1. TypeInv /\ OwnerInv /\ [Next]_linkVars => OwnerInv'
    BY OwnerNext
  <1> QED
    BY <1>1, OwnerInit, PoolTypeInv, PTL DEF Spec

\* The pool and the connections agree on who holds which slot, whatever the
\* order in which connections join, fail, leave and leave again.
THEOREM SlotsAreOwned == Spec => []SlotOwner
  BY PoolOwnerInv, PTL DEF OwnerInv

-----------------------------------------------------------------------------
(* The number of links. *)

LEMMA OccupiedFinite == IsFiniteSet(Occupied)
  <1>1. IsFiniteSet(Slots)
    BY LinkPoolAssumption, FS_Interval DEF Slots
  <1> QED
    BY <1>1, FS_Subset DEF Occupied

LEMMA CountInit == Init => OnlineCount
  <1> SUFFICES ASSUME Init PROVE OnlineCount
    OBVIOUS
  <1>1. Occupied = {}
    BY DEF Init, Occupied
  <1> QED
    BY <1>1, FS_EmptySet DEF Init, OnlineCount

LEMMA CountJoin ==
    ASSUME TypeInv, OwnerInv, OnlineCount, NEW s \in Session, Join(s)
    PROVE  OnlineCount'
  <1>1. CASE UNCHANGED <<m_links, m_onlineLinks>>
    BY <1>1 DEF OnlineCount, Occupied
  <1>2. ASSUME NEW i \in Slots, i \in FreeSlots,
               m_links' = [m_links EXCEPT ![i] = [link |-> s, sid |-> NextSid]],
               m_onlineLinks' = m_onlineLinks + 1
        PROVE  OnlineCount'
    <2>1. i \notin Occupied
      BY <1>2 DEF FreeSlots, Occupied, OwnerInv, SlotOwner
    <2>2. Occupied' = Occupied \cup {i}
      BY <1>2, LinkPoolAssumption DEF Occupied, TypeInv, TypeOK, PoolType
    <2>3. Cardinality(Occupied \cup {i}) = Cardinality(Occupied) + 1
      BY <2>1, OccupiedFinite, FS_AddElement
    <2> QED
      BY <1>2, <2>2, <2>3 DEF OnlineCount
  <1> QED
    BY <1>1, <1>2 DEF Join, IsFirstFree

LEMMA CountLeave ==
    ASSUME TypeInv, OwnerInv, OnlineCount, NEW s \in Session, Leave(s)
    PROVE  OnlineCount'
  <1> DEFINE i == given[s].sindex
  <1>1. /\ m_linkid[s] = NullLinkID => UNCHANGED <<m_links, m_onlineLinks>>
        /\ m_linkid[s] # NullLinkID =>
                /\ given[s].sindex \in Slots
                /\ m_links[given[s].sindex].link = s
                /\ m_links' = [m_links EXCEPT ![given[s].sindex] =
                                    [link |-> NoSession, sid |-> 0]]
                /\ m_onlineLinks' = m_onlineLinks - 1
    BY LeaveEffect
  <1>2. CASE m_linkid[s] = NullLinkID
    BY <1>1, <1>2 DEF OnlineCount, Occupied
  <1>3. CASE m_linkid[s] # NullLinkID
    <2>1. i \in Occupied
      BY <1>1, <1>3, LinkPoolAssumption DEF Occupied
    <2>2. Occupied' = Occupied \ {i}
      BY <1>1, <1>3 DEF Occupied, TypeInv, TypeOK, PoolType
    <2>3. Cardinality(Occupied \ {i}) = Cardinality(Occupied) - 1
      BY <2>1, OccupiedFinite, FS_RemoveElement
    <2> QED
      BY <1>1, <1>3, <2>2, <2>3 DEF OnlineCount
  <1> QED
    BY <1>2, <1>3

\* Everything but Join and Leave leaves the table alone.
LEMMA OtherSteps ==
    ASSUME [Next]_linkVars
    PROVE  \/ \E s \in Session : Join(s)
           \/ \E s \in Session : ReadError(s) \/ WriteError(s)
           \/ /\ UNCHANGED <<m_links, m_onlineLinks, m_id, given, birth, joins>>
              /\ StartRead \/ UNCHANGED m_linkid
  BY DEF Next, IoThread, Network, Application, Handler, PushConnect, StartRead,
         AcceptThrows, Arrive, Transmit, ReadMessage, ReadHeartbeat, WriteOk,
         PushDisconnect, Send, Close, poolVars, ghosts, linkVars

LEMMA CountNext ==
    TypeInv /\ OwnerInv /\ OnlineCount /\ [Next]_linkVars => OnlineCount'
  <1> SUFFICES ASSUME TypeInv, OwnerInv, OnlineCount, [Next]_linkVars PROVE OnlineCount'
    OBVIOUS
  <1>1. ASSUME NEW s \in Session, Join(s) PROVE OnlineCount'
    BY <1>1, CountJoin
  <1>2. ASSUME NEW s \in Session, ReadError(s) \/ WriteError(s) PROVE OnlineCount'
    <2>1. Leave(s)
      BY <1>2 DEF ReadError, WriteError
    <2> QED
      BY <2>1, CountLeave
  <1>3. CASE UNCHANGED <<m_links, m_onlineLinks>>
    BY <1>3 DEF OnlineCount, Occupied
  <1> QED
    BY <1>1, <1>2, <1>3, OtherSteps

\* m_onlineLinks is the number of occupied slots, although a connection whose
\* read and write both fail leaves twice.
THEOREM OnlineLinksCounted == Spec => []OnlineCount
  BY CountInit, CountNext, PoolTypeInv, PoolOwnerInv, PTL DEF Spec

-----------------------------------------------------------------------------
(* Sids. *)

\* What Join gave: the sid given a calls ago (a < MaxSid) is the one a places
\* before m_id on the circle 1 .. MaxSid.
SidAge ==
    \A s \in Session :
        birth[s] > 0 /\ joins - birth[s] < MaxSid =>
            given[s].sid = IF joins - birth[s] < m_id
                           THEN m_id - (joins - birth[s])
                           ELSE m_id - (joins - birth[s]) + MaxSid

\* Whoever holds a slot was the last to be given it.
LastGiven ==
    \A i \in Slots, t \in Session, s \in Session :
        m_links[i].link = t /\ s # t /\ birth[s] > 0 /\ given[s].sindex = i
            => birth[s] < birth[t]

BirthInv ==
    \A s \in Session :
        /\ birth[s] <= joins
        /\ birth[s] = 0 <=> given[s] = NullLinkID
        /\ socket[s] = "none" => birth[s] = 0

\* SidReuse made inductive.
SidInv == BirthInv /\ SidAge /\ LastGiven /\ SidReuse

LEMMA SidInit == Init => SidInv
  BY DEF Init, SidInv, BirthInv, SidAge, LastGiven, SidReuse

\* The slots a step does not fill stay as they are, and a freed slot has no
\* holder any more.
LEMMA SidFrame ==
    ASSUME TypeInv, SidInv,
           UNCHANGED <<m_id, given, birth, joins>>,
           \A i \in Slots, t \in Session : m_links'[i].link = t => m_links[i].link = t,
           \A s \in Session : socket'[s] = "none" => socket[s] = "none"
    PROVE  SidInv'
  <1>1. BirthInv'
    BY DEF SidInv, BirthInv
  <1>2. SidAge'
    BY DEF SidInv, SidAge
  <1>3. LastGiven'
    BY DEF SidInv, LastGiven
  <1>4. SidReuse'
    BY DEF SidInv, SidReuse
  <1> QED
    BY <1>1, <1>2, <1>3, <1>4 DEF SidInv

\* Advancing m_id makes every sid one call older.
LEMMA SidAges ==
    ASSUME TypeInv, SidInv, m_id' = NextSid, joins' = joins + 1,
           NEW s \in Session, birth'[s] = birth[s], given'[s] = given[s], birth[s] > 0,
           joins' - birth[s] < MaxSid
    PROVE  given[s].sid = IF joins' - birth[s] < m_id'
                          THEN m_id' - (joins' - birth[s])
                          ELSE m_id' - (joins' - birth[s]) + MaxSid
  <1> DEFINE a == joins - birth[s]
  <1>1. joins \in Nat /\ birth[s] \in Nat /\ m_id \in 0 .. MaxSid /\ MaxSid \in Nat \ {0}
    BY LinkPoolAssumption DEF TypeInv, TypeOK, PoolType, GhostType
  <1>2. birth[s] <= joins
    BY DEF SidInv, BirthInv
  <1>3. a \in Nat /\ joins' - birth[s] = a + 1 /\ a < MaxSid
    BY <1>1, <1>2
  <1>4. given[s].sid = IF a < m_id THEN m_id - a ELSE m_id - a + MaxSid
    BY <1>3 DEF SidInv, SidAge
  <1>5. CASE m_id >= MaxSid
    <2>1. m_id = MaxSid /\ m_id' = 1
      BY <1>1, <1>5 DEF NextSid
    <2> QED
      BY <1>1, <1>3, <1>4, <2>1
  <1>6. CASE ~(m_id >= MaxSid)
    <2>1. m_id' = m_id + 1
      BY <1>6 DEF NextSid
    <2> QED
      BY <1>1, <1>3, <1>4, <2>1
  <1> QED
    BY <1>5, <1>6

\* A sid that Join is about to give out again was last given MaxSid calls ago.
LEMMA SidFresh ==
    ASSUME TypeInv, SidInv, NEW s \in Session, birth[s] > 0, given[s].sid = NextSid
    PROVE  joins + 1 - birth[s] >= MaxSid
  <1> DEFINE a == joins - birth[s]
  <1>1. joins \in Nat /\ birth[s] \in Nat /\ m_id \in 0 .. MaxSid /\ MaxSid \in Nat \ {0}
    BY LinkPoolAssumption DEF TypeInv, TypeOK, PoolType, GhostType
  <1>2. birth[s] <= joins
    BY DEF SidInv, BirthInv
  <1>3. CASE a < MaxSid
    <2>1. given[s].sid = IF a < m_id THEN m_id - a ELSE m_id - a + MaxSid
      BY <1>3 DEF SidInv, SidAge
    <2> QED
      BY <1>1, <1>2, <1>3, <2>1 DEF NextSid
  <1>4. CASE ~(a < MaxSid)
    BY <1>1, <1>2, <1>4
  <1> QED
    BY <1>3, <1>4

LEMMA SidJoin ==
    ASSUME TypeInv, OwnerInv, SidInv, NEW s \in Session, Join(s)
    PROVE  SidInv'
  <1>a. /\ birth \in [Session -> Nat] /\ given \in [Session -> LinkID] /\ joins \in Nat
        /\ m_id \in 0 .. MaxSid
        /\ MaxSid \in Nat \ {0}
    BY LinkPoolAssumption DEF TypeInv, TypeOK, PoolType, GhostType
  <1>b. m_id' = NextSid /\ joins' = joins + 1
    BY DEF Join
  <1>c. \A t \in Session : birth[t] <= joins
    BY DEF SidInv, BirthInv
  <1>1. CASE UNCHANGED <<m_links, given, birth>> /\ socket' = [socket EXCEPT ![s] = "closed"]
    <2>1. BirthInv'
      <3>1. \A t \in Session : socket'[t] = "none" => socket[t] = "none"
        BY <1>1 DEF TypeInv, TypeOK, NetType
      <3>2. \A t \in Session : birth[t] <= joins + 1
        BY <1>a, <1>c
      <3> QED
        BY <1>1, <1>b, <3>1, <3>2 DEF SidInv, BirthInv
    <2>2. SidAge'
      BY <1>1, <1>b, SidAges DEF SidAge
    <2>3. LastGiven' /\ SidReuse'
      BY <1>1 DEF SidInv, LastGiven, SidReuse
    <2> QED
      BY <2>1, <2>2, <2>3 DEF SidInv
  <1>2. ASSUME NEW i \in Slots,
               m_links' = [m_links EXCEPT ![i] = [link |-> s, sid |-> NextSid]],
               socket' = [socket EXCEPT ![s] = "open"],
               given' = [given EXCEPT ![s] = [sid |-> NextSid, sindex |-> i]],
               birth' = [birth EXCEPT ![s] = joins + 1]
        PROVE  SidInv'
    <2>1. NextSid \in 1 .. MaxSid
      BY NextSidType DEF TypeInv, TypeOK
    <2>2. birth'[s] = joins + 1 /\ given'[s] = [sid |-> NextSid, sindex |-> i]
      BY <1>2, <1>a
    <2>3. \A t \in Session \ {s} : birth'[t] = birth[t] /\ given'[t] = given[t]
      BY <1>2, <1>a
    <2>4. given'[s] # NullLinkID /\ given'[s].sid = NextSid /\ given'[s].sindex = i
      BY <2>1, <2>2 DEF NullLinkID
    <2>5. birth[s] = 0
      BY DEF Join, SidInv, BirthInv
    <2>6. BirthInv'
      <3>1. ASSUME NEW t \in Session
            PROVE  /\ birth'[t] <= joins'
                   /\ birth'[t] = 0 <=> given'[t] = NullLinkID
                   /\ socket'[t] = "none" => birth'[t] = 0
        <4>1. CASE t = s
          BY <4>1, <1>a, <1>b, <1>2, <2>2, <2>4 DEF TypeInv, TypeOK, NetType
        <4>2. CASE t # s
          BY <4>2, <1>a, <1>b, <1>2, <2>3 DEF SidInv, BirthInv, TypeInv, TypeOK, NetType
        <4> QED
          BY <4>1, <4>2
      <3> QED
        BY <3>1 DEF BirthInv
    <2>7. SidAge'
      <3>1. ASSUME NEW t \in Session, birth'[t] > 0, joins' - birth'[t] < MaxSid
            PROVE  given'[t].sid = IF joins' - birth'[t] < m_id'
                                   THEN m_id' - (joins' - birth'[t])
                                   ELSE m_id' - (joins' - birth'[t]) + MaxSid
        <4>1. CASE t = s
          <5>1. joins' - birth'[t] = 0
            BY <4>1, <1>a, <1>b, <2>2
          <5> QED
            BY <4>1, <5>1, <1>b, <2>1, <2>4
        <4>2. CASE t # s
          BY <3>1, <4>2, <1>b, <2>3, SidAges
        <4> QED
          BY <4>1, <4>2
      <3> QED
        BY <3>1 DEF SidAge
    <2>8. LastGiven'
      <3>1. ASSUME NEW j \in Slots, NEW t \in Session, NEW u \in Session,
                   m_links'[j].link = t, u # t, birth'[u] > 0, given'[u].sindex = j
            PROVE  birth'[u] < birth'[t]
        <4>1. CASE j = i
          <5>1. t = s
            BY <3>1, <4>1, <1>2 DEF TypeInv, TypeOK, PoolType
          <5> QED
            BY <3>1, <5>1, <1>a, <1>c, <2>2, <2>3
        <4>2. CASE j # i
          <5>1. m_links[j].link = t /\ u # s
            BY <3>1, <4>2, <1>2, <2>4 DEF TypeInv, TypeOK, PoolType
          <5>2. t # s
            <6>1. m_links[j].link = s => given[s] = [sid |-> m_links[j].sid, sindex |-> j] /\ m_links[j].sid # 0
              BY LinkPoolAssumption DEF OwnerInv, SlotOwner
            <6>2. given[s] = NullLinkID
              BY <2>5 DEF SidInv, BirthInv
            <6> QED
              BY <5>1, <6>1, <6>2 DEF NullLinkID
          <5> QED
            BY <3>1, <5>1, <5>2, <2>3 DEF SidInv, LastGiven
        <4> QED
          BY <4>1, <4>2
      <3> QED
        BY <3>1 DEF LastGiven
    <2>9. SidReuse'
      <3>1. ASSUME NEW t \in Session, NEW u \in Session, birth'[t] > 0,
                   birth'[t] < birth'[u], given'[t].sid = given'[u].sid
            PROVE  birth'[u] - birth'[t] >= MaxSid
        <4>1. t # s
          BY <3>1, <1>a, <1>c, <2>2, <2>3
        <4>2. CASE u = s
          <5>1. birth[t] > 0 /\ given[t].sid = NextSid
            BY <3>1, <4>1, <4>2, <2>3, <2>4
          <5>2. joins + 1 - birth[t] >= MaxSid
            BY <5>1, SidFresh
          <5>3. birth'[u] = joins + 1 /\ birth'[t] = birth[t]
            BY <4>1, <4>2, <2>2, <2>3
          <5> QED
            BY <5>2, <5>3, <1>a
        <4>3. CASE u # s
          BY <3>1, <4>1, <4>3, <2>3 DEF SidInv, SidReuse
        <4> QED
          BY <4>2, <4>3
      <3> QED
        BY <3>1 DEF SidReuse
    <2> QED
      BY <2>6, <2>7, <2>8, <2>9 DEF SidInv
  <1> QED
    BY <1>1, <1>2 DEF Join, IsFirstFree

\* A connection is accepted once.
LEMMA SocketStep ==
    ASSUME TypeInv, [Next]_linkVars, NEW s \in Session, socket'[s] = "none"
    PROVE  socket[s] = "none"
  <1> USE DEF TypeInv, TypeOK, NetType
  <1>1. CASE UNCHANGED socket
    BY <1>1
  <1>2. ASSUME NEW t \in Session, Join(t) PROVE socket[s] = "none"
    BY <1>2 DEF Join
  <1>3. ASSUME NEW t \in Session, AcceptThrows(t) PROVE socket[s] = "none"
    BY <1>3 DEF AcceptThrows
  <1>4. ASSUME NEW h \in Handles, Close(h) PROVE socket[s] = "none"
    BY <1>4 DEF Close
  <1>5. \/ UNCHANGED socket
        \/ \E t \in Session : Join(t) \/ AcceptThrows(t)
        \/ \E h \in Handles : Close(h)
    BY DEF Next, IoThread, Network, Application, Handler, PushConnect, StartRead,
           Arrive, Transmit, ReadMessage, ReadHeartbeat, ReadError, WriteOk,
           WriteError, PushDisconnect, Send, netVars, linkVars
  <1> QED
    BY <1>1, <1>2, <1>3, <1>4, <1>5

LEMMA SidNext == TypeInv /\ OwnerInv /\ SidInv /\ [Next]_linkVars => SidInv'
  <1> SUFFICES ASSUME TypeInv, OwnerInv, SidInv, [Next]_linkVars PROVE SidInv'
    OBVIOUS
  <1>1. ASSUME NEW s \in Session, Join(s) PROVE SidInv'
    BY <1>1, SidJoin
  <1>2. \A s \in Session : socket'[s] = "none" => socket[s] = "none"
    BY SocketStep
  <1>3. ASSUME NEW s \in Session, ReadError(s) \/ WriteError(s) PROVE SidInv'
    <2>1. Leave(s) /\ UNCHANGED <<m_id, given, birth, joins>>
      BY <1>3 DEF ReadError, WriteError, ghosts, Leave
    <2>2. /\ m_linkid[s] = NullLinkID => UNCHANGED m_links
          /\ m_linkid[s] # NullLinkID =>
                m_links' = [m_links EXCEPT ![given[s].sindex] =
                                    [link |-> NoSession, sid |-> 0]]
      BY <2>1, LeaveEffect
    <2>3. \A i \in Slots, t \in Session : m_links'[i].link = t => m_links[i].link = t
      BY <2>2, LinkPoolAssumption DEF TypeInv, TypeOK, PoolType
    <2> QED
      BY <1>2, <2>1, <2>3, SidFrame
  <1>4. CASE UNCHANGED <<m_links, m_onlineLinks, m_id, given, birth, joins>>
    BY <1>2, <1>4, SidFrame
  <1> QED
    BY <1>1, <1>3, <1>4, OtherSteps

LEMMA PoolSidInv == Spec => []SidInv
  BY SidInit, SidNext, PoolTypeInv, PoolOwnerInv, PTL DEF Spec

\* The same sid is given out again only after MaxSid calls of Join, whatever
\* the calls that found the pool full.
THEOREM SidsReusedLate == Spec => []SidReuse
  BY PoolSidInv, PTL DEF SidInv

LEMMA StaleFromSid == TypeInv /\ OwnerInv /\ SidInv => StaleHandleRefused
  <1> SUFFICES ASSUME TypeInv, OwnerInv, SidInv, NEW s \in Session,
                      given[s] # NullLinkID, Resolves(given[s]),
                      m_links[given[s].sindex].link # s
               PROVE  joins - birth[s] >= MaxSid
    BY DEF StaleHandleRefused
  <1> DEFINE i == given[s].sindex
             t == m_links[i].link
  <1>1. i \in Slots /\ given[s].sid # 0 /\ m_links[i].sid = given[s].sid
    BY DEF OwnerInv, GivenInv, Resolves
  <1>2. t \in Session
    <2>1. t \in Session \cup {NoSession}
      BY <1>1 DEF TypeInv, TypeOK, PoolType
    <2>2. m_links[i].link = NoSession <=> m_links[i].sid = 0
      BY <1>1 DEF OwnerInv, SlotOwner
    <2> QED
      BY <1>1, <2>1, <2>2
  <1>3. given[t].sid = given[s].sid
    <2>1. given[t] = [sid |-> m_links[i].sid, sindex |-> i]
      BY <1>1, <1>2 DEF OwnerInv, SlotOwner
    <2> QED
      BY <1>1, <2>1
  <1>4. /\ birth[s] \in Nat /\ birth[t] \in Nat /\ joins \in Nat /\ MaxSid \in Nat
        /\ birth[s] # 0 /\ birth[t] <= joins
    BY <1>2, LinkPoolAssumption DEF TypeInv, TypeOK, GhostType, SidInv, BirthInv
  <1>5. birth[s] < birth[t]
    BY <1>1, <1>2, <1>4 DEF SidInv, LastGiven
  <1>6. birth[t] - birth[s] >= MaxSid
    BY <1>2, <1>3, <1>4, <1>5 DEF SidInv, SidReuse
  <1> QED
    BY <1>4, <1>6

\* A LinkID kept after its connection left is refused until MaxSid further
\* connections have been accepted.
THEOREM StaleHandlesRefused == Spec => []StaleHandleRefused
  BY StaleFromSid, PoolTypeInv, PoolOwnerInv, PoolSidInv, PTL

-----------------------------------------------------------------------------
(* Reads. *)

LEMMA ReadInit == Init => HeldLinkIsRead
  BY DEF Init, HeldLinkIsRead, Holds

\* A step that fills no slot and ends no read.
LEMMA ReadFrame ==
    ASSUME HeldLinkIsRead, UNCHANGED <<m_links, given>>,
           \A s \in Session : Starting(s) => Starting(s)' \/ reading'[s] # "idle",
           \A s \in Session : reading[s] # "idle" => reading'[s] # "idle"
    PROVE  HeldLinkIsRead'
  <1>1. \A s \in Session : Holds(s)' => Holds(s)
    BY DEF Holds
  <1> QED
    BY <1>1 DEF HeldLinkIsRead

LEMMA ReadJoin ==
    ASSUME TypeInv, OwnerInv, HeldLinkIsRead, NEW s \in Session, Join(s)
    PROVE  HeldLinkIsRead'
  <1>1. ioPc = "idle" /\ UNCHANGED reading
    BY DEF Join
  <1>2. CASE UNCHANGED <<m_links, given>>
    BY <1>1, <1>2, ReadFrame DEF Starting
  <1>3. ASSUME NEW i \in Slots,
               m_links' = [m_links EXCEPT ![i] = [link |-> s, sid |-> NextSid]],
               ioPc' = "pushConnect",
               ioSession' = s,
               given' = [given EXCEPT ![s] = [sid |-> NextSid, sindex |-> i]]
        PROVE  HeldLinkIsRead'
    <2>1. ASSUME NEW t \in Session, Holds(t)' PROVE reading'[t] # "idle" \/ Starting(t)'
      <3>1. CASE t = s
        BY <3>1, <1>3 DEF Starting
      <3>2. CASE t # s
        <4>1. given'[t] = given[t]
          BY <3>2, <1>3
        <4>2. given[t].sindex \in Slots
          BY <2>1, <4>1 DEF Holds, OwnerInv, GivenInv
        <4>3. Holds(t)
          BY <2>1, <3>2, <4>1, <4>2, <1>3 DEF Holds, TypeInv, TypeOK, PoolType
        <4> QED
          BY <4>3, <1>1 DEF HeldLinkIsRead, Starting
      <3> QED
        BY <3>1, <3>2
    <2> QED
      BY <2>1 DEF HeldLinkIsRead
  <1> QED
    BY <1>2, <1>3 DEF Join

LEMMA ReadLeave ==
    ASSUME TypeInv, OwnerInv, HeldLinkIsRead, NEW s \in Session, Leave(s),
           ioPc = "idle", UNCHANGED given,
           \A t \in Session \ {s} : reading'[t] = reading[t]
    PROVE  HeldLinkIsRead'
  <1>1. \A t \in Session : ~Starting(t)
    BY DEF Starting
  <1>2. /\ m_linkid[s] = NullLinkID => UNCHANGED m_links
        /\ m_linkid[s] # NullLinkID =>
                /\ given[s].sindex \in Slots
                /\ m_links' = [m_links EXCEPT ![given[s].sindex] =
                                    [link |-> NoSession, sid |-> 0]]
    BY LeaveEffect
  <1>3. ~Holds(s)'
    <2>1. CASE m_linkid[s] = NullLinkID
      <3>1. ASSUME Holds(s) PROVE m_linkid[s] = given[s]
        <4>1. given[s].sindex \in Slots /\ m_links[given[s].sindex].link = s
          BY <3>1 DEF Holds, OwnerInv, GivenInv
        <4> QED
          BY <1>1, <4>1 DEF OwnerInv, SlotOwner
      <3> QED
        BY <1>2, <2>1, <3>1 DEF Holds
    <2>2. CASE m_linkid[s] # NullLinkID
      BY <1>2, <2>2, LinkPoolAssumption DEF Holds, TypeInv, TypeOK, PoolType
    <2> QED
      BY <2>1, <2>2
  <1>4. ASSUME NEW t \in Session, Holds(t)' PROVE reading'[t] # "idle" \/ Starting(t)'
    <2>1. t # s /\ given[t].sindex \in Slots
      BY <1>3, <1>4 DEF Holds, OwnerInv, GivenInv
    <2>2. Holds(t)
      BY <1>2, <1>4, <2>1, LinkPoolAssumption DEF Holds, TypeInv, TypeOK, PoolType
    <2> QED
      BY <1>1, <2>1, <2>2 DEF HeldLinkIsRead
  <1> QED
    BY <1>4 DEF HeldLinkIsRead

LEMMA ReadNext ==
    TypeInv /\ OwnerInv /\ HeldLinkIsRead /\ [Next]_linkVars => HeldLinkIsRead'
  <1> SUFFICES ASSUME TypeInv, OwnerInv, HeldLinkIsRead, [Next]_linkVars
               PROVE  HeldLinkIsRead'
    OBVIOUS
  <1>a. reading \in [Session -> {"idle", "armed", "done"}]
    BY DEF TypeInv, TypeOK, NetType
  <1>1. ASSUME NEW s \in Session, Join(s) PROVE HeldLinkIsRead'
    BY <1>1, ReadJoin
  <1>2. CASE PushConnect
    <2>1. UNCHANGED <<m_links, given, reading>> /\ \A s \in Session : Starting(s) => Starting(s)'
      BY <1>2 DEF PushConnect, Starting, poolVars, netVars, ghosts
    <2> QED
      BY <2>1, ReadFrame
  <1>3. CASE StartRead
    <2>1. UNCHANGED <<m_links, given>>
      BY <1>3 DEF StartRead, ghosts
    <2>2. \A s \in Session : Starting(s) => reading'[s] # "idle"
      BY <1>3, <1>a DEF StartRead, Starting
    <2>3. \A s \in Session : reading[s] # "idle" => reading'[s] # "idle"
      BY <1>3, <1>a DEF StartRead
    <2> QED
      BY <2>1, <2>2, <2>3, ReadFrame
  <1>4. ASSUME NEW s \in Session, ReadError(s) PROVE HeldLinkIsRead'
    <2>1. ioPc = "idle" /\ Leave(s) /\ UNCHANGED given
      BY <1>4 DEF ReadError, ghosts
    <2>2. \A t \in Session \ {s} : reading'[t] = reading[t]
      BY <1>4, <1>a DEF ReadError
    <2> QED
      BY <2>1, <2>2, ReadLeave
  <1>5. ASSUME NEW s \in Session, WriteError(s) PROVE HeldLinkIsRead'
    <2>1. ioPc = "idle" /\ Leave(s) /\ UNCHANGED <<given, reading>>
      BY <1>5 DEF WriteError, ghosts
    <2> QED
      BY <2>1, ReadLeave
  <1>6. CASE /\ UNCHANGED <<m_links, given>>
             /\ ioPc \notin {"pushConnect", "startRead"} \/ UNCHANGED ioVars
             /\ \A s \in Session : reading[s] # "idle" => reading'[s] # "idle"
    <2>1. \A s \in Session : Starting(s) => Starting(s)'
      BY <1>6 DEF Starting, ioVars
    <2> QED
      BY <1>6, <2>1, ReadFrame
  <1>7. ASSUME NEW s \in Session,
               AcceptThrows(s) \/ Arrive(s) \/ Transmit(s) \/ ReadMessage(s)
                   \/ ReadHeartbeat(s) \/ WriteOk(s)
        PROVE  HeldLinkIsRead'
    <2>1. UNCHANGED <<m_links, given>> /\ (ioPc \notin {"pushConnect", "startRead"} \/ UNCHANGED ioVars)
      BY <1>7 DEF AcceptThrows, Arrive, Transmit, ReadMessage, ReadHeartbeat, WriteOk,
                  poolVars, ghosts
    <2>2. \A t \in Session : reading[t] # "idle" => reading'[t] # "idle"
      BY <1>7, <1>a DEF AcceptThrows, Arrive, Transmit, ReadMessage, ReadHeartbeat, WriteOk
    <2> QED
      BY <1>6, <2>1, <2>2
  <1>8. CASE PushDisconnect \/ UNCHANGED linkVars
    BY <1>6, <1>8 DEF PushDisconnect, linkVars, poolVars, netVars, ghosts
  <1>9. ASSUME NEW h \in Handles, Send(h) \/ Close(h) PROVE HeldLinkIsRead'
    BY <1>6, <1>9 DEF Send, Close, poolVars, ghosts
  <1> QED
    BY <1>1, <1>2, <1>3, <1>4, <1>5, <1>7, <1>8, <1>9
       DEF Next, IoThread, Network, Application, Handler

\* A connection never holds a slot without a read that would notice its end.
THEOREM HeldLinksAreRead == Spec => []HeldLinkIsRead
  BY ReadInit, ReadNext, PoolTypeInv, PoolOwnerInv, PTL DEF Spec

-----------------------------------------------------------------------------
(* The events. *)

Mark(k, h) == [kind |-> k, linkid |-> h]

\* Among the first n events of q one opens h and none closes it again.
OpenIn(q, h, n) ==
    \E j \in 1 .. n :
        /\ q[j] = Mark("Connect", h)
        /\ \A l \in j + 1 .. n : q[l] # Mark("Disconnect", h)

LEMMA MarksDiffer ==
    \A h, g : /\ Mark("Connect", h) # Mark("Disconnect", g)
              /\ Mark("Data", h) # Mark("Disconnect", g)
              /\ Mark("Data", h) # Mark("Connect", g)
              /\ h # g => Mark("Connect", h) # Mark("Connect", g)
              /\ h # g => Mark("Disconnect", h) # Mark("Disconnect", g)
  <1>1. \A k, h : Mark(k, h).kind = k /\ Mark(k, h).linkid = h
    BY DEF Mark
  <1> QED
    BY <1>1

\* An event appended leaves what lies before it as it was, and opens or closes
\* the link it names.
LEMMA OpenAppend ==
    ASSUME NEW q \in Seq(Event), NEW e \in Event, NEW h
    PROVE  LET s == Append(q, e)
               n == Len(q)
           IN  /\ \A k \in 0 .. n : OpenIn(s, h, k) <=> OpenIn(q, h, k)
               /\ e = Mark("Connect", h) => OpenIn(s, h, n + 1)
               /\ e = Mark("Disconnect", h) => ~OpenIn(s, h, n + 1)
               /\ e # Mark("Connect", h) /\ e # Mark("Disconnect", h) =>
                    (OpenIn(s, h, n + 1) <=> OpenIn(q, h, n))
  <1> DEFINE s == Append(q, e)
             n == Len(q)
  <1>1. n \in Nat /\ (\A i \in 1 .. n : s[i] = q[i]) /\ s[n + 1] = e
    BY LenProperties, AppendProperties
  <1> HIDE DEF s, n
  <1>2. ASSUME NEW k \in 0 .. n PROVE OpenIn(s, h, k) <=> OpenIn(q, h, k)
    <2>1. \A i \in 1 .. k : s[i] = q[i]
      BY <1>1
    <2>2. \A j \in 1 .. k : \A l \in j + 1 .. k : l \in 1 .. k
      BY <1>1
    <2> QED
      BY <2>1, <2>2 DEF OpenIn
  <1>3. 1 .. n + 1 = (1 .. n) \cup {n + 1} /\ n + 1 \notin 1 .. n
    BY <1>1
  <1>4. \A l \in n + 1 + 1 .. n + 1 : FALSE
    BY <1>1
  <1>5. ASSUME e = Mark("Connect", h) PROVE OpenIn(s, h, n + 1)
    BY <1>1, <1>3, <1>4, <1>5 DEF OpenIn
  <1>6. \A j \in 1 .. n : (j + 1 .. n + 1) = (j + 1 .. n) \cup {n + 1}
    BY <1>1
  <1>7. ASSUME e = Mark("Disconnect", h) PROVE ~OpenIn(s, h, n + 1)
    <2>1. s[n + 1] # Mark("Connect", h)
      BY <1>1, <1>7, MarksDiffer
    <2>2. \A j \in 1 .. n : n + 1 \in j + 1 .. n + 1
      BY <1>6
    <2> QED
      BY <1>1, <1>3, <1>7, <2>1, <2>2 DEF OpenIn
  <1>8. ASSUME e # Mark("Connect", h), e # Mark("Disconnect", h)
        PROVE  OpenIn(s, h, n + 1) <=> OpenIn(s, h, n)
    BY <1>1, <1>3, <1>6, <1>8 DEF OpenIn
  <1>9. n \in 0 .. n
    BY <1>1
  <1> QED
    BY <1>2, <1>5, <1>7, <1>8, <1>9 DEF s, n

\* The links that have been announced, said of the log alone.
OpenLinks == {h \in LinkID \ {NullLinkID} : OpenIn(m_queue, h, Len(m_queue))}

LEMMA AnnouncedIsOpen == LogType => Announced = OpenLinks
  <1> SUFFICES ASSUME LogType PROVE Announced = OpenLinks
    OBVIOUS
  <1> DEFINE n == Len(m_queue)
  <1>1. n \in Nat /\ DOMAIN m_queue = 1 .. n
    BY LenProperties DEF LogType
  <1> HIDE DEF n
  <1>2. \A h, k : k \in 1 .. n =>
            ((\A l \in DOMAIN m_queue : l > k => m_queue[l] # Mark("Disconnect", h))
                <=> (\A l \in k + 1 .. n : m_queue[l] # Mark("Disconnect", h)))
    BY <1>1
  <1>3. \A h : OpenIn(m_queue, h, n) => h \in Handles
    <2> SUFFICES ASSUME NEW h, NEW j \in 1 .. n, m_queue[j] = Mark("Connect", h)
                 PROVE  h \in Handles
      BY DEF OpenIn
    <2>1. m_queue[j].linkid = h
      BY DEF Mark
    <2> QED
      BY <1>1, <2>1 DEF Handles
  <1>4. Handles \subseteq LinkID
    BY HandleType
  <1>5. \A h : OpenIn(m_queue, h, n) <=>
            \E k \in DOMAIN m_queue :
                /\ m_queue[k] = Mark("Connect", h)
                /\ \A l \in DOMAIN m_queue : l > k => m_queue[l] # Mark("Disconnect", h)
    BY <1>1, <1>2 DEF OpenIn
  <1>6. \A h : h \in Announced <=> h \in Handles \ {NullLinkID} /\ OpenIn(m_queue, h, n)
    BY <1>5 DEF Announced, Mark
  <1>7. \A h : h \in OpenLinks <=> h \in LinkID \ {NullLinkID} /\ OpenIn(m_queue, h, n)
    BY DEF OpenLinks, n
  <1> QED
    BY <1>3, <1>4, <1>6, <1>7

\* The links in the pool, said of the table alone.
TableLinks == {[sid |-> m_links[i].sid, sindex |-> i] : i \in Occupied}

LEMMA LiveInTable == TypeInv /\ OwnerInv => Live = TableLinks
  <1> SUFFICES ASSUME TypeInv, OwnerInv PROVE Live = TableLinks
    OBVIOUS
  <1>1. \A i \in Occupied : i \in Slots /\ m_links[i].link \in Session
    BY DEF Occupied, TypeInv, TypeOK, PoolType
  <1>2. \A i \in Occupied : given[m_links[i].link] = [sid |-> m_links[i].sid, sindex |-> i]
    BY <1>1 DEF OwnerInv, SlotOwner
  <1>3. ASSUME NEW i \in Occupied
        PROVE  given[m_links[i].link] \in TableLinks /\ [sid |-> m_links[i].sid, sindex |-> i] \in Live
    <2>1. [sid |-> m_links[i].sid, sindex |-> i] \in TableLinks
      BY DEF TableLinks
    <2>2. given[m_links[i].link] \in Live
      BY DEF Live
    <2> QED
      BY <1>2, <2>1, <2>2
  <1>4. Live \subseteq TableLinks
    BY <1>3 DEF Live
  <1>5. TableLinks \subseteq Live
    BY <1>3 DEF TableLinks
  <1> QED
    BY <1>4, <1>5

\* Both at once.
SetsMatch == Announced = OpenLinks /\ Live = TableLinks

LEMMA SetsNow == TypeInv /\ OwnerInv => SetsMatch
  BY AnnouncedIsOpen, LiveInTable DEF SetsMatch, TypeInv, TypeOK

\* Taking the free slot i puts one link in the table, giving up the occupied
\* slot i takes one out.
LEMMA TableTaken ==
    ASSUME PoolType, NEW i \in Slots \ Occupied, NEW s \in Session, NEW n \in 1 .. MaxSid,
           m_links' = [m_links EXCEPT ![i] = [link |-> s, sid |-> n]]
    PROVE  LET h == [sid |-> n, sindex |-> i]
           IN  h \notin TableLinks /\ TableLinks' = TableLinks \cup {h}
  <1> DEFINE h == [sid |-> n, sindex |-> i]
  <1>1. m_links'[i] = [link |-> s, sid |-> n] /\ \A j \in Slots \ {i} : m_links'[j] = m_links[j]
    BY DEF PoolType
  <1>2. s # NoSession
    BY LinkPoolAssumption
  <1>3. Occupied' = Occupied \cup {i} /\ \A j \in Occupied : j \in Slots \ {i}
    BY <1>1, <1>2 DEF Occupied
  <1>4. TableLinks' = {[sid |-> m_links'[j].sid, sindex |-> j] : j \in Occupied'}
    BY DEF TableLinks
  <1>5. [sid |-> m_links'[i].sid, sindex |-> i] = h
    BY <1>1
  <1>6. \A j \in Occupied : m_links'[j].sid = m_links[j].sid
    BY <1>1, <1>3
  <1>7. h \notin TableLinks
    <2>1. \A j \in Occupied : [sid |-> m_links[j].sid, sindex |-> j].sindex # h.sindex
      BY <1>3
    <2> QED
      BY <2>1 DEF TableLinks
  <1>8. TableLinks' = TableLinks \cup {h}
    BY <1>3, <1>4, <1>5, <1>6 DEF TableLinks
  <1> QED
    BY <1>7, <1>8

LEMMA TableFreed ==
    ASSUME PoolType, NEW i \in Occupied,
           m_links' = [m_links EXCEPT ![i] = [link |-> NoSession, sid |-> 0]]
    PROVE  LET h == [sid |-> m_links[i].sid, sindex |-> i]
           IN  h \in TableLinks /\ TableLinks' = TableLinks \ {h}
  <1> DEFINE h == [sid |-> m_links[i].sid, sindex |-> i]
  <1>1. i \in Slots
    BY DEF Occupied
  <1>2. /\ m_links'[i] = [link |-> NoSession, sid |-> 0]
        /\ \A j \in Slots \ {i} : m_links'[j] = m_links[j]
    BY <1>1 DEF PoolType
  <1>3. Occupied' = Occupied \ {i} /\ \A j \in Occupied : j \in Slots
    BY <1>1, <1>2 DEF Occupied
  <1>4. TableLinks' = {[sid |-> m_links'[j].sid, sindex |-> j] : j \in Occupied'}
    BY DEF TableLinks
  <1>5. \A j \in Occupied' : m_links'[j].sid = m_links[j].sid
    BY <1>2, <1>3
  <1>6. h \in TableLinks
    BY DEF TableLinks
  <1>7. \A j \in Occupied : [sid |-> m_links[j].sid, sindex |-> j] = h <=> j = i
    <2>1. \A j \in Occupied : [sid |-> m_links[j].sid, sindex |-> j].sindex = h.sindex => j = i
      OBVIOUS
    <2> QED
      BY <2>1
  <1>8. TableLinks' = TableLinks \ {h}
    BY <1>3, <1>4, <1>5, <1>7 DEF TableLinks
  <1> QED
    BY <1>6, <1>8

\* A connection that joins puts its link in the table, and Join is about to
\* announce it; when no slot is free nothing changes.
LEMMA LinksJoin ==
    ASSUME TypeInv, OwnerInv, NEW s \in Session, Join(s)
    PROVE  \/ UNCHANGED <<m_links, ioVars>>
           \/ /\ ioPc' = "pushConnect"
              /\ ioLink' \notin TableLinks
              /\ TableLinks' = TableLinks \cup {ioLink'}
  <1>1. CASE UNCHANGED <<m_links, ioVars>>
    BY <1>1
  <1>2. ASSUME NEW i \in Slots, i \in FreeSlots,
               m_links' = [m_links EXCEPT ![i] = [link |-> s, sid |-> NextSid]],
               ioPc' = "pushConnect",
               ioLink' = [sid |-> NextSid, sindex |-> i]
        PROVE  /\ ioPc' = "pushConnect"
               /\ ioLink' \notin TableLinks
               /\ TableLinks' = TableLinks \cup {ioLink'}
    <2>1. PoolType /\ NextSid \in 1 .. MaxSid
      BY NextSidType DEF TypeInv, TypeOK
    <2>2. i \notin Occupied
      BY <1>2 DEF FreeSlots, Occupied, OwnerInv, SlotOwner
    <2> QED
      BY <1>2, <2>1, <2>2, TableTaken
  <1> QED
    BY <1>1, <1>2 DEF Join, IsFirstFree

\* A connection that leaves takes its link out of the table, and Leave is about
\* to announce that; when it leaves once more nothing changes.
LEMMA LinksLeave ==
    ASSUME TypeInv, OwnerInv, NEW s \in Session, Leave(s)
    PROVE  \/ UNCHANGED <<m_links, ioVars>>
           \/ /\ ioPc' = "pushDisconnect"
              /\ ioLink' # NullLinkID
              /\ ioLink' \in TableLinks
              /\ TableLinks' = TableLinks \ {ioLink'}
  <1>1. CASE m_linkid[s] = NullLinkID
    BY <1>1, LeaveEffect
  <1>2. CASE m_linkid[s] # NullLinkID
    <2> DEFINE i == given[s].sindex
    <2>1. /\ m_linkid[s] = given[s]
          /\ i \in Slots
          /\ m_links[i].link = s
          /\ m_links' = [m_links EXCEPT ![i] = [link |-> NoSession, sid |-> 0]]
      BY <1>2, LeaveEffect
    <2>2. ioPc' = "pushDisconnect" /\ ioLink' = given[s]
      BY <1>2, <2>1 DEF Leave, LeaveEvent
    <2>3. given[s] = [sid |-> m_links[i].sid, sindex |-> i]
      BY <2>1 DEF OwnerInv, SlotOwner
    <2>4. i \in Occupied
      BY <2>1, LinkPoolAssumption DEF Occupied
    <2>5. PoolType
      BY DEF TypeInv, TypeOK
    <2>6. given[s] \in TableLinks /\ TableLinks' = TableLinks \ {given[s]}
      BY <2>1, <2>3, <2>4, <2>5, TableFreed
    <2> QED
      BY <1>2, <2>1, <2>2, <2>6
  <1> QED
    BY <1>1, <1>2

\* What the event at position k of the log must be, given those before it.
Bracketed(q, k) ==
    LET e == q[k] IN
    IF e.kind = "Connect" THEN e.linkid # NullLinkID /\ ~OpenIn(q, e.linkid, k - 1)
    ELSE IF e.linkid = NullLinkID THEN e.kind = "Data"
    ELSE OpenIn(q, e.linkid, k - 1)

\* May e be the next event, after those of q?
FitsAfter(q, e) ==
    IF e.kind = "Connect" THEN e.linkid # NullLinkID /\ ~OpenIn(q, e.linkid, Len(q))
    ELSE IF e.linkid = NullLinkID THEN e.kind = "Data"
    ELSE OpenIn(q, e.linkid, Len(q))

LEMMA BracketedAppend ==
    ASSUME NEW q \in Seq(Event), NEW e \in Event, FitsAfter(q, e),
           \A k \in 1 .. Len(q) : Bracketed(q, k)
    PROVE  \A k \in 1 .. Len(Append(q, e)) : Bracketed(Append(q, e), k)
  <1> DEFINE s == Append(q, e)
  <1>0. PICK n \in Nat : n = Len(q)
    BY LenProperties
  <1>1. Len(s) = n + 1 /\ (\A i \in 1 .. n : s[i] = q[i]) /\ s[n + 1] = e
    BY <1>0, LenProperties, AppendProperties
  <1>2. \A h : \A k \in 0 .. n : OpenIn(s, h, k) <=> OpenIn(q, h, k)
    BY <1>0, OpenAppend
  <1> HIDE DEF s
  <1>3. ASSUME NEW k \in 1 .. n PROVE Bracketed(s, k)
    <2>1. k - 1 \in 0 .. n /\ s[k] = q[k]
      BY <1>1
    <2>2. Bracketed(q, k)
      BY <1>0
    <2> QED
      BY <1>2, <2>1, <2>2 DEF Bracketed
  <1>4. Bracketed(s, n + 1)
    <2>1. (n + 1) - 1 = n /\ n \in 0 .. n
      OBVIOUS
    <2> QED
      BY <1>0, <1>1, <1>2, <2>1 DEF Bracketed, FitsAfter
  <1>5. 1 .. n + 1 = (1 .. n) \cup {n + 1}
    OBVIOUS
  <1> QED
    BY <1>1, <1>3, <1>4, <1>5 DEF s

\* The links the log leaves open, after a next event.
LEMMA OpenLinksAppend ==
    ASSUME LogType, NEW h \in LinkID, NEW k \in {"Connect", "Data", "Disconnect"},
           m_queue' = Append(m_queue, Mark(k, h))
    PROVE  /\ k = "Connect" /\ h # NullLinkID => OpenLinks' = OpenLinks \cup {h}
           /\ k = "Disconnect" => OpenLinks' = OpenLinks \ {h}
           /\ k = "Data" => OpenLinks' = OpenLinks
  <1> DEFINE e == Mark(k, h)
  <1>1. m_queue \in Seq(Event) /\ e \in Event
    BY DEF LogType, Event, Mark
  <1>2. Len(m_queue') = Len(m_queue) + 1
    BY <1>1, AppendProperties
  <1>3. \A g : g \in OpenLinks' <=>
                    g \in LinkID \ {NullLinkID} /\ OpenIn(m_queue', g, Len(m_queue) + 1)
    BY <1>2 DEF OpenLinks, LinkID, NullLinkID, Slots
  <1>4. \A g : /\ e = Mark("Connect", g) => OpenIn(m_queue', g, Len(m_queue) + 1)
               /\ e = Mark("Disconnect", g) => ~OpenIn(m_queue', g, Len(m_queue) + 1)
               /\ e # Mark("Connect", g) /\ e # Mark("Disconnect", g) =>
                    (OpenIn(m_queue', g, Len(m_queue) + 1) <=> OpenIn(m_queue, g, Len(m_queue)))
    BY <1>1, OpenAppend
  <1>5. \A g : g \in OpenLinks <=>
                    g \in LinkID \ {NullLinkID} /\ OpenIn(m_queue, g, Len(m_queue))
    BY DEF OpenLinks
  <1> HIDE DEF e
  <1>6. CASE k = "Connect"
    <2>1. e = Mark("Connect", h)
      BY <1>6 DEF e
    <2>2. \A g : g # h => e # Mark("Connect", g) /\ e # Mark("Disconnect", g)
      BY <2>1, MarksDiffer
    <2> QED
      BY <1>3, <1>4, <1>5, <1>6, <2>1, <2>2
  <1>7. CASE k = "Disconnect"
    <2>1. e = Mark("Disconnect", h)
      BY <1>7 DEF e
    <2>2. \A g : g # h => e # Mark("Connect", g) /\ e # Mark("Disconnect", g)
      BY <2>1, MarksDiffer
    <2> QED
      BY <1>3, <1>4, <1>5, <1>7, <2>1, <2>2
  <1>8. CASE k = "Data"
    <2>1. \A g : e # Mark("Connect", g) /\ e # Mark("Disconnect", g)
      BY <1>8, MarksDiffer DEF e
    <2> QED
      BY <1>3, <1>4, <1>5, <1>8, <2>1
  <1> QED
    BY <1>6, <1>7, <1>8

\* The links the application should have been told of.
Expected ==
    CASE ioPc = "pushConnect"    -> TableLinks \ {ioLink}
      [] ioPc = "pushDisconnect" -> TableLinks \cup {ioLink}
      [] OTHER                   -> TableLinks

\* AnnouncedIsLive and EventsBracketed made inductive: the link whose end is
\* about to be announced is not in the table any more.
EventInv ==
    /\ OpenLinks = Expected
    /\ \A k \in 1 .. Len(m_queue) : Bracketed(m_queue, k)
    /\ ioPc = "pushDisconnect" => ioLink \notin TableLinks /\ ioLink # NullLinkID

LEMMA EventInit == Init => EventInv
  <1> SUFFICES ASSUME Init PROVE EventInv
    OBVIOUS
  <1>1. m_queue = << >> /\ Len(m_queue) = 0
    BY DEF Init
  <1>2. OpenLinks = {}
    <2>1. \A j \in 1 .. 0 : FALSE
      OBVIOUS
    <2> QED
      BY <1>1, <2>1 DEF OpenLinks, OpenIn
  <1>3. Occupied = {}
    BY DEF Init, Occupied
  <1>4. TableLinks = {}
    BY <1>3 DEF TableLinks
  <1> QED
    BY <1>1, <1>2, <1>4 DEF Init, EventInv, Expected

\* A step of no event, outside Join and Leave.
LEMMA EventFrame ==
    ASSUME EventInv, UNCHANGED <<m_queue, m_links>>,
           UNCHANGED <<ioPc, ioLink>>
             \/ ({ioPc, ioPc'} \subseteq {"idle", "startRead", "dead"})
    PROVE  EventInv'
  <1>1. OpenLinks' = OpenLinks
    BY DEF OpenLinks, LinkID, NullLinkID, Slots
  <1>2. TableLinks' = TableLinks
    BY DEF TableLinks, Occupied, Slots
  <1>3. Expected' = Expected
    BY <1>2 DEF Expected
  <1>4. \A k \in 1 .. Len(m_queue') : Bracketed(m_queue', k)
    BY DEF EventInv
  <1>5. ioPc' = "pushDisconnect" => ioLink' \notin TableLinks' /\ ioLink' # NullLinkID
    BY <1>2 DEF EventInv
  <1> QED
    BY <1>1, <1>3, <1>4, <1>5 DEF EventInv, NullLinkID, Bracketed

LEMMA EventJoin ==
    ASSUME TypeInv, OwnerInv, EventInv, NEW s \in Session, Join(s)
    PROVE  EventInv'
  <1>1. ioPc = "idle" /\ UNCHANGED m_queue
    BY DEF Join
  <1>2. CASE UNCHANGED <<m_links, ioVars>>
    BY <1>1, <1>2, EventFrame DEF ioVars
  <1>3. CASE /\ ioPc' = "pushConnect"
             /\ ioLink' \notin TableLinks
             /\ TableLinks' = TableLinks \cup {ioLink'}
    <2>1. OpenLinks' = OpenLinks /\ OpenLinks = TableLinks
      BY <1>1 DEF EventInv, Expected, OpenLinks, LinkID, NullLinkID, Slots
    <2>2. Expected' = TableLinks
      BY <1>3 DEF Expected
    <2> QED
      BY <1>1, <1>3, <2>1, <2>2 DEF EventInv, Bracketed, NullLinkID
  <1> QED
    BY <1>2, <1>3, LinksJoin

LEMMA EventLeave ==
    ASSUME TypeInv, OwnerInv, EventInv, NEW s \in Session, Leave(s),
           ioPc = "idle", UNCHANGED m_queue
    PROVE  EventInv'
  <1>1. CASE UNCHANGED <<m_links, ioVars>>
    BY <1>1, EventFrame DEF ioVars
  <1>2. CASE /\ ioPc' = "pushDisconnect"
             /\ ioLink' # NullLinkID
             /\ ioLink' \in TableLinks
             /\ TableLinks' = TableLinks \ {ioLink'}
    <2>1. OpenLinks' = OpenLinks /\ OpenLinks = TableLinks
      BY DEF EventInv, Expected, OpenLinks, LinkID, NullLinkID, Slots
    <2>2. Expected' = TableLinks
      BY <1>2 DEF Expected
    <2> QED
      BY <1>2, <2>1, <2>2 DEF EventInv, Bracketed, NullLinkID
  <1> QED
    BY <1>1, <1>2, LinksLeave

\* A session that holds its slot has its link in the table.
LEMMA HeldInTable ==
    ASSUME TypeInv, OwnerInv, NEW s \in Session, Holds(s)
    PROVE  given[s] \in TableLinks /\ given[s] # NullLinkID
  <1> DEFINE i == given[s].sindex
  <1>1. given[s] # NullLinkID /\ i \in Slots /\ m_links[i].link = s
    BY DEF Holds, OwnerInv, GivenInv
  <1>2. given[s] = [sid |-> m_links[i].sid, sindex |-> i]
    BY <1>1 DEF OwnerInv, SlotOwner
  <1>3. i \in Occupied
    BY <1>1, LinkPoolAssumption DEF Occupied
  <1> QED
    BY <1>1, <1>2, <1>3 DEF TableLinks

\* The three steps that push an event: each pushes one the log has room for.
LEMMA EventPushed ==
    ASSUME TypeInv, EventInv, NEW h \in LinkID, NEW k \in {"Connect", "Data", "Disconnect"},
           m_queue' = Append(m_queue, Mark(k, h)), UNCHANGED m_links,
           ioPc' \in {"idle", "startRead"},
           \/ k = "Connect" /\ ioPc = "pushConnect" /\ h = ioLink /\ h \in TableLinks
                /\ h # NullLinkID
           \/ k = "Disconnect" /\ ioPc = "pushDisconnect" /\ h = ioLink
           \/ k = "Data" /\ ioPc = "idle" /\ (h = NullLinkID \/ h \in TableLinks)
    PROVE  EventInv'
  <1> DEFINE e == Mark(k, h)
  <1>1. LogType /\ m_queue \in Seq(Event) /\ e \in Event
    BY DEF TypeInv, TypeOK, LogType, Event, Mark
  <1>2. e.kind = k /\ e.linkid = h
    BY DEF Mark
  <1>3. TableLinks' = TableLinks
    BY DEF TableLinks, Occupied, Slots
  <1>4. Expected' = TableLinks
    BY <1>3 DEF Expected
  <1>5. \A g \in LinkID \ {NullLinkID} : g \in OpenLinks <=> OpenIn(m_queue, g, Len(m_queue))
    BY DEF OpenLinks
  <1>6. FitsAfter(m_queue, e) /\ OpenLinks' = TableLinks
    <2>1. CASE k = "Connect" /\ ioPc = "pushConnect" /\ h = ioLink /\ h \in TableLinks
                /\ h # NullLinkID
      <3>1. OpenLinks = TableLinks \ {h}
        BY <2>1 DEF EventInv, Expected
      <3>2. OpenLinks' = OpenLinks \cup {h}
        BY <1>1, <2>1, OpenLinksAppend
      <3> QED
        BY <1>2, <1>5, <2>1, <3>1, <3>2 DEF FitsAfter
    <2>2. CASE k = "Disconnect" /\ ioPc = "pushDisconnect" /\ h = ioLink
      <3>1. OpenLinks = TableLinks \cup {h} /\ h \notin TableLinks /\ h # NullLinkID
        BY <2>2 DEF EventInv, Expected
      <3>2. OpenLinks' = OpenLinks \ {h}
        BY <1>1, <2>2, OpenLinksAppend
      <3> QED
        BY <1>2, <1>5, <2>2, <3>1, <3>2 DEF FitsAfter
    <2>3. CASE k = "Data" /\ ioPc = "idle" /\ (h = NullLinkID \/ h \in TableLinks)
      <3>1. OpenLinks = TableLinks
        BY <2>3 DEF EventInv, Expected
      <3>2. OpenLinks' = OpenLinks
        BY <1>1, <2>3, OpenLinksAppend
      <3> QED
        BY <1>2, <1>5, <2>3, <3>1, <3>2 DEF FitsAfter
    <2> QED
      BY <2>1, <2>2, <2>3
  <1>7. \A j \in 1 .. Len(m_queue') : Bracketed(m_queue', j)
    BY <1>1, <1>6, BracketedAppend DEF EventInv
  <1> QED
    BY <1>4, <1>6, <1>7 DEF EventInv, Bracketed, NullLinkID

LEMMA EventNext == TypeInv /\ OwnerInv /\ EventInv /\ [Next]_linkVars => EventInv'
  <1> SUFFICES ASSUME TypeInv, OwnerInv, EventInv, [Next]_linkVars PROVE EventInv'
    OBVIOUS
  <1>1. ASSUME NEW s \in Session, Join(s) PROVE EventInv'
    BY <1>1, EventJoin
  <1>2. ASSUME NEW s \in Session, ReadError(s) \/ WriteError(s) PROVE EventInv'
    <2>1. Leave(s) /\ ioPc = "idle" /\ UNCHANGED m_queue
      BY <1>2 DEF ReadError, WriteError
    <2> QED
      BY <2>1, EventLeave
  <1>3. CASE PushConnect
    <2>1. /\ ioSession \in Session /\ ioLink = given[ioSession] /\ Holds(ioSession)
          /\ ioLink \in LinkID
      BY <1>3 DEF PushConnect, OwnerInv, StartInv, TypeInv, TypeOK, IoType
    <2>2. ioLink \in TableLinks /\ ioLink # NullLinkID
      BY <2>1, HeldInTable
    <2>3. m_queue' = Append(m_queue, Mark("Connect", ioLink)) /\ UNCHANGED m_links
      BY <1>3 DEF PushConnect, Mark, poolVars
    <2>4. ioPc = "pushConnect" /\ ioPc' = "startRead"
      BY <1>3 DEF PushConnect
    <2> QED
      BY <2>1, <2>2, <2>3, <2>4, EventPushed
  <1>4. CASE PushDisconnect
    <2>1. ioLink \in LinkID
      BY DEF TypeInv, TypeOK, IoType
    <2>2. m_queue' = Append(m_queue, Mark("Disconnect", ioLink)) /\ UNCHANGED m_links
      BY <1>4 DEF PushDisconnect, Mark, poolVars
    <2>3. ioPc = "pushDisconnect" /\ ioPc' = "idle"
      BY <1>4 DEF PushDisconnect
    <2> QED
      BY <2>1, <2>2, <2>3, EventPushed
  <1>5. ASSUME NEW s \in Session, ReadMessage(s) PROVE EventInv'
    <2>1. m_linkid[s] \in LinkID
      BY DEF TypeInv, TypeOK, PoolType
    <2>2. m_linkid[s] = NullLinkID \/ m_linkid[s] \in TableLinks
      BY HeldInTable DEF OwnerInv, SlotOwner
    <2>3. m_queue' = Append(m_queue, Mark("Data", m_linkid[s])) /\ UNCHANGED m_links
      BY <1>5 DEF ReadMessage, Mark, poolVars
    <2>4. ioPc = "idle" /\ ioPc' = "idle"
      BY <1>5 DEF ReadMessage, ioVars
    <2> QED
      BY <2>1, <2>2, <2>3, <2>4, EventPushed
  <1>6. CASE StartRead
    BY <1>6, EventFrame DEF StartRead
  <1>7. ASSUME NEW s \in Session, AcceptThrows(s) PROVE EventInv'
    BY <1>7, EventFrame DEF AcceptThrows, poolVars
  <1>8. CASE UNCHANGED <<m_queue, m_links, ioVars>>
    BY <1>8, EventFrame DEF ioVars
  <1>9. ASSUME NEW s \in Session,
               Arrive(s) \/ Transmit(s) \/ ReadHeartbeat(s) \/ WriteOk(s)
        PROVE  EventInv'
    BY <1>8, <1>9 DEF Arrive, Transmit, ReadHeartbeat, WriteOk, poolVars
  <1>10. ASSUME NEW h \in Handles, Send(h) \/ Close(h) PROVE EventInv'
    BY <1>8, <1>10 DEF Send, Close, poolVars
  <1>11. CASE UNCHANGED linkVars
    BY <1>8, <1>11 DEF linkVars, poolVars
  <1> QED
    BY <1>1, <1>2, <1>3, <1>4, <1>5, <1>6, <1>7, <1>9, <1>10, <1>11
       DEF Next, IoThread, Network, Application, Handler

LEMMA PoolEventInv == Spec => []EventInv
  BY EventInit, EventNext, PoolTypeInv, PoolOwnerInv, PTL DEF Spec

LEMMA AnnouncedFromEvents == TypeInv /\ OwnerInv /\ EventInv => AnnouncedIsLive
  BY SetsNow DEF SetsMatch, EventInv, Expected, AnnouncedIsLive

LEMMA BracketsFromEvents == TypeInv /\ EventInv => EventsBracketed
  <1> SUFFICES ASSUME TypeInv, EventInv PROVE EventsBracketed
    OBVIOUS
  <1>1. DOMAIN m_queue = 1 .. Len(m_queue)
    BY LenProperties DEF TypeInv, TypeOK, LogType
  <1>2. \A h, k : InsideConnection(h, k) <=> OpenIn(m_queue, h, k - 1)
    BY DEF InsideConnection, OpenIn, Mark
  <1>3. \A k \in DOMAIN m_queue : Bracketed(m_queue, k)
    BY <1>1 DEF EventInv
  <1> QED
    BY <1>2, <1>3 DEF EventsBracketed, Bracketed

\* The connections the events have opened and not closed are exactly those in
\* the table, up to the one event the io thread is about to push.
THEOREM AnnouncedLinksAreLive == Spec => []AnnouncedIsLive
  BY AnnouncedFromEvents, PoolTypeInv, PoolOwnerInv, PoolEventInv, PTL

\* Of every LinkID but 0 the application is told Connect, then messages, then
\* Disconnect, and only then Connect again; of LinkID 0 it is told messages only
\* (those read after Leave has reset m_linkid).
THEOREM EventsAreBracketed == Spec => []EventsBracketed
  BY BracketsFromEvents, PoolTypeInv, PoolEventInv, PTL

-----------------------------------------------------------------------------
(* Induction over the numbers, in the form of a least counterexample. *)

Less == {p \in Nat \X Nat : p[1] < p[2]}

LEMMA LessIsWellFounded == IsWellFoundedOn(Less, Nat)
  <1>1. OpToRel(<, Nat) = Less
    BY Zenon DEF OpToRel, Less
  <1> QED
    BY <1>1, NatLessThanWellFounded, Zenon

LEMMA Least ==
    ASSUME NEW T \in SUBSET Nat, T # {}
    PROVE  \E m \in T : \A k \in T : m <= k
  <1>1. PICK m \in T : \A k \in T : <<k, m>> \notin Less
    BY LessIsWellFounded, WFMin, Zenon
  <1>2. \A k \in T : k \in Nat /\ m \in Nat /\ ~(k < m)
    <2> TAKE k \in T
    <2>1. <<k, m>> \in Nat \X Nat /\ <<k, m>>[1] = k /\ <<k, m>>[2] = m
      OBVIOUS
    <2> QED
      BY <1>1, <2>1 DEF Less
  <1> QED
    BY <1>2

\* A set of numbers with 0 and the successor of each of its members below n is
\* all of 0 .. n.
LEMMA UpTo ==
    ASSUME NEW n \in Nat, NEW S,
           0 \in S, \A k \in 0 .. n - 1 : k \in S => k + 1 \in S
    PROVE  0 .. n \subseteq S
  <1> SUFFICES ASSUME ~(0 .. n \subseteq S) PROVE FALSE
    OBVIOUS
  <1> DEFINE T == (0 .. n) \ S
  <1>1. T # {} /\ T \in SUBSET Nat
    OBVIOUS
  <1> HIDE DEF T
  <1>2. PICK m \in T : \A k \in T : m <= k
    BY <1>1, Least
  <1>3. m \in 0 .. n /\ m \notin S /\ m # 0
    BY <1>2 DEF T
  <1>4. m - 1 \in 0 .. n - 1 /\ m - 1 \in 0 .. n /\ ~(m <= m - 1) /\ (m - 1) + 1 = m
    BY <1>3
  <1>5. m - 1 \in S
    BY <1>2, <1>4 DEF T
  <1> QED
    BY <1>3, <1>4, <1>5

-----------------------------------------------------------------------------
(* The list of users after some messages. *)

\* UsersAfter, for any list and any sequence of messages.
Step(list, u, k, f) == IF k = 0 THEN list ELSE Dispatch(f[k - 1], u[k].content)

After(list, u) == CHOOSE f : f = [k \in Nat |-> Step(list, u, k, f)]

\* f is that list as far as the n-th message.
AfterUpTo(list, u, n, f) == \A k \in 0 .. n : f[k] = Step(list, u, k, f)

LEMMA AfterUnique ==
    ASSUME NEW list, NEW u, NEW n \in Nat, NEW f, NEW g,
           AfterUpTo(list, u, n, f), AfterUpTo(list, u, n, g)
    PROVE  \A k \in 0 .. n : f[k] = g[k]
  <1> DEFINE S == {k \in 0 .. n : f[k] = g[k]}
  <1>1. 0 \in S
    BY DEF AfterUpTo, Step
  <1>2. ASSUME NEW k \in 0 .. n - 1, k \in S PROVE k + 1 \in S
    <2>1. k + 1 \in 0 .. n /\ k + 1 # 0 /\ (k + 1) - 1 = k
      OBVIOUS
    <2>2. f[k] = g[k]
      BY <1>2
    <2> QED
      BY <2>1, <2>2 DEF AfterUpTo, Step
  <1> HIDE DEF S
  <1>3. 0 .. n \subseteq S
    BY <1>1, <1>2, UpTo
  <1> QED
    BY <1>3 DEF S

LEMMA AfterFinite ==
    ASSUME NEW list, NEW u, NEW n \in Nat
    PROVE  \E f : AfterUpTo(list, u, n, f)
  <1> DEFINE S == {k \in Nat : \E f : AfterUpTo(list, u, k, f)}
  <1>1. 0 \in S
    <2> DEFINE f == [k \in 0 .. 0 |-> list]
    <2>1. AfterUpTo(list, u, 0, f)
      BY DEF AfterUpTo, Step
    <2> QED
      BY <2>1
  <1>2. ASSUME NEW k \in 0 .. n - 1, k \in S PROVE k + 1 \in S
    <2>1. PICK f : AfterUpTo(list, u, k, f)
      BY <1>2
    <2> DEFINE g == [i \in 0 .. k + 1 |->
                        IF i = k + 1 THEN Dispatch(f[k], u[k + 1].content) ELSE f[i]]
    <2>2. \A i \in 0 .. k : /\ i \in 0 .. k + 1 /\ i # k + 1
                            /\ i # 0 => i - 1 \in 0 .. k /\ i - 1 \in 0 .. k + 1 /\ i - 1 # k + 1
      OBVIOUS
    <2>3. \A i \in 0 .. k : g[i] = f[i]
      BY <2>2
    <2>4. k + 1 \in 0 .. k + 1 /\ k + 1 # 0 /\ (k + 1) - 1 = k /\ k \in 0 .. k
      OBVIOUS
    <2>5. g[k + 1] = Dispatch(f[k], u[k + 1].content)
      BY <2>4
    <2> HIDE DEF g
    <2>6. ASSUME NEW i \in 0 .. k PROVE g[i] = Step(list, u, i, g)
      BY <2>1, <2>2, <2>3 DEF AfterUpTo, Step
    <2>7. g[k + 1] = Step(list, u, k + 1, g)
      BY <2>3, <2>4, <2>5 DEF Step
    <2>8. \A i \in 0 .. k + 1 : i \in 0 .. k \/ i = k + 1
      OBVIOUS
    <2>9. AfterUpTo(list, u, k + 1, g)
      BY <2>6, <2>7, <2>8 DEF AfterUpTo
    <2> QED
      BY <2>9
  <1> HIDE DEF S
  <1>3. 0 .. n \subseteq S
    BY <1>1, <1>2, UpTo
  <1> QED
    BY <1>3 DEF S

\* The recursive definition has a solution.
LEMMA AfterExists ==
    ASSUME NEW list, NEW u
    PROVE  After(list, u) = [k \in Nat |-> Step(list, u, k, After(list, u))]
  <1> DEFINE g(n) == CHOOSE f : AfterUpTo(list, u, n, f)
             h == [n \in Nat |-> g(n)[n]]
  <1>1. \A n \in Nat : AfterUpTo(list, u, n, g(n))
    BY AfterFinite
  <1> HIDE DEF g
  <1>2. ASSUME NEW n \in Nat PROVE h[n] = Step(list, u, n, h)
    <2>1. n \in 0 .. n
      OBVIOUS
    <2>2. h[n] = Step(list, u, n, g(n))
      BY <1>1, <2>1 DEF AfterUpTo
    <2>3. CASE n = 0
      BY <2>2, <2>3 DEF Step
    <2>4. CASE n # 0
      <3>1. n - 1 \in Nat /\ n - 1 \in 0 .. n /\ n - 1 \in 0 .. n - 1
            /\ 0 .. n - 1 \subseteq 0 .. n
        BY <2>4
      <3>2. AfterUpTo(list, u, n - 1, g(n)) /\ AfterUpTo(list, u, n - 1, g(n - 1))
        BY <1>1, <3>1 DEF AfterUpTo
      <3>3. g(n)[n - 1] = g(n - 1)[n - 1]
        BY <3>1, <3>2, AfterUnique
      <3>4. h[n - 1] = g(n - 1)[n - 1]
        BY <3>1
      <3> QED
        BY <2>2, <2>4, <3>3, <3>4 DEF Step
    <2> QED
      BY <2>3, <2>4
  <1>3. h = [k \in Nat |-> Step(list, u, k, h)]
    BY <1>2
  <1> HIDE DEF h
  <1> QED
    BY <1>3, Zenon DEF After

\* The first list, and each from the one before.
LEMMA AfterSteps ==
    ASSUME NEW list, NEW u
    PROVE  /\ After(list, u)[0] = list
           /\ \A k \in Nat : After(list, u)[k + 1] = Dispatch(After(list, u)[k], u[k + 1].content)
  <1>1. \A k \in Nat : After(list, u)[k] = Step(list, u, k, After(list, u))
    BY AfterExists
  <1>2. \A k \in Nat : k + 1 \in Nat /\ k + 1 # 0 /\ (k + 1) - 1 = k
    OBVIOUS
  <1> QED
    BY <1>1, <1>2 DEF Step

LEMMA UsersAfterIsAfter == UsersAfter = After(users, Undelivered)
  BY Zenon DEF UsersAfter, After, Step

-----------------------------------------------------------------------------
(* DeleteUser. *)

Without(q, k) == SubSeq(q, 1, k - 1) \o SubSeq(q, k + 1, Len(q))

Listed(q) == {q[k] : k \in DOMAIN q}

LEMMA WithoutFacts ==
    ASSUME NEW S, NEW q \in Seq(S), NEW k \in 1 .. Len(q)
    PROVE  /\ Without(q, k) \in Seq(S)
           /\ Len(Without(q, k)) = Len(q) - 1
           /\ \A i \in 1 .. Len(q) - 1 :
                Without(q, k)[i] = IF i < k THEN q[i] ELSE q[i + 1]
  <1> DEFINE a == SubSeq(q, 1, k - 1)
             b == SubSeq(q, k + 1, Len(q))
  <1>1. PICK n \in Nat : n = Len(q) /\ k \in 1 .. n /\ \A i \in 1 .. n : q[i] \in S
    BY LenProperties, ElementOfSeq
  <1>2. a \in Seq(S) /\ Len(a) = k - 1 /\ \A i \in 1 .. k - 1 : a[i] = q[i]
    <2>1. \A i \in 1 .. k - 1 : q[i] \in S
      BY <1>1
    <2>2. /\ a \in Seq(S) /\ Len(a) = IF 1 <= k - 1 THEN k - 1 - 1 + 1 ELSE 0
          /\ \A i \in 1 .. k - 1 - 1 + 1 : a[i] = q[1 + i - 1]
      BY <1>1, <2>1, SubSeqProperties
    <2>3. k - 1 \in Nat /\ k - 1 - 1 + 1 = k - 1
      BY <1>1
    <2>4. \A i \in 1 .. k - 1 : 1 + i - 1 = i
      OBVIOUS
    <2> HIDE DEF a
    <2> QED
      BY <2>2, <2>3, <2>4
  <1>3. b \in Seq(S) /\ Len(b) = n - k /\ \A i \in 1 .. n - k : b[i] = q[k + i]
    <2>1. \A i \in k + 1 .. n : q[i] \in S
      BY <1>1
    <2>2. /\ b \in Seq(S) /\ Len(b) = IF k + 1 <= n THEN n - (k + 1) + 1 ELSE 0
          /\ \A i \in 1 .. n - (k + 1) + 1 : b[i] = q[k + 1 + i - 1]
      BY <1>1, <2>1, SubSeqProperties
    <2>3. n - k \in Nat /\ n - (k + 1) + 1 = n - k
      BY <1>1
    <2>4. \A i \in 1 .. n - k : k + 1 + i - 1 = k + i
      BY <1>1
    <2> HIDE DEF b
    <2> QED
      BY <1>1, <2>2, <2>3, <2>4
  <1>4. Without(q, k) = a \o b
    BY DEF Without
  <1> HIDE DEF a, b
  <1>5. /\ a \o b \in Seq(S) /\ Len(a \o b) = Len(a) + Len(b)
        /\ \A i \in 1 .. Len(a) + Len(b) :
            (a \o b)[i] = IF i <= Len(a) THEN a[i] ELSE b[i - Len(a)]
    BY <1>2, <1>3, ConcatProperties
  <1> DEFINE r == a \o b
  <1>6. r \in Seq(S) /\ Len(r) = n - 1
    BY <1>1, <1>2, <1>3, <1>5
  <1>7. \A i \in 1 .. n - 1 : r[i] = IF i <= k - 1 THEN a[i] ELSE b[i - (k - 1)]
    BY <1>1, <1>2, <1>3, <1>5
  <1> HIDE DEF r
  <1>8. ASSUME NEW i \in 1 .. n - 1 PROVE r[i] = IF i < k THEN q[i] ELSE q[i + 1]
    <2>1. CASE i < k
      BY <1>2, <1>7, <2>1
    <2>2. CASE ~(i < k)
      <3>1. i - (k - 1) \in 1 .. n - k /\ k + (i - (k - 1)) = i + 1 /\ ~(i <= k - 1)
        BY <1>1, <2>2
      <3> QED
        BY <1>3, <1>7, <2>2, <3>1
    <2> QED
      BY <2>1, <2>2
  <1> QED
    BY <1>1, <1>4, <1>6, <1>8 DEF r

\* DeleteUser takes out one user with that sid, if there is one.
LEMMA DeleteUserFacts ==
    ASSUME NEW S, NEW q \in Seq(S), NEW n
    PROVE  \/ (\A k \in 1 .. Len(q) : q[k].sid # n) /\ DeleteUser(q, n) = q
           \/ \E k \in 1 .. Len(q) : q[k].sid = n /\ DeleteUser(q, n) = Without(q, k)
  <1>1. DOMAIN q = 1 .. Len(q) /\ Len(q) \in Nat
    BY LenProperties
  <1>2. CASE \A k \in DOMAIN q : q[k].sid # n
    BY <1>1, <1>2 DEF DeleteUser
  <1>3. CASE ~ \A k \in DOMAIN q : q[k].sid # n
    <2> DEFINE T == {k \in DOMAIN q : q[k].sid = n}
               First(k) == k \in DOMAIN q /\ q[k].sid = n /\ \A j \in 1 .. k - 1 : q[j].sid # n
    <2>1. T # {} /\ T \in SUBSET Nat
      BY <1>1, <1>3
    <2> HIDE DEF T
    <2>2. PICK m \in T : \A k \in T : m <= k
      BY <2>1, Least
    <2>3. m \in 1 .. Len(q) /\ q[m].sid = n
      BY <1>1, <2>2 DEF T
    <2>4. \A j \in 1 .. m - 1 : j \in DOMAIN q /\ ~(m <= j)
      BY <1>1, <2>3
    <2>5. First(m)
      BY <1>1, <2>2, <2>3, <2>4 DEF T
    <2> DEFINE first == CHOOSE k \in DOMAIN q : q[k].sid = n /\ \A j \in 1 .. k - 1 : q[j].sid # n
    <2>6. first \in 1 .. Len(q) /\ q[first].sid = n
      BY <1>1, <2>5
    <2>7. DeleteUser(q, n) = Without(q, first)
      BY <1>3 DEF DeleteUser, Without
    <2> HIDE DEF first
    <2> QED
      BY <2>6, <2>7
  <1> QED
    BY <1>2, <1>3

LEMMA DispatchType ==
    ASSUME NEW S, NEW q \in Seq(S), NEW e, e.kind = "Connect" => e.linkid \in S
    PROVE  Dispatch(q, e) \in Seq(S)
  <1>1. CASE e.kind = "Connect"
    <2>1. Append(q, e.linkid) \in Seq(S)
      BY <1>1, AppendProperties
    <2> QED
      BY <1>1, <2>1 DEF Dispatch
  <1>2. CASE e.kind = "Disconnect"
    <2>1. DeleteUser(q, e.linkid.sid) \in Seq(S)
      BY DeleteUserFacts, WithoutFacts
    <2> QED
      BY <1>2, <2>1 DEF Dispatch
  <1>3. CASE e.kind # "Connect" /\ e.kind # "Disconnect"
    BY <1>3 DEF Dispatch
  <1> QED
    BY <1>1, <1>2, <1>3

-----------------------------------------------------------------------------
(* What is in the queue was logged, and users come from Connect events. *)

Logged == {m_queue[k] : k \in DOMAIN m_queue}

Entry == [content : Logged, bigDataPointer : {NoSession}]

\* The LinkIDs the application has been told of by Connect events.
Introduced == {h \in LinkID : Mark("Connect", h) \in Logged}

ServiceType ==
    /\ queue \in [{0, 1} -> Seq(Entry)]
    /\ m_current \in {0, 1}
    /\ index \in Nat
    /\ index <= Len(Queue!Get)
    /\ users \in Seq(Introduced)

\* The queue not being written to is the one the main loop reads.
LEMMA Others ==
    ASSUME m_current \in {0, 1}
    PROVE  /\ (m_current + 1) % 2 = 1 - m_current
           /\ 1 - m_current \in {0, 1}
           /\ 1 - m_current # m_current
           /\ 1 - (1 - m_current) = m_current
  <1>1. CASE m_current = 0
    BY <1>1
  <1>2. CASE m_current = 1
    BY <1>2
  <1> QED
    BY <1>1, <1>2

LEMMA ServiceTypeInit == ServiceInit => ServiceType
  <1> SUFFICES ASSUME ServiceInit PROVE ServiceType
    OBVIOUS
  <1>1. /\ queue = [b \in {0, 1} |-> << >>] /\ m_current = 0 /\ index = 0
        /\ users = << >>
    BY DEF ServiceInit, Queue!Init
  <1>2. Len(<< >>) = 0 /\ << >> \in Seq(Entry) /\ << >> \in Seq(Introduced)
    BY EmptySeq
  <1>3. 1 - m_current \in {0, 1}
    BY <1>1
  <1> QED
    BY <1>1, <1>2, <1>3 DEF ServiceType, Queue!Get

\* What a step logs.
LEMMA LogPush ==
    ASSUME TypeInv, PushConnect \/ PushDisconnect \/ \E s \in Session : ReadMessage(s)
    PROVE  \E x \in Event : m_queue' = Append(m_queue, x)
  <1>1. CASE PushConnect
    <2>1. [kind |-> "Connect", linkid |-> ioLink] \in Event
      BY DEF TypeInv, TypeOK, IoType, Event
    <2> QED
      BY <1>1, <2>1 DEF PushConnect
  <1>2. CASE PushDisconnect
    <2>1. [kind |-> "Disconnect", linkid |-> ioLink] \in Event
      BY DEF TypeInv, TypeOK, IoType, Event
    <2> QED
      BY <1>2, <2>1 DEF PushDisconnect
  <1>3. ASSUME NEW s \in Session, ReadMessage(s)
        PROVE  \E x \in Event : m_queue' = Append(m_queue, x)
    <2>1. [kind |-> "Data", linkid |-> m_linkid[s]] \in Event
      BY DEF TypeInv, TypeOK, PoolType, Event
    <2> QED
      BY <1>3, <2>1 DEF ReadMessage
  <1> QED
    BY <1>1, <1>2, <1>3

LEMMA LogStep ==
    ASSUME TypeInv, [Next]_linkVars
    PROVE  UNCHANGED m_queue \/ \E x \in Event : m_queue' = Append(m_queue, x)
  <1>1. \/ UNCHANGED m_queue
        \/ PushConnect \/ PushDisconnect
        \/ \E s \in Session : ReadMessage(s)
    BY DEF Next, IoThread, Network, Application, Handler, StartRead, Join, ReadError,
           WriteError, AcceptThrows, Arrive, Transmit, ReadHeartbeat, WriteOk, Send,
           Close, linkVars
  <1> QED
    BY <1>1, LogPush

LEMMA LoggedAppend ==
    ASSUME NEW q \in Seq(Event), NEW x \in Event
    PROVE  /\ Listed(Append(q, x)) = Listed(q) \cup {x}
           /\ Append(q, x)[Len(Append(q, x))] = x
  <1> DEFINE s == Append(q, x)
  <1>1. PICK n \in Nat : n = Len(q) /\ DOMAIN q = 1 .. n
    BY LenProperties
  <1>2. DOMAIN s = 1 .. n + 1 /\ Len(s) = n + 1
        /\ (\A i \in 1 .. n : s[i] = q[i]) /\ s[n + 1] = x
    BY <1>1, AppendProperties, LenProperties
  <1> HIDE DEF s
  <1>3. 1 .. n + 1 = (1 .. n) \cup {n + 1}
    BY <1>1
  <1>4. Listed(s) = Listed(q) \cup {x}
    BY <1>1, <1>2, <1>3 DEF Listed
  <1> QED
    BY <1>2, <1>4 DEF s

LEMMA LogGrows ==
    ASSUME TypeInv, [Next]_linkVars
    PROVE  Logged \subseteq Logged' /\ Introduced \subseteq Introduced' /\ Entry \subseteq Entry'
  <1>1. Logged \subseteq Logged'
    <2>1. CASE UNCHANGED m_queue
      BY <2>1 DEF Logged
    <2>2. ASSUME NEW x \in Event, m_queue' = Append(m_queue, x) PROVE Logged \subseteq Logged'
      <3>1. m_queue \in Seq(Event)
        BY DEF TypeInv, TypeOK, LogType
      <3>2. Logged' = Logged \cup {x}
        BY <2>2, <3>1, LoggedAppend DEF Listed, Logged
      <3> QED
        BY <3>2
    <2> QED
      BY <2>1, <2>2, LogStep
  <1>2. Introduced \subseteq Introduced'
    BY <1>1 DEF Introduced, LinkID, Slots
  <1>3. Entry \subseteq Entry'
    BY <1>1 DEF Entry
  <1> QED
    BY <1>1, <1>2, <1>3

LEMMA IntroducedAreHandles == TypeInv => Introduced \subseteq Handles
  <1> SUFFICES ASSUME TypeInv, NEW h \in Introduced PROVE h \in Handles
    OBVIOUS
  <1>1. PICK k \in DOMAIN m_queue : m_queue[k] = Mark("Connect", h)
    BY DEF Introduced, Logged
  <1>2. m_queue[k].linkid = h
    BY <1>1 DEF Mark
  <1> QED
    BY <1>2 DEF Handles

\* The message the main loop handles was logged, and handling it logs nothing.
LEMMA HandledIsLogged ==
    ASSUME ServiceType, MainLoopHandle
    PROVE  /\ index' = index + 1 /\ index' \in 1 .. Len(Queue!Get)
           /\ UNCHANGED <<queue, m_current, m_queue, joins>>
           /\ Queue!Get' = Queue!Get
           /\ Queue!Get[index'].content \in Logged
  <1> DEFINE q == Queue!Get
  <1>1. q \in Seq(Entry) /\ Len(q) \in Nat
    BY Others, LenProperties DEF ServiceType, Queue!Get
  <1>2. index' = index + 1 /\ index' \in 1 .. Len(q) /\ UNCHANGED <<queue, m_current>>
    BY <1>1 DEF MainLoopHandle, Queue!GetPackage, ServiceType
  <1>3. q[index'] \in Entry
    BY <1>1, <1>2, ElementOfSeq
  <1>4. UNCHANGED <<m_queue, joins>>
    BY DEF MainLoopHandle, Send, linkVars, ghosts
  <1>5. q' = q
    BY <1>2 DEF Queue!Get
  <1> QED
    BY <1>2, <1>3, <1>4, <1>5 DEF Entry

\* To the pool the main loop is an application that uses handles it was given.
LEMMA PoolStep ==
    ASSUME TypeInv, ServiceType, [ServiceNext]_netServiceVars
    PROVE  [Next]_linkVars
  <1>1. CASE ~crashed /\ Push
    BY <1>1 DEF Push, Next, IoThread, Handler
  <1>2. CASE ~crashed /\ NoPush
    BY <1>2 DEF NoPush, Next, IoThread, Handler
  <1>3. CASE ~crashed /\ MainLoopHandle
    <2> DEFINE e == Queue!Get[index'].content
    <2>1. PICK k \in DOMAIN m_queue : e = m_queue[k]
      BY <1>3, HandledIsLogged DEF Logged
    <2>2. e.linkid \in Handles
      BY <2>1 DEF Handles
    <2>3. UNCHANGED linkVars \/ Send(e.linkid)
      BY <1>3 DEF MainLoopHandle
    <2> HIDE DEF e
    <2> QED
      BY <1>3, <2>2, <2>3 DEF Next, Application
  <1>4. CASE ~crashed /\ CallForUser
    <2>1. PICK k \in DOMAIN users : Send(users[k]) \/ Close(users[k])
      BY <1>4 DEF CallForUser
    <2>2. users \in Seq(Introduced) /\ DOMAIN users = 1 .. Len(users)
      BY LenProperties DEF ServiceType
    <2>3. users[k] \in Introduced
      BY <2>2, ElementOfSeq
    <2>4. users[k] \in Handles
      BY <2>3, IntroducedAreHandles
    <2> QED
      BY <1>4, <2>1, <2>4 DEF Next, Application
  <1>5. CASE MainLoopSwap
    BY <1>5 DEF MainLoopSwap
  <1>6. CASE UNCHANGED netServiceVars
    BY <1>6 DEF netServiceVars
  <1> QED
    BY <1>1, <1>2, <1>3, <1>4, <1>5, <1>6 DEF ServiceNext

\* An event pushed goes into the queue.
LEMMA PushedEvent ==
    ASSUME TypeInv, Push
    PROVE  \E x \in Event : /\ m_queue' = Append(m_queue, x)
                            /\ Queue!AddPackage(x)
                            /\ lost' = (lost \/ Len(queue[m_current]) + 1 >= QueueMax)
  <1>1. m_queue \in Seq(Event)
    BY DEF TypeInv, TypeOK, LogType
  <1>2. PICK x \in Event : m_queue' = Append(m_queue, x)
    BY LogPush DEF Push
  <1>3. m_queue'[Len(m_queue')] = x
    BY <1>1, <1>2, LoggedAppend
  <1> QED
    BY <1>2, <1>3 DEF Push

\* What the other steps leave alone.
LEMMA ServiceKept ==
    ASSUME TypeInv, ServiceType, [Next]_linkVars, UNCHANGED <<queueVars, users>>
    PROVE  ServiceType'
  <1>1. Introduced \subseteq Introduced' /\ Entry \subseteq Entry'
    BY LogGrows
  <1>2. users' \in Seq(Introduced')
    BY <1>1, SeqMonotonic DEF ServiceType
  <1>3. \A b \in {0, 1} : queue[b] \in Seq(Entry')
    BY <1>1, SeqMonotonic DEF ServiceType
  <1>4. queue' \in [{0, 1} -> Seq(Entry')]
    BY <1>3 DEF ServiceType, queueVars
  <1> QED
    BY <1>2, <1>4 DEF ServiceType, queueVars, Queue!Get

LEMMA ServiceTypeNext ==
    TypeInv /\ ServiceType /\ [ServiceNext]_netServiceVars => ServiceType'
  <1> SUFFICES ASSUME TypeInv, ServiceType, [ServiceNext]_netServiceVars PROVE ServiceType'
    OBVIOUS
  <1>1. [Next]_linkVars
    BY PoolStep
  <1>2. /\ Logged \subseteq Logged' /\ Introduced \subseteq Introduced'
        /\ Entry \subseteq Entry'
    BY <1>1, LogGrows
  <1>3. \A b \in {0, 1} : queue[b] \in Seq(Entry')
    BY <1>2, SeqMonotonic DEF ServiceType
  <1>4. users \in Seq(Introduced')
    BY <1>2, SeqMonotonic DEF ServiceType
  <1>5. CASE Push
    <2>1. PICK x \in Event : m_queue' = Append(m_queue, x) /\ Queue!AddPackage(x)
      BY <1>5, PushedEvent
    <2> DEFINE e == [content |-> x, bigDataPointer |-> NoSession]
               q == Append(queue[m_current], e)
               r == IF Len(q) >= QueueMax THEN Tail(q) ELSE q
    <2>2. e \in Entry'
      <3>1. Logged' = Logged \cup {x}
        BY <2>1, LoggedAppend DEF Listed, Logged, TypeInv, TypeOK, LogType
      <3> QED
        BY <3>1 DEF Entry
    <2>3. queue' = [queue EXCEPT ![m_current] = r] /\ UNCHANGED <<m_current, index, users>>
      BY <1>5, <2>1 DEF Queue!AddPackage, Queue!RemoveFront, Push
    <2>4. r \in Seq(Entry')
      <3>a. queue[m_current] \in Seq(Entry')
        BY <1>3 DEF ServiceType
      <3>1. q \in Seq(Entry') /\ q # << >>
        BY <2>2, <3>a, AppendProperties
      <3>2. Tail(q) \in Seq(Entry')
        BY <3>1, HeadTailProperties
      <3> QED
        BY <3>1, <3>2
    <2> HIDE DEF r
    <2>5. queue' \in [{0, 1} -> Seq(Entry')]
      BY <1>3, <2>3, <2>4 DEF ServiceType
    <2>6. Queue!Get' = Queue!Get
      BY <2>3, Others DEF ServiceType, Queue!Get
    <2> QED
      BY <1>4, <2>3, <2>5, <2>6 DEF ServiceType
  <1>6. CASE MainLoopHandle
    <2> DEFINE q == Queue!Get
    <2>1. Len(q) \in Nat /\ index' \in Nat
      BY <1>6, Others, LenProperties, HandledIsLogged DEF ServiceType, Queue!Get
    <2>2. index' \in 1 .. Len(q) /\ UNCHANGED <<queue, m_current>> /\ q' = q
      BY <1>6, HandledIsLogged
    <2>3. q[index'].content \in Logged
      BY <1>6, HandledIsLogged
    <2>4. q[index'].content \in Event
      BY <2>3, ElementOfSeq, LenProperties DEF Logged, TypeInv, TypeOK, LogType
    <2>5. q[index'].content.kind = "Connect" => q[index'].content.linkid \in Introduced
      BY <2>3, <2>4 DEF Introduced, Event, Mark
    <2>6. users' = Dispatch(users, q[index'].content)
      BY <1>6 DEF MainLoopHandle
    <2>7. users' \in Seq(Introduced)
      BY <2>5, <2>6, DispatchType DEF ServiceType
    <2>8. users' \in Seq(Introduced')
      BY <1>2, <2>7, SeqMonotonic
    <2>9. queue' \in [{0, 1} -> Seq(Entry')]
      BY <1>3, <2>2 DEF ServiceType
    <2>10. index' <= Len(q)
      BY <2>1, <2>2
    <2> HIDE DEF q
    <2>11. index' <= Len(q')
      BY <2>2, <2>10
    <2> QED
      BY <2>1, <2>2, <2>8, <2>9, <2>11 DEF ServiceType, q
  <1>7. CASE MainLoopSwap
    <2>1. m_current' = 1 - m_current /\ m_current' \in {0, 1} /\ index' = 0
          /\ queue' = [queue EXCEPT ![m_current'] = << >>] /\ UNCHANGED users
      BY <1>7, Others DEF ServiceType, MainLoopSwap, Queue!Swap
    <2>2. << >> \in Seq(Entry')
      BY EmptySeq
    <2>3. queue' \in [{0, 1} -> Seq(Entry')]
      BY <1>3, <2>1, <2>2 DEF ServiceType
    <2>4. Queue!Get' \in Seq(Entry')
      BY <2>1, <2>3, Others DEF ServiceType, Queue!Get
    <2>5. Len(Queue!Get') \in Nat
      BY <2>4, LenProperties
    <2> QED
      BY <1>4, <2>1, <2>3, <2>5 DEF ServiceType
  <1>8. CASE NoPush \/ CallForUser \/ UNCHANGED netServiceVars
    <2>1. UNCHANGED <<queueVars, users>>
      BY <1>8 DEF NoPush, CallForUser, netServiceVars
    <2> QED
      BY <1>1, <2>1, ServiceKept
  <1> QED
    BY <1>5, <1>6, <1>7, <1>8 DEF ServiceNext

LEMMA ServiceTyped == ServiceSpec => [](TypeInv /\ ServiceType)
  <1>1. ServiceInit => TypeInv /\ ServiceType
    BY TypeInit, ServiceTypeInit DEF ServiceInit
  <1>2. TypeInv /\ ServiceType /\ [ServiceNext]_netServiceVars => (TypeInv /\ ServiceType)'
    BY PoolStep, TypeNext, ServiceTypeNext
  <1> QED
    BY <1>1, <1>2, PTL DEF ServiceSpec

\* The service uses the pool as LinkPool lets any application use it: its main
\* loop passes only LinkIDs it was handed, whatever the queue drops.
THEOREM ServiceUsesPool == ServiceSpec => Spec
  <1>1. ServiceInit => Init
    BY DEF ServiceInit
  <1>2. TypeInv /\ ServiceType /\ [ServiceNext]_netServiceVars => [Next]_linkVars
    BY PoolStep
  <1> QED
    BY <1>1, <1>2, ServiceTyped, PTL DEF ServiceSpec, Spec

-----------------------------------------------------------------------------
(* A LinkID the application was told of. *)

\* It was given to a connection, and no two connections were given theirs by
\* the same call of Join.
NamesInv ==
    /\ \A h \in Introduced : \E s \in Session : birth[s] > 0 /\ h = given[s]
    /\ \A s, t \in Session : birth[s] > 0 /\ birth[s] = birth[t] => s = t

LEMMA NamesInit == Init => NamesInv
  <1> SUFFICES ASSUME Init PROVE NamesInv
    OBVIOUS
  <1>1. Introduced = {}
    BY DEF Init, Introduced, Logged
  <1>2. \A s \in Session : birth[s] = 0
    BY DEF Init
  <1> QED
    BY <1>1, <1>2 DEF NamesInv

\* What Join gives a connection stays given.
LEMMA GivenForGood ==
    ASSUME TypeInv, SidInv, [Next]_linkVars
    PROVE  /\ \A s \in Session : birth[s] > 0 => birth'[s] = birth[s] /\ given'[s] = given[s]
           /\ \A s, t \in Session : birth'[s] # birth[s] /\ birth'[t] # birth[t] => s = t
           /\ \A s \in Session : birth'[s] = birth[s] \/ birth'[s] = joins + 1
  <1>1. CASE UNCHANGED <<given, birth>>
    BY <1>1
  <1>2. ASSUME NEW t \in Session, Join(t)
        PROVE  /\ \A s \in Session : birth[s] > 0 => birth'[s] = birth[s] /\ given'[s] = given[s]
               /\ \A s \in Session : s # t => birth'[s] = birth[s]
               /\ birth'[t] = birth[t] \/ birth'[t] = joins + 1
    <2>1. birth[t] = 0 /\ birth \in [Session -> Nat] /\ given \in [Session -> LinkID]
      BY <1>2 DEF Join, SidInv, BirthInv, TypeInv, TypeOK, GhostType
    <2>2. CASE UNCHANGED <<given, birth>>
      BY <2>2
    <2>3. ASSUME NEW i \in Slots,
                 given' = [given EXCEPT ![t] = [sid |-> NextSid, sindex |-> i]],
                 birth' = [birth EXCEPT ![t] = joins + 1]
          PROVE  /\ \A s \in Session : birth[s] > 0 => birth'[s] = birth[s] /\ given'[s] = given[s]
                 /\ \A s \in Session : s # t => birth'[s] = birth[s]
                 /\ birth'[t] = joins + 1
      <3>1. \A s \in Session : s # t => birth'[s] = birth[s] /\ given'[s] = given[s]
        BY <2>1, <2>3
      <3>2. birth'[t] = joins + 1
        BY <2>1, <2>3
      <3> QED
        BY <2>1, <3>1, <3>2
    <2> QED
      BY <1>2, <2>2, <2>3 DEF Join
  <1>3. ASSUME NEW t \in Session, ReadError(t) \/ WriteError(t) PROVE UNCHANGED <<given, birth>>
    BY <1>3 DEF ReadError, WriteError, ghosts
  <1> QED
    BY <1>1, <1>2, <1>3, OtherSteps

\* A step introduces at most the link it connects.
LEMMA IntroducedNext ==
    ASSUME TypeInv, OwnerInv, SidInv, [Next]_linkVars, NEW h \in Introduced', h \notin Introduced
    PROVE  \E s \in Session : birth[s] > 0 /\ h = given[s]
  <1>1. h \in LinkID /\ Mark("Connect", h) \in Logged'
    BY DEF Introduced, LinkID, Slots
  <1>2. Mark("Connect", h) \notin Logged
    BY <1>1 DEF Introduced
  <1>3. m_queue \in Seq(Event)
    BY DEF TypeInv, TypeOK, LogType
  <1>4. \A x \in Event : m_queue' = Append(m_queue, x) => Logged' = Logged \cup {x}
    BY <1>3, LoggedAppend DEF Listed, Logged
  <1>5. CASE PushConnect
    <2>1. ioSession \in Session /\ ioLink = given[ioSession] /\ Holds(ioSession) /\ ioLink \in LinkID
      BY <1>5 DEF PushConnect, OwnerInv, StartInv, TypeInv, TypeOK, IoType
    <2>2. m_queue' = Append(m_queue, Mark("Connect", ioLink)) /\ Mark("Connect", ioLink) \in Event
      BY <1>5, <2>1 DEF PushConnect, Mark, Event
    <2>3. Mark("Connect", h) = Mark("Connect", ioLink)
      BY <1>1, <1>2, <1>4, <2>2
    <2>4. h = ioLink
      BY <2>3, MarksDiffer
    <2>5. birth[ioSession] # 0 /\ birth[ioSession] \in Nat
      BY <2>1 DEF Holds, SidInv, BirthInv, TypeInv, TypeOK, GhostType
    <2> QED
      BY <2>1, <2>4, <2>5
  <1>6. ASSUME NEW g \in LinkID, NEW k \in {"Data", "Disconnect"},
               m_queue' = Append(m_queue, Mark(k, g))
        PROVE  FALSE
    <2>1. Mark(k, g) \in Event
      BY DEF Mark, Event
    <2>2. Mark("Connect", h) = Mark(k, g)
      BY <1>1, <1>2, <1>4, <1>6, <2>1
    <2> QED
      BY <2>2 DEF Mark
  <1>7. CASE PushDisconnect
    <2>1. ioLink \in LinkID /\ m_queue' = Append(m_queue, Mark("Disconnect", ioLink))
      BY <1>7 DEF PushDisconnect, Mark, TypeInv, TypeOK, IoType
    <2> QED
      BY <1>6, <2>1
  <1>8. ASSUME NEW s \in Session, ReadMessage(s) PROVE FALSE
    <2>1. m_linkid[s] \in LinkID /\ m_queue' = Append(m_queue, Mark("Data", m_linkid[s]))
      BY <1>8 DEF ReadMessage, Mark, TypeInv, TypeOK, PoolType
    <2> QED
      BY <1>6, <2>1
  <1>9. CASE UNCHANGED m_queue
    BY <1>1, <1>2, <1>9 DEF Logged
  <1> QED
    BY <1>5, <1>7, <1>8, <1>9 DEF Next, IoThread, Network, Application, Handler, StartRead,
       Join, ReadError, WriteError, AcceptThrows, Arrive, Transmit, ReadHeartbeat, WriteOk,
       Send, Close, linkVars

LEMMA NamesNext == TypeInv /\ OwnerInv /\ SidInv /\ NamesInv /\ [Next]_linkVars => NamesInv'
  <1> SUFFICES ASSUME TypeInv, OwnerInv, SidInv, NamesInv, [Next]_linkVars PROVE NamesInv'
    OBVIOUS
  <1>1. birth \in [Session -> Nat] /\ joins \in Nat /\ \A s \in Session : birth[s] <= joins
    BY DEF TypeInv, TypeOK, GhostType, SidInv, BirthInv
  <1>2. ASSUME NEW h \in Introduced' PROVE \E s \in Session : birth'[s] > 0 /\ h = given'[s]
    <2>1. \E s \in Session : birth[s] > 0 /\ h = given[s]
      BY IntroducedNext DEF NamesInv
    <2> QED
      BY <2>1, GivenForGood
  <1>3. ASSUME NEW s \in Session, NEW t \in Session, birth'[s] > 0, birth'[s] = birth'[t]
        PROVE  s = t
    <2>1. birth'[s] # birth[s] /\ birth'[t] # birth[t] => s = t
      BY GivenForGood
    <2>2. \A x \in Session : birth'[x] = birth[x] \/ birth'[x] = joins + 1
      BY GivenForGood
    <2>3. birth[s] \in Nat /\ birth[t] \in Nat /\ birth[s] <= joins /\ birth[t] <= joins
      BY <1>1
    <2>4. \/ birth'[s] # birth[s] /\ birth'[t] # birth[t]
          \/ birth'[s] = birth[s] /\ birth'[t] = birth[t]
      BY <1>1, <1>3, <2>2, <2>3
    <2> QED
      BY <1>3, <2>1, <2>4 DEF NamesInv
  <1> QED
    BY <1>2, <1>3 DEF NamesInv

LEMMA PoolNamesInv == Spec => []NamesInv
  BY NamesInit, NamesNext, PoolTypeInv, PoolOwnerInv, PoolSidInv, PTL DEF Spec

LEMMA IntroducedHaveSids ==
    ASSUME OwnerInv, SidInv, NamesInv, NEW h \in Introduced
    PROVE  h.sid # 0
  <1>1. PICK s \in Session : birth[s] > 0 /\ h = given[s]
    BY DEF NamesInv
  <1>2. given[s] # NullLinkID
    BY <1>1 DEF SidInv, BirthInv
  <1> QED
    BY <1>1, <1>2 DEF OwnerInv, GivenInv

\* Such a LinkID never resolves to a free slot, whose link is null.
LEMMA IntroducedIsLinked ==
    ASSUME TypeInv, OwnerInv, SidInv, NamesInv, NEW h \in Introduced, Resolves(h)
    PROVE  m_links[h.sindex].link # NoSession
  <1>1. h.sid # 0 /\ h \in LinkID
    BY IntroducedHaveSids DEF Introduced
  <1>2. h.sindex \in Slots /\ m_links[h.sindex].sid # 0
    BY <1>1, LinkIDFacts DEF Resolves
  <1> QED
    BY <1>2 DEF OwnerInv, SlotOwner

\* The event that carries any other LinkID is a message that was stamped after
\* Leave had reset the connection's own.
LEMMA IntroducedOrLate ==
    ASSUME TypeInv, EventInv, NEW e \in Logged, e.linkid \notin Introduced
    PROVE  e = Mark("Data", NullLinkID)
  <1>1. m_queue \in Seq(Event) /\ DOMAIN m_queue = 1 .. Len(m_queue) /\ Len(m_queue) \in Nat
    BY LenProperties DEF TypeInv, TypeOK, LogType
  <1>2. PICK k \in 1 .. Len(m_queue) : e = m_queue[k]
    BY <1>1 DEF Logged
  <1>3. e \in Event
    BY <1>1, <1>2, ElementOfSeq
  <1>4. e.linkid \in LinkID /\ e = Mark(e.kind, e.linkid)
    BY <1>3 DEF Event, Mark
  <1>5. \A j \in 1 .. Len(m_queue) : m_queue[j] # Mark("Connect", e.linkid)
    BY <1>1, <1>4 DEF Introduced, Logged
  <1>6. e.kind # "Connect"
    BY <1>2, <1>4, <1>5
  <1>7. ~OpenIn(m_queue, e.linkid, k - 1)
    <2>1. \A j \in 1 .. k - 1 : j \in 1 .. Len(m_queue)
      BY <1>1
    <2> QED
      BY <1>5, <2>1 DEF OpenIn
  <1>8. Bracketed(m_queue, k)
    BY DEF EventInv
  <1>9. e.linkid = NullLinkID /\ e.kind = "Data"
    BY <1>2, <1>6, <1>7, <1>8 DEF Bracketed
  <1> QED
    BY <1>4, <1>9

\* The second half of UserCallsAreSafe.
CrashFromAnswer ==
    crashed => index > 0 /\ Queue!Get[index].content = Mark("Data", NullLinkID)

LEMMA CrashNext ==
    ASSUME TypeInv, OwnerInv, EventInv, SidInv, NamesInv, ServiceType, CrashFromAnswer,
           [ServiceNext]_netServiceVars
    PROVE  CrashFromAnswer'
  <1>1. CASE ~crashed /\ CallForUser
    <2>1. PICK k \in DOMAIN users : Send(users[k]) \/ Close(users[k])
      BY <1>1 DEF CallForUser
    <2> DEFINE h == users[k]
    <2>2. users \in Seq(Introduced) /\ DOMAIN users = 1 .. Len(users)
      BY LenProperties DEF ServiceType
    <2>3. h \in Introduced
      BY <2>2, ElementOfSeq
    <2> HIDE DEF h
    <2>4. Send(h) \/ Close(h)
      BY <2>1 DEF h
    <2>5. Resolves(h)
      BY <2>4 DEF Send, Close
    <2>6. m_links[h.sindex].link # NoSession
      BY <2>3, <2>5, IntroducedIsLinked
    <2> QED
      BY <1>1, <2>4, <2>6 DEF Send, Close, CrashFromAnswer
  <1>2. CASE ~crashed /\ MainLoopHandle
    <2> DEFINE e == Queue!Get[index'].content
    <2>1. /\ index' = index + 1 /\ e \in Logged
          /\ Queue!Get'[index'].content = e
      BY <1>2, HandledIsLogged
    <2>2. UNCHANGED crashed \/ Send(e.linkid)
      BY <1>2 DEF MainLoopHandle, linkVars
    <2> HIDE DEF e
    <2>3. CASE e.linkid \in Introduced
      <3>1. Send(e.linkid) => m_links[e.linkid.sindex].link # NoSession
        BY <2>3, IntroducedIsLinked DEF Send
      <3> QED
        BY <1>2, <2>2, <3>1 DEF Send, CrashFromAnswer
    <2>4. CASE e.linkid \notin Introduced
      <3>1. e = Mark("Data", NullLinkID)
        BY <2>1, <2>4, IntroducedOrLate
      <3>2. index' > 0
        BY <2>1 DEF ServiceType
      <3> QED
        BY <2>1, <3>1, <3>2 DEF CrashFromAnswer
    <2> QED
      BY <2>3, <2>4
  <1>3. CASE ~crashed /\ Push
    BY <1>3 DEF Push, PushConnect, PushDisconnect, ReadMessage, CrashFromAnswer
  <1>4. CASE ~crashed /\ NoPush
    BY <1>4 DEF NoPush, StartRead, Join, AcceptThrows, ReadHeartbeat, ReadError, WriteOk,
                WriteError, Network, Arrive, Transmit, CrashFromAnswer
  <1>5. CASE ~crashed /\ MainLoopSwap
    BY <1>5 DEF MainLoopSwap, linkVars, CrashFromAnswer
  <1>6. CASE UNCHANGED netServiceVars
    BY <1>6 DEF netServiceVars, linkVars, queueVars, CrashFromAnswer, Queue!Get
  <1> QED
    BY <1>1, <1>2, <1>3, <1>4, <1>5, <1>6 DEF ServiceNext

LEMMA UserCallsSafe ==
    ASSUME TypeInv, OwnerInv, SidInv, NamesInv, ServiceType, CrashFromAnswer
    PROVE  UserCallsAreSafe
  <1>1. ASSUME NEW k \in DOMAIN users, Resolves(users[k])
        PROVE  m_links[users[k].sindex].link # NoSession
    <2>1. users \in Seq(Introduced) /\ DOMAIN users = 1 .. Len(users)
      BY LenProperties DEF ServiceType
    <2>2. users[k] \in Introduced
      BY <2>1, ElementOfSeq
    <2> QED
      BY <1>1, <2>2, IntroducedIsLinked
  <1> QED
    BY <1>1 DEF CrashFromAnswer, Mark, UserCallsAreSafe

\* A main loop that keeps its users by the events can send to and close any of
\* them, however late (CenterServer.cpp's use of Send and Close): their LinkIDs
\* never resolve to a free slot, whose link is null.  The answer to a message
\* (CenterServer.cpp:203) is the one call that can use a null link, and only when
\* the message came after its connection had left.
THEOREM ServiceUserCallsAreSafe == ServiceSpec => []UserCallsAreSafe
  <1>1. ServiceInit => CrashFromAnswer
    BY DEF ServiceInit, Init, CrashFromAnswer
  <1>2. TypeInv /\ OwnerInv /\ EventInv /\ SidInv /\ NamesInv /\ ServiceType
            /\ CrashFromAnswer /\ [ServiceNext]_netServiceVars => CrashFromAnswer'
    BY CrashNext
  <1>3. TypeInv /\ OwnerInv /\ SidInv /\ NamesInv /\ ServiceType /\ CrashFromAnswer
            => UserCallsAreSafe
    BY UserCallsSafe
  <1> QED
    BY <1>1, <1>2, <1>3, ServiceTyped, ServiceUsesPool, PoolOwnerInv, PoolEventInv, PoolSidInv,
       PoolNamesInv, PTL DEF ServiceSpec

-----------------------------------------------------------------------------
(* The list of users the main loop is heading for. *)

\* FinalUsers, for any list and any sequence of messages.
Final(list, u) == After(list, u)[Len(u)]

FinalIsFinal == FinalUsers = Final(users, Undelivered)

LEMMA FinalNow == FinalIsFinal
  BY UsersAfterIsAfter DEF FinalIsFinal, FinalUsers, Final

LEMMA FinalNext == FinalIsFinal'
  BY FinalNow, PTL

\* Handling the first message does not change where the rest leads.
LEMMA FinalTail ==
    ASSUME NEW S, NEW u \in Seq(S), u # << >>, NEW list
    PROVE  Final(Dispatch(list, u[1].content), Tail(u)) = Final(list, u)
  <1> DEFINE t == Tail(u)
             l == Dispatch(list, u[1].content)
  <1>1. PICK n \in Nat : Len(t) = n /\ Len(u) = n + 1 /\ \A i \in 1 .. n : t[i] = u[i + 1]
    <2>1. Len(u) \in Nat /\ Len(t) = Len(u) - 1 /\ Len(t) \in Nat
          /\ \A i \in 1 .. Len(t) : t[i] = u[i + 1]
      BY HeadTailProperties, LenProperties
    <2> DEFINE n == Len(t)
    <2>2. n \in Nat /\ Len(t) = n /\ Len(u) = n + 1 /\ \A i \in 1 .. n : t[i] = u[i + 1]
      BY <2>1
    <2> HIDE DEF n
    <2> QED
      BY <2>2
  <1> HIDE DEF t, l
  <1> DEFINE A == {k \in 0 .. n : After(l, t)[k] = After(list, u)[k + 1]}
  <1>2. 0 \in A
    <2>1. After(list, u)[0 + 1] = Dispatch(After(list, u)[0], u[0 + 1].content)
      BY AfterSteps
    <2>2. After(list, u)[0 + 1] = l
      BY <2>1, AfterSteps DEF l
    <2> QED
      BY <2>2, AfterSteps
  <1>3. ASSUME NEW k \in 0 .. n - 1, k \in A PROVE k + 1 \in A
    <2>1. k \in Nat /\ k + 1 \in Nat /\ k + 1 \in 0 .. n /\ k + 1 \in 1 .. n
      BY <1>1
    <2>2. After(l, t)[k + 1] = Dispatch(After(l, t)[k], t[k + 1].content)
      BY <2>1, AfterSteps
    <2>3. After(list, u)[(k + 1) + 1] = Dispatch(After(list, u)[k + 1], u[(k + 1) + 1].content)
      BY <2>1, AfterSteps
    <2>4. t[k + 1] = u[(k + 1) + 1]
      BY <1>1, <2>1
    <2> QED
      BY <1>3, <2>1, <2>2, <2>3, <2>4
  <1> HIDE DEF A
  <1>4. 0 .. n \subseteq A
    BY <1>2, <1>3, UpTo
  <1>5. After(l, t)[n] = After(list, u)[n + 1]
    BY <1>4 DEF A
  <1> QED
    BY <1>1, <1>5 DEF Final, t, l

\* A message more is one Dispatch more.
LEMMA FinalAppend ==
    ASSUME NEW S, NEW u \in Seq(S), NEW m \in S, NEW list
    PROVE  Final(list, Append(u, m)) = Dispatch(Final(list, u), m.content)
  <1> DEFINE t == Append(u, m)
  <1>1. PICK n \in Nat : Len(u) = n /\ Len(t) = n + 1 /\ t[n + 1] = m
                         /\ \A i \in 1 .. n : t[i] = u[i]
    BY AppendProperties, LenProperties
  <1> HIDE DEF t
  <1> DEFINE A == {k \in 0 .. n : After(list, t)[k] = After(list, u)[k]}
  <1>2. 0 \in A
    BY AfterSteps
  <1>3. ASSUME NEW k \in 0 .. n - 1, k \in A PROVE k + 1 \in A
    <2>1. k \in Nat /\ k + 1 \in 0 .. n /\ k + 1 \in 1 .. n
      BY <1>1
    <2>2. /\ After(list, t)[k + 1] = Dispatch(After(list, t)[k], t[k + 1].content)
          /\ After(list, u)[k + 1] = Dispatch(After(list, u)[k], u[k + 1].content)
      BY <2>1, AfterSteps
    <2>3. t[k + 1] = u[k + 1]
      BY <1>1, <2>1
    <2> QED
      BY <1>3, <2>1, <2>2, <2>3
  <1> HIDE DEF A
  <1>4. 0 .. n \subseteq A
    BY <1>2, <1>3, UpTo
  <1>5. After(list, t)[n] = After(list, u)[n]
    BY <1>4 DEF A
  <1>6. After(list, t)[n + 1] = Dispatch(After(list, t)[n], t[n + 1].content)
    BY AfterSteps
  <1> QED
    BY <1>1, <1>5, <1>6 DEF Final, t

\* Each link once.
Once(q) == \A j, k \in DOMAIN q : q[j] = q[k] => j = k

LEMMA ConnectListed ==
    ASSUME NEW S, NEW q \in Seq(S), NEW h \in S, Once(q), h \notin Listed(q)
    PROVE  Once(Append(q, h)) /\ Listed(Append(q, h)) = Listed(q) \cup {h}
  <1> DEFINE r == Append(q, h)
  <1>1. PICK n \in Nat : n = Len(q) /\ DOMAIN q = 1 .. n
    BY LenProperties
  <1>2. DOMAIN r = 1 .. n + 1 /\ (\A i \in 1 .. n : r[i] = q[i]) /\ r[n + 1] = h
    BY <1>1, AppendProperties, LenProperties
  <1> HIDE DEF r
  <1>3. 1 .. n + 1 = (1 .. n) \cup {n + 1}
    BY <1>1
  <1>4. Listed(r) = Listed(q) \cup {h}
    BY <1>1, <1>2, <1>3 DEF Listed
  <1>5. \A i \in 1 .. n : q[i] # h
    BY <1>1 DEF Listed
  <1>6. Once(r)
    BY <1>1, <1>2, <1>3, <1>5 DEF Once
  <1> QED
    BY <1>4, <1>6 DEF r

LEMMA DisconnectListed ==
    ASSUME NEW S, NEW q \in Seq(S), NEW h \in Listed(q), Once(q),
           \A g \in Listed(q) : g.sid = h.sid => g = h
    PROVE  Once(DeleteUser(q, h.sid)) /\ Listed(DeleteUser(q, h.sid)) = Listed(q) \ {h}
  <1>1. PICK n \in Nat : n = Len(q) /\ DOMAIN q = 1 .. n
    BY LenProperties
  <1>2. PICK i \in 1 .. n : q[i] = h
    BY <1>1 DEF Listed
  <1>3. PICK k \in 1 .. n : q[k].sid = h.sid /\ DeleteUser(q, h.sid) = Without(q, k)
    BY <1>1, <1>2, DeleteUserFacts
  <1>4. q[k] = h
    BY <1>1, <1>3 DEF Listed
  <1> DEFINE r == Without(q, k)
  <1>5. /\ r \in Seq(S) /\ Len(r) = n - 1
        /\ \A j \in 1 .. n - 1 : r[j] = IF j < k THEN q[j] ELSE q[j + 1]
    BY <1>1, WithoutFacts
  <1> HIDE DEF r
  <1>6. DOMAIN r = 1 .. n - 1
    BY <1>5, LenProperties
  <1> DEFINE at(j) == IF j < k THEN j ELSE j + 1
  <1>7. \A j \in 1 .. n - 1 : at(j) \in 1 .. n /\ at(j) # k
    BY <1>1, <1>3
  <1>8. \A j \in 1 .. n - 1 : r[j] = q[at(j)]
    BY <1>5
  <1>9. \A j, l \in 1 .. n - 1 : at(j) = at(l) => j = l
    BY <1>1, <1>3
  <1>10. \A l \in 1 .. n : l # k => \E j \in 1 .. n - 1 : at(j) = l
    <2> SUFFICES ASSUME NEW l \in 1 .. n, l # k PROVE \E j \in 1 .. n - 1 : at(j) = l
      OBVIOUS
    <2>1. CASE l < k
      <3>1. l \in 1 .. n - 1 /\ at(l) = l
        BY <1>1, <1>3, <2>1
      <3> QED
        BY <3>1
    <2>2. CASE ~(l < k)
      <3>1. l - 1 \in 1 .. n - 1 /\ at(l - 1) = l
        BY <1>1, <1>3, <2>2
      <3> QED
        BY <3>1
    <2> QED
      BY <2>1, <2>2
  <1> HIDE DEF at
  <1>11. Once(r)
    <2> SUFFICES ASSUME NEW j \in 1 .. n - 1, NEW l \in 1 .. n - 1, r[j] = r[l] PROVE j = l
      BY <1>6 DEF Once
    <2>1. /\ at(j) \in DOMAIN q /\ at(l) \in DOMAIN q
          /\ q[at(j)] = q[at(l)]
      BY <1>1, <1>7, <1>8
    <2>2. at(j) = at(l)
      BY <2>1 DEF Once
    <2> QED
      BY <1>9, <2>2
  <1>12. \A l \in 1 .. n : q[l] = h => l = k
    BY <1>1, <1>4 DEF Once
  <1>13. Listed(r) \subseteq Listed(q) \ {h}
    <2> SUFFICES ASSUME NEW j \in 1 .. n - 1 PROVE r[j] \in Listed(q) \ {h}
      BY <1>6 DEF Listed
    <2>1. r[j] = q[at(j)] /\ at(j) \in 1 .. n /\ q[at(j)] # h
      BY <1>7, <1>8, <1>12
    <2> QED
      BY <1>1, <2>1 DEF Listed
  <1>14. Listed(q) \ {h} \subseteq Listed(r)
    <2> SUFFICES ASSUME NEW l \in 1 .. n, q[l] # h PROVE q[l] \in Listed(r)
      BY <1>1 DEF Listed
    <2>1. PICK j \in 1 .. n - 1 : at(j) = l
      BY <1>4, <1>10
    <2>2. r[j] = q[l]
      BY <1>8, <2>1
    <2> QED
      BY <1>6, <2>2 DEF Listed
  <1> QED
    BY <1>3, <1>11, <1>13, <1>14 DEF r

LEMMA TailOfCons ==
    ASSUME NEW S, NEW s \in Seq(S), NEW e \in S
    PROVE  /\ <<e>> \o s # << >>
           /\ (<<e>> \o s)[1] = e
           /\ Tail(<<e>> \o s) = s
  <1> DEFINE u == <<e>> \o s
  <1>1. PICK n \in Nat : n = Len(s)
    BY LenProperties
  <1>2. <<e>> \in Seq(S) /\ Len(<<e>>) = 1 /\ <<e>>[1] = e
    OBVIOUS
  <1>3. /\ u \in Seq(S) /\ Len(u) = 1 + n
        /\ \A i \in 1 .. 1 + n : u[i] = IF i <= 1 THEN <<e>>[i] ELSE s[i - 1]
    BY <1>1, <1>2, ConcatProperties
  <1> HIDE DEF u
  <1>4. u[1] = e /\ \A i \in 1 .. n : u[i + 1] = s[i]
    <2>1. 1 \in 1 .. 1 + n /\ \A i \in 1 .. n : i + 1 \in 1 .. 1 + n /\ ~(i + 1 <= 1) /\ (i + 1) - 1 = i
      OBVIOUS
    <2>2. \A i \in 1 .. n : u[i + 1] = s[(i + 1) - 1]
      BY <1>3, <2>1
    <2> QED
      BY <1>2, <1>3, <2>1, <2>2
  <1>5. u # << >>
    BY <1>3, EmptySeq
  <1>6. /\ Tail(u) \in Seq(S) /\ Len(Tail(u)) = Len(u) - 1
        /\ \A i \in 1 .. Len(Tail(u)) : Tail(u)[i] = u[i + 1]
    BY <1>3, <1>5, HeadTailProperties
  <1>7. Len(Tail(u)) = n
    BY <1>3, <1>6
  <1>8. \A i \in 1 .. n : Tail(u)[i] = s[i]
    BY <1>4, <1>6, <1>7
  <1>9. Tail(u) = s
    BY <1>1, <1>6, <1>7, <1>8, SeqEqual
  <1> QED
    BY <1>4, <1>5, <1>9 DEF u

\* UsersFollowLinks made inductive.
FollowInv ==
    ~lost /\ joins <= MaxSid =>
        /\ FinalUsers \in Seq(LinkID)
        /\ Once(FinalUsers)
        /\ Listed(FinalUsers) = OpenLinks

LEMMA UndeliveredType ==
    ASSUME ServiceType
    PROVE  /\ Undelivered \in Seq(Entry)
           /\ queue[m_current] \in Seq(Entry)
           /\ Queue!Get \in Seq(Entry)
           /\ SubSeq(Queue!Get, index + 1, Len(Queue!Get)) \in Seq(Entry)
           /\ Len(SubSeq(Queue!Get, index + 1, Len(Queue!Get))) = Len(Queue!Get) - index
  <1> DEFINE q == Queue!Get
             rest == SubSeq(q, index + 1, Len(q))
  <1>1. queue[m_current] \in Seq(Entry) /\ q \in Seq(Entry)
    BY Others DEF ServiceType, Queue!Get
  <1>2. index \in Nat /\ index <= Len(q) /\ Len(q) \in Nat
    BY <1>1, LenProperties DEF ServiceType
  <1> HIDE DEF q
  <1>3. \A i \in index + 1 .. Len(q) : q[i] \in Entry
    <2>1. \A i \in index + 1 .. Len(q) : i \in 1 .. Len(q)
      BY <1>2
    <2> QED
      BY <1>1, <2>1, ElementOfSeq
  <1>4. rest \in Seq(Entry) /\ Len(rest) = IF index + 1 <= Len(q) THEN Len(q) - (index + 1) + 1 ELSE 0
    BY <1>2, <1>3, SubSeqProperties
  <1>5. Len(rest) = Len(q) - index
    <2> HIDE DEF rest
    <2> QED
      BY <1>2, <1>4
  <1>6. rest \o queue[m_current] \in Seq(Entry)
    BY <1>1, <1>4, ConcatProperties
  <1> QED
    BY <1>1, <1>4, <1>5, <1>6 DEF Undelivered, q

\* The main loop takes the first of the messages not handled yet.
LEMMA HandleUndelivered ==
    ASSUME ServiceType, MainLoopHandle
    PROVE  /\ Undelivered # << >>
           /\ Undelivered' = Tail(Undelivered)
           /\ users' = Dispatch(users, Undelivered[1].content)
  <1> DEFINE q == Queue!Get
             e == q[index + 1]
             c == SubSeq(q, index + 1 + 1, Len(q))
             b == queue[m_current]
  <1>1. /\ index + 1 \in 1 .. Len(q) /\ Len(q) \in index + 1 .. Len(q)
        /\ Len(q) \in Nat /\ index' = index + 1
    <2>1. Len(q) \in Nat
      BY UndeliveredType, LenProperties
    <2> QED
      BY <2>1 DEF MainLoopHandle, Queue!GetPackage, ServiceType
  <1>2. UNCHANGED <<queue, m_current>> /\ q' = q
    BY DEF MainLoopHandle, Queue!GetPackage, Queue!Get
  <1>3. q \in Seq(Entry) /\ b \in Seq(Entry)
    BY UndeliveredType
  <1>4. e \in Entry
    BY <1>1, <1>3, ElementOfSeq
  <1>5. SubSeq(q, index + 1, Len(q)) = <<e>> \o c
    BY <1>1, <1>3, SubSeqRecursiveFirst
  <1>6. c \in Seq(Entry)
    <2>1. \A i \in index + 1 + 1 .. Len(q) : i \in 1 .. Len(q)
      BY <1>1
    <2>2. \A i \in index + 1 + 1 .. Len(q) : q[i] \in Entry
      BY <1>3, <2>1, ElementOfSeq
    <2>3. index + 1 + 1 \in Int /\ Len(q) \in Int
      BY <1>1
    <2> QED
      BY <2>2, <2>3, SubSeqProperties
  <1>7. Undelivered = (<<e>> \o c) \o b /\ Undelivered' = c \o b
    BY <1>1, <1>2, <1>5 DEF Undelivered
  <1>8. users' = Dispatch(users, e.content)
    BY <1>1 DEF MainLoopHandle
  <1> HIDE DEF q, e, c, b
  <1>9. <<e>> \in Seq(Entry)
    BY <1>4
  <1>10. (<<e>> \o c) \o b = <<e>> \o (c \o b)
    BY <1>3, <1>6, <1>9, ConcatAssociative
  <1>11. c \o b \in Seq(Entry)
    BY <1>3, <1>6, ConcatProperties
  <1> QED
    BY <1>4, <1>7, <1>8, <1>10, <1>11, TailOfCons

\* What is left when the queues are swapped is what was being written.
LEMMA SwapUndelivered ==
    ASSUME ServiceType, MainLoopSwap
    PROVE  Undelivered' = Undelivered
  <1> DEFINE b == queue[m_current]
  <1>1. b \in Seq(Entry) /\ Len(Queue!Get) \in Nat /\ index = Len(Queue!Get)
    BY UndeliveredType, LenProperties DEF MainLoopSwap, Queue!Swap
  <1>2. Undelivered = << >> \o b
    <2>1. SubSeq(Queue!Get, index + 1, Len(Queue!Get)) = << >>
      BY <1>1, SubSeqEmpty
    <2> QED
      BY <2>1 DEF Undelivered
  <1>3. /\ m_current' = 1 - m_current /\ index' = 0
        /\ queue' = [queue EXCEPT ![1 - m_current] = << >>]
    BY Others DEF MainLoopSwap, Queue!Swap, ServiceType
  <1>4. Queue!Get' = b /\ queue'[m_current'] = << >>
    BY <1>3, Others DEF ServiceType, Queue!Get
  <1>5. Undelivered' = SubSeq(b, 1, Len(b)) \o << >>
    <2>1. Undelivered' = SubSeq(Queue!Get', index' + 1, Len(Queue!Get')) \o queue'[m_current']
      BY DEF Undelivered
    <2>2. index' + 1 = 1
      BY <1>3
    <2> HIDE DEF b
    <2> QED
      BY <1>4, <2>1, <2>2
  <1>6. SubSeq(b, 1, Len(b)) = b
    BY <1>1, SubSeqFull
  <1> QED
    BY <1>1, <1>2, <1>5, <1>6, ConcatEmptySeq

\* A message pushed comes last, unless the queue drops one.
LEMMA PushUndelivered ==
    ASSUME ServiceType, NEW x, Queue!AddPackage(x),
           ~(Len(queue[m_current]) + 1 >= QueueMax)
    PROVE  Undelivered' = Append(Undelivered, [content |-> x, bigDataPointer |-> NoSession])
  <1> DEFINE e == [content |-> x, bigDataPointer |-> NoSession]
             b == queue[m_current]
             a == SubSeq(Queue!Get, index + 1, Len(Queue!Get))
  <1>1. b \in Seq(Entry) /\ a \in Seq(Entry)
    BY UndeliveredType
  <1>2. b \in Seq(Entry \cup {e}) /\ a \in Seq(Entry \cup {e}) /\ e \in Entry \cup {e}
    BY <1>1, SeqMonotonic
  <1>3. Len(Append(b, e)) = Len(b) + 1
    BY <1>2, AppendProperties
  <1>4. queue' = [queue EXCEPT ![m_current] = Append(b, e)] /\ UNCHANGED <<m_current, index>>
    BY <1>3 DEF Queue!AddPackage
  <1>5. Queue!Get' = Queue!Get /\ queue'[m_current'] = Append(b, e)
    BY <1>4, Others DEF ServiceType, Queue!Get
  <1>6. Undelivered = a \o b /\ Undelivered' = a \o Append(b, e)
    BY <1>4, <1>5 DEF Undelivered
  <1> HIDE DEF a, b, e
  <1>7. Append(b, e) = b \o <<e>> /\ <<e>> \in Seq(Entry \cup {e})
    BY <1>2, AppendIsConcat
  <1>8. a \o b \in Seq(Entry \cup {e})
    BY <1>2, ConcatProperties
  <1>9. Append(a \o b, e) = (a \o b) \o <<e>>
    BY <1>2, <1>8, AppendIsConcat
  <1>10. (a \o b) \o <<e>> = a \o (b \o <<e>>)
    <2> DEFINE l == <<e>>
               S == Entry \cup {e}
    <2>1. a \in Seq(S) /\ b \in Seq(S) /\ l \in Seq(S)
      BY <1>2, <1>7
    <2> HIDE DEF l, S
    <2>2. (a \o b) \o l = a \o (b \o l)
      BY <2>1, ConcatAssociative
    <2> QED
      BY <2>2 DEF l
  <1> QED
    BY <1>6, <1>7, <1>9, <1>10 DEF e

\* What a push does to the links the log leaves open.
LEMMA PushLinks ==
    ASSUME TypeInv, OwnerInv, EventInv, Push
    PROVE  \E k \in {"Connect", "Data", "Disconnect"}, h \in LinkID :
            /\ m_queue' = Append(m_queue, Mark(k, h))
            /\ k = "Connect" => h \notin OpenLinks /\ OpenLinks' = OpenLinks \cup {h}
            /\ k = "Disconnect" => h \in OpenLinks /\ OpenLinks' = OpenLinks \ {h}
            /\ k = "Data" => OpenLinks' = OpenLinks
  <1>1. LogType
    BY DEF TypeInv, TypeOK
  <1>2. CASE PushConnect
    <2>1. ioSession \in Session /\ ioLink = given[ioSession] /\ Holds(ioSession) /\ ioLink \in LinkID
      BY <1>2 DEF PushConnect, OwnerInv, StartInv, TypeInv, TypeOK, IoType
    <2>2. ioLink # NullLinkID
      BY <2>1, HeldInTable
    <2>3. m_queue' = Append(m_queue, Mark("Connect", ioLink))
      BY <1>2 DEF PushConnect, Mark
    <2>4. ioLink \notin OpenLinks
      BY <1>2 DEF PushConnect, EventInv, Expected
    <2>5. OpenLinks' = OpenLinks \cup {ioLink}
      BY <1>1, <2>1, <2>2, <2>3, OpenLinksAppend
    <2> QED
      BY <2>1, <2>3, <2>4, <2>5
  <1>3. CASE PushDisconnect
    <2>1. ioLink \in LinkID
      BY DEF TypeInv, TypeOK, IoType
    <2>2. m_queue' = Append(m_queue, Mark("Disconnect", ioLink))
      BY <1>3 DEF PushDisconnect, Mark
    <2>3. ioLink \in OpenLinks
      BY <1>3 DEF PushDisconnect, EventInv, Expected
    <2>4. OpenLinks' = OpenLinks \ {ioLink}
      BY <1>1, <2>1, <2>2, OpenLinksAppend
    <2> QED
      BY <2>1, <2>2, <2>3, <2>4
  <1>4. ASSUME NEW s \in Session, ReadMessage(s)
        PROVE  /\ m_linkid[s] \in LinkID
               /\ m_queue' = Append(m_queue, Mark("Data", m_linkid[s]))
               /\ OpenLinks' = OpenLinks
    <2>1. m_linkid[s] \in LinkID
      BY DEF TypeInv, TypeOK, PoolType
    <2>2. m_queue' = Append(m_queue, Mark("Data", m_linkid[s]))
      BY <1>4 DEF ReadMessage, Mark
    <2> QED
      BY <1>1, <2>1, <2>2, OpenLinksAppend
  <1> QED
    BY <1>2, <1>3, <1>4 DEF Push

\* Before a sid is used twice, an open link is told by its sid.
LEMMA OpenLinksDiffer ==
    ASSUME TypeInv, SidInv, NamesInv, joins <= MaxSid,
           NEW g \in OpenLinks, NEW h \in OpenLinks, g.sid = h.sid
    PROVE  g = h
  <1>1. \A x \in OpenLinks : x \in Introduced
    <2> SUFFICES ASSUME NEW x \in OpenLinks PROVE x \in Introduced
      OBVIOUS
    <2>1. x \in LinkID /\ \E j \in 1 .. Len(m_queue) : m_queue[j] = Mark("Connect", x)
      BY DEF OpenLinks, OpenIn
    <2>2. DOMAIN m_queue = 1 .. Len(m_queue)
      BY LenProperties DEF TypeInv, TypeOK, LogType
    <2> QED
      BY <2>1, <2>2 DEF Introduced, Logged
  <1>2. PICK s \in Session : birth[s] > 0 /\ g = given[s]
    BY <1>1 DEF NamesInv
  <1>3. PICK t \in Session : birth[t] > 0 /\ h = given[t]
    BY <1>1 DEF NamesInv
  <1>4. /\ birth[s] \in Nat /\ birth[t] \in Nat /\ joins \in Nat /\ MaxSid \in Nat
        /\ birth[s] <= joins /\ birth[t] <= joins
    BY LinkPoolAssumption DEF TypeInv, TypeOK, GhostType, SidInv, BirthInv
  <1>5. ~(birth[s] < birth[t])
    <2> SUFFICES ASSUME birth[s] < birth[t] PROVE FALSE
      OBVIOUS
    <2>1. birth[t] - birth[s] >= MaxSid
      BY <1>2, <1>3 DEF SidInv, SidReuse
    <2> QED
      BY <1>2, <1>4, <2>1
  <1>6. ~(birth[t] < birth[s])
    <2> SUFFICES ASSUME birth[t] < birth[s] PROVE FALSE
      OBVIOUS
    <2>1. birth[s] - birth[t] >= MaxSid
      BY <1>2, <1>3 DEF SidInv, SidReuse
    <2> QED
      BY <1>3, <1>4, <2>1
  <1>7. birth[s] = birth[t]
    BY <1>4, <1>5, <1>6
  <1> QED
    BY <1>2, <1>3, <1>7 DEF NamesInv

\* One more message turns the open links before it into those after it.
LEMMA DispatchFollows ==
    ASSUME TypeInv, OwnerInv, EventInv, SidInv, NamesInv, Push, joins <= MaxSid,
           NEW x \in Event, m_queue' = Append(m_queue, x),
           NEW q \in Seq(LinkID), Once(q), Listed(q) = OpenLinks
    PROVE  LET r == Dispatch(q, x)
           IN  r \in Seq(LinkID) /\ Once(r) /\ Listed(r) = OpenLinks'
  <1>1. PICK k \in {"Connect", "Data", "Disconnect"}, h \in LinkID :
            /\ m_queue' = Append(m_queue, Mark(k, h))
            /\ k = "Connect" => h \notin OpenLinks /\ OpenLinks' = OpenLinks \cup {h}
            /\ k = "Disconnect" => h \in OpenLinks /\ OpenLinks' = OpenLinks \ {h}
            /\ k = "Data" => OpenLinks' = OpenLinks
    BY PushLinks
  <1>2. x = Mark(k, h)
    <2>1. Mark(k, h) \in Event /\ m_queue \in Seq(Event)
      BY DEF Mark, Event, TypeInv, TypeOK, LogType
    <2>2. Append(m_queue, x) = Append(m_queue, Mark(k, h))
      BY <1>1
    <2>3. /\ Append(m_queue, x)[Len(Append(m_queue, x))] = x
          /\ Append(m_queue, Mark(k, h))[Len(Append(m_queue, Mark(k, h)))] = Mark(k, h)
      BY <2>1, LoggedAppend
    <2> QED
      BY <2>2, <2>3, Zenon
  <1>3. x.kind = k /\ x.linkid = h
    BY <1>2 DEF Mark
  <1>4. Dispatch(q, x) \in Seq(LinkID)
    BY <1>3, DispatchType
  <1>5. CASE k = "Connect"
    <2>1. Dispatch(q, x) = Append(q, h)
      BY <1>3, <1>5 DEF Dispatch
    <2>2. h \notin Listed(q) /\ OpenLinks' = Listed(q) \cup {h}
      BY <1>1, <1>5
    <2>3. Once(Append(q, h)) /\ Listed(Append(q, h)) = Listed(q) \cup {h}
      BY <2>2, ConnectListed
    <2> QED
      BY <1>4, <2>1, <2>2, <2>3
  <1>6. CASE k = "Disconnect"
    <2>1. Dispatch(q, x) = DeleteUser(q, h.sid)
      BY <1>3, <1>6 DEF Dispatch
    <2>2. h \in Listed(q) /\ OpenLinks' = Listed(q) \ {h}
      BY <1>1, <1>6
    <2>3. \A g \in Listed(q) : g.sid = h.sid => g = h
      BY <2>2, OpenLinksDiffer
    <2>4. Once(DeleteUser(q, h.sid)) /\ Listed(DeleteUser(q, h.sid)) = Listed(q) \ {h}
      BY <2>2, <2>3, DisconnectListed
    <2> QED
      BY <1>4, <2>1, <2>2, <2>4
  <1>7. CASE k = "Data"
    <2>1. Dispatch(q, x) = q
      BY <1>3, <1>7 DEF Dispatch
    <2> QED
      BY <1>1, <1>4, <1>7, <2>1
  <1> QED
    BY <1>5, <1>6, <1>7

LEMMA FollowInit == ServiceInit => FollowInv
  <1> SUFFICES ASSUME ServiceInit PROVE FollowInv
    OBVIOUS
  <1>1. m_queue = << >> /\ users = << >> /\ queue = [b \in {0, 1} |-> << >>] /\ m_current = 0
        /\ index = 0
    BY DEF ServiceInit, Init, Queue!Init
  <1>2. Queue!Get = << >> /\ queue[m_current] = << >> /\ Len(<< >>) = 0
    BY <1>1 DEF Queue!Get
  <1>3. Undelivered = << >>
    <2>1. SubSeq(<< >>, 0 + 1, 0) = << >>
      BY SubSeqEmpty
    <2>2. << >> \o << >> = << >>
      BY EmptySeq, ConcatEmptySeq
    <2> QED
      BY <1>1, <1>2, <2>1, <2>2 DEF Undelivered
  <1>4. FinalUsers = << >>
    <2>1. FinalUsers = Final(<< >>, << >>)
      BY <1>1, <1>3, FinalNow DEF FinalIsFinal
    <2>2. Final(<< >>, << >>) = After(<< >>, << >>)[0]
      BY <1>2 DEF Final
    <2> QED
      BY <2>1, <2>2, AfterSteps
  <1>5. OpenLinks = {}
    <2>1. \A j \in 1 .. 0 : FALSE
      OBVIOUS
    <2> QED
      BY <1>1, <1>2, <2>1 DEF OpenLinks, OpenIn
  <1>6. << >> \in Seq(LinkID) /\ DOMAIN << >> = {}
    BY EmptySeq
  <1>7. Once(<< >>) /\ Listed(<< >>) = {}
    BY <1>6 DEF Once, Listed
  <1> QED
    BY <1>4, <1>5, <1>6, <1>7 DEF FollowInv

\* A step that changes neither what is heading for the main loop, nor where it
\* leads, nor the log.
LEMMA FollowFrame ==
    ASSUME TypeInv, FollowInv, FinalUsers' = FinalUsers, UNCHANGED <<m_queue, lost>>,
           joins' = joins \/ joins' = joins + 1
    PROVE  FollowInv'
  <1>1. OpenLinks' = OpenLinks
    BY DEF OpenLinks, LinkID, NullLinkID, Slots
  <1>2. joins' <= MaxSid => joins <= MaxSid
    BY LinkPoolAssumption DEF TypeInv, TypeOK, GhostType
  <1> QED
    BY <1>1, <1>2 DEF FollowInv, LinkID, Slots

LEMMA FollowNext ==
    ASSUME TypeInv, OwnerInv, EventInv, SidInv, NamesInv, ServiceType, FollowInv,
           [ServiceNext]_netServiceVars
    PROVE  FollowInv'
  <1>1. FinalUsers = Final(users, Undelivered) /\ FinalUsers' = Final(users', Undelivered')
    BY FinalNow, FinalNext DEF FinalIsFinal
  <1>2. CASE Push
    <2>1. PICK x \in Event : /\ m_queue' = Append(m_queue, x)
                             /\ Queue!AddPackage(x)
                             /\ lost' = (lost \/ Len(queue[m_current]) + 1 >= QueueMax)
      BY <1>2, PushedEvent
    <2>2. UNCHANGED <<users, joins>>
      BY <1>2 DEF Push, PushConnect, PushDisconnect, ReadMessage, ghosts
    <2> SUFFICES ASSUME ~lost', joins' <= MaxSid
                 PROVE  /\ FinalUsers' \in Seq(LinkID)
                        /\ Once(FinalUsers')
                        /\ Listed(FinalUsers') = OpenLinks'
      BY DEF FollowInv, LinkID, Slots, Once, Listed
    <2>3. ~lost /\ ~(Len(queue[m_current]) + 1 >= QueueMax) /\ joins <= MaxSid
      BY <2>1, <2>2
    <2> DEFINE e == [content |-> x, bigDataPointer |-> NoSession]
    <2>4. Undelivered' = Append(Undelivered, e)
      BY <2>1, <2>3, PushUndelivered
    <2>5. Undelivered \in Seq(Entry \cup {e}) /\ e \in Entry \cup {e} /\ e.content = x
      BY UndeliveredType, SeqMonotonic
    <2> HIDE DEF e
    <2>6. FinalUsers' = Dispatch(FinalUsers, x)
      BY <1>1, <2>2, <2>4, <2>5, FinalAppend
    <2>7. FinalUsers \in Seq(LinkID) /\ Once(FinalUsers) /\ Listed(FinalUsers) = OpenLinks
      BY <2>3 DEF FollowInv
    <2> QED
      BY <1>2, <2>1, <2>3, <2>6, <2>7, DispatchFollows
  <1>3. CASE MainLoopHandle
    <2>1. UNCHANGED <<m_queue, lost, joins>>
      BY <1>3, HandledIsLogged DEF MainLoopHandle
    <2>2. FinalUsers' = FinalUsers
      BY <1>1, <1>3, HandleUndelivered, UndeliveredType, FinalTail
    <2> QED
      BY <2>1, <2>2, FollowFrame
  <1>4. CASE MainLoopSwap
    <2>1. UNCHANGED <<m_queue, lost, joins, users>>
      BY <1>4 DEF MainLoopSwap, linkVars, ghosts
    <2>2. FinalUsers' = FinalUsers
      BY <1>1, <1>4, <2>1, SwapUndelivered
    <2> QED
      BY <2>1, <2>2, FollowFrame
  <1>5. CASE NoPush \/ CallForUser \/ UNCHANGED netServiceVars
    <2>1. UNCHANGED <<queueVars, users, lost>>
      BY <1>5 DEF NoPush, CallForUser, netServiceVars
    <2>2. Undelivered' = Undelivered
      BY <2>1 DEF Undelivered, queueVars, Queue!Get
    <2>3. FinalUsers' = FinalUsers
      BY <1>1, <2>1, <2>2
    <2>4. UNCHANGED m_queue /\ (joins' = joins \/ joins' = joins + 1)
      BY <1>5 DEF NoPush, CallForUser, StartRead, Join, AcceptThrows, ReadHeartbeat,
                  ReadError, WriteOk, WriteError, Network, Arrive, Transmit, Send, Close,
                  netServiceVars, linkVars, ghosts
    <2> QED
      BY <2>1, <2>3, <2>4, FollowFrame
  <1> QED
    BY <1>2, <1>3, <1>4, <1>5 DEF ServiceNext

LEMMA FollowsLinks ==
    TypeInv /\ OwnerInv /\ FollowInv => UsersFollowLinks
  BY SetsNow DEF SetsMatch, FollowInv, UsersFollowLinks, Once, Listed

LEMMA ServiceFollowInv == ServiceSpec => []FollowInv
  <1>1. TypeInv /\ OwnerInv /\ EventInv /\ SidInv /\ NamesInv /\ ServiceType /\ FollowInv
            /\ [ServiceNext]_netServiceVars => FollowInv'
    BY FollowNext
  <1> QED
    BY <1>1, FollowInit, ServiceTyped, ServiceUsesPool, PoolOwnerInv, PoolEventInv, PoolSidInv,
       PoolNamesInv, PTL DEF ServiceSpec

\* As long as the queue drops nothing and no sid is used twice, the messages the
\* main loop has still to handle turn its list of users into the connections
\* the pool has announced, each listed once.
THEOREM ServiceUsersFollowLinks == ServiceSpec => []UsersFollowLinks
  BY ServiceFollowInv, FollowsLinks, ServiceTyped, ServiceUsesPool, PoolOwnerInv, PTL

-----------------------------------------------------------------------------
(* What the list of users does not show yet is under way. *)

\* Only a Connect of h adds h to the list, and only a Disconnect of its sid
\* takes it out.
LEMMA DispatchListed ==
    ASSUME NEW S, NEW q \in Seq(S), NEW e, e.kind = "Connect" => e.linkid \in S,
           NEW h
    PROVE  /\ h \in Listed(Dispatch(q, e)) =>
                h \in Listed(q) \/ (e.kind = "Connect" /\ e.linkid = h)
           /\ h \in Listed(q) =>
                h \in Listed(Dispatch(q, e)) \/ (e.kind = "Disconnect" /\ e.linkid.sid = h.sid)
  <1> DEFINE n == Len(q)
  <1>1. n \in Nat /\ DOMAIN q = 1 .. n
    BY LenProperties
  <1>2. CASE e.kind = "Connect"
    <2> DEFINE r == Append(q, e.linkid)
    <2>1. DOMAIN r = 1 .. n + 1 /\ r[n + 1] = e.linkid /\ \A i \in 1 .. n : r[i] = q[i]
      BY <1>2, AppendProperties, LenProperties
    <2>2. \A i \in 1 .. n + 1 : i = n + 1 \/ i \in 1 .. n
      BY <1>1
    <2>3. 1 .. n \subseteq 1 .. n + 1
      BY <1>1
    <2>4. Dispatch(q, e) = r
      BY <1>2 DEF Dispatch
    <2> HIDE DEF n, r
    <2>5. h \in Listed(r) => h \in Listed(q) \/ e.linkid = h
      BY <1>1, <2>1, <2>2 DEF Listed
    <2>6. h \in Listed(q) => h \in Listed(r)
      BY <1>1, <2>1, <2>3 DEF Listed
    <2> QED
      BY <1>2, <2>4, <2>5, <2>6
  <1>3. CASE e.kind = "Disconnect"
    <2>1. Dispatch(q, e) = DeleteUser(q, e.linkid.sid)
      BY <1>3 DEF Dispatch
    <2>2. CASE DeleteUser(q, e.linkid.sid) = q
      BY <2>1, <2>2
    <2>3. CASE DeleteUser(q, e.linkid.sid) # q
      <3>1. PICK k \in 1 .. n : /\ q[k].sid = e.linkid.sid
                                /\ DeleteUser(q, e.linkid.sid) = Without(q, k)
        BY <2>3, DeleteUserFacts
      <3> DEFINE r == Without(q, k)
      <3>2. /\ r \in Seq(S) /\ Len(r) = n - 1
            /\ \A i \in 1 .. n - 1 : r[i] = IF i < k THEN q[i] ELSE q[i + 1]
        BY WithoutFacts
      <3> HIDE DEF n, r
      <3>3. DOMAIN r = 1 .. n - 1
        BY <3>2, LenProperties
      <3>4. \A i \in 1 .. n - 1 : i \in 1 .. n /\ i + 1 \in 1 .. n
        BY <1>1
      <3>5. h \in Listed(r) => h \in Listed(q)
        BY <1>1, <3>2, <3>3, <3>4 DEF Listed
      <3>6. ASSUME NEW i \in 1 .. n, i # k PROVE q[i] \in Listed(r)
        <4>1. CASE i < k
          <5>1. i \in 1 .. n - 1
            BY <1>1, <4>1
          <5> QED
            BY <3>2, <3>3, <4>1, <5>1 DEF Listed
        <4>2. CASE ~(i < k)
          <5>1. i - 1 \in 1 .. n - 1 /\ ~(i - 1 < k) /\ (i - 1) + 1 = i
            BY <1>1, <3>6, <4>2
          <5>2. r[i - 1] = q[i]
            BY <3>2, <5>1
          <5> QED
            BY <3>3, <5>1, <5>2 DEF Listed
        <4> QED
          BY <4>1, <4>2
      <3>7. h \in Listed(q) => h \in Listed(r) \/ e.linkid.sid = h.sid
        BY <1>1, <3>1, <3>6 DEF Listed
      <3> QED
        BY <1>3, <2>1, <3>1, <3>5, <3>7 DEF r
    <2> QED
      BY <2>2, <2>3
  <1>4. CASE e.kind # "Connect" /\ e.kind # "Disconnect"
    <2>1. Dispatch(q, e) = q
      BY <1>4 DEF Dispatch
    <2> QED
      BY <2>1
  <1> QED
    BY <1>2, <1>3, <1>4

\* What the messages u lead to differs from the list they begin with only where
\* one of them says so.
LEMMA FinalDiffers ==
    ASSUME NEW S, NEW list \in Seq(S), NEW T, NEW u \in Seq(T), NEW h,
           \A k \in 1 .. Len(u) : u[k].content.kind = "Connect" => u[k].content.linkid \in S
    PROVE  /\ h \in Listed(Final(list, u)) /\ h \notin Listed(list) =>
                \E k \in 1 .. Len(u) : u[k].content.kind = "Connect" /\ u[k].content.linkid = h
           /\ h \notin Listed(Final(list, u)) /\ h \in Listed(list) =>
                \E k \in 1 .. Len(u) :
                    u[k].content.kind = "Disconnect" /\ u[k].content.linkid.sid = h.sid
  <1> DEFINE n == Len(u)
             f == After(list, u)
             Comes(k) == u[k].content.kind = "Connect" /\ u[k].content.linkid = h
             Goes(k) == u[k].content.kind = "Disconnect" /\ u[k].content.linkid.sid = h.sid
             A == {k \in 0 .. n : f[k] \in Seq(S)}
             B == {k \in 0 .. n : h \in Listed(f[k]) => h \in Listed(list)}
             C == {k \in 0 .. n : h \in Listed(list) => h \in Listed(f[k])}
  <1>1. n \in Nat
    BY LenProperties
  <1>2. f[0] = list /\ \A k \in Nat : f[k + 1] = Dispatch(f[k], u[k + 1].content)
    BY AfterSteps
  <1> HIDE DEF n, f
  <1>3. 0 \in A /\ 0 \in B /\ 0 \in C
    <2>1. 0 \in 0 .. n
      BY <1>1
    <2> QED
      BY <1>2, <2>1, Zenon
  <1>4. \A k \in 0 .. n - 1 : k \in Nat /\ k \in 0 .. n /\ k + 1 \in 0 .. n /\ k + 1 \in 1 .. n
    BY <1>1
  <1>5. ASSUME NEW k \in 0 .. n - 1, k \in A PROVE k + 1 \in A
    <2>1. f[k] \in Seq(S)
      BY <1>5
    <2>2. u[k + 1].content.kind = "Connect" => u[k + 1].content.linkid \in S
      BY <1>4 DEF n
    <2>3. Dispatch(f[k], u[k + 1].content) \in Seq(S)
      BY <2>1, <2>2, DispatchType
    <2> QED
      BY <1>2, <1>4, <2>3
  <1>6. 0 .. n \subseteq A
    <2> HIDE DEF A
    <2> QED
      BY <1>1, <1>3, <1>5, UpTo
  <1>7. ASSUME NEW k \in 0 .. n - 1
        PROVE  /\ h \in Listed(f[k + 1]) => h \in Listed(f[k]) \/ Comes(k + 1)
               /\ h \in Listed(f[k]) => h \in Listed(f[k + 1]) \/ Goes(k + 1)
    <2>1. f[k] \in Seq(S)
      BY <1>4, <1>6
    <2>2. u[k + 1].content.kind = "Connect" => u[k + 1].content.linkid \in S
      BY <1>4 DEF n
    <2>3. f[k + 1] = Dispatch(f[k], u[k + 1].content)
      BY <1>2, <1>4
    <2> QED
      BY <2>1, <2>2, <2>3, DispatchListed
  <1> HIDE DEF A, Comes, Goes
  <1>8. ASSUME \A k \in 1 .. n : ~Comes(k)
        PROVE  h \in Listed(f[n]) => h \in Listed(list)
    <2>1. ASSUME NEW k \in 0 .. n - 1, k \in B PROVE k + 1 \in B
      BY <1>4, <1>7, <1>8, <2>1
    <2> HIDE DEF B
    <2>2. 0 .. n \subseteq B
      BY <1>1, <1>3, <2>1, UpTo
    <2> QED
      BY <1>1, <2>2 DEF B
  <1>9. ASSUME \A k \in 1 .. n : ~Goes(k)
        PROVE  h \in Listed(list) => h \in Listed(f[n])
    <2>1. ASSUME NEW k \in 0 .. n - 1, k \in C PROVE k + 1 \in C
      BY <1>4, <1>7, <1>9, <2>1
    <2> HIDE DEF C
    <2>2. 0 .. n \subseteq C
      BY <1>1, <1>3, <2>1, UpTo
    <2> QED
      BY <1>1, <2>2 DEF C
  <1>10. Final(list, u) = f[n]
    BY DEF Final, f, n
  <1> QED
    BY <1>8, <1>9, <1>10 DEF Comes, Goes, n

\* As long as the queue has dropped nothing and no sid has been used twice, a
\* connection announced that is no user yet has its Connect in the queue, and a
\* user whose connection is no longer announced has a Disconnect there.
ChangesUnderWay ==
    ~lost /\ joins <= MaxSid =>
        /\ \A h \in Announced \ Listed(users) :
            \E k \in DOMAIN Undelivered : Undelivered[k].content = Mark("Connect", h)
        /\ \A h \in Listed(users) \ Announced :
            \E k \in DOMAIN Undelivered :
                /\ Undelivered[k].content.kind = "Disconnect"
                /\ Undelivered[k].content.linkid.sid = h.sid

LEMMA ChangesFollow ==
    ASSUME TypeInv, OwnerInv, ServiceType, FollowInv
    PROVE  ChangesUnderWay
  <1> SUFFICES ASSUME ~lost, joins <= MaxSid, NEW h
               PROVE  /\ h \in Announced /\ h \notin Listed(users) =>
                        \E k \in DOMAIN Undelivered : Undelivered[k].content = Mark("Connect", h)
                      /\ h \in Listed(users) /\ h \notin Announced =>
                        \E k \in DOMAIN Undelivered :
                            /\ Undelivered[k].content.kind = "Disconnect"
                            /\ Undelivered[k].content.linkid.sid = h.sid
    BY DEF ChangesUnderWay
  <1> DEFINE u == Undelivered
  <1>1. /\ u \in Seq(Entry) /\ DOMAIN u = 1 .. Len(u)
        /\ users \in Seq(Introduced)
    BY UndeliveredType, LenProperties DEF ServiceType
  <1>2. Listed(Final(users, u)) = Announced
    BY FinalNow, SetsNow DEF SetsMatch, FollowInv, FinalIsFinal
  <1>3. ASSUME NEW k \in 1 .. Len(u) PROVE u[k].content \in Logged /\ u[k].content \in Event
    <2>1. u[k] \in Entry
      BY <1>1, ElementOfSeq
    <2> HIDE DEF u
    <2>2. u[k].content \in Logged
      BY <2>1 DEF Entry
    <2> QED
      BY <2>2, ElementOfSeq, LenProperties DEF Logged, TypeInv, TypeOK, LogType
  <1>4. \A k \in 1 .. Len(u) :
            u[k].content.kind = "Connect" =>
                /\ u[k].content = Mark("Connect", u[k].content.linkid)
                /\ u[k].content.linkid \in Introduced
    BY <1>3 DEF Introduced, Event, Mark
  <1> HIDE DEF u
  <1>5. /\ h \in Listed(Final(users, u)) /\ h \notin Listed(users) =>
            \E k \in 1 .. Len(u) : u[k].content.kind = "Connect" /\ u[k].content.linkid = h
        /\ h \notin Listed(Final(users, u)) /\ h \in Listed(users) =>
            \E k \in 1 .. Len(u) :
                u[k].content.kind = "Disconnect" /\ u[k].content.linkid.sid = h.sid
    BY <1>1, <1>4, FinalDiffers
  <1> QED
    BY <1>1, <1>2, <1>4, <1>5 DEF u

\* What the list of users does not show yet the main loop will be told: neither
\* does it miss a connection nor keep a user whose connection has gone, without
\* the message that puts it right being in one of the two buffers.
THEOREM ChangesAreUnderWay == ServiceSpec => []ChangesUnderWay
  <1>1. TypeInv /\ OwnerInv /\ ServiceType /\ FollowInv => ChangesUnderWay
    BY ChangesFollow
  <1> QED
    BY <1>1, ServiceFollowInv, ServiceTyped, ServiceUsesPool, PoolOwnerInv, PTL
=============================================================================
