----------------------------- MODULE LinkStream -----------------------------
(***************************************************************************)
(* One connection as a stream of messages: HXLibAsioServer::Send cuts a    *)
(* large message into sections, HXLibAccept::send queues them behind each  *)
(* other, handle_write writes one package at a time, and the peer's        *)
(* RecvPackage puts a large message together again.                        *)
(*                                                                         *)
(* A caller of Send holds m_linkMutex from its first section to its last,  *)
(* so there is one message being sent at a time; the io thread queues      *)
(* heartbeat replies and completes writes in between.  A step is what a    *)
(* thread does under the connection's m_mutex; only handle_write takes two *)
(* there, as Send reads m_numofWrite without that mutex.                   *)
(***************************************************************************)
EXTENDS Integers, Sequences

CONSTANTS
    Small,      \* messages that fit in one package
    Big,        \* large messages
    None,       \* no message
    SectionCount,   \* large message -> MBigHeader::sectionCount
    Lossy,      \* large messages that may be lost: SetAllowLostPackage
    Limit,      \* maxOfMemory of SetAllowLostPackage, in packages
    LateCopy,   \* TRUE: the system may read a write's buffer after the call
    MaxSends,   \* bound: messages offered to Send
    MaxBeats    \* bound: heartbeats received

ASSUME LinkStreamAssumption ==
    /\ None \notin Small \cup Big
    /\ Small \cap Big = {}
    /\ Lossy \subseteq Big
    /\ SectionCount \in [Big -> Nat \ {0}]
    /\ Limit \in Nat
    /\ LateCopy \in BOOLEAN
    /\ MaxSends \in Nat
    /\ MaxBeats \in Nat

Message == Small \cup Big

Package ==
    [kind : {"Message", "Begin", "Data", "End"}, msg : Message, section : Nat]
        \cup [kind : {"Heartbeat", "Garbage"}, msg : {None}, section : {0}]

VARIABLES
    sending,    \* the packages the current Send has not queued yet
    open,       \* socket_.is_open()
    write_msgs, \* write_msgs_
    m_numofWrite,
    writing,    \* "idle", "armed", "done" or "failed": the asynchronous write;
                \* "popped": handle_write has m_mutex and has not counted yet
    buffer,     \* where that write takes its bytes: "queue" or "stack"
    wire,       \* packages transmitted and not yet read by the peer
    header,     \* the peer's m_header: the message of the last Begin, or None
    recvData,   \* the peer's m_recvData: for each section whose data is in it
    delivered,  \* what the peer's queue has been given, in order
    accepted,   \* ghost: messages Send has not refused, in order
    beats       \* heartbeats received (bounded by MaxBeats)

sendVars == <<write_msgs, m_numofWrite, writing, buffer>>
peerVars == <<header, recvData, delivered>>
streamVars == <<sendVars, peerVars, sending, open, wire, accepted, beats>>

Init ==
    /\ sending = << >>
    /\ open = TRUE
    /\ write_msgs = << >>
    /\ m_numofWrite = 0
    /\ writing = "idle"
    /\ buffer = "queue"
    /\ wire = << >>
    /\ header = None
    /\ recvData = << >>
    /\ delivered = << >>
    /\ accepted = << >>
    /\ beats = 0

-----------------------------------------------------------------------------
(* Sending. *)

\* Fault: the last section is not sent.
SectionsShort(m) ==
    [k \in 1 .. SectionCount[m] + 1 |->
        IF k = 1 THEN [kind |-> "Begin", msg |-> m, section |-> 0]
        ELSE IF k = SectionCount[m] + 1 THEN [kind |-> "End", msg |-> m, section |-> 0]
        ELSE [kind |-> "Data", msg |-> m, section |-> k - 1]]

\* SetBigPackage: a header, the sections, a trailer.
Sections(m) ==
    [k \in 1 .. SectionCount[m] + 2 |->
        IF k = 1 THEN [kind |-> "Begin", msg |-> m, section |-> 0]
        ELSE IF k = SectionCount[m] + 2 THEN [kind |-> "End", msg |-> m, section |-> 0]
        ELSE [kind |-> "Data", msg |-> m, section |-> k - 1]]

\* Send of a large message.  One that may be lost is refused as a whole when the
\* backlog takes Limit packages, as m_numofWrite has it at this moment: the test
\* does not wait for m_mutex.
SendBig(m) ==
    /\ sending = << >>
    /\ Len(accepted) < MaxSends
    /\ m \in Lossy => m_numofWrite < Limit
    /\ sending' = Sections(m)
    /\ accepted' = Append(accepted, m)
    /\ UNCHANGED <<sendVars, peerVars, open, wire, beats>>

\* Send of an ordinary message.
SendSmall(m) ==
    /\ sending = << >>
    /\ Len(accepted) < MaxSends
    /\ sending' = <<[kind |-> "Message", msg |-> m, section |-> 0]>>
    /\ accepted' = Append(accepted, m)
    /\ UNCHANGED <<sendVars, peerVars, open, wire, beats>>

\* HXLibAccept::send, under the connection's own mutex: nothing on a closed
\* socket; the first message of an empty queue is written at once, and only
\* then is m_numofWrite brought up to date.
Send(p) ==
    IF ~open
    THEN UNCHANGED sendVars
    ELSE /\ write_msgs' = Append(write_msgs, p)
         /\ IF write_msgs = << >>
            THEN /\ m_numofWrite' = 1
                 /\ writing' = "armed"
                 /\ buffer' = "queue"
            ELSE UNCHANGED <<m_numofWrite, writing, buffer>>

\* The sender's loop queues its next package, once it has m_mutex.
SendNext ==
    /\ sending # << >>
    /\ writing # "popped"
    /\ Send(Head(sending))
    /\ sending' = Tail(sending)
    /\ UNCHANGED <<peerVars, open, wire, accepted, beats>>

\* handle_read_body echoes a heartbeat, without m_linkMutex.
EchoHeartbeat ==
    /\ open
    /\ writing # "popped"
    /\ beats < MaxBeats
    /\ beats' = beats + 1
    /\ Send([kind |-> "Heartbeat", msg |-> None, section |-> 0])
    /\ UNCHANGED <<peerVars, sending, open, wire, accepted>>

\* handle_write without error takes m_mutex, and the message written leaves the
\* queue.
HandleWritePops ==
    /\ writing = "done"
    /\ write_msgs' = Tail(write_msgs)
    /\ writing' = "popped"
    /\ UNCHANGED <<m_numofWrite, buffer, peerVars, sending, open, wire, accepted, beats>>

\* The next message, if any, is written from a local copy.
WriteNext ==
    IF write_msgs # << >>
    THEN writing' = "armed" /\ buffer' = "stack"
    ELSE writing' = "idle" /\ UNCHANGED buffer

\* Faults of handle_write: m_numofWrite is decremented instead of set; it is set
\* only if there is a next message; no next write is started.
HandleWriteDecrements ==
    /\ writing = "popped"
    /\ m_numofWrite' = m_numofWrite - 1
    /\ WriteNext
    /\ UNCHANGED <<write_msgs, peerVars, sending, open, wire, accepted, beats>>

HandleWriteCountsNext ==
    /\ writing = "popped"
    /\ m_numofWrite' = IF write_msgs # << >> THEN Len(write_msgs) ELSE m_numofWrite
    /\ WriteNext
    /\ UNCHANGED <<write_msgs, peerVars, sending, open, wire, accepted, beats>>

HandleWriteOnce ==
    /\ writing = "popped"
    /\ m_numofWrite' = Len(write_msgs)
    /\ writing' = "idle"
    /\ UNCHANGED <<write_msgs, buffer, peerVars, sending, open, wire, accepted, beats>>

\* The rest of handle_write: the backlog is counted, and the next message is
\* copied to a local variable and written from there, after which the handler
\* returns.
HandleWrite ==
    /\ writing = "popped"
    /\ m_numofWrite' = Len(write_msgs)
    /\ WriteNext
    /\ UNCHANGED <<write_msgs, peerVars, sending, open, wire, accepted, beats>>

\* handle_write with an error: the connection leaves the pool, nothing more
\* is written on it.
HandleWriteError ==
    /\ writing = "armed"
    /\ writing' = "failed"
    /\ UNCHANGED <<write_msgs, m_numofWrite, buffer, peerVars, sending, open,
                   wire, accepted, beats>>

\* Close: the socket is closed under whatever is being sent.
CloseSocket ==
    /\ open
    /\ open' = FALSE
    /\ UNCHANGED <<sendVars, peerVars, sending, wire, accepted, beats>>

-----------------------------------------------------------------------------
(* The system and the peer. *)

\* The package being written reaches the peer's end; its bytes are those of the
\* queue, or of a stack frame that may be another function's by now.
Transmit ==
    /\ writing = "armed"
    /\ open
    /\ \/ wire' = Append(wire, Head(write_msgs))
       \/ /\ LateCopy /\ buffer = "stack"
          /\ wire' = Append(wire, [kind |-> "Garbage", msg |-> None, section |-> 0])
    /\ writing' = "done"
    /\ UNCHANGED <<write_msgs, m_numofWrite, buffer, peerVars, sending, open,
                   accepted, beats>>

\* What RecvPackage gives the queue for a finished large message: its header
\* and, for each section, the message the bytes there came from.
Assembled(m, data) == [msg |-> m, data |-> data]

\* The data of a message that fits in one package.
Whole(m) ==
    Assembled(m, IF m \in Big THEN [k \in 1 .. SectionCount[m] |-> m] ELSE <<m>>)

\* RecvPackage of Begin: the buffer is resized, what it held stays in it.
RecvBegin(p) ==
    /\ header' = p.msg
    /\ recvData' = [k \in 1 .. SectionCount[p.msg] |->
                        IF k <= Len(recvData) THEN recvData[k] ELSE None]
    /\ UNCHANGED delivered

\* RecvPackage of Data: refused unless it lies inside the announced message.
RecvData(p) ==
    /\ recvData' = IF /\ header # None
                      /\ Len(recvData) = SectionCount[header]
                      /\ p.section <= SectionCount[header]
                   THEN [recvData EXCEPT ![p.section] = p.msg]
                   ELSE recvData
    /\ UNCHANGED <<header, delivered>>

\* RecvPackage of End: the message is complete if the trailer's sizes are those
\* of the header; which sections came in between is not looked at.
RecvEnd(p) ==
    /\ delivered' = IF header # None /\ SectionCount[p.msg] = SectionCount[header]
                    THEN Append(delivered, Assembled(header, recvData))
                    ELSE delivered
    /\ UNCHANGED <<header, recvData>>

\* The peer reads a package and hands it to its queue's add(); heartbeats are
\* handled before that, and bytes that make no sense come out as a message.
Receive ==
    /\ wire # << >>
    /\ wire' = Tail(wire)
    /\ LET p == Head(wire) IN
       CASE p.kind = "Begin" -> RecvBegin(p)
         [] p.kind = "Data"  -> RecvData(p)
         [] p.kind = "End"   -> RecvEnd(p)
         [] p.kind = "Message" -> /\ delivered' = Append(delivered, Whole(p.msg))
                                  /\ UNCHANGED <<header, recvData>>
         [] p.kind = "Garbage" -> /\ delivered' = Append(delivered, Assembled(None, << >>))
                                  /\ UNCHANGED <<header, recvData>>
         [] p.kind = "Heartbeat" -> UNCHANGED peerVars
    /\ UNCHANGED <<sendVars, sending, open, accepted, beats>>

-----------------------------------------------------------------------------
Next ==
    \/ \E m \in Big : SendBig(m)
    \/ \E m \in Small : SendSmall(m)
    \/ SendNext \/ EchoHeartbeat
    \/ HandleWritePops \/ HandleWrite \/ HandleWriteError \/ CloseSocket
    \/ Transmit \/ Receive

\* A caller in Send goes on; the io thread runs the handlers queued for it; on a
\* connection that is open the system transmits, and the peer reads.
Fairness ==
    /\ WF_streamVars(SendNext)
    /\ WF_streamVars(HandleWritePops)
    /\ WF_streamVars(HandleWrite)
    /\ WF_streamVars(Transmit)
    /\ WF_streamVars(Receive)

Spec == Init /\ [][Next]_streamVars /\ Fairness

-----------------------------------------------------------------------------
(* Properties. *)

\* Every variable keeps its type.
TypeOK ==
    /\ sending \in Seq(Package)
    /\ open \in BOOLEAN
    /\ write_msgs \in Seq(Package)
    /\ m_numofWrite \in Nat
    /\ writing \in {"idle", "armed", "done", "popped", "failed"}
    /\ buffer \in {"queue", "stack"}
    /\ wire \in Seq(Package)
    /\ header \in Big \cup {None}
    /\ recvData \in Seq(Big \cup {None})
    /\ delivered \in Seq([msg : Message \cup {None}, data : Seq(Message \cup {None})])
    /\ accepted \in Seq(Message)
    /\ beats \in Nat

\* There is a write outstanding, or a failed one, exactly while messages wait,
\* whenever m_mutex is free: no message is left in the queue with nobody to write
\* it, and no two writes overlap on one socket.
WriteOutstanding ==
    writing # "popped" => ((writing = "idle") = (write_msgs = << >>))

\* The backlog the allow-lost test sees, at any moment, is more than the real one
\* by at most the one message handle_write has popped and not yet counted out: a
\* message is refused only if Limit packages wait, or waited at that pop.
BacklogNotOverstated ==
    m_numofWrite <= Len(write_msgs) + (IF writing = "popped" THEN 1 ELSE 0)

\* With the bytes of every write intact, a connection carries whole messages in
\* order, and delivers all of them unless it breaks.
Channel == INSTANCE MessageChannel WITH
    Message   <- {Whole(m) : m \in Message},
    accepted  <- [k \in DOMAIN accepted |-> Whole(accepted[k])],
    delivered <- delivered,
    broken    <- (~open \/ writing = "failed")

ImplementsChannel == Channel!Spec

\* The comment in handle_write: it goes on sending the messages of the queue
\* until all are sent.  What arrives is then what was queued.
QueueIsSentAsQueued ==
    \A k \in DOMAIN delivered : delivered[k] = Whole(accepted[k])
=============================================================================
