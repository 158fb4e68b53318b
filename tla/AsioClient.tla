----------------------------- MODULE AsioClient -----------------------------
(***************************************************************************)
(* HXLibAsioClient and HXLibClientAccept, with a program on top of them as *)
(* ClientTest is: its main loop calls SwapQueue and handles events, a      *)
(* second thread it starts on ID_Connect sends, and the io thread runs the *)
(* completion handlers one after the other.                                *)
(*                                                                         *)
(* Send tests m_bConnected on the caller's thread and posts the write to   *)
(* the io thread; the connection may end in between.  The server echoes    *)
(* heartbeats.  The connection is made once and no program calls Stop.     *)
(***************************************************************************)
EXTENDS Integers, Sequences, SequencesExt

CONSTANTS
    BigCount,   \* GetCount() of a large message
    Limit,      \* its GetAllowMaxOfMemory(), in packages
    MaxSends,   \* bound: packages sent
    MaxBeats,   \* bound: heartbeats
    MaxTold     \* bound: messages of the server

ASSUME ClientAssumption ==
    /\ BigCount \in Nat \ {0}
    /\ {Limit, MaxSends, MaxBeats, MaxTold} \subseteq Nat

Thread == {"main", "worker"}

\* The n-th package of a thread, heartbeats being a sequence of their own.
Package == [by : Thread \cup {"heartbeat"}, n : 0 .. MaxSends + MaxBeats]
IsBeat(p) == p.by = "heartbeat"

VARIABLES
    ioThread,       \* where the io thread is; "run" is between two handlers
    m_bConnected,
    posted,         \* do_write handlers queued in the io_service
    write_msgs,     \* write_msgs_
    writing,        \* "none", "pending" or "done": the asynchronous write
    reading,        \* the asynchronous read
    m_bTimeLast,    \* a heartbeat is outstanding
    sending,        \* thread -> packages its call of Send has still to post
    sent,           \* thread -> how many packages it has sent; heartbeats too
    m_recv,         \* the events and messages put into m_queue, in order
    swapped,        \* how many of them swap() has handed to the main loop
    handled,        \* how many of those the main loop has handled
    toServer, toClient,     \* packages under way
    served,         \* what the server has read
    told,           \* the messages the server has sent
    broken,         \* the connection is broken, or the server gone
    accepted        \* ghost: the packages posted, in order

socketVars == <<m_bConnected, write_msgs, writing, reading>>
programVars == <<sending, sent, swapped, handled>>
networkVars == <<toServer, toClient, served, told, broken>>
clientVars == <<ioThread, socketVars, posted, m_bTimeLast, programVars, m_recv,
                networkVars, accepted>>

\* Start: the connection is being made and the io thread runs.
Init ==
    /\ ioThread = "connecting"
    /\ m_bConnected = FALSE
    /\ posted = << >> /\ write_msgs = << >>
    /\ writing = "none" /\ reading = "none"
    /\ m_bTimeLast = FALSE
    /\ sending = [t \in Thread |-> << >>]
    /\ sent = [t \in Thread \cup {"heartbeat"} |-> 0]
    /\ m_recv = << >> /\ swapped = 0 /\ handled = 0
    /\ toServer = << >> /\ toClient = << >>
    /\ served = << >> /\ told = 0
    /\ broken = FALSE
    /\ accepted = << >>

-----------------------------------------------------------------------------
(* The io thread. *)

Put(e) == m_recv' = Append(m_recv, e)

\* handle_connect: the event first, then the flag, then the first read.
HandleConnect ==
    /\ ioThread = "connecting"
    /\ Put("Connect")
    /\ ioThread' = "announced"
    /\ UNCHANGED <<socketVars, posted, m_bTimeLast, programVars, networkVars, accepted>>

BeginReading ==
    /\ ioThread = "announced"
    /\ m_bConnected' = TRUE
    /\ reading' = "pending"
    /\ ioThread' = "run"
    /\ UNCHANGED <<write_msgs, writing, posted, m_bTimeLast, programVars, m_recv,
                   networkVars, accepted>>

HandleConnectFailure ==
    /\ ioThread = "connecting"
    /\ Put("ConnectFailure")
    /\ ioThread' = "ended"
    /\ UNCHANGED <<socketVars, posted, m_bTimeLast, programVars, networkVars, accepted>>

\* do_write: the first message of an empty queue is written at once.
DoWrite ==
    /\ ioThread = "run" /\ posted # << >>
    /\ posted' = Tail(posted)
    /\ write_msgs' = Append(write_msgs, Head(posted))
    /\ writing' = IF write_msgs = << >> THEN "pending" ELSE writing
    /\ UNCHANGED <<ioThread, m_bConnected, reading, m_bTimeLast, programVars, m_recv,
                   networkVars, accepted>>

\* Fault: the next message of the queue is not written.
HandleWriteOnce ==
    /\ ioThread = "run" /\ writing = "done"
    /\ write_msgs' = Tail(write_msgs)
    /\ writing' = "none"
    /\ UNCHANGED <<ioThread, m_bConnected, posted, reading, m_bTimeLast, programVars,
                   m_recv, networkVars, accepted>>

\* handle_write: the next message of the queue is written.
HandleWrite ==
    /\ ioThread = "run" /\ writing = "done"
    /\ write_msgs' = Tail(write_msgs)
    /\ writing' = IF Len(write_msgs) > 1 THEN "pending" ELSE "none"
    /\ UNCHANGED <<ioThread, m_bConnected, posted, reading, m_bTimeLast, programVars,
                   m_recv, networkVars, accepted>>

\* An operation on a connection that is broken, or closed by do_close, fails.
Failing == broken \/ ~m_bConnected

\* Fault: the message that could not be written leaves the queue.
HandleWriteErrorPops ==
    /\ ioThread = "run" /\ writing = "pending" /\ Failing
    /\ write_msgs' = Tail(write_msgs)
    /\ writing' = "none"
    /\ m_bConnected' = FALSE
    /\ ioThread' = "WriteError"
    /\ UNCHANGED <<posted, reading, m_bTimeLast, programVars, m_recv, networkVars, accepted>>

\* handle_write with an error, up to closemsg: the socket is closed, the queue
\* stays as it is.
HandleWriteError ==
    /\ ioThread = "run" /\ writing = "pending" /\ Failing
    /\ writing' = "none"
    /\ m_bConnected' = FALSE
    /\ ioThread' = "WriteError"
    /\ UNCHANGED <<write_msgs, posted, reading, m_bTimeLast, programVars, m_recv,
                   networkVars, accepted>>

\* Faults of handle_read_body: a heartbeat goes to the queue; the next read is
\* not started.
HandleReadQueuesBeats ==
    /\ ioThread = "run" /\ reading = "done"
    /\ toClient' = Tail(toClient)
    /\ Put("Message")
    /\ reading' = "pending"
    /\ UNCHANGED <<ioThread, m_bConnected, write_msgs, writing, posted, m_bTimeLast,
                   programVars, toServer, served, told, broken, accepted>>

HandleReadOnce ==
    /\ ioThread = "run" /\ reading = "done"
    /\ toClient' = Tail(toClient)
    /\ m_bTimeLast' = FALSE
    /\ reading' = "none"
    /\ UNCHANGED <<ioThread, m_bConnected, write_msgs, writing, posted, programVars,
                   m_recv, toServer, served, told, broken, accepted>>

\* handle_read_header and handle_read_body, for a whole package: a heartbeat is
\* taken note of, anything else goes to the queue, and the next read starts.
HandleRead ==
    /\ ioThread = "run" /\ reading = "done"
    /\ toClient' = Tail(toClient)
    /\ IF IsBeat(Head(toClient))
       THEN m_bTimeLast' = FALSE /\ UNCHANGED m_recv
       ELSE Put("Message") /\ UNCHANGED m_bTimeLast
    /\ reading' = "pending"
    /\ UNCHANGED <<ioThread, m_bConnected, write_msgs, writing, posted, programVars,
                   toServer, served, told, broken, accepted>>

\* The same with an error, up to closemsg.
HandleReadError ==
    /\ ioThread = "run" /\ reading = "pending" /\ Failing
    /\ reading' = "none"
    /\ m_bConnected' = FALSE
    /\ ioThread' = "ReadError"
    /\ UNCHANGED <<write_msgs, writing, posted, m_bTimeLast, programVars, m_recv,
                   networkVars, accepted>>

\* closemsg, after do_close.
Closemsg ==
    /\ ioThread \in {"ReadError", "WriteError"}
    /\ Put(ioThread)
    /\ ioThread' = "run"
    /\ UNCHANGED <<socketVars, posted, m_bTimeLast, programVars, networkVars, accepted>>

\* io_service::run returns when nothing is left to wait for.
IoThreadEnds ==
    /\ ioThread = "run" /\ posted = << >>
    /\ writing = "none" /\ reading = "none"
    /\ ioThread' = "ended"
    /\ UNCHANGED <<socketVars, posted, m_bTimeLast, programVars, m_recv, networkVars, accepted>>

-----------------------------------------------------------------------------
(* The program. *)

\* Packages k of a thread from its last one on.
Packages(t, k) == [i \in 1 .. k |-> [by |-> t, n |-> sent[t] + i]]

\* Send, as far as its test of the connection.
SendBegins(t, k) ==
    /\ sending[t] = << >>
    /\ m_bConnected
    /\ sent["main"] + sent["worker"] + k <= MaxSends
    /\ sending' = [sending EXCEPT ![t] = Packages(t, k)]
    /\ sent' = [sent EXCEPT ![t] = @ + k]
    /\ UNCHANGED <<ioThread, socketVars, posted, m_bTimeLast, m_recv, swapped, handled,
                   networkVars, accepted>>

\* sendMsgFun: the thread started on ID_Connect sends transforms.
SendTransform ==
    /\ \E i \in 1 .. handled : m_recv[i] = "Connect"
    /\ SendBegins("worker", 1)

\* Send of an id and data, on the main loop.
SendData == SendBegins("main", 1)

\* Send of a large message that may be lost: m_numofWrite, the length of
\* write_msgs_, is read on the caller's thread.
SendBig ==
    /\ Len(write_msgs) < Limit
    /\ SendBegins("main", BigCount)

\* write: the package is posted to the io thread.
Write(t) ==
    /\ sending[t] # << >>
    /\ posted' = Append(posted, Head(sending[t]))
    /\ accepted' = Append(accepted, Head(sending[t]))
    /\ sending' = [sending EXCEPT ![t] = Tail(@)]
    /\ UNCHANGED <<ioThread, socketVars, m_bTimeLast, sent, m_recv, swapped, handled,
                   networkVars>>

\* SwapQueue, half a second after the last heartbeat and that one answered.
SendHeartbeat ==
    /\ sending["main"] = << >> /\ handled = swapped
    /\ m_bConnected /\ ~m_bTimeLast
    /\ sent["heartbeat"] < MaxBeats
    /\ m_bTimeLast' = TRUE
    /\ sending' = [sending EXCEPT !["main"] = Packages("heartbeat", 1)]
    /\ sent' = [sent EXCEPT !["heartbeat"] = @ + 1]
    /\ UNCHANGED <<ioThread, socketVars, posted, m_recv, swapped, handled, networkVars,
                   accepted>>

\* The end of SwapQueue.
SwapQueue ==
    /\ sending["main"] = << >>
    /\ handled = swapped
    /\ swapped' = Len(m_recv)
    /\ UNCHANGED <<ioThread, socketVars, posted, m_bTimeLast, sending, sent, m_recv,
                   handled, networkVars, accepted>>

\* The program's switch: ID_Connect starts the worker, the rest is displayed.
HandleMessage ==
    /\ sending["main"] = << >>
    /\ handled < swapped
    /\ handled' = handled + 1
    /\ UNCHANGED <<ioThread, socketVars, posted, m_bTimeLast, sending, sent, m_recv,
                   swapped, networkVars, accepted>>

-----------------------------------------------------------------------------
(* The network and the server. *)

Transmit ==
    /\ writing = "pending" /\ ~Failing
    /\ toServer' = Append(toServer, Head(write_msgs))
    /\ writing' = "done"
    /\ UNCHANGED <<ioThread, m_bConnected, write_msgs, reading, posted, m_bTimeLast,
                   programVars, m_recv, toClient, served, told, broken, accepted>>

Arrive ==
    /\ reading = "pending" /\ m_bConnected
    /\ toClient # << >>
    /\ reading' = "done"
    /\ UNCHANGED <<ioThread, m_bConnected, write_msgs, writing, posted, m_bTimeLast,
                   programVars, m_recv, networkVars, accepted>>

\* The server's handle_read_body.
Serve ==
    /\ toServer # << >> /\ ~broken
    /\ toServer' = Tail(toServer)
    /\ served' = Append(served, Head(toServer))
    /\ toClient' = IF IsBeat(Head(toServer)) THEN Append(toClient, Head(toServer)) ELSE toClient
    /\ UNCHANGED <<ioThread, socketVars, posted, m_bTimeLast, programVars, m_recv, told,
                   broken, accepted>>

\* The server sends a message of its own.
Tell ==
    /\ m_bConnected /\ ~broken /\ told < MaxTold
    /\ told' = told + 1
    /\ toClient' = Append(toClient, [by |-> "worker", n |-> 0])
    /\ UNCHANGED <<ioThread, socketVars, posted, m_bTimeLast, programVars, m_recv,
                   toServer, served, broken, accepted>>

Break ==
    /\ ioThread # "connecting" /\ ~broken
    /\ broken' = TRUE
    /\ UNCHANGED <<ioThread, socketVars, posted, m_bTimeLast, programVars, m_recv,
                   toServer, toClient, served, told, accepted>>

-----------------------------------------------------------------------------
IoThread ==
    \/ HandleConnect \/ BeginReading \/ HandleConnectFailure
    \/ DoWrite \/ HandleWrite \/ HandleWriteError
    \/ HandleRead \/ HandleReadError \/ Closemsg \/ IoThreadEnds

Next ==
    \/ IoThread
    \/ SendTransform \/ SendData \/ SendBig
    \/ \E t \in Thread : Write(t)
    \/ SendHeartbeat \/ SwapQueue \/ HandleMessage
    \/ Transmit \/ Arrive \/ Serve \/ Tell \/ Break

\* The io thread runs the handlers that are ready, each in its turn; a thread in
\* Send goes on, and so does the main loop; TCP, with keep_alive set, transmits
\* or reports an error, and the server reads.
Fairness ==
    /\ WF_clientVars(HandleConnect \/ BeginReading \/ HandleConnectFailure \/ Closemsg)
    /\ WF_clientVars(DoWrite)
    /\ WF_clientVars(HandleWrite \/ HandleWriteError)
    /\ WF_clientVars(HandleRead \/ HandleReadError)
    /\ \A t \in Thread : WF_clientVars(Write(t))
    /\ WF_clientVars(SwapQueue \/ HandleMessage)
    /\ WF_clientVars(Transmit) /\ WF_clientVars(Arrive) /\ WF_clientVars(Serve)

Spec == Init /\ [][Next]_clientVars /\ Fairness

-----------------------------------------------------------------------------
(* Properties. *)

Reported(e) == \E i \in DOMAIN m_recv : m_recv[i] = e

ReportedOnce(e) == \A i, j \in DOMAIN m_recv : m_recv[i] = e /\ m_recv[j] = e => i = j

\* What the main loop is told makes sense as the story of one connection: it
\* begins with ID_Connect, or is ID_ConnectFailure alone; each way of ending is
\* reported once at most, and only when the connection is closed already; and
\* once the read has failed no message follows.
EventsTellTheStory ==
    /\ m_recv # << >> => m_recv[1] = "Connect" \/ m_recv = <<"ConnectFailure">>
    /\ \A e \in {"Connect", "ReadError", "WriteError"} : ReportedOnce(e)
    /\ Reported("ReadError") \/ Reported("WriteError") => ~m_bConnected
    /\ \A i, j \in DOMAIN m_recv :
        m_recv[i] = "ReadError" /\ i < j => m_recv[j] = "WriteError"

\* What the threads post, heartbeats included, is read by the server once and
\* in the order of posting, and all of it unless the connection breaks.
Channel == INSTANCE MessageChannel WITH
    Message   <- Package,
    delivered <- served,
    broken    <- broken

ImplementsChannel == Channel!Spec

\* An outstanding heartbeat, on which all later ones wait, is answered unless the
\* connection ends.
HeartbeatAnswered == m_bTimeLast ~> ~m_bTimeLast \/ ~m_bConnected

\* The main loop handles a Disconnect for every connection that breaks.
BreakIsHandled ==
    broken /\ m_bConnected ~> \E i \in 1 .. handled : m_recv[i] = "ReadError"
=============================================================================
