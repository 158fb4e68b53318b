-------------------------- MODULE AsioClientProofs --------------------------
(* What holds of the client for every number of packages, heartbeats and *)
(* messages of the server, and every size of large messages. *)
EXTENDS AsioClient, SequenceTheorems, TLAPS

-----------------------------------------------------------------------------
(* Types. *)

Sequence == Thread \cup {"heartbeat"}
Event == {"Connect", "ConnectFailure", "ReadError", "WriteError", "Message"}

\* The numbering of packages stays within the bounds.
SentType ==
    /\ sent \in [Sequence -> Nat]
    /\ sent["main"] + sent["worker"] <= MaxSends
    /\ sent["heartbeat"] <= MaxBeats

ProgramType ==
    /\ sending \in [Thread -> Seq(Package)]
    /\ SentType
    /\ posted \in Seq(Package) /\ accepted \in Seq(Package)

\* An asynchronous write is that of the first message of the queue.
SocketType ==
    /\ ioThread \in {"connecting", "announced", "run", "ReadError", "WriteError", "ended"}
    /\ write_msgs \in Seq(Package)
    /\ writing \in {"none", "pending", "done"}
    /\ writing # "none" => write_msgs # << >>
    /\ m_recv \in Seq(Event)

NetworkType ==
    /\ toServer \in Seq(Package) /\ served \in Seq(Package)
    /\ broken \in BOOLEAN

TypeInv == ProgramType /\ SocketType /\ NetworkType

LEMMA TypeInit == Init => TypeInv
  <1> SUFFICES ASSUME Init PROVE TypeInv
    OBVIOUS
  <1>1. /\ << >> \in Seq(Package) /\ << >> \in Seq(Event)
        /\ MaxSends \in Nat /\ MaxBeats \in Nat
    BY ClientAssumption
  <1>2. ProgramType
    BY <1>1 DEF Init, ProgramType, SentType, Sequence, Thread
  <1>3. SocketType
    BY <1>1 DEF Init, SocketType
  <1>4. NetworkType
    BY <1>1 DEF Init, NetworkType
  <1> QED
    BY <1>2, <1>3, <1>4 DEF TypeInv

\* A function on 1 .. n is a sequence.
LEMMA FunctionIsSeq ==
    ASSUME NEW S, NEW n \in Nat, NEW f \in [1 .. n -> S]
    PROVE  f \in Seq(S)
  <1>1. [1 .. n -> S] \in {[1 .. m -> S] : m \in Nat}
    BY Zenon
  <1>2. Seq(S) = UNION {[1 .. m -> S] : m \in Nat}
    BY SeqDef
  <1> QED
    BY <1>1, <1>2, Zenon

\* What is left of a sequence, and what is added to it, is of its kind.
LEMMA TailType == \A S : \A q \in Seq(S) : q # << >> => Head(q) \in S /\ Tail(q) \in Seq(S)
  BY HeadTailProperties

LEMMA AppendType == \A S : \A q \in Seq(S) : \A e \in S : Append(q, e) \in Seq(S)
  BY AppendProperties

\* The packages of a call of Send, or a heartbeat, are numbered within the bounds.
LEMMA PackagesType ==
    ASSUME NEW t \in Sequence, NEW k \in Nat, sent[t] \in Nat,
           sent[t] + k <= MaxSends + MaxBeats
    PROVE  Packages(t, k) \in Seq(Package)
  <1>1. MaxSends + MaxBeats \in Nat
    BY ClientAssumption
  <1>2. \A i \in 1 .. k : [by |-> t, n |-> sent[t] + i] \in Package
    BY <1>1 DEF Package, Sequence
  <1>3. Packages(t, k) \in [1 .. k -> Package]
    BY <1>2 DEF Packages
  <1> QED
    BY <1>3, FunctionIsSeq

LEMMA SendBeginsType ==
    ASSUME ProgramType, NEW t \in Thread, NEW k \in Nat, SendBegins(t, k)
    PROVE  ProgramType'
  <1>1. /\ sending' = [sending EXCEPT ![t] = Packages(t, k)]
        /\ sent' = [sent EXCEPT ![t] = @ + k]
        /\ sent["main"] + sent["worker"] + k <= MaxSends
        /\ UNCHANGED <<posted, accepted>>
    BY DEF SendBegins
  <1>2. /\ sent["main"] \in Nat /\ sent["worker"] \in Nat
        /\ MaxSends \in Nat /\ MaxBeats \in Nat
    BY ClientAssumption DEF ProgramType, SentType, Sequence, Thread
  <1>3. sent[t] \in Nat /\ sent[t] + k <= MaxSends + MaxBeats
    BY <1>1, <1>2 DEF Thread
  <1>4. Packages(t, k) \in Seq(Package)
    BY <1>3, PackagesType DEF Sequence
  <1>5. sending' \in [Thread -> Seq(Package)]
    BY <1>1, <1>4 DEF ProgramType
  <1>6. SentType'
    <2>1. sent' \in [Sequence -> Nat]
      BY <1>1, <1>3 DEF ProgramType, SentType, Sequence
    <2>2. sent'["heartbeat"] = sent["heartbeat"]
      BY <1>1 DEF ProgramType, SentType, Sequence, Thread
    <2>3. sent'["main"] + sent'["worker"] = sent["main"] + sent["worker"] + k
      BY <1>1, <1>2 DEF ProgramType, SentType, Sequence, Thread
    <2> QED
      BY <1>1, <2>1, <2>2, <2>3 DEF ProgramType, SentType
  <1> QED
    BY <1>1, <1>5, <1>6 DEF ProgramType

LEMMA SendHeartbeatType == ASSUME ProgramType, SendHeartbeat PROVE ProgramType'
  <1>1. /\ sending' = [sending EXCEPT !["main"] = Packages("heartbeat", 1)]
        /\ sent' = [sent EXCEPT !["heartbeat"] = @ + 1]
        /\ sent["heartbeat"] < MaxBeats
        /\ UNCHANGED <<posted, accepted>>
    BY DEF SendHeartbeat
  <1>2. sent["heartbeat"] \in Nat /\ MaxSends \in Nat /\ MaxBeats \in Nat
    BY ClientAssumption DEF ProgramType, SentType, Sequence
  <1>3. Packages("heartbeat", 1) \in Seq(Package)
    BY <1>1, <1>2, PackagesType DEF Sequence
  <1>4. sending' \in [Thread -> Seq(Package)]
    BY <1>1, <1>3 DEF ProgramType
  <1>5. SentType'
    BY <1>1, <1>2 DEF ProgramType, SentType, Sequence, Thread
  <1> QED
    BY <1>1, <1>4, <1>5 DEF ProgramType

LEMMA WriteType == ASSUME ProgramType, NEW t \in Thread, Write(t) PROVE ProgramType'
  <1>1. /\ sending[t] # << >>
        /\ posted' = Append(posted, Head(sending[t]))
        /\ accepted' = Append(accepted, Head(sending[t]))
        /\ sending' = [sending EXCEPT ![t] = Tail(@)]
        /\ sent' = sent
    BY DEF Write
  <1>2. Head(sending[t]) \in Package /\ Tail(sending[t]) \in Seq(Package)
    BY <1>1, TailType DEF ProgramType
  <1>3. sending' \in [Thread -> Seq(Package)]
    BY <1>1, <1>2 DEF ProgramType
  <1>4. posted' \in Seq(Package) /\ accepted' \in Seq(Package)
    BY <1>1, <1>2, AppendType DEF ProgramType
  <1> QED
    BY <1>1, <1>3, <1>4 DEF ProgramType, SentType

LEMMA DoWriteType == ASSUME TypeInv, DoWrite PROVE TypeInv'
  <1>1. /\ posted # << >> /\ posted' = Tail(posted)
        /\ write_msgs' = Append(write_msgs, Head(posted))
        /\ writing' = IF write_msgs = << >> THEN "pending" ELSE writing
        /\ UNCHANGED <<ioThread, m_recv, sending, sent, accepted, toServer, served, broken>>
    BY DEF DoWrite, programVars, networkVars
  <1>2. Head(posted) \in Package /\ Tail(posted) \in Seq(Package)
    BY <1>1, TailType DEF TypeInv, ProgramType
  <1>3. write_msgs' \in Seq(Package) /\ write_msgs' # << >>
    BY <1>1, <1>2, AppendProperties, EmptySeq DEF TypeInv, SocketType
  <1>4. ProgramType'
    BY <1>1, <1>2 DEF TypeInv, ProgramType, SentType
  <1>5. SocketType'
    BY <1>1, <1>3 DEF TypeInv, SocketType
  <1> QED
    BY <1>1, <1>4, <1>5 DEF TypeInv, NetworkType

LEMMA HandleWriteType == ASSUME SocketType, HandleWrite PROVE SocketType'
  <1>1. /\ write_msgs # << >>
        /\ write_msgs' = Tail(write_msgs)
        /\ writing' = IF Len(write_msgs) > 1 THEN "pending" ELSE "none"
        /\ UNCHANGED <<ioThread, m_recv>>
    BY DEF HandleWrite, SocketType
  <1>2. write_msgs' \in Seq(Package) /\ Len(write_msgs') = Len(write_msgs) - 1
    BY <1>1, HeadTailProperties DEF SocketType
  <1>3. writing' # "none" => write_msgs' # << >>
    <2>1. Len(<< >>) = 0 /\ Len(write_msgs) \in Nat
      BY LenProperties DEF SocketType
    <2>2. writing' # "none" => Len(write_msgs') > 0
      BY <1>1, <1>2, <2>1
    <2> QED
      BY <2>1, <2>2
  <1> QED
    BY <1>1, <1>2, <1>3 DEF SocketType

\* What the other handlers and the network do to the socket and to the events.
LEMMA TypeStep == TypeInv /\ [Next]_clientVars => TypeInv'
  <1> SUFFICES ASSUME TypeInv, [Next]_clientVars PROVE TypeInv'
    OBVIOUS
  <1>0. ProgramType /\ SocketType /\ NetworkType
    BY DEF TypeInv
  <1> DEFINE sameProgram == UNCHANGED <<sending, sent, posted, accepted>>
             sameSocket == UNCHANGED <<ioThread, write_msgs, writing, m_recv>>
             sameNetwork == UNCHANGED <<toServer, served, broken>>
  <1>p. sameProgram => ProgramType'
    BY <1>0 DEF ProgramType, SentType
  <1>s. sameSocket => SocketType'
    BY <1>0 DEF SocketType
  <1>n. sameNetwork => NetworkType'
    BY <1>0 DEF NetworkType
  <1>e. \A e \in Event : Put(e) => m_recv' \in Seq(Event)
    BY <1>0, AppendType DEF SocketType, Put
  <1> USE DEF programVars, networkVars, socketVars
  <1>1. CASE UNCHANGED clientVars
    BY <1>1, <1>p, <1>s, <1>n DEF clientVars, TypeInv
  <1>2. CASE HandleConnect \/ HandleConnectFailure
    <2>1. SocketType'
      BY <1>2, <1>0, <1>e DEF HandleConnect, HandleConnectFailure, SocketType, Event
    <2>2. sameProgram /\ sameNetwork
      BY <1>2 DEF HandleConnect, HandleConnectFailure
    <2> QED
      BY <2>1, <2>2, <1>p, <1>n DEF TypeInv
  <1>3. CASE BeginReading \/ HandleWriteError \/ HandleReadError \/ IoThreadEnds
    <2>1. SocketType'
      BY <1>3, <1>0 DEF BeginReading, HandleWriteError, HandleReadError, IoThreadEnds, SocketType
    <2>2. sameProgram /\ sameNetwork
      BY <1>3 DEF BeginReading, HandleWriteError, HandleReadError, IoThreadEnds
    <2> QED
      BY <2>1, <2>2, <1>p, <1>n DEF TypeInv
  <1>4. CASE DoWrite
    BY <1>4, DoWriteType
  <1>5. CASE HandleWrite
    <2>1. sameProgram /\ sameNetwork
      BY <1>5 DEF HandleWrite
    <2> QED
      BY <1>0, <1>5, <2>1, HandleWriteType, <1>p, <1>n DEF TypeInv
  <1>6. CASE HandleRead
    <2>1. m_recv' = m_recv \/ Put("Message")
      BY <1>6 DEF HandleRead
    <2>2. SocketType'
      BY <1>6, <1>0, <1>e, <2>1 DEF HandleRead, SocketType, Event
    <2>3. sameProgram /\ sameNetwork
      BY <1>6 DEF HandleRead
    <2> QED
      BY <2>2, <2>3, <1>p, <1>n DEF TypeInv
  <1>7. CASE Closemsg
    <2>1. SocketType'
      BY <1>7, <1>0, <1>e DEF Closemsg, SocketType, Event
    <2>2. sameProgram /\ sameNetwork
      BY <1>7 DEF Closemsg
    <2> QED
      BY <2>1, <2>2, <1>p, <1>n DEF TypeInv
  <1>8. ASSUME NEW t \in Thread, NEW k \in Nat, SendBegins(t, k) PROVE TypeInv'
    <2>1. sameSocket /\ sameNetwork
      BY <1>8 DEF SendBegins
    <2> QED
      BY <1>0, <1>8, <2>1, SendBeginsType, <1>s, <1>n DEF TypeInv
  <1>9. CASE SendTransform \/ SendData \/ SendBig
    BY <1>8, <1>9, ClientAssumption DEF SendTransform, SendData, SendBig, Thread
  <1>10. ASSUME NEW t \in Thread, Write(t) PROVE TypeInv'
    <2>1. sameSocket /\ sameNetwork
      BY <1>10 DEF Write
    <2> QED
      BY <1>0, <1>10, <2>1, WriteType, <1>s, <1>n DEF TypeInv
  <1>11. CASE SendHeartbeat
    <2>1. sameSocket /\ sameNetwork
      BY <1>11 DEF SendHeartbeat
    <2> QED
      BY <1>0, <1>11, <2>1, SendHeartbeatType, <1>s, <1>n DEF TypeInv
  <1>12. CASE SwapQueue \/ HandleMessage \/ Arrive \/ Tell
    BY <1>12, <1>p, <1>s, <1>n DEF SwapQueue, HandleMessage, Arrive, Tell, TypeInv
  <1>13. CASE Transmit
    <2>1. SocketType' /\ sameProgram
      BY <1>13, <1>0 DEF Transmit, SocketType
    <2>2. Head(write_msgs) \in Package
      BY <1>13, <1>0, TailType DEF Transmit, SocketType
    <2>3. NetworkType'
      BY <1>13, <1>0, <2>2, AppendType DEF Transmit, NetworkType
    <2> QED
      BY <2>1, <2>3, <1>p DEF TypeInv
  <1>14. CASE Serve
    <2>1. sameProgram /\ sameSocket
      BY <1>14 DEF Serve
    <2>2. Head(toServer) \in Package /\ Tail(toServer) \in Seq(Package)
      BY <1>14, <1>0, TailType DEF Serve, NetworkType
    <2>3. NetworkType'
      BY <1>14, <1>0, <2>2, AppendType DEF Serve, NetworkType
    <2> QED
      BY <2>1, <2>3, <1>p, <1>s DEF TypeInv
  <1>15. CASE Break
    BY <1>15, <1>p, <1>s, <1>0 DEF Break, NetworkType, TypeInv
  <1> QED
    BY <1>1, <1>2, <1>3, <1>4, <1>5, <1>6, <1>7, <1>9, <1>10, <1>11, <1>12, <1>13, <1>14,
       <1>15 DEF Next, IoThread

LEMMA ClientTypeInv == Spec => []TypeInv
  BY TypeInit, TypeStep, PTL DEF Spec

-----------------------------------------------------------------------------
(* The story of the connection. *)

Started == ioThread \in {"run", "ReadError", "WriteError"}

\* What has been told is where the io thread is.
ThreadInv ==
    /\ ioThread = "connecting" => m_recv = << >>
    /\ ioThread = "announced" => m_recv = <<"Connect">>
    /\ ioThread \in {"connecting", "announced"} => reading = "none"
    /\ Started => m_recv # << >> /\ m_recv[1] = "Connect"

\* Nothing is read after an error of the read.
ReadEnded ==
    /\ Reported("ReadError") \/ ioThread = "ReadError" => reading = "none" /\ ~m_bConnected
    /\ ioThread = "ReadError" => ~Reported("ReadError")

\* Nothing is written after an error of the write: the queue is not empty, and
\* only an empty queue or a write that succeeded begins another.
WriteEnded ==
    /\ Reported("WriteError") \/ ioThread = "WriteError" =>
            writing = "none" /\ write_msgs # << >> /\ ~m_bConnected
    /\ ioThread = "WriteError" => ~Reported("WriteError")

StoryInv == ThreadInv /\ ReadEnded /\ WriteEnded /\ EventsTellTheStory

LEMMA StoryInit == Init => StoryInv
  BY DEF Init, StoryInv, ThreadInv, Started, ReadEnded, WriteEnded, EventsTellTheStory,
         Reported, ReportedOnce

\* An event is told behind all the others.
LEMMA PutFacts ==
    ASSUME SocketType, NEW e \in Event, Put(e)
    PROVE  /\ \A i \in DOMAIN m_recv : i \in DOMAIN m_recv' /\ m_recv'[i] = m_recv[i]
           /\ \E n \in DOMAIN m_recv' :
                /\ m_recv'[n] = e
                /\ \A i \in DOMAIN m_recv' : i = n \/ (i \in DOMAIN m_recv /\ i < n)
           /\ m_recv' # << >>
           /\ m_recv # << >> => m_recv'[1] = m_recv[1]
           /\ m_recv = << >> => m_recv' = <<e>>
  <1>1. /\ m_recv' = Append(m_recv, e)
        /\ m_recv \in Seq(Event) /\ Len(m_recv) \in Nat
        /\ DOMAIN m_recv = 1 .. Len(m_recv)
    BY LenProperties DEF Put, SocketType
  <1>2. /\ m_recv' \in Seq(Event)
        /\ Len(m_recv') = Len(m_recv) + 1
        /\ \A i \in 1 .. Len(m_recv) : m_recv'[i] = m_recv[i]
        /\ m_recv'[Len(m_recv) + 1] = e
    BY <1>1, AppendProperties
  <1>3. DOMAIN m_recv' = 1 .. Len(m_recv) + 1
    BY <1>2, LenProperties
  <1>4. Len(m_recv) + 1 \in DOMAIN m_recv'
    BY <1>1, <1>3
  <1>5. \A i \in DOMAIN m_recv' :
            i = Len(m_recv) + 1 \/ (i \in DOMAIN m_recv /\ i < Len(m_recv) + 1)
    BY <1>1, <1>3
  <1>6. m_recv # << >> => 1 \in DOMAIN m_recv
    BY <1>1, EmptySeq
  <1>7. m_recv' # << >>
    BY <1>4
  <1>8. m_recv = << >> => m_recv' = <<e>>
    BY <1>1
  <1> QED
    BY <1>1, <1>2, <1>3, <1>4, <1>5, <1>6, <1>7, <1>8

LEMMA ReportedBefore ==
    ASSUME SocketType, NEW e \in Event, Put(e), NEW x
    PROVE  /\ Reported(x)' <=> Reported(x) \/ x = e
           /\ ReportedOnce(x) /\ (x = e => ~Reported(x)) => ReportedOnce(x)'
  <1>1. PICK n \in DOMAIN m_recv' :
            /\ m_recv'[n] = e
            /\ \A i \in DOMAIN m_recv' : i = n \/ (i \in DOMAIN m_recv /\ i < n)
    BY PutFacts
  <1>2. \A i \in DOMAIN m_recv : i \in DOMAIN m_recv' /\ m_recv'[i] = m_recv[i]
    BY PutFacts
  <1>3. Reported(x)' <=> Reported(x) \/ x = e
    BY <1>1, <1>2, Zenon DEF Reported
  <1>4. ASSUME ReportedOnce(x), (x = e => ~Reported(x)),
               NEW i \in DOMAIN m_recv', NEW j \in DOMAIN m_recv',
               m_recv'[i] = x, m_recv'[j] = x
        PROVE  i = j
    <2>1. CASE i = n /\ j # n
      BY <2>1, <1>1, <1>2, <1>4 DEF Reported
    <2>2. CASE i # n /\ j = n
      BY <2>2, <1>1, <1>2, <1>4 DEF Reported
    <2>3. CASE i # n /\ j # n
      BY <2>3, <1>1, <1>2, <1>4 DEF ReportedOnce
    <2> QED
      BY <2>1, <2>2, <2>3
  <1>5. ReportedOnce(x) /\ (x = e => ~Reported(x)) => ReportedOnce(x)'
    BY <1>4 DEF ReportedOnce
  <1> QED
    BY <1>3, <1>5

\* An event that may follow what has been told goes on with the story.
LEMMA StoryGoesOn ==
    ASSUME SocketType, EventsTellTheStory, NEW e \in Event, Put(e),
           e = "Connect" \/ e = "ConnectFailure" => m_recv = << >>,
           m_recv # << >> => m_recv[1] = "Connect",
           m_recv = << >> => e = "Connect" \/ e = "ConnectFailure",
           Reported("ReadError") => e = "WriteError",
           e = "WriteError" => ~Reported("WriteError"),
           \/ ~m_bConnected'
           \/ /\ ~Reported("ReadError") /\ ~Reported("WriteError")
              /\ e \notin {"ReadError", "WriteError"}
    PROVE  EventsTellTheStory'
  <1>1. m_recv'[1] = "Connect" \/ m_recv' = <<"ConnectFailure">>
    <2>1. CASE m_recv = << >>
      <3>1. m_recv' = <<e>>
        BY <2>1, PutFacts
      <3> QED
        BY <2>1, <3>1
    <2>2. CASE m_recv # << >>
      BY <2>2, PutFacts
    <2> QED
      BY <2>1, <2>2
  <1>2. ASSUME NEW x \in {"Connect", "ReadError", "WriteError"} PROVE ReportedOnce(x)'
    <2>1. ReportedOnce(x)
      BY DEF EventsTellTheStory
    <2>2. x = e => ~Reported(x)
      BY DEF Reported
    <2> QED
      BY <2>1, <2>2, ReportedBefore
  <1>3. (Reported("ReadError") \/ Reported("WriteError"))' => ~m_bConnected'
    <2>1. /\ Reported("ReadError")' <=> Reported("ReadError") \/ "ReadError" = e
          /\ Reported("WriteError")' <=> Reported("WriteError") \/ "WriteError" = e
      BY ReportedBefore
    <2> QED
      BY <2>1
  <1>4. ASSUME NEW i \in DOMAIN m_recv', NEW j \in DOMAIN m_recv',
               m_recv'[i] = "ReadError", i < j
        PROVE  m_recv'[j] = "WriteError"
    <2>1. PICK n \in DOMAIN m_recv' :
              /\ m_recv'[n] = e
              /\ \A k \in DOMAIN m_recv' : k = n \/ (k \in DOMAIN m_recv /\ k < n)
      BY PutFacts
    <2>2. \A k \in DOMAIN m_recv : k \in DOMAIN m_recv' /\ m_recv'[k] = m_recv[k]
      BY PutFacts
    <2>3. DOMAIN m_recv' \subseteq Nat
      <3>1. m_recv' \in Seq(Event)
        BY AppendType DEF Put, SocketType
      <3> QED
        BY <3>1, LenProperties
    <2>4. i # n
      BY <2>1, <2>3, <1>4
    <2>5. i \in DOMAIN m_recv /\ m_recv[i] = "ReadError"
      BY <2>1, <2>2, <2>4, <1>4
    <2>6. CASE j = n
      BY <2>1, <2>5, <2>6 DEF Reported
    <2>7. CASE j # n
      BY <2>1, <2>2, <2>5, <2>7, <1>4 DEF EventsTellTheStory
    <2> QED
      BY <2>6, <2>7
  <1> QED
    BY <1>1, <1>2, <1>3, <1>4 DEF EventsTellTheStory

\* A step that tells nothing, and opens no connection that is reported closed.
LEMMA StoryKept ==
    ASSUME EventsTellTheStory, m_recv' = m_recv,
           m_bConnected' => m_bConnected \/ m_recv = <<"Connect">>
    PROVE  EventsTellTheStory'
  <1>1. m_recv = <<"Connect">> => ~Reported("ReadError") /\ ~Reported("WriteError")
    BY DEF Reported
  <1>2. \A x : (Reported(x)' <=> Reported(x)) /\ (ReportedOnce(x)' <=> ReportedOnce(x))
    BY DEF Reported, ReportedOnce
  <1> QED
    BY <1>1, <1>2, Zenon DEF EventsTellTheStory

\* The handlers that put an event.
LEMMA StoryPut ==
    ASSUME SocketType, StoryInv,
           HandleConnect \/ HandleConnectFailure \/ Closemsg \/ (HandleRead /\ Put("Message"))
    PROVE  StoryInv'
  <1> USE DEF socketVars
  <1>0. ThreadInv /\ ReadEnded /\ WriteEnded /\ EventsTellTheStory
    BY DEF StoryInv
  <1>1. CASE HandleConnect
    <2>1. Put("Connect") /\ m_recv = << >> /\ "Connect" \in Event
      BY <1>0, <1>1 DEF HandleConnect, ThreadInv, Event
    <2>2. \A x : ~Reported(x)
      BY <2>1 DEF Reported
    <2>3. m_recv' = <<"Connect">> /\ EventsTellTheStory'
      BY <1>0, <2>1, <2>2, PutFacts, StoryGoesOn
    <2>4. ~Reported("ReadError")' /\ ~Reported("WriteError")'
      BY <2>1, <2>2, ReportedBefore
    <2> QED
      BY <1>0, <1>1, <2>3, <2>4
         DEF HandleConnect, StoryInv, ThreadInv, Started, ReadEnded, WriteEnded
  <1>2. CASE HandleConnectFailure
    <2>1. Put("ConnectFailure") /\ m_recv = << >> /\ "ConnectFailure" \in Event
      BY <1>0, <1>2 DEF HandleConnectFailure, ThreadInv, Event
    <2>2. \A x : ~Reported(x)
      BY <2>1 DEF Reported
    <2>3. EventsTellTheStory'
      BY <1>0, <2>1, <2>2, StoryGoesOn
    <2>4. ~Reported("ReadError")' /\ ~Reported("WriteError")'
      BY <2>1, <2>2, ReportedBefore
    <2> QED
      BY <1>0, <1>2, <2>3, <2>4
         DEF HandleConnectFailure, StoryInv, ThreadInv, Started, ReadEnded, WriteEnded
  <1>3. CASE Closemsg
    <2>1. /\ ioThread \in {"ReadError", "WriteError"} /\ ioThread \in Event
          /\ Put(ioThread) /\ ioThread' = "run"
          /\ UNCHANGED <<m_bConnected, reading, writing, write_msgs>>
      BY <1>3 DEF Closemsg, Event
    <2>2. ~m_bConnected
      BY <1>0, <2>1 DEF ReadEnded, WriteEnded
    <2>3. m_recv # << >> /\ m_recv[1] = "Connect"
      BY <1>0, <2>1 DEF ThreadInv, Started
    <2>4. EventsTellTheStory'
      <3>1. Reported("ReadError") => ioThread = "WriteError"
        BY <1>0, <2>1 DEF ReadEnded
      <3>2. ioThread = "WriteError" => ~Reported("WriteError")
        BY <1>0 DEF WriteEnded
      <3> QED
        BY <1>0, <2>1, <2>2, <2>3, <3>1, <3>2, StoryGoesOn
    <2>5. /\ Reported("ReadError")' <=> Reported("ReadError") \/ ioThread = "ReadError"
          /\ Reported("WriteError")' <=> Reported("WriteError") \/ ioThread = "WriteError"
      BY <2>1, ReportedBefore
    <2>6. m_recv' # << >> /\ m_recv'[1] = "Connect"
      BY <2>1, <2>3, PutFacts
    <2>7. ReadEnded' /\ WriteEnded'
      BY <1>0, <2>1, <2>5 DEF ReadEnded, WriteEnded
    <2>8. ThreadInv'
      BY <2>1, <2>6 DEF ThreadInv, Started
    <2> QED
      BY <2>4, <2>7, <2>8 DEF StoryInv
  <1>4. CASE HandleRead /\ Put("Message")
    <2>1. /\ Put("Message") /\ "Message" \in Event
          /\ ioThread = "run" /\ reading = "done" /\ reading' = "pending"
          /\ UNCHANGED <<ioThread, m_bConnected, writing, write_msgs>>
      BY <1>4 DEF HandleRead, Event
    <2>2. ~Reported("ReadError")
      BY <1>0, <2>1 DEF ReadEnded
    <2>3. m_recv # << >> /\ m_recv[1] = "Connect"
      BY <1>0, <2>1 DEF ThreadInv, Started
    <2>4. EventsTellTheStory'
      <3>1. Reported("WriteError") => ~m_bConnected'
        BY <1>0, <2>1 DEF EventsTellTheStory
      <3> QED
        BY <1>0, <2>1, <2>2, <2>3, <3>1, StoryGoesOn
    <2>5. /\ Reported("ReadError")' <=> Reported("ReadError")
          /\ Reported("WriteError")' <=> Reported("WriteError")
      BY <2>1, ReportedBefore
    <2>6. m_recv' # << >> /\ m_recv'[1] = "Connect"
      BY <2>1, <2>3, PutFacts
    <2>7. ReadEnded' /\ WriteEnded'
      BY <1>0, <2>1, <2>2, <2>5 DEF ReadEnded, WriteEnded
    <2>8. ThreadInv'
      BY <2>1, <2>6 DEF ThreadInv, Started
    <2> QED
      BY <2>4, <2>7, <2>8 DEF StoryInv
  <1> QED
    BY <1>1, <1>2, <1>3, <1>4

LEMMA StoryStep == TypeInv /\ StoryInv /\ [Next]_clientVars => StoryInv'
  <1> SUFFICES ASSUME TypeInv, StoryInv, [Next]_clientVars PROVE StoryInv'
    OBVIOUS
  <1>0. /\ SocketType
        /\ ThreadInv /\ ReadEnded /\ WriteEnded /\ EventsTellTheStory
    BY DEF TypeInv, StoryInv
  <1> USE DEF socketVars, programVars, networkVars
  <1>r. ASSUME m_recv' = m_recv PROVE \A x : Reported(x)' <=> Reported(x)
    BY <1>r DEF Reported
  <1>1. ASSUME UNCHANGED <<ioThread, m_recv, m_bConnected, reading, writing, write_msgs>>
        PROVE  StoryInv'
    <2>1. EventsTellTheStory'
      BY <1>0, <1>1, StoryKept
    <2> QED
      BY <1>0, <1>1, <1>r, <2>1 DEF StoryInv, ThreadInv, Started, ReadEnded, WriteEnded
  <1>2. CASE HandleConnect \/ HandleConnectFailure \/ Closemsg
    BY <1>0, <1>2, StoryPut
  <1>3. CASE BeginReading
    <2>1. /\ ioThread = "announced" /\ ioThread' = "run" /\ reading' = "pending"
          /\ UNCHANGED <<m_recv, writing, write_msgs>>
      BY <1>3 DEF BeginReading
    <2>2. m_recv = <<"Connect">>
      BY <1>0, <2>1 DEF ThreadInv
    <2>3. ~Reported("ReadError") /\ ~Reported("WriteError")
      BY <2>2 DEF Reported
    <2>4. EventsTellTheStory'
      BY <1>0, <2>1, <2>2, StoryKept
    <2> QED
      BY <2>1, <2>2, <2>3, <2>4, <1>r DEF StoryInv, ThreadInv, Started, ReadEnded, WriteEnded
  <1>4. CASE DoWrite
    <2>1. /\ write_msgs' # << >>
          /\ write_msgs # << >> => writing' = writing
          /\ UNCHANGED <<ioThread, m_recv, m_bConnected, reading>>
      <3>1. posted # << >> /\ write_msgs' = Append(write_msgs, Head(posted))
        BY <1>4 DEF DoWrite
      <3>2. Head(posted) \in Package /\ write_msgs \in Seq(Package)
        BY <3>1, TailType DEF TypeInv, ProgramType, SocketType
      <3>3. write_msgs' # << >>
        BY <3>1, <3>2, AppendProperties, EmptySeq
      <3> QED
        BY <1>4, <3>3 DEF DoWrite
    <2>2. EventsTellTheStory'
      BY <1>0, <2>1, StoryKept
    <2> QED
      BY <1>0, <2>1, <2>2, <1>r DEF StoryInv, ThreadInv, Started, ReadEnded, WriteEnded
  <1>5. CASE HandleWrite \/ Transmit
    <2>1. writing # "none" /\ UNCHANGED <<ioThread, m_recv, m_bConnected, reading>>
      BY <1>5 DEF HandleWrite, Transmit
    <2>2. EventsTellTheStory'
      BY <1>0, <2>1, StoryKept
    <2> QED
      BY <1>0, <2>1, <2>2, <1>r DEF StoryInv, ThreadInv, Started, ReadEnded, WriteEnded
  <1>6. CASE HandleWriteError
    <2>1. /\ ioThread = "run" /\ ioThread' = "WriteError"
          /\ writing = "pending" /\ writing' = "none" /\ m_bConnected' = FALSE
          /\ UNCHANGED <<m_recv, reading, write_msgs>>
      BY <1>6 DEF HandleWriteError
    <2>2. EventsTellTheStory'
      BY <1>0, <2>1, StoryKept
    <2>3. write_msgs # << >> /\ ~Reported("WriteError")
      BY <1>0, <2>1 DEF SocketType, WriteEnded
    <2> QED
      BY <1>0, <2>1, <2>2, <2>3, <1>r DEF StoryInv, ThreadInv, Started, ReadEnded, WriteEnded
  <1>7. CASE HandleRead
    <2>1. Put("Message") \/ m_recv' = m_recv
      BY <1>7 DEF HandleRead
    <2>2. CASE m_recv' = m_recv
      <3>1. /\ ioThread = "run" /\ reading = "done"
            /\ UNCHANGED <<ioThread, m_bConnected, writing, write_msgs>>
        BY <1>7 DEF HandleRead
      <3>2. EventsTellTheStory'
        BY <1>0, <2>2, <3>1, StoryKept
      <3> QED
        BY <1>0, <2>2, <3>1, <3>2, <1>r
           DEF StoryInv, ThreadInv, Started, ReadEnded, WriteEnded
    <2> QED
      BY <1>0, <1>7, <2>1, <2>2, StoryPut
  <1>8. CASE HandleReadError
    <2>1. /\ ioThread = "run" /\ ioThread' = "ReadError"
          /\ reading = "pending" /\ reading' = "none" /\ m_bConnected' = FALSE
          /\ UNCHANGED <<m_recv, writing, write_msgs>>
      BY <1>8 DEF HandleReadError
    <2>2. EventsTellTheStory'
      BY <1>0, <2>1, StoryKept
    <2>3. ~Reported("ReadError")
      BY <1>0, <2>1 DEF ReadEnded
    <2> QED
      BY <1>0, <2>1, <2>2, <2>3, <1>r DEF StoryInv, ThreadInv, Started, ReadEnded, WriteEnded
  <1>9. CASE IoThreadEnds
    <2>1. /\ ioThread = "run" /\ ioThread' = "ended"
          /\ UNCHANGED <<m_recv, m_bConnected, reading, writing, write_msgs>>
      BY <1>9 DEF IoThreadEnds
    <2>2. EventsTellTheStory'
      BY <1>0, <2>1, StoryKept
    <2> QED
      BY <1>0, <2>1, <2>2, <1>r DEF StoryInv, ThreadInv, Started, ReadEnded, WriteEnded
  <1>10. CASE Arrive
    <2>1. /\ reading = "pending"
          /\ UNCHANGED <<ioThread, m_recv, m_bConnected, writing, write_msgs>>
      BY <1>10 DEF Arrive
    <2>2. EventsTellTheStory'
      BY <1>0, <2>1, StoryKept
    <2> QED
      BY <1>0, <2>1, <2>2, <1>r DEF StoryInv, ThreadInv, Started, ReadEnded, WriteEnded
  <1>11. CASE SendTransform \/ SendData \/ SendBig
    BY <1>1, <1>11 DEF SendTransform, SendData, SendBig, SendBegins
  <1>12. CASE (\E t \in Thread : Write(t)) \/ SendHeartbeat \/ SwapQueue \/ HandleMessage
    BY <1>1, <1>12 DEF Write, SendHeartbeat, SwapQueue, HandleMessage
  <1>13. CASE Serve \/ Tell \/ Break
    BY <1>1, <1>13 DEF Serve, Tell, Break
  <1>14. CASE UNCHANGED clientVars
    BY <1>1, <1>14 DEF clientVars
  <1> QED
    BY <1>2, <1>3, <1>4, <1>5, <1>6, <1>7, <1>8, <1>9, <1>10, <1>11, <1>12, <1>13, <1>14
       DEF Next, IoThread

\* What the main loop is told makes sense: whatever the order of the handlers,
\* of the threads that send and of the errors, every way of ending is reported
\* once at most, of a connection that is closed already, and no message follows
\* the error of the read.
THEOREM EventsMakeSense == Spec => []EventsTellTheStory
  <1>1. StoryInv => EventsTellTheStory
    BY DEF StoryInv
  <1> QED
    BY <1>1, ClientTypeInv, StoryInit, StoryStep, PTL DEF Spec

-----------------------------------------------------------------------------
(* The packages on their way to the server. *)

\* An element may be moved over from the end of a sequence to the front of the
\* one behind it.
LEMMA AppendConcat ==
    ASSUME NEW S, NEW s \in Seq(S), NEW t \in Seq(S), NEW e \in S
    PROVE  Append(s, e) \o t = s \o (<<e>> \o t)
  <1>1. <<e>> \in Seq(S)
    OBVIOUS
  <1>2. Append(s, e) = s \o <<e>>
    BY AppendIsConcat
  <1>3. (s \o <<e>>) \o t = s \o (<<e>> \o t)
    BY <1>1, ConcatAssociative
  <1> QED
    BY <1>2, <1>3

\* Appending to the last of two sequences is appending to both together.
LEMMA ConcatAppend ==
    ASSUME NEW S, NEW s \in Seq(S), NEW t \in Seq(S), NEW e \in S
    PROVE  s \o Append(t, e) = Append(s \o t, e)
  <1>1. <<e>> \in Seq(S) /\ s \o t \in Seq(S)
    BY ConcatProperties
  <1>2. Append(t, e) = t \o <<e>> /\ Append(s \o t, e) = (s \o t) \o <<e>>
    BY <1>1, AppendIsConcat
  <1>3. (s \o t) \o <<e>> = s \o (t \o <<e>>)
    BY <1>1, ConcatAssociative
  <1> QED
    BY <1>2, <1>3

LEMMA HeadThenTail ==
    ASSUME NEW S, NEW q \in Seq(S), q # << >>
    PROVE  <<Head(q)>> \o Tail(q) = q
  <1>1. /\ Head(q) \in S /\ Tail(q) \in Seq(S)
        /\ Len(Tail(q)) = Len(q) - 1
        /\ \A i \in 1 .. Len(Tail(q)) : Tail(q)[i] = q[i + 1]
    BY HeadTailProperties
  <1>2. Len(q) \in Nat /\ Len(q) # 0 /\ Head(q) = q[1]
    BY LenProperties, EmptySeq
  <1>3. <<Head(q)>> \in Seq(S) /\ Len(<<Head(q)>>) = 1 /\ <<Head(q)>>[1] = Head(q)
    BY <1>1
  <1> DEFINE h == <<Head(q)>>
             r == Tail(q)
  <1>4. h \o r \in Seq(S) /\ Len(h \o r) = Len(h) + Len(r)
    BY <1>1, <1>3, ConcatProperties
  <1>5. \A i \in 1 .. Len(h) + Len(r) :
            (h \o r)[i] = IF i <= Len(h) THEN h[i] ELSE r[i - Len(h)]
    BY <1>1, <1>3, ConcatProperties
  <1>6. Len(h \o r) = Len(q)
    BY <1>1, <1>2, <1>3, <1>4
  <1>7. \A i \in 1 .. Len(q) : (h \o r)[i] = q[i]
    <2> SUFFICES ASSUME NEW i \in 1 .. Len(q) PROVE (h \o r)[i] = q[i]
      OBVIOUS
    <2>1. (h \o r)[i] = IF i <= 1 THEN h[i] ELSE r[i - 1]
      BY <1>1, <1>2, <1>3, <1>5
    <2>2. CASE i = 1
      BY <2>1, <2>2, <1>2, <1>3
    <2>3. CASE i # 1
      <3>1. i - 1 \in 1 .. Len(r) /\ i - 1 + 1 = i
        BY <1>1, <1>2, <2>3
      <3> QED
        BY <2>1, <2>3, <3>1, <1>1
    <2> QED
      BY <2>2, <2>3
  <1> QED
    BY <1>4, <1>6, <1>7, SeqEqual

\* What is appended behind others does not become the head.
LEMMA TailOfAppend ==
    ASSUME NEW q \in Seq(Package), q # << >>, NEW e \in Package
    PROVE  Tail(Append(q, e)) = Append(Tail(q), e) /\ Tail(q) \in Seq(Package)
  <1> DEFINE l == Tail(Append(q, e))
             r == Append(Tail(q), e)
             n == Len(q)
  <1>1. n \in Nat /\ n # 0
    BY LenProperties, EmptySeq
  <1>2. /\ Tail(q) \in Seq(Package) /\ Len(Tail(q)) = n - 1
        /\ \A k \in 1 .. Len(Tail(q)) : Tail(q)[k] = q[k + 1]
    BY HeadTailProperties
  <1>3. /\ Append(q, e) \in Seq(Package) /\ Append(q, e) # << >>
        /\ Len(Append(q, e)) = n + 1 /\ Append(q, e)[n + 1] = e
        /\ \A k \in 1 .. n : Append(q, e)[k] = q[k]
    BY AppendProperties
  <1>4. /\ l \in Seq(Package) /\ Len(l) = Len(Append(q, e)) - 1
        /\ \A k \in 1 .. Len(l) : l[k] = Append(q, e)[k + 1]
    BY <1>3, HeadTailProperties
  <1>5. /\ r \in Seq(Package) /\ Len(r) = Len(Tail(q)) + 1 /\ r[Len(Tail(q)) + 1] = e
        /\ \A k \in 1 .. Len(Tail(q)) : r[k] = Tail(q)[k]
    BY <1>2, AppendProperties
  <1> HIDE DEF l, r, n
  <1>6. Len(l) = n /\ Len(r) = n
    BY <1>1, <1>2, <1>3, <1>4, <1>5
  <1>7. ASSUME NEW k \in 1 .. n PROVE l[k] = r[k]
    <2>1. CASE k = n
      BY <1>1, <1>2, <1>3, <1>4, <1>5, <1>6, <2>1
    <2>2. CASE k # n
      <3>1. k \in 1 .. n - 1 /\ k + 1 \in 1 .. n
        BY <1>1, <2>2
      <3> QED
        BY <1>2, <1>3, <1>4, <1>5, <1>6, <3>1
    <2> QED
      BY <2>1, <2>2
  <1>8. l = r
    BY <1>4, <1>5, <1>6, <1>7, SeqEqual
  <1> QED
    BY <1>2, <1>8 DEF l, r

\* The same for packages, to be instantiated by matching.
LEMMA AppendToConcat ==
    \A s, t \in Seq(Package) : \A p \in Package : s \o Append(t, p) = Append(s \o t, p)
  BY ConcatAppend

\* The messages of the queue that have not been written.
Unwritten == IF writing = "done" THEN Tail(write_msgs) ELSE write_msgs

\* Behind what the server has read are the packages on the way, in the queue of
\* the io thread and in that of the io_service.
Unserved == toServer \o (Unwritten \o posted)

OrderInv == accepted = served \o Unserved

LEMMA PlacesType ==
    ASSUME TypeInv
    PROVE  /\ Unwritten \in Seq(Package)
           /\ Unwritten \o posted \in Seq(Package)
           /\ Unserved \in Seq(Package)
  <1>1. /\ posted \in Seq(Package) /\ write_msgs \in Seq(Package) /\ toServer \in Seq(Package)
        /\ writing = "done" => write_msgs # << >>
    BY DEF TypeInv, ProgramType, SocketType, NetworkType
  <1>2. Unwritten \in Seq(Package)
    BY <1>1, TailType DEF Unwritten
  <1>3. Unwritten \o posted \in Seq(Package)
    BY <1>1, <1>2, ConcatProperties
  <1>4. Unserved \in Seq(Package)
    BY <1>1, <1>3, ConcatProperties DEF Unserved
  <1> QED
    BY <1>2, <1>3, <1>4

\* do_write adds the first package posted to what has not been written.
LEMMA UnwrittenGrows == ASSUME TypeInv, DoWrite PROVE Unwritten' = Append(Unwritten, Head(posted))
  <1>1. /\ posted # << >> /\ write_msgs' = Append(write_msgs, Head(posted))
        /\ writing' = IF write_msgs = << >> THEN "pending" ELSE writing
    BY DEF DoWrite
  <1>2. /\ Head(posted) \in Package /\ write_msgs \in Seq(Package)
        /\ writing # "none" => write_msgs # << >>
    BY <1>1, TailType DEF TypeInv, ProgramType, SocketType
  <1>3. CASE writing = "done"
    <2>1. writing' = "done" /\ write_msgs # << >>
      BY <1>1, <1>2, <1>3
    <2>2. Tail(Append(write_msgs, Head(posted))) = Append(Tail(write_msgs), Head(posted))
      BY <1>2, <2>1, TailOfAppend
    <2> QED
      BY <1>1, <1>3, <2>1, <2>2 DEF Unwritten
  <1>4. CASE writing # "done"
    BY <1>1, <1>4 DEF Unwritten
  <1> QED
    BY <1>3, <1>4

LEMMA OrderInit == Init => OrderInv
  BY DEF Init, OrderInv, Unserved, Unwritten

\* The first of a sequence may be moved over to the end of the one before it.
LEMMA HeadMoved ==
    ASSUME NEW p \in Seq(Package), NEW q \in Seq(Package), q # << >>
    PROVE  Append(p, Head(q)) \o Tail(q) = p \o q
  <1>1. Head(q) \in Package /\ Tail(q) \in Seq(Package)
    BY TailType
  <1> QED
    BY <1>1, AppendConcat, HeadThenTail

\* The same with another sequence behind.
LEMMA HeadMovedBetween ==
    ASSUME NEW p \in Seq(Package), NEW q \in Seq(Package), NEW r \in Seq(Package),
           q # << >>
    PROVE  Append(p, Head(q)) \o (Tail(q) \o r) = p \o (q \o r)
  <1>1. Head(q) \in Package /\ Tail(q) \in Seq(Package)
    BY TailType
  <1>2. Tail(q) \o r \in Seq(Package)
    BY <1>1, ConcatProperties
  <1>3. Append(p, Head(q)) \o (Tail(q) \o r) = p \o (<<Head(q)>> \o (Tail(q) \o r))
    <2> DEFINE h == Head(q)
               t == Tail(q) \o r
    <2>1. h \in Package /\ t \in Seq(Package)
      BY <1>1, <1>2
    <2> HIDE DEF h, t
    <2>2. Append(p, h) \o t = p \o (<<h>> \o t)
      BY <2>1, AppendConcat
    <2> QED
      BY <2>2 DEF h, t
  <1>4. <<Head(q)>> \o (Tail(q) \o r) = (<<Head(q)>> \o Tail(q)) \o r
    <2>1. <<Head(q)>> \in Seq(Package)
      BY <1>1
    <2> QED
      BY <1>1, <2>1, ConcatAssociative
  <1> QED
    BY <1>3, <1>4, HeadThenTail

\* Each step moves a package to the next place, or adds one behind all others.
LEMMA OrderStep == TypeInv /\ OrderInv /\ [Next]_clientVars => OrderInv'
  <1> SUFFICES ASSUME TypeInv, OrderInv, [Next]_clientVars PROVE OrderInv'
    OBVIOUS
  <1>0. /\ posted \in Seq(Package) /\ write_msgs \in Seq(Package)
        /\ toServer \in Seq(Package) /\ served \in Seq(Package)
        /\ sending \in [Thread -> Seq(Package)]
        /\ Unwritten \in Seq(Package) /\ Unwritten \o posted \in Seq(Package)
        /\ Unserved \in Seq(Package)
        /\ writing # "none" => write_msgs # << >>
    BY PlacesType DEF TypeInv, ProgramType, SocketType, NetworkType
  <1> USE DEF socketVars, programVars, networkVars
  <1>1. ASSUME UNCHANGED <<posted, accepted, served, toServer>>, Unwritten' = Unwritten
        PROVE  OrderInv'
    BY <1>1 DEF OrderInv, Unserved
  <1>2. ASSUME UNCHANGED <<posted, accepted, served, toServer, write_msgs, writing>>
        PROVE  OrderInv'
    BY <1>1, <1>2 DEF Unwritten
  <1>3. CASE DoWrite
    <2>1. /\ posted # << >> /\ posted' = Tail(posted)
          /\ UNCHANGED <<accepted, served, toServer>>
      BY <1>3 DEF DoWrite
    <2>2. Unwritten' = Append(Unwritten, Head(posted))
      BY <1>3, UnwrittenGrows
    <2>3. Unwritten' \o posted' = Unwritten \o posted
      BY <1>0, <2>1, <2>2, HeadMoved
    <2> QED
      BY <2>1, <2>3 DEF OrderInv, Unserved
  <1>4. CASE HandleWrite
    <2>1. Unwritten' = Unwritten /\ UNCHANGED <<posted, accepted, served, toServer>>
      BY <1>4 DEF HandleWrite, Unwritten
    <2> QED
      BY <1>1, <2>1
  <1>5. CASE HandleWriteError
    <2>1. Unwritten' = Unwritten /\ UNCHANGED <<posted, accepted, served, toServer>>
      BY <1>5 DEF HandleWriteError, Unwritten
    <2> QED
      BY <1>1, <2>1
  <1>6. CASE Transmit
    <2>1. /\ write_msgs # << >>
          /\ toServer' = Append(toServer, Head(write_msgs))
          /\ Unwritten = write_msgs /\ Unwritten' = Tail(write_msgs)
          /\ UNCHANGED <<posted, accepted, served>>
      BY <1>0, <1>6 DEF Transmit, Unwritten
    <2>2. Append(toServer, Head(write_msgs)) \o (Tail(write_msgs) \o posted)
            = toServer \o (write_msgs \o posted)
      <3>1. /\ toServer \in Seq(Package) /\ write_msgs \in Seq(Package)
            /\ posted \in Seq(Package) /\ write_msgs # << >>
        BY <1>0, <2>1
      <3> QED
        BY <3>1, HeadMovedBetween, Zenon
    <2>3. Unserved' = Unserved
      BY <2>1, <2>2, Zenon DEF Unserved
    <2> QED
      BY <2>1, <2>3 DEF OrderInv
  <1>7. CASE Serve
    <2>1. /\ toServer # << >> /\ toServer' = Tail(toServer)
          /\ served' = Append(served, Head(toServer))
          /\ UNCHANGED <<posted, accepted>>
          /\ Unwritten' = Unwritten
      BY <1>7 DEF Serve, Unwritten
    <2> DEFINE rest == Unwritten \o posted
    <2>2. Append(served, Head(toServer)) \o (Tail(toServer) \o rest)
            = served \o (toServer \o rest)
      <3>1. /\ rest \in Seq(Package) /\ served \in Seq(Package)
            /\ toServer \in Seq(Package) /\ toServer # << >>
        BY <1>0, <2>1
      <3> HIDE DEF rest
      <3> QED
        BY <3>1, HeadMovedBetween, Zenon
    <2>3. served' \o Unserved' = served \o Unserved
      BY <2>1, <2>2, Zenon DEF Unserved
    <2> QED
      BY <2>1, <2>3 DEF OrderInv
  <1>8. ASSUME NEW t \in Thread, Write(t) PROVE OrderInv'
    <2> DEFINE p == Head(sending[t])
    <2>1. /\ sending[t] # << >> /\ posted' = Append(posted, p)
          /\ accepted' = Append(accepted, p)
          /\ UNCHANGED <<served, toServer>> /\ Unwritten' = Unwritten
      BY <1>8 DEF Write, Unwritten
    <2>2. p \in Package
      BY <1>0, <2>1, TailType
    <2> HIDE DEF p
    <2>3. Unwritten \o Append(posted, p) = Append(Unwritten \o posted, p)
      BY <1>0, <2>2, AppendToConcat, Zenon
    <2>4. Unserved' = Append(Unserved, p)
      <3>1. toServer \o Append(Unwritten \o posted, p) = Append(toServer \o (Unwritten \o posted), p)
        BY <1>0, <2>2, AppendToConcat, Zenon
      <3>2. Unserved' = toServer \o Append(Unwritten \o posted, p)
        BY <2>1, <2>3 DEF Unserved
      <3> QED
        BY <3>1, <3>2 DEF Unserved
    <2>5. served \o Append(Unserved, p) = Append(served \o Unserved, p)
      BY <1>0, <2>2, AppendToConcat, Zenon
    <2> QED
      BY <2>1, <2>4, <2>5 DEF OrderInv
  <1>9. CASE HandleConnect \/ HandleConnectFailure \/ BeginReading \/ HandleRead
    BY <1>2, <1>9 DEF HandleConnect, HandleConnectFailure, BeginReading, HandleRead
  <1>10. CASE HandleReadError \/ Closemsg \/ IoThreadEnds
    BY <1>2, <1>10 DEF HandleReadError, Closemsg, IoThreadEnds
  <1>11. CASE SendTransform \/ SendData \/ SendBig
    BY <1>2, <1>11 DEF SendTransform, SendData, SendBig, SendBegins
  <1>12. CASE SendHeartbeat \/ SwapQueue \/ HandleMessage
    BY <1>2, <1>12 DEF SendHeartbeat, SwapQueue, HandleMessage
  <1>13. CASE Arrive \/ Tell \/ Break
    BY <1>2, <1>13 DEF Arrive, Tell, Break
  <1>14. CASE UNCHANGED clientVars
    BY <1>2, <1>14 DEF clientVars
  <1> QED
    BY <1>3, <1>4, <1>5, <1>6, <1>7, <1>8, <1>9, <1>10, <1>11, <1>12, <1>13, <1>14
       DEF Next, IoThread

-----------------------------------------------------------------------------
(* The client implements the channel. *)

\* The safety half of ImplementsChannel.
ChannelSafety == Channel!Init /\ [][Channel!Next]_(Channel!channelVars)

\* Posting a package, the server's reading it and the end of the connection are
\* steps of the channel; the others do not touch it.
LEMMA ChannelStep ==
    TypeInv /\ OrderInv /\ [Next]_clientVars => [Channel!Next]_(Channel!channelVars)
  <1> SUFFICES ASSUME TypeInv, OrderInv, [Next]_clientVars
               PROVE  [Channel!Next]_(Channel!channelVars)
    OBVIOUS
  <1> USE DEF socketVars, programVars, networkVars
  <1>1. ASSUME UNCHANGED <<accepted, served, broken>>
        PROVE  UNCHANGED Channel!channelVars
    BY <1>1 DEF Channel!channelVars
  <1>2. ASSUME NEW t \in Thread, Write(t) PROVE Channel!Next
    <2>1. /\ sending[t] # << >> /\ accepted' = Append(accepted, Head(sending[t]))
          /\ UNCHANGED <<served, broken>>
      BY <1>2 DEF Write
    <2>2. Head(sending[t]) \in Package
      BY <2>1, TailType DEF TypeInv, ProgramType
    <2>3. Channel!Accept(Head(sending[t]))
      BY <2>1 DEF Channel!Accept
    <2> QED
      BY <2>2, <2>3 DEF Channel!Next
  <1>3. CASE Serve
    <2>1. /\ toServer # << >> /\ served' = Append(served, Head(toServer))
          /\ UNCHANGED <<accepted, broken>>
      BY <1>3 DEF Serve
    <2>2. /\ served \in Seq(Package) /\ toServer \in Seq(Package)
          /\ Unwritten \o posted \in Seq(Package) /\ Unserved \in Seq(Package)
      BY PlacesType DEF TypeInv, NetworkType
    <2>3. /\ Len(served) \in Nat /\ Len(toServer) \in Nat /\ Len(toServer) # 0
          /\ Len(Unwritten \o posted) \in Nat /\ Head(toServer) = toServer[1]
      BY <2>1, <2>2, LenProperties, EmptySeq, HeadTailProperties
    <2>4. /\ Len(Unserved) = Len(toServer) + Len(Unwritten \o posted)
          /\ Unserved[1] = Head(toServer)
      BY <2>2, <2>3, ConcatProperties DEF Unserved
    <2>5. /\ Len(accepted) = Len(served) + Len(Unserved)
          /\ accepted[Len(served) + 1] = Unserved[1]
      <3>1. accepted = served \o Unserved
        BY DEF OrderInv
      <3>2. \A i \in 1 .. Len(served) + Len(Unserved) : (served \o Unserved)[i] =
                IF i <= Len(served) THEN served[i] ELSE Unserved[i - Len(served)]
        BY <2>2, ConcatProperties
      <3>3. /\ Len(served) + 1 \in 1 .. Len(served) + Len(Unserved)
            /\ ~(Len(served) + 1 <= Len(served)) /\ Len(served) + 1 - Len(served) = 1
        BY <2>3, <2>4
      <3>4. (served \o Unserved)[Len(served) + 1] = Unserved[1]
        BY <3>2, <3>3
      <3>5. Len(served \o Unserved) = Len(served) + Len(Unserved)
        BY <2>2, ConcatProperties
      <3> QED
        BY <3>1, <3>4, <3>5
    <2>6. Len(served) < Len(accepted)
      BY <2>3, <2>4, <2>5
    <2>7. Channel!Deliver
      BY <2>1, <2>4, <2>5, <2>6 DEF Channel!Deliver
    <2> QED
      BY <2>7 DEF Channel!Next
  <1>4. CASE Break
    BY <1>4 DEF Break, Channel!Next, Channel!Break
  <1>5. CASE IoThread
    <2>1. UNCHANGED <<accepted, served, broken>>
      BY <1>5 DEF IoThread, HandleConnect, BeginReading, HandleConnectFailure, DoWrite,
                  HandleWrite, HandleWriteError, HandleRead, HandleReadError, Closemsg,
                  IoThreadEnds
    <2> QED
      BY <1>1, <2>1
  <1>6. CASE SendTransform \/ SendData \/ SendBig
    BY <1>1, <1>6 DEF SendTransform, SendData, SendBig, SendBegins
  <1>7. CASE SendHeartbeat \/ SwapQueue \/ HandleMessage \/ Transmit \/ Arrive \/ Tell
    BY <1>1, <1>7 DEF SendHeartbeat, SwapQueue, HandleMessage, Transmit, Arrive, Tell
  <1>8. CASE UNCHANGED clientVars
    BY <1>1, <1>8 DEF clientVars
  <1> QED
    BY <1>2, <1>3, <1>4, <1>5, <1>6, <1>7, <1>8 DEF Next

\* What two threads post, heartbeats included, is read by the server in the order
\* of posting, once and unaltered: each step of the client, the network and the
\* server is a step of the abstract channel, or none of its concern.
THEOREM ClientIsChannel == Spec => ChannelSafety
  <1>1. Init => Channel!Init
    BY DEF Init, Channel!Init
  <1> QED
    BY <1>1, ClientTypeInv, OrderInit, OrderStep, ChannelStep, PTL DEF Spec, ChannelSafety

-----------------------------------------------------------------------------
(* Nothing is left lying. *)

\* The connection was made: handle_connect has begun the first read.
Made == Reported("Connect") /\ ioThread # "announced"

\* While the connection lasts it is read, and what is in the queue is being
\* written; it ends only when it breaks, and a read is outstanding until then.
LinkInv ==
    /\ m_bConnected => Made /\ ioThread = "run" /\ reading # "none"
    /\ Made /\ ~m_bConnected => broken
    /\ write_msgs # << >> /\ ~broken => writing # "none"
    /\ ~Made => accepted = << >> /\ \A t \in Thread : sending[t] = << >>
    /\ Made => reading # "none" \/ ioThread = "ReadError" \/ Reported("ReadError")
    /\ Made => ioThread \in {"run", "ReadError", "WriteError", "ended"}
    /\ Made /\ ioThread = "ended" => reading = "none"
    /\ Started => Made

LEMMA LinkInit == Init => LinkInv
  BY DEF Init, LinkInv, Made, Started, Reported

LEMMA LinkStep == TypeInv /\ StoryInv /\ LinkInv /\ [Next]_clientVars => LinkInv'
  <1> SUFFICES ASSUME TypeInv, StoryInv, LinkInv, [Next]_clientVars PROVE LinkInv'
    OBVIOUS
  <1>0. /\ SocketType
        /\ write_msgs \in Seq(Package)
        /\ ioThread = "connecting" => m_recv = << >>
        /\ ioThread = "announced" => ~Reported("ReadError")
        /\ {"Connect", "ConnectFailure", "ReadError", "WriteError", "Message"} = Event
    BY DEF TypeInv, SocketType, StoryInv, ThreadInv, Reported, Event
  <1> USE DEF socketVars, programVars, networkVars
  <1>r. ASSUME m_recv' = m_recv PROVE \A x : Reported(x)' <=> Reported(x)
    BY <1>r DEF Reported
  <1>p. ASSUME NEW e \in Event, Put(e) PROVE \A x : Reported(x)' <=> Reported(x) \/ x = e
    BY <1>0, <1>p, ReportedBefore
  <1>1. ASSUME UNCHANGED <<ioThread, m_recv, m_bConnected, reading, writing, write_msgs>>,
               broken => broken',
               Made \/ UNCHANGED <<accepted, sending>>
        PROVE  LinkInv'
    BY <1>1, <1>r DEF LinkInv, Made, Started
  <1>2. CASE HandleConnect
    <2>1. /\ ioThread = "connecting" /\ ioThread' = "announced" /\ Put("Connect")
          /\ UNCHANGED <<m_bConnected, reading, writing, write_msgs, broken, accepted, sending>>
      BY <1>2 DEF HandleConnect
    <2>2. ~Reported("Connect")
      BY <1>0, <2>1 DEF Reported
    <2> QED
      BY <2>1, <2>2 DEF LinkInv, Made, Started
  <1>3. CASE HandleConnectFailure
    <2>1. /\ ioThread = "connecting" /\ ioThread' = "ended" /\ Put("ConnectFailure")
          /\ UNCHANGED <<m_bConnected, reading, writing, write_msgs, broken, accepted, sending>>
      BY <1>3 DEF HandleConnectFailure
    <2>2. ~Reported("Connect") /\ ~Reported("Connect")'
      BY <1>0, <1>p, <2>1 DEF Reported
    <2> QED
      BY <2>1, <2>2 DEF LinkInv, Made, Started
  <1>4. CASE BeginReading
    <2>1. /\ ioThread = "announced" /\ ioThread' = "run"
          /\ m_bConnected' = TRUE /\ reading' = "pending"
          /\ UNCHANGED <<m_recv, writing, write_msgs, broken, accepted, sending>>
      BY <1>4 DEF BeginReading
    <2>2. Reported("Connect")'
      BY <2>1, <1>r DEF StoryInv, ThreadInv, Reported
    <2> QED
      BY <2>1, <2>2 DEF LinkInv, Made, Started
  <1>5. CASE DoWrite
    <2>1. /\ write_msgs = << >> => writing' = "pending"
          /\ write_msgs # << >> => writing' = writing
          /\ UNCHANGED <<ioThread, m_recv, m_bConnected, reading, broken, accepted, sending>>
      BY <1>5 DEF DoWrite
    <2> QED
      BY <2>1, <1>r DEF LinkInv, Made, Started
  <1>6. CASE HandleWrite
    <2>1. /\ write_msgs' = Tail(write_msgs) /\ writing = "done"
          /\ writing' = IF Len(write_msgs) > 1 THEN "pending" ELSE "none"
          /\ UNCHANGED <<ioThread, m_recv, m_bConnected, reading, broken, accepted, sending>>
      BY <1>6 DEF HandleWrite
    <2>2. write_msgs' # << >> => writing' = "pending"
      <3>1. SocketType'
        BY <1>0, <1>6, HandleWriteType
      <3>2. write_msgs # << >>
        BY <1>0, <2>1 DEF SocketType
      <3>3. /\ write_msgs' \in Seq(Package) /\ Len(write_msgs') = Len(write_msgs) - 1
            /\ Len(write_msgs) \in Nat
        BY <1>0, <2>1, <3>2, HeadTailProperties, LenProperties
      <3>4. write_msgs' # << >> => Len(write_msgs') > 0
        BY <3>3, LenProperties, EmptySeq
      <3> QED
        BY <2>1, <3>3, <3>4
    <2> QED
      BY <2>1, <2>2, <1>r DEF LinkInv, Made, Started
  <1>7. CASE HandleWriteError
    <2>1. /\ ioThread = "run" /\ ioThread' = "WriteError"
          /\ m_bConnected' = FALSE /\ (broken \/ ~m_bConnected)
          /\ UNCHANGED <<m_recv, reading, write_msgs, broken, accepted, sending>>
      BY <1>7 DEF HandleWriteError, Failing
    <2>2. Made /\ broken
      BY <2>1 DEF LinkInv, Started
    <2> QED
      BY <2>1, <2>2, <1>r DEF LinkInv, Made, Started
  <1>8. CASE HandleRead
    <2>1. /\ ioThread = "run" /\ reading' = "pending"
          /\ UNCHANGED <<ioThread, m_bConnected, writing, write_msgs, broken, accepted, sending>>
          /\ Put("Message") \/ m_recv' = m_recv
      BY <1>8 DEF HandleRead
    <2>2. \A x \in {"Connect", "ReadError"} : Reported(x)' <=> Reported(x)
      BY <1>0, <1>p, <1>r, <2>1
    <2> QED
      BY <2>1, <2>2 DEF LinkInv, Made, Started
  <1>9. CASE HandleReadError
    <2>1. /\ ioThread = "run" /\ ioThread' = "ReadError"
          /\ reading' = "none" /\ m_bConnected' = FALSE /\ (broken \/ ~m_bConnected)
          /\ UNCHANGED <<m_recv, writing, write_msgs, broken, accepted, sending>>
      BY <1>9 DEF HandleReadError, Failing
    <2>2. Made /\ broken
      BY <2>1 DEF LinkInv, Started
    <2> QED
      BY <2>1, <2>2, <1>r DEF LinkInv, Made, Started
  <1>10. CASE Closemsg
    <2>1. /\ ioThread \in {"ReadError", "WriteError"} /\ Put(ioThread) /\ ioThread' = "run"
          /\ UNCHANGED <<m_bConnected, reading, writing, write_msgs, broken, accepted, sending>>
      BY <1>10 DEF Closemsg
    <2>2. /\ Reported("Connect")' <=> Reported("Connect")
          /\ Reported("ReadError")' <=> Reported("ReadError") \/ ioThread = "ReadError"
      BY <1>0, <1>p, <2>1
    <2>3. Made
      BY <2>1 DEF LinkInv, Started
    <2> QED
      BY <2>1, <2>2, <2>3 DEF LinkInv, Made, Started
  <1>11. CASE IoThreadEnds
    <2>1. /\ ioThread = "run" /\ ioThread' = "ended" /\ reading = "none"
          /\ UNCHANGED <<m_recv, m_bConnected, reading, writing, write_msgs, broken,
                         accepted, sending>>
      BY <1>11 DEF IoThreadEnds
    <2> QED
      BY <2>1, <1>r DEF LinkInv, Made, Started
  <1>12. CASE Transmit
    <2>1. /\ writing' = "done"
          /\ UNCHANGED <<ioThread, m_recv, m_bConnected, reading, write_msgs, broken,
                         accepted, sending>>
      BY <1>12 DEF Transmit
    <2> QED
      BY <2>1, <1>r DEF LinkInv, Made, Started
  <1>13. CASE Arrive
    <2>1. /\ reading = "pending" /\ reading' = "done"
          /\ UNCHANGED <<ioThread, m_recv, m_bConnected, writing, write_msgs, broken,
                         accepted, sending>>
      BY <1>13 DEF Arrive
    <2> QED
      BY <2>1, <1>r DEF LinkInv, Made, Started
  <1>14. CASE SendTransform \/ SendData \/ SendBig \/ SendHeartbeat
    <2>1. /\ m_bConnected
          /\ UNCHANGED <<ioThread, m_recv, m_bConnected, reading, writing, write_msgs, broken>>
      BY <1>14 DEF SendTransform, SendData, SendBig, SendHeartbeat, SendBegins
    <2>2. Made
      BY <2>1 DEF LinkInv
    <2> QED
      BY <1>1, <2>1, <2>2
  <1>15. ASSUME NEW t \in Thread, Write(t) PROVE LinkInv'
    <2>1. /\ sending[t] # << >>
          /\ UNCHANGED <<ioThread, m_recv, m_bConnected, reading, writing, write_msgs, broken>>
      BY <1>15 DEF Write
    <2>2. Made
      BY <2>1 DEF LinkInv
    <2> QED
      BY <1>1, <2>1, <2>2
  <1>16. CASE SwapQueue \/ HandleMessage \/ Serve \/ Tell \/ Break \/ UNCHANGED clientVars
    BY <1>1, <1>16 DEF SwapQueue, HandleMessage, Serve, Tell, Break, clientVars
  <1> QED
    BY <1>2, <1>3, <1>4, <1>5, <1>6, <1>7, <1>8, <1>9, <1>10, <1>11, <1>12, <1>13, <1>14,
       <1>15, <1>16 DEF Next, IoThread

LinkedInv == TypeInv /\ StoryInv /\ OrderInv /\ LinkInv

LEMMA ClientInvariant == Spec => []LinkedInv
  <1>1. Init => LinkedInv
    BY TypeInit, StoryInit, OrderInit, LinkInit DEF LinkedInv
  <1>2. LinkedInv /\ [Next]_clientVars => LinkedInv'
    BY TypeStep, StoryStep, OrderStep, LinkStep DEF LinkedInv
  <1> QED
    BY <1>1, <1>2, PTL DEF Spec

\* While the connection lasts, every package that is posted is in the hands of
\* somebody who takes it on: do_write, handle_write, the network or the server.
PackagesGoOn ==
    ~broken /\ Len(served) < Len(accepted) =>
        \/ ioThread = "run" /\ posted # << >>
        \/ ioThread = "run" /\ writing = "done"
        \/ writing = "pending" /\ ~Failing
        \/ toServer # << >>

LEMMA PackagesCarried == ASSUME LinkedInv PROVE PackagesGoOn
  <1> SUFFICES ASSUME ~broken, Len(served) < Len(accepted)
               PROVE  \/ ioThread = "run" /\ posted # << >>
                      \/ ioThread = "run" /\ writing = "done"
                      \/ writing = "pending" /\ ~Failing
                      \/ toServer # << >>
    BY DEF PackagesGoOn
  <1>1. /\ served \in Seq(Package) /\ Len(served) \in Nat
        /\ accepted = served \o Unserved
        /\ writing \in {"none", "pending", "done"}
    BY LenProperties DEF LinkedInv, TypeInv, NetworkType, SocketType, OrderInv
  <1>2. m_bConnected /\ ioThread = "run"
    <2>1. accepted # << >>
      BY <1>1
    <2> QED
      BY <2>1 DEF LinkedInv, LinkInv
  <1>3. CASE writing = "none" /\ posted = << >> /\ toServer = << >>
    <2>1. write_msgs = << >>
      BY <1>3 DEF LinkedInv, LinkInv
    <2>2. Unserved = << >>
      BY <1>3, <2>1 DEF Unserved, Unwritten
    <2>3. accepted = served
      BY <1>1, <2>2, ConcatEmptySeq
    <2> QED
      BY <1>1, <2>3
  <1> QED
    BY <1>1, <1>2, <1>3 DEF Failing

\* Send leaves no package behind in a queue that nobody looks at again, though
\* it is handle_write, of the package before, that must begin the next write.
THEOREM NoPackageIsLeft == Spec => []PackagesGoOn
  <1>1. LinkedInv => PackagesGoOn
    BY PackagesCarried
  <1> QED
    BY <1>1, ClientInvariant, PTL

\* Until a connection that was made is reported as ended, the io thread runs and
\* has a read to complete, or the report is its next step.
EndIsNoticed ==
    Made => \/ ioThread = "run" /\ reading # "none"
            \/ ioThread \in {"ReadError", "WriteError"}
            \/ Reported("ReadError")

\* io_service::run does not return before the main loop is told of the end of
\* the connection, whichever of the read and the write fails first.
THEOREM IoThreadOutlivesConnection == Spec => []EndIsNoticed
  <1>1. LinkedInv => EndIsNoticed
    BY DEF LinkedInv, LinkInv, EndIsNoticed
  <1> QED
    BY <1>1, ClientInvariant, PTL

-----------------------------------------------------------------------------
(* Heartbeats. *)

HasBeat(q) == \E i \in DOMAIN q : IsBeat(q[i])
OneBeat(q) == \A i, j \in DOMAIN q : IsBeat(q[i]) /\ IsBeat(q[j]) => i = j

\* The way of a heartbeat, there and back.
Way == <<sending["main"], posted, Unwritten, toServer, toClient>>

\* m_bTimeLast says that a heartbeat is on its way, and there is never a second
\* one.  Those that an error or the end of the connection leaves where they are
\* count as well.
OneHeartbeat ==
    /\ m_bTimeLast <=> \E k \in DOMAIN Way : HasBeat(Way[k])
    /\ \A k \in DOMAIN Way : OneBeat(Way[k])
    /\ \A k, l \in DOMAIN Way : HasBeat(Way[k]) /\ HasBeat(Way[l]) => k = l

\* The same, place by place.
OneBeatOn(b, m, p, u, s, c) ==
    /\ b <=> HasBeat(m) \/ HasBeat(p) \/ HasBeat(u) \/ HasBeat(s) \/ HasBeat(c)
    /\ OneBeat(m) /\ OneBeat(p) /\ OneBeat(u) /\ OneBeat(s) /\ OneBeat(c)
    /\ HasBeat(m) => ~HasBeat(p) /\ ~HasBeat(u) /\ ~HasBeat(s) /\ ~HasBeat(c)
    /\ HasBeat(p) => ~HasBeat(u) /\ ~HasBeat(s) /\ ~HasBeat(c)
    /\ HasBeat(u) => ~HasBeat(s) /\ ~HasBeat(c)
    /\ HasBeat(s) => ~HasBeat(c)

BeatInv ==
    /\ m_bTimeLast \in BOOLEAN
    /\ toClient \in Seq(Package)
    /\ reading = "done" => toClient # << >>
    /\ ~HasBeat(sending["worker"])
    /\ OneBeatOn(m_bTimeLast, sending["main"], posted, Unwritten, toServer, toClient)

LEMMA OneBeatOnWay == ASSUME BeatInv PROVE OneHeartbeat
  <1> DEFINE m == sending["main"]
             u == Unwritten
  <1>0. OneBeatOn(m_bTimeLast, m, posted, u, toServer, toClient)
    BY DEF BeatInv
  <1> HIDE DEF m, u
  <1> DEFINE w == <<m, posted, u, toServer, toClient>>
  <1>1. DOMAIN w = {1, 2, 3, 4, 5}
    OBVIOUS
  <1>2. w[1] = m /\ w[2] = posted /\ w[3] = u /\ w[4] = toServer /\ w[5] = toClient
    OBVIOUS
  <1>3. Way = w
    BY DEF Way, m, u
  <1> HIDE DEF w
  <1>4. m_bTimeLast <=> \E k \in DOMAIN w : HasBeat(w[k])
    BY <1>0, <1>1, <1>2 DEF OneBeatOn
  <1>5. \A k \in DOMAIN w : OneBeat(w[k])
    BY <1>0, <1>1, <1>2 DEF OneBeatOn
  <1>6. \A k, l \in DOMAIN w : HasBeat(w[k]) /\ HasBeat(w[l]) => k = l
    BY <1>0, <1>1, <1>2 DEF OneBeatOn
  <1> QED
    BY <1>3, <1>4, <1>5, <1>6, Zenon DEF OneHeartbeat

LEMMA NoBeat == ~HasBeat(<< >>) /\ OneBeat(<< >>)
  BY DEF HasBeat, OneBeat

\* A package at the end of a sequence, and one taken from its beginning.
LEMMA BeatAppended ==
    ASSUME NEW q \in Seq(Package), NEW e \in Package
    PROVE  /\ HasBeat(Append(q, e)) <=> HasBeat(q) \/ IsBeat(e)
           /\ OneBeat(q) /\ ~(HasBeat(q) /\ IsBeat(e)) => OneBeat(Append(q, e))
  <1> DEFINE n == Len(q)
             r == Append(q, e)
  <1>1. n \in Nat /\ DOMAIN q = 1 .. n
    BY LenProperties
  <1>2. DOMAIN r = 1 .. n + 1 /\ r[n + 1] = e /\ \A k \in 1 .. n : r[k] = q[k]
    BY AppendProperties, LenProperties
  <1>3. n + 1 \in DOMAIN r /\ \A k \in DOMAIN r : k = n + 1 \/ k \in DOMAIN q
    BY <1>1, <1>2
  <1>4. \A k \in DOMAIN q : k \in DOMAIN r /\ r[k] = q[k]
    BY <1>1, <1>2
  <1> HIDE DEF n, r
  <1>5. HasBeat(r) <=> HasBeat(q) \/ IsBeat(e)
    BY <1>2, <1>3, <1>4, Zenon DEF HasBeat
  <1>6. OneBeat(q) /\ ~(HasBeat(q) /\ IsBeat(e)) => OneBeat(r)
    BY <1>2, <1>3, <1>4, Zenon DEF HasBeat, OneBeat
  <1> QED
    BY <1>5, <1>6 DEF r

LEMMA BeatTaken ==
    ASSUME NEW q \in Seq(Package), q # << >>
    PROVE  /\ HasBeat(q) <=> IsBeat(Head(q)) \/ HasBeat(Tail(q))
           /\ OneBeat(q) => OneBeat(Tail(q)) /\ ~(IsBeat(Head(q)) /\ HasBeat(Tail(q)))
  <1> DEFINE n == Len(q)
             r == Tail(q)
             h == Head(q)
  <1>1. n \in Nat /\ n # 0 /\ DOMAIN q = 1 .. n
    BY LenProperties, EmptySeq
  <1>2. h = q[1] /\ DOMAIN r = 1 .. n - 1 /\ \A k \in 1 .. n - 1 : r[k] = q[k + 1]
    BY <1>1, HeadTailProperties, LenProperties
  <1> HIDE DEF n, r, h
  <1>3. /\ 1 \in DOMAIN q
        /\ \A k \in DOMAIN r : k \in Int /\ k + 1 \in DOMAIN q /\ k + 1 # 1 /\ r[k] = q[k + 1]
        /\ \A k \in DOMAIN q : k = 1 \/ (k - 1 \in DOMAIN r /\ r[k - 1] = q[k])
    BY <1>1, <1>2
  <1>4. HasBeat(q) <=> IsBeat(h) \/ HasBeat(r)
    BY <1>2, <1>3, Zenon DEF HasBeat
  <1>5. OneBeat(q) => OneBeat(r)
    <2> SUFFICES ASSUME OneBeat(q), NEW i \in DOMAIN r, NEW j \in DOMAIN r,
                        IsBeat(r[i]), IsBeat(r[j])
                 PROVE  i = j
      BY Zenon DEF OneBeat
    <2>1. i + 1 = j + 1
      BY <1>3, Zenon DEF OneBeat
    <2> QED
      BY <1>3, <2>1
  <1>6. OneBeat(q) => ~(IsBeat(h) /\ HasBeat(r))
    BY <1>2, <1>3, Zenon DEF OneBeat, HasBeat
  <1> QED
    BY <1>4, <1>5, <1>6 DEF r, h

\* The packages a thread begins to send, and the heartbeat of the main loop.
LEMMA BeatBegun ==
    /\ \A t \in Thread, k \in Nat : ~HasBeat(Packages(t, k)) /\ OneBeat(Packages(t, k))
    /\ HasBeat(Packages("heartbeat", 1)) /\ OneBeat(Packages("heartbeat", 1))
  <1>1. ASSUME NEW t, NEW k \in Nat
        PROVE  /\ DOMAIN Packages(t, k) = 1 .. k
               /\ \A i \in 1 .. k : Packages(t, k)[i].by = t
    BY DEF Packages
  <1>2. \A t \in Thread : t # "heartbeat"
    BY DEF Thread
  <1>3. ASSUME NEW t \in Thread, NEW k \in Nat
        PROVE  ~HasBeat(Packages(t, k)) /\ OneBeat(Packages(t, k))
    BY <1>1, <1>2 DEF HasBeat, OneBeat, IsBeat
  <1>4. HasBeat(Packages("heartbeat", 1)) /\ OneBeat(Packages("heartbeat", 1))
    BY <1>1 DEF HasBeat, OneBeat, IsBeat
  <1> QED
    BY <1>3, <1>4

LEMMA BeatInit == Init => BeatInv
  <1> SUFFICES ASSUME Init PROVE BeatInv
    OBVIOUS
  <1>1. /\ m_bTimeLast = FALSE /\ reading = "none" /\ toClient = << >>
        /\ sending["main"] = << >> /\ sending["worker"] = << >>
        /\ posted = << >> /\ Unwritten = << >> /\ toServer = << >>
    BY DEF Init, Unwritten, Thread
  <1>2. << >> \in Seq(Package)
    OBVIOUS
  <1> QED
    BY <1>1, <1>2, NoBeat DEF BeatInv, OneBeatOn

\* A heartbeat only moves to the next place, is sent when there is none, and is
\* forgotten where m_bTimeLast is reset.
LEMMA BeatStep == TypeInv /\ BeatInv /\ [Next]_clientVars => BeatInv'
  <1> SUFFICES ASSUME TypeInv, BeatInv, [Next]_clientVars PROVE BeatInv'
    OBVIOUS
  <1> DEFINE m == sending["main"]
             w == sending["worker"]
             u == Unwritten
             framed == UNCHANGED <<m_bTimeLast, reading, toClient, m, w, posted, u, toServer>>
  <1>0. /\ sending \in [Thread -> Seq(Package)]
        /\ m \in Seq(Package) /\ w \in Seq(Package) /\ u \in Seq(Package)
        /\ posted \in Seq(Package) /\ toServer \in Seq(Package) /\ toClient \in Seq(Package)
        /\ write_msgs \in Seq(Package)
        /\ writing # "none" => write_msgs # << >>
    BY PlacesType DEF TypeInv, ProgramType, SocketType, NetworkType, BeatInv, Thread
  <1>b. /\ m_bTimeLast \in BOOLEAN /\ ~HasBeat(w)
        /\ reading = "done" => toClient # << >>
        /\ OneBeatOn(m_bTimeLast, m, posted, u, toServer, toClient)
    BY DEF BeatInv
  <1>g. ASSUME m_bTimeLast' \in BOOLEAN, toClient' \in Seq(Package),
               reading' = "done" => toClient' # << >>, ~HasBeat(w'),
               OneBeatOn(m_bTimeLast', m', posted', u', toServer', toClient')
        PROVE  BeatInv'
    BY <1>g DEF BeatInv
  <1>t. \A q \in Seq(Package) : q # << >> => Head(q) \in Package /\ Tail(q) \in Seq(Package)
    BY TailType
  <1> USE DEF socketVars, programVars, networkVars
  <1>1. CASE framed
    <2> HIDE DEF m, w, u
    <2> QED
      BY <1>0, <1>1, <1>b, <1>g
  <1>2. CASE DoWrite
    <2> DEFINE p == Head(posted)
    <2>1. /\ posted # << >> /\ posted' = Tail(posted)
          /\ u' = Append(u, p)
          /\ UNCHANGED <<m_bTimeLast, reading, toClient, m, w, toServer>>
      BY <1>2, UnwrittenGrows DEF DoWrite
    <2>2. p \in Package
      BY <1>t, <1>0, <2>1
    <2>3. /\ HasBeat(posted) <=> IsBeat(p) \/ HasBeat(posted')
          /\ OneBeat(posted) => OneBeat(posted') /\ ~(IsBeat(p) /\ HasBeat(posted'))
      BY <1>0, <2>1, BeatTaken
    <2> HIDE DEF m, w, u, p
    <2>4. /\ HasBeat(u') <=> HasBeat(u) \/ IsBeat(p)
          /\ OneBeat(u) /\ ~(HasBeat(u) /\ IsBeat(p)) => OneBeat(u')
      BY <1>0, <2>1, <2>2, BeatAppended
    <2>5. OneBeatOn(m_bTimeLast', m', posted', u', toServer', toClient')
      BY <1>b, <2>1, <2>3, <2>4 DEF OneBeatOn
    <2> QED
      BY <1>0, <1>b, <1>g, <2>1, <2>5
  <1>3. CASE Transmit
    <2> DEFINE p == Head(write_msgs)
    <2>1. /\ write_msgs # << >> /\ u = write_msgs /\ u' = Tail(write_msgs)
          /\ toServer' = Append(toServer, p)
          /\ UNCHANGED <<m_bTimeLast, reading, toClient, m, w, posted>>
      BY <1>0, <1>3 DEF Transmit, Unwritten
    <2>2. p \in Package
      BY <1>t, <1>0, <2>1
    <2> HIDE DEF m, w, u
    <2>3. /\ HasBeat(u) <=> IsBeat(p) \/ HasBeat(u')
          /\ OneBeat(u) => OneBeat(u') /\ ~(IsBeat(p) /\ HasBeat(u'))
      BY <1>0, <2>1, BeatTaken
    <2> HIDE DEF p
    <2>4. /\ HasBeat(toServer') <=> HasBeat(toServer) \/ IsBeat(p)
          /\ OneBeat(toServer) /\ ~(HasBeat(toServer) /\ IsBeat(p)) => OneBeat(toServer')
      BY <1>0, <2>1, <2>2, BeatAppended
    <2>5. OneBeatOn(m_bTimeLast', m', posted', u', toServer', toClient')
      BY <1>b, <2>1, <2>3, <2>4 DEF OneBeatOn
    <2> QED
      BY <1>0, <1>b, <1>g, <2>1, <2>5
  <1>4. CASE Serve
    <2> DEFINE p == Head(toServer)
    <2>1. /\ toServer # << >> /\ toServer' = Tail(toServer)
          /\ toClient' = IF IsBeat(p) THEN Append(toClient, p) ELSE toClient
          /\ UNCHANGED <<m_bTimeLast, reading, m, w, posted, u>>
      BY <1>4 DEF Serve, Unwritten
    <2>2. p \in Package
      BY <1>t, <1>0, <2>1
    <2>3. /\ HasBeat(toServer) <=> IsBeat(p) \/ HasBeat(toServer')
          /\ OneBeat(toServer) => OneBeat(toServer') /\ ~(IsBeat(p) /\ HasBeat(toServer'))
      BY <1>0, <2>1, BeatTaken
    <2> HIDE DEF m, w, u, p
    <2>4. toClient' \in Seq(Package) /\ (toClient # << >> => toClient' # << >>)
      <3>1. Append(toClient, p) \in Seq(Package) /\ Append(toClient, p) # << >>
        <4>1. toClient \in Seq(Package)
          BY <1>0
        <4> QED
          BY <2>2, <4>1, AppendProperties, Zenon
      <3> QED
        BY <1>0, <2>1, <3>1
    <2>5. /\ HasBeat(toClient') <=> HasBeat(toClient) \/ IsBeat(p)
          /\ OneBeat(toClient) /\ ~(HasBeat(toClient) /\ IsBeat(p)) => OneBeat(toClient')
      BY <1>0, <2>1, <2>2, BeatAppended
    <2>6. OneBeatOn(m_bTimeLast', m', posted', u', toServer', toClient')
      BY <1>b, <2>1, <2>3, <2>5 DEF OneBeatOn
    <2> QED
      BY <1>b, <1>g, <2>1, <2>4, <2>6
  <1>5. CASE HandleRead
    <2> DEFINE p == Head(toClient)
    <2>1. /\ toClient # << >> /\ toClient' = Tail(toClient) /\ reading' = "pending"
          /\ IsBeat(p) => m_bTimeLast' = FALSE
          /\ ~IsBeat(p) => m_bTimeLast' = m_bTimeLast
          /\ UNCHANGED <<m, w, posted, u, toServer>>
      BY <1>b, <1>5 DEF HandleRead, Unwritten
    <2>2. toClient' \in Seq(Package)
      BY <1>t, <1>0, <2>1
    <2>3. /\ HasBeat(toClient) <=> IsBeat(p) \/ HasBeat(toClient')
          /\ OneBeat(toClient) => OneBeat(toClient') /\ ~(IsBeat(p) /\ HasBeat(toClient'))
      BY <1>0, <2>1, BeatTaken
    <2> HIDE DEF m, w, u, p
    <2>4. m_bTimeLast' \in BOOLEAN
      BY <1>b, <2>1
    <2>5. m_bTimeLast' <=> m_bTimeLast /\ ~IsBeat(p)
      BY <1>b, <2>1
    <2>6. OneBeatOn(m_bTimeLast', m', posted', u', toServer', toClient')
      BY <1>b, <2>1, <2>3, <2>4, <2>5 DEF OneBeatOn
    <2> QED
      BY <1>b, <1>g, <2>1, <2>2, <2>4, <2>6
  <1>6. CASE Tell
    <2> DEFINE p == [by |-> "worker", n |-> 0]
    <2>1. /\ toClient' = Append(toClient, p)
          /\ UNCHANGED <<m_bTimeLast, reading, m, w, posted, u, toServer>>
      BY <1>6 DEF Tell, Unwritten
    <2>2. p \in Package /\ ~IsBeat(p)
      <3>1. 0 \in 0 .. MaxSends + MaxBeats
        BY ClientAssumption
      <3> QED
        BY <3>1 DEF Package, Thread, IsBeat
    <2> HIDE DEF m, w, u, p
    <2>3. toClient' \in Seq(Package) /\ toClient' # << >>
      BY <1>0, <2>1, <2>2, AppendProperties
    <2>4. /\ HasBeat(toClient') <=> HasBeat(toClient)
          /\ OneBeat(toClient) => OneBeat(toClient')
      BY <1>0, <2>1, <2>2, BeatAppended
    <2>5. OneBeatOn(m_bTimeLast', m', posted', u', toServer', toClient')
      BY <1>b, <2>1, <2>4 DEF OneBeatOn
    <2> QED
      BY <1>b, <1>g, <2>1, <2>3, <2>5
  <1>7. CASE Write("main")
    <2> DEFINE p == Head(m)
    <2>1. /\ m # << >> /\ m' = Tail(m) /\ w' = w
          /\ posted' = Append(posted, p)
          /\ UNCHANGED <<m_bTimeLast, reading, toClient, u, toServer>>
      BY <1>0, <1>7 DEF Write, Unwritten, Thread
    <2>2. p \in Package
      BY <1>t, <1>0, <2>1
    <2> HIDE DEF m, w, u
    <2>3. /\ HasBeat(m) <=> IsBeat(p) \/ HasBeat(m')
          /\ OneBeat(m) => OneBeat(m') /\ ~(IsBeat(p) /\ HasBeat(m'))
      BY <1>0, <2>1, BeatTaken
    <2> HIDE DEF p
    <2>4. /\ HasBeat(posted') <=> HasBeat(posted) \/ IsBeat(p)
          /\ OneBeat(posted) /\ ~(HasBeat(posted) /\ IsBeat(p)) => OneBeat(posted')
      BY <1>0, <2>1, <2>2, BeatAppended
    <2>5. OneBeatOn(m_bTimeLast', m', posted', u', toServer', toClient')
      BY <1>b, <2>1, <2>3, <2>4 DEF OneBeatOn
    <2> QED
      BY <1>0, <1>b, <1>g, <2>1, <2>5
  <1>8. CASE Write("worker")
    <2> DEFINE p == Head(w)
    <2>1. /\ w # << >> /\ w' = Tail(w) /\ m' = m
          /\ posted' = Append(posted, p)
          /\ UNCHANGED <<m_bTimeLast, reading, toClient, u, toServer>>
      BY <1>0, <1>8 DEF Write, Unwritten, Thread
    <2>2. p \in Package
      BY <1>t, <1>0, <2>1
    <2> HIDE DEF m, w, u
    <2>3. ~IsBeat(p) /\ ~HasBeat(w')
      BY <1>0, <1>b, <2>1, BeatTaken
    <2> HIDE DEF p
    <2>4. /\ HasBeat(posted') <=> HasBeat(posted)
          /\ OneBeat(posted) => OneBeat(posted')
      BY <1>0, <2>1, <2>2, <2>3, BeatAppended
    <2>5. OneBeatOn(m_bTimeLast', m', posted', u', toServer', toClient')
      BY <1>b, <2>1, <2>4 DEF OneBeatOn
    <2> QED
      BY <1>0, <1>b, <1>g, <2>1, <2>3, <2>5
  <1>9. CASE SendHeartbeat
    <2>1. /\ m = << >> /\ m' = Packages("heartbeat", 1) /\ w' = w
          /\ ~m_bTimeLast /\ m_bTimeLast' = TRUE
          /\ UNCHANGED <<reading, toClient, posted, u, toServer>>
      BY <1>0, <1>9 DEF SendHeartbeat, Unwritten, Thread
    <2> HIDE DEF m, w, u
    <2>2. HasBeat(m') /\ OneBeat(m')
      BY <2>1, BeatBegun
    <2>3. OneBeatOn(m_bTimeLast', m', posted', u', toServer', toClient')
      BY <1>b, <2>1, <2>2 DEF OneBeatOn
    <2> QED
      BY <1>0, <1>b, <1>g, <2>1, <2>3
  <1>10. ASSUME NEW t \in Thread, NEW k \in Nat, SendBegins(t, k) PROVE BeatInv'
    <2>1. /\ sending[t] = << >> /\ sending' = [sending EXCEPT ![t] = Packages(t, k)]
          /\ UNCHANGED <<m_bTimeLast, reading, toClient, posted, u, toServer>>
      BY <1>10 DEF SendBegins, Unwritten
    <2>2. ~HasBeat(Packages(t, k)) /\ OneBeat(Packages(t, k))
      BY BeatBegun
    <2>3. \/ m = << >> /\ m' = Packages(t, k) /\ w' = w
          \/ w' = Packages(t, k) /\ m' = m
      BY <1>0, <2>1 DEF Thread
    <2> HIDE DEF m, w, u
    <2>4. /\ HasBeat(m') <=> HasBeat(m)
          /\ OneBeat(m) => OneBeat(m')
          /\ ~HasBeat(w')
      BY <1>b, <2>2, <2>3, NoBeat
    <2>5. OneBeatOn(m_bTimeLast', m', posted', u', toServer', toClient')
      BY <1>b, <2>1, <2>4 DEF OneBeatOn
    <2> QED
      BY <1>0, <1>b, <1>g, <2>1, <2>4, <2>5
  <1>11. CASE BeginReading \/ HandleReadError
    <2>1. /\ reading' # "done"
          /\ UNCHANGED <<m_bTimeLast, toClient, m, w, posted, u, toServer>>
      BY <1>11 DEF BeginReading, HandleReadError, Unwritten
    <2> HIDE DEF m, w, u
    <2> QED
      BY <1>0, <1>b, <1>g, <2>1
  <1>12. CASE Arrive
    <2>1. /\ toClient # << >>
          /\ UNCHANGED <<m_bTimeLast, toClient, m, w, posted, u, toServer>>
      BY <1>12 DEF Arrive, Unwritten
    <2> HIDE DEF m, w, u
    <2> QED
      BY <1>0, <1>b, <1>g, <2>1
  <1>13. CASE HandleConnect \/ HandleConnectFailure \/ Closemsg \/ IoThreadEnds
    BY <1>1, <1>13 DEF HandleConnect, HandleConnectFailure, Closemsg, IoThreadEnds, Unwritten
  <1>14. CASE HandleWrite \/ HandleWriteError
    BY <1>1, <1>14 DEF HandleWrite, HandleWriteError, Unwritten
  <1>15. CASE SwapQueue \/ HandleMessage \/ Break
    BY <1>1, <1>15 DEF SwapQueue, HandleMessage, Break, Unwritten
  <1>16. CASE UNCHANGED clientVars
    BY <1>1, <1>16 DEF clientVars, Unwritten
  <1>17. CASE SendTransform \/ SendData \/ SendBig
    <2>1. 1 \in Nat /\ BigCount \in Nat /\ {"main", "worker"} = Thread
      BY ClientAssumption DEF Thread
    <2> QED
      BY <1>10, <1>17, <2>1 DEF SendTransform, SendData, SendBig
  <1>18. ASSUME NEW t \in Thread, Write(t) PROVE BeatInv'
    BY <1>7, <1>8, <1>18 DEF Thread
  <1> HIDE DEF framed
  <1> QED
    BY <1>2, <1>3, <1>4, <1>5, <1>6, <1>9, <1>11, <1>12, <1>13, <1>14, <1>15, <1>16,
       <1>17, <1>18 DEF Next, IoThread

\* SwapQueue sends no heartbeat while one is on its way, and m_bTimeLast is set
\* for a heartbeat that is on its way only: the answer that resets it is that of
\* the last heartbeat, and while nothing breaks it is still to come.
THEOREM OneHeartbeatAtATime == Spec => []OneHeartbeat
  <1>1. BeatInv => OneHeartbeat
    BY OneBeatOnWay
  <1> QED
    BY <1>1, ClientTypeInv, BeatInit, BeatStep, PTL DEF Spec
=============================================================================
