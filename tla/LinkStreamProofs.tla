-------------------------- MODULE LinkStreamProofs --------------------------
(* What holds of a connection as a stream of messages for every set of *)
(* messages, every number of sections and every limit of the backlog. *)
EXTENDS LinkStream, SequenceTheorems, TLAPS

-----------------------------------------------------------------------------
(* Types. *)

\* The packages there are: sections belong to large messages only.
Piece ==
    [kind : {"Begin", "End"}, msg : Big, section : {0}]
        \cup [kind : {"Data"}, msg : Big, section : Nat]
        \cup [kind : {"Message"}, msg : Small, section : {0}]
        \cup [kind : {"Heartbeat", "Garbage"}, msg : {None}, section : {0}]

Parcel == [msg : Message \cup {None}, data : Seq(Message \cup {None})]

SendType ==
    /\ sending \in Seq(Piece) /\ open \in BOOLEAN
    /\ write_msgs \in Seq(Piece) /\ m_numofWrite \in Nat
    /\ accepted \in Seq(Message) /\ beats \in Nat

WriteType ==
    /\ writing \in {"idle", "armed", "done", "popped", "failed"}
    /\ buffer \in {"queue", "stack"}

PeerType ==
    /\ wire \in Seq(Piece)
    /\ header \in Big \cup {None}
    /\ recvData \in Seq(Big \cup {None})
    /\ delivered \in Seq(Parcel)

TypeInv == SendType /\ WriteType /\ PeerType /\ WriteOutstanding

LEMMA PieceFacts ==
    /\ Piece \subseteq Package
    /\ \A p \in Piece : /\ p.kind \in {"Begin", "Data", "End"} => p.msg \in Big
                        /\ p.kind = "Message" => p.msg \in Small
                        /\ p.section \in Nat
    /\ [kind |-> "Heartbeat", msg |-> None, section |-> 0] \in Piece
    /\ [kind |-> "Garbage", msg |-> None, section |-> 0] \in Piece
    /\ \A m \in Small : [kind |-> "Message", msg |-> m, section |-> 0] \in Piece
  BY DEF Piece, Package, Message

LEMMA TypeFromInv == TypeInv => TypeOK
  <1> SUFFICES ASSUME TypeInv PROVE TypeOK
    OBVIOUS
  <1>1. Seq(Piece) \subseteq Seq(Package)
    BY PieceFacts, SeqMonotonic
  <1>2. SendType /\ WriteType /\ PeerType
    BY DEF TypeInv
  <1>3. sending \in Seq(Package) /\ write_msgs \in Seq(Package) /\ wire \in Seq(Package)
    BY <1>1, <1>2 DEF SendType, PeerType
  <1> QED
    BY <1>2, <1>3 DEF SendType, WriteType, PeerType, Parcel, TypeOK

\* A function on 1 .. n is a sequence.
LEMMA FunctionIsSeq ==
    ASSUME NEW S, NEW n \in Nat, NEW f \in [1 .. n -> S]
    PROVE  f \in Seq(S) /\ Len(f) = n
  <1>1. [1 .. n -> S] \in {[1 .. m -> S] : m \in Nat}
    BY Zenon
  <1>2. Seq(S) = UNION {[1 .. m -> S] : m \in Nat}
    BY SeqDef
  <1>3. f \in Seq(S)
    BY <1>1, <1>2, Zenon
  <1>4. DOMAIN f = 1 .. n
    OBVIOUS
  <1>5. Len(f) \in Nat /\ DOMAIN f = 1 .. Len(f)
    BY <1>3, LenProperties
  <1> QED
    BY <1>3, <1>4, <1>5

\* An assignment to an element leaves a sequence a sequence, also if there is no
\* such element.
LEMMA ExceptKeeps ==
    ASSUME NEW S, NEW q \in Seq(S), NEW n, NEW e \in S
    PROVE  [q EXCEPT ![n] = e] \in Seq(S)
  <1>1. Len(q) \in Nat /\ q \in [1 .. Len(q) -> S]
    BY LenProperties
  <1>2. [q EXCEPT ![n] = e] \in [1 .. Len(q) -> S]
    BY <1>1
  <1> QED
    BY <1>1, <1>2, FunctionIsSeq

LEMMA CountType == \A m \in Big : SectionCount[m] \in Nat \ {0}
  BY LinkStreamAssumption

LEMMA SectionsType == ASSUME NEW m \in Big PROVE Sections(m) \in Seq(Piece)
  <1> DEFINE n == SectionCount[m] + 2
  <1>1. SectionCount[m] \in Nat /\ n \in Nat
    BY CountType
  <1>2. \A k \in 1 .. n :
            (IF k = 1 THEN [kind |-> "Begin", msg |-> m, section |-> 0]
             ELSE IF k = n THEN [kind |-> "End", msg |-> m, section |-> 0]
             ELSE [kind |-> "Data", msg |-> m, section |-> k - 1]) \in Piece
    BY <1>1 DEF Piece
  <1>3. Sections(m) \in [1 .. n -> Piece]
    BY <1>2 DEF Sections
  <1> HIDE DEF n
  <1> QED
    BY <1>1, <1>3, FunctionIsSeq

LEMMA WholeType == ASSUME NEW m \in Message PROVE Whole(m) \in Parcel
  <1>1. CASE m \in Big
    <2>1. SectionCount[m] \in Nat
      BY <1>1, CountType
    <2>2. [k \in 1 .. SectionCount[m] |-> m] \in [1 .. SectionCount[m] -> Message \cup {None}]
      OBVIOUS
    <2>3. [k \in 1 .. SectionCount[m] |-> m] \in Seq(Message \cup {None})
      BY <2>1, <2>2, FunctionIsSeq
    <2> QED
      BY <1>1, <2>3 DEF Whole, Assembled, Parcel
  <1>2. CASE m \notin Big
    <2>1. <<m>> \in Seq(Message \cup {None})
      OBVIOUS
    <2> QED
      BY <1>2, <2>1 DEF Whole, Assembled, Parcel
  <1> QED
    BY <1>1, <1>2

LEMMA TypeInit == Init => TypeInv
  BY EmptySeq DEF Init, TypeInv, SendType, WriteType, PeerType, WriteOutstanding

\* A connection's send keeps a write outstanding.
LEMMA SendKeeps ==
    ASSUME NEW p \in Piece, Send(p), write_msgs \in Seq(Piece), m_numofWrite \in Nat,
           WriteType, WriteOutstanding, writing # "popped"
    PROVE  /\ write_msgs' \in Seq(Piece) /\ m_numofWrite' \in Nat
           /\ WriteType' /\ WriteOutstanding'
  <1>1. CASE UNCHANGED sendVars
    BY <1>1 DEF sendVars, WriteType, WriteOutstanding
  <1>2. CASE write_msgs' = Append(write_msgs, p)
    <2>1. write_msgs' \in Seq(Piece) /\ write_msgs' # << >>
      BY <1>2, AppendProperties
    <2>2. \/ m_numofWrite' = 1 /\ writing' = "armed" /\ buffer' = "queue"
          \/ write_msgs # << >> /\ UNCHANGED <<m_numofWrite, writing, buffer>>
          \/ UNCHANGED sendVars
      BY DEF Send
    <2> QED
      BY <1>1, <2>1, <2>2 DEF WriteType, WriteOutstanding
  <1> QED
    BY <1>1, <1>2 DEF Send

\* handle_write takes the message written out of the queue, and keeps m_mutex.
LEMMA HandleWritePopsKeeps ==
    ASSUME TypeInv, HandleWritePops
    PROVE  /\ write_msgs' \in Seq(Piece) /\ Len(write_msgs') = Len(write_msgs) - 1
           /\ Len(write_msgs) \in Nat /\ WriteType' /\ WriteOutstanding'
  <1>1. write_msgs \in Seq(Piece) /\ write_msgs # << >>
    BY DEF TypeInv, SendType, WriteOutstanding, HandleWritePops
  <1>2. Tail(write_msgs) \in Seq(Piece) /\ Len(Tail(write_msgs)) = Len(write_msgs) - 1
    BY <1>1, HeadTailProperties
  <1>3. Len(write_msgs) \in Nat
    BY <1>1, LenProperties
  <1> QED
    BY <1>2, <1>3 DEF HandleWritePops, TypeInv, WriteType, WriteOutstanding

\* It starts the next write exactly if a message is left.
LEMMA HandleWriteKeeps ==
    ASSUME TypeInv, HandleWrite
    PROVE  /\ UNCHANGED write_msgs /\ m_numofWrite' = Len(write_msgs)
           /\ m_numofWrite' \in Nat /\ WriteType' /\ WriteOutstanding'
  <1>1. Len(write_msgs) \in Nat
    BY LenProperties DEF TypeInv, SendType
  <1> QED
    BY <1>1 DEF HandleWrite, WriteNext, TypeInv, WriteType, WriteOutstanding

LEMMA ReceiveKeeps == ASSUME PeerType, Receive PROVE PeerType'
  <1> DEFINE p == Head(wire)
  <1>1. p \in Piece /\ wire' \in Seq(Piece)
    BY HeadTailProperties DEF PeerType, Receive
  <1>2. Seq(Big \cup {None}) \subseteq Seq(Message \cup {None})
    BY SeqMonotonic DEF Message
  <1>3. ASSUME p.kind = "Begin", RecvBegin(p)
        PROVE  UNCHANGED delivered /\ header' \in Big /\ recvData' \in Seq(Big \cup {None})
    <2> DEFINE n == SectionCount[p.msg]
    <2>1. p.msg \in Big /\ n \in Nat
      BY <1>1, <1>3, PieceFacts, CountType
    <2>2. \A k \in 1 .. n : (IF k <= Len(recvData) THEN recvData[k] ELSE None) \in Big \cup {None}
      <3> SUFFICES ASSUME NEW k \in 1 .. n, k <= Len(recvData)
                   PROVE  recvData[k] \in Big \cup {None}
        OBVIOUS
      <3>1. Len(recvData) \in Nat /\ recvData \in Seq(Big \cup {None})
        BY LenProperties DEF PeerType
      <3>2. k \in 1 .. Len(recvData)
        BY <2>1, <3>1
      <3> QED
        BY <3>1, <3>2, ElementOfSeq
    <2>3. recvData' \in [1 .. n -> Big \cup {None}]
      BY <1>3, <2>2 DEF RecvBegin
    <2> HIDE DEF n
    <2>4. recvData' \in Seq(Big \cup {None})
      BY <2>1, <2>3, FunctionIsSeq
    <2> QED
      BY <1>3, <2>1, <2>4 DEF RecvBegin
  <1>4. ASSUME p.kind = "Data", RecvData(p)
        PROVE  UNCHANGED <<header, delivered>> /\ recvData' \in Seq(Big \cup {None})
    <2>1. p.msg \in Big \cup {None}
      BY <1>1, <1>4, PieceFacts
    <2>2. recvData \in Seq(Big \cup {None})
      BY DEF PeerType
    <2>3. CASE UNCHANGED recvData
      BY <1>4, <2>2, <2>3 DEF RecvData
    <2>4. CASE recvData' = [recvData EXCEPT ![p.section] = p.msg]
      <3>1. \A n : [recvData EXCEPT ![n] = p.msg] \in Seq(Big \cup {None})
        BY <2>1, <2>2, ExceptKeeps
      <3> HIDE DEF p
      <3> QED
        BY <1>4, <2>4, <3>1 DEF RecvData
    <2> QED
      BY <1>4, <2>3, <2>4 DEF RecvData
  <1>5. ASSUME NEW m \in Message \cup {None}, NEW data \in Seq(Message \cup {None})
        PROVE  Append(delivered, Assembled(m, data)) \in Seq(Parcel)
    <2>1. Assembled(m, data) \in Parcel
      BY DEF Assembled, Parcel
    <2> QED
      BY <2>1, AppendProperties DEF PeerType
  <1>6. ASSUME p.kind = "End", RecvEnd(p)
        PROVE  UNCHANGED <<header, recvData>> /\ delivered' \in Seq(Parcel)
    BY <1>2, <1>5, <1>6 DEF RecvEnd, PeerType, Message
  <1>7. ASSUME p.kind = "Message", delivered' = Append(delivered, Whole(p.msg))
        PROVE  delivered' \in Seq(Parcel)
    <2>1. p.msg \in Message
      BY <1>1, <1>7, PieceFacts DEF Message
    <2> QED
      BY <1>7, <2>1, WholeType, AppendProperties DEF PeerType
  <1>8. ASSUME delivered' = Append(delivered, Assembled(None, << >>))
        PROVE  delivered' \in Seq(Parcel)
    BY <1>5, <1>8, EmptySeq
  <1>9. p.kind \in {"Begin", "Data", "End", "Message", "Heartbeat", "Garbage"}
    BY <1>1 DEF Piece
  <1>10. \/ p.kind = "Begin" /\ RecvBegin(p)
         \/ p.kind = "Data" /\ RecvData(p)
         \/ p.kind = "End" /\ RecvEnd(p)
         \/ /\ p.kind = "Message" /\ delivered' = Append(delivered, Whole(p.msg))
            /\ UNCHANGED <<header, recvData>>
         \/ /\ p.kind = "Garbage" /\ delivered' = Append(delivered, Assembled(None, << >>))
            /\ UNCHANGED <<header, recvData>>
         \/ p.kind = "Heartbeat" /\ UNCHANGED peerVars
    BY <1>9 DEF Receive
  <1> HIDE DEF p
  <1> QED
    BY <1>1, <1>3, <1>4, <1>6, <1>7, <1>8, <1>10 DEF PeerType, peerVars

LEMMA TransmitKeeps == ASSUME TypeInv, Transmit PROVE wire' \in Seq(Piece)
  <1>1. write_msgs # << >>
    BY DEF TypeInv, WriteOutstanding, Transmit
  <1>2. Head(write_msgs) \in Piece
    BY <1>1, HeadTailProperties DEF TypeInv, SendType
  <1>3. ASSUME NEW p \in Piece, wire' = Append(wire, p) PROVE wire' \in Seq(Piece)
    BY <1>3, AppendProperties DEF TypeInv, PeerType
  <1> QED
    BY <1>2, <1>3, PieceFacts DEF Transmit

LEMMA TypeStep == TypeInv /\ [Next]_streamVars => TypeInv'
  <1> SUFFICES ASSUME TypeInv, [Next]_streamVars PROVE TypeInv'
    OBVIOUS
  <1> USE DEF TypeInv
  <1>1. ASSUME NEW m \in Message,
               (SendBig(m) /\ m \in Big) \/ (SendSmall(m) /\ m \in Small)
        PROVE  TypeInv'
    <2>1. sending' \in Seq(Piece)
      <3>1. CASE SendBig(m) /\ m \in Big
        BY <3>1, SectionsType DEF SendBig
      <3>2. CASE SendSmall(m) /\ m \in Small
        <4>1. [kind |-> "Message", msg |-> m, section |-> 0] \in Piece
          BY <3>2, PieceFacts
        <4> QED
          BY <3>2, <4>1 DEF SendSmall
      <3> QED
        BY <1>1, <3>1, <3>2
    <2>2. accepted' \in Seq(Message)
      <3>1. accepted' = Append(accepted, m)
        BY <1>1 DEF SendBig, SendSmall
      <3> QED
        BY <3>1, AppendProperties DEF SendType
    <2>3. UNCHANGED <<sendVars, peerVars, open, wire, beats>>
      BY <1>1 DEF SendBig, SendSmall
    <2> QED
      BY <2>1, <2>2, <2>3
         DEF SendType, WriteType, PeerType, WriteOutstanding, sendVars, peerVars
  <1>2. CASE SendNext
    <2>1. Head(sending) \in Piece /\ sending' \in Seq(Piece)
      BY <1>2, HeadTailProperties DEF SendNext, SendType
    <2>2. /\ Send(Head(sending)) /\ writing # "popped"
          /\ UNCHANGED <<peerVars, open, wire, accepted, beats>>
      BY <1>2 DEF SendNext
    <2>3. write_msgs' \in Seq(Piece) /\ m_numofWrite' \in Nat /\ WriteType' /\ WriteOutstanding'
      BY <2>1, <2>2, SendKeeps DEF SendType
    <2> QED
      BY <2>1, <2>2, <2>3 DEF SendType, PeerType, peerVars
  <1>3. CASE EchoHeartbeat
    <2> DEFINE p == [kind |-> "Heartbeat", msg |-> None, section |-> 0]
    <2>1. p \in Piece /\ Send(p) /\ writing # "popped" /\ beats' = beats + 1
          /\ UNCHANGED <<peerVars, sending, open, wire, accepted>>
      BY <1>3, PieceFacts DEF EchoHeartbeat
    <2> HIDE DEF p
    <2>2. write_msgs' \in Seq(Piece) /\ m_numofWrite' \in Nat /\ WriteType' /\ WriteOutstanding'
      BY <2>1, SendKeeps DEF SendType
    <2> QED
      BY <2>1, <2>2 DEF SendType, PeerType, peerVars
  <1>4. CASE HandleWrite
    <2>1. UNCHANGED <<peerVars, sending, open, wire, accepted, beats>>
      BY <1>4 DEF HandleWrite
    <2> QED
      BY <1>4, <2>1, HandleWriteKeeps DEF SendType, PeerType, peerVars
  <1>12. CASE HandleWritePops
    <2>1. UNCHANGED <<m_numofWrite, peerVars, sending, open, wire, accepted, beats>>
      BY <1>12 DEF HandleWritePops
    <2> QED
      BY <1>12, <2>1, HandleWritePopsKeeps DEF SendType, PeerType, peerVars
  <1>5. CASE HandleWriteError
    BY <1>5 DEF HandleWriteError, SendType, WriteType, PeerType, WriteOutstanding, peerVars
  <1>6. CASE CloseSocket
    BY <1>6 DEF CloseSocket, SendType, WriteType, PeerType, WriteOutstanding, sendVars, peerVars
  <1>7. CASE Transmit
    BY <1>7, TransmitKeeps
       DEF Transmit, SendType, WriteType, PeerType, WriteOutstanding, peerVars
  <1>8. CASE Receive
    <2>1. UNCHANGED <<sendVars, sending, open, accepted, beats>>
      BY <1>8 DEF Receive
    <2> QED
      BY <1>8, <2>1, ReceiveKeeps DEF SendType, WriteType, WriteOutstanding, sendVars
  <1>9. CASE UNCHANGED streamVars
    BY <1>9 DEF streamVars, sendVars, peerVars, SendType, WriteType, PeerType, WriteOutstanding
  <1>10. ASSUME NEW m \in Big, SendBig(m) PROVE TypeInv'
    <2>1. m \in Message
      BY DEF Message
    <2> QED
      BY <1>1, <1>10, <2>1, Zenon
  <1>11. ASSUME NEW m \in Small, SendSmall(m) PROVE TypeInv'
    <2>1. m \in Message
      BY DEF Message
    <2> QED
      BY <1>1, <1>11, <2>1, Zenon
  <1> HIDE DEF TypeInv
  <1> QED
    BY <1>2, <1>3, <1>4, <1>5, <1>6, <1>7, <1>8, <1>9, <1>10, <1>11, <1>12 DEF Next

LEMMA StreamTypeInv == Spec => []TypeInv
  BY TypeInit, TypeStep, PTL DEF Spec

\* Every variable keeps its type; in particular the peer puts sections into the
\* buffer of a large message only, and inside it (RecvPackage).
THEOREM StreamTyped == Spec => []TypeOK
  BY StreamTypeInv, TypeFromInv, PTL

\* A write is outstanding, or has failed, exactly while messages wait in
\* write_msgs_ (HXLibAccept::send and handle_write, which each start a write only
\* where no other is under way).
THEOREM WriteIsOutstanding == Spec => []WriteOutstanding
  <1>1. TypeInv => WriteOutstanding
    BY DEF TypeInv
  <1> QED
    BY <1>1, StreamTypeInv, PTL

-----------------------------------------------------------------------------
(* The backlog. *)

LEMMA BacklogSend ==
    ASSUME TypeInv, BacklogNotOverstated, NEW p \in Piece, Send(p), writing # "popped"
    PROVE  BacklogNotOverstated'
  <1>1. Len(write_msgs) \in Nat /\ Len(Append(write_msgs, p)) = Len(write_msgs) + 1
    BY LenProperties, AppendProperties DEF TypeInv, SendType
  <1>2. \/ UNCHANGED <<write_msgs, m_numofWrite>>
        \/ write_msgs' = Append(write_msgs, p) /\ m_numofWrite' \in {1, m_numofWrite}
    BY DEF Send, sendVars
  <1>3. m_numofWrite \in Nat /\ m_numofWrite <= Len(write_msgs)
    BY DEF BacklogNotOverstated, TypeInv, SendType
  <1>4. m_numofWrite' \in Nat /\ Len(write_msgs') \in Nat /\ m_numofWrite' <= Len(write_msgs')
    BY <1>1, <1>2, <1>3
  <1> QED
    BY <1>4 DEF BacklogNotOverstated

LEMMA BacklogStep ==
    TypeInv /\ BacklogNotOverstated /\ [Next]_streamVars => BacklogNotOverstated'
  <1> SUFFICES ASSUME TypeInv, BacklogNotOverstated, [Next]_streamVars
               PROVE  BacklogNotOverstated'
    OBVIOUS
  <1>0. Len(write_msgs) \in Nat /\ m_numofWrite \in Nat
    BY LenProperties DEF TypeInv, SendType
  <1>1. CASE /\ UNCHANGED <<write_msgs, m_numofWrite>>
             /\ writing' = "popped" <=> writing = "popped"
    BY <1>1 DEF BacklogNotOverstated
  <1>2. CASE SendNext
    <2>1. Head(sending) \in Piece /\ Send(Head(sending)) /\ writing # "popped"
      BY <1>2, HeadTailProperties DEF SendNext, TypeInv, SendType
    <2> QED
      BY <2>1, BacklogSend
  <1>3. CASE EchoHeartbeat
    BY <1>3, PieceFacts, BacklogSend DEF EchoHeartbeat
  <1>4. CASE HandleWritePops
    <2>1. Len(write_msgs') = Len(write_msgs) - 1
      BY <1>4, HandleWritePopsKeeps
    <2>2. m_numofWrite <= Len(write_msgs)
      BY <1>4 DEF BacklogNotOverstated, HandleWritePops
    <2>3. m_numofWrite' = m_numofWrite /\ writing' = "popped"
      BY <1>4 DEF HandleWritePops
    <2> QED
      BY <1>0, <2>1, <2>2, <2>3 DEF BacklogNotOverstated
  <1>5. CASE HandleWrite
    <2>1. m_numofWrite' = Len(write_msgs') /\ writing' # "popped"
      BY <1>5, HandleWriteKeeps DEF HandleWrite, WriteNext
    <2> QED
      BY <1>0, <2>1 DEF BacklogNotOverstated
  <1> QED
    BY <1>1, <1>2, <1>3, <1>4, <1>5
       DEF Next, SendBig, SendSmall, HandleWriteError, CloseSocket, Transmit, Receive,
           streamVars, sendVars

\* m_numofWrite, which Send reads without m_mutex for the test of a message that
\* may be lost, exceeds the number of packages waiting by one at most, and only
\* between the two lines of handle_write that pop a message and count the rest.
THEOREM BacklogIsNotOverstated == Spec => []BacklogNotOverstated
  <1>1. Init => BacklogNotOverstated
    BY EmptySeq DEF Init, BacklogNotOverstated
  <1> QED
    BY <1>1, StreamTypeInv, BacklogStep, PTL DEF Spec


-----------------------------------------------------------------------------
(* Order.  A place in the stream of packages is a number of messages that *)
(* have been passed whole and a number of packages of the one after them. *)

Place == Nat \X Nat

Beat == [kind |-> "Heartbeat", msg |-> None, section |-> 0]

\* The packages Send makes of a message.
Pieces(m) ==
    IF m \in Big THEN Sections(m)
    ELSE <<[kind |-> "Message", msg |-> m, section |-> 0]>>

\* Package p takes a reader of the messages a from place s to place t.
Move(a, p, s, t) ==
    \/ p = Beat /\ t = s
    \/ LET m == a[s[1] + 1] IN
       /\ s[1] < Len(a) /\ s[2] < Len(Pieces(m))
       /\ p = Pieces(m)[s[2] + 1]
       /\ t = IF s[2] + 1 = Len(Pieces(m)) THEN <<s[1] + 1, 0>> ELSE <<s[1], s[2] + 1>>

\* So do the packages q, one after the other.
Stops(a, q, at) == \A k \in 1 .. Len(q) : Move(a, q[k], at[k - 1], at[k])

Path(a, q, s, t) ==
    \E at \in [0 .. Len(q) -> Place] :
        at[0] = s /\ at[Len(q)] = t /\ Stops(a, q, at)

LEMMA PathEmpty ==
    ASSUME NEW a, NEW s \in Place, NEW t \in Place
    PROVE  Path(a, << >>, s, t) <=> s = t
  <1>1. Len(<< >>) = 0
    BY EmptySeq
  <1>2. ASSUME s = t PROVE Path(a, << >>, s, t)
    <2> DEFINE at == [k \in 0 .. 0 |-> s]
    <2>1. at \in [0 .. 0 -> Place] /\ at[0] = s
      OBVIOUS
    <2>2. Stops(a, << >>, at)
      BY <1>1 DEF Stops
    <2> HIDE DEF at
    <2> QED
      BY <1>1, <1>2, <2>1, <2>2 DEF Path
  <1> QED
    BY <1>1, <1>2 DEF Path

LEMMA PathAppend ==
    ASSUME NEW a, NEW q \in Seq(Piece), NEW e \in Piece,
           NEW s \in Place, NEW t \in Place, NEW u \in Place,
           Path(a, q, s, t), Move(a, e, t, u)
    PROVE  Path(a, Append(q, e), s, u)
  <1> DEFINE r == Append(q, e)
             n == Len(q)
  <1>1. /\ n \in Nat /\ Len(r) = n + 1 /\ r[n + 1] = e
        /\ \A k \in 1 .. n : r[k] = q[k]
    BY LenProperties, AppendProperties
  <1>2. PICK at \in [0 .. n -> Place] : at[0] = s /\ at[n] = t /\ Stops(a, q, at)
    BY DEF Path
  <1> DEFINE to == [k \in 0 .. n + 1 |-> IF k = n + 1 THEN u ELSE at[k]]
  <1> HIDE DEF n, r
  <1>3. to \in [0 .. n + 1 -> Place] /\ to[0] = s /\ to[n + 1] = u
    BY <1>1, <1>2
  <1>4. \A k \in 0 .. n : to[k] = at[k]
    BY <1>1
  <1> HIDE DEF to
  <1>5. ASSUME NEW k \in 1 .. n + 1 PROVE Move(a, r[k], to[k - 1], to[k])
    <2>1. CASE k = n + 1
      <3>1. n \in 0 .. n /\ k - 1 = n
        BY <1>1, <2>1
      <3>2. to[k - 1] = t /\ to[k] = u /\ r[k] = e
        BY <1>1, <1>2, <1>3, <1>4, <2>1, <3>1
      <3> QED
        BY <3>2
    <2>2. CASE k # n + 1
      <3>1. k \in 1 .. n /\ k \in 0 .. n /\ k - 1 \in 0 .. n
        BY <1>1, <2>2
      <3>2. to[k - 1] = at[k - 1] /\ to[k] = at[k] /\ r[k] = q[k]
        BY <1>1, <1>4, <3>1
      <3>3. Move(a, q[k], at[k - 1], at[k])
        BY <1>2, <3>1 DEF Stops, n
      <3> QED
        BY <3>2, <3>3
    <2> QED
      BY <2>1, <2>2
  <1>6. Stops(a, r, to)
    BY <1>1, <1>5 DEF Stops
  <1>7. Path(a, r, s, u)
    BY <1>1, <1>3, <1>6 DEF Path
  <1> QED
    BY <1>7 DEF r

LEMMA PathHead ==
    ASSUME NEW a, NEW q \in Seq(Piece), q # << >>, NEW s \in Place, NEW u \in Place,
           Path(a, q, s, u)
    PROVE  \E t \in Place : Move(a, Head(q), s, t) /\ Path(a, Tail(q), t, u)
  <1> DEFINE r == Tail(q)
             n == Len(q)
  <1>1. /\ r \in Seq(Piece) /\ Len(r) = n - 1 /\ Head(q) = q[1]
        /\ \A k \in 1 .. Len(r) : r[k] = q[k + 1]
    BY HeadTailProperties
  <1>2. n \in Nat /\ n # 0
    BY LenProperties, EmptySeq
  <1>3. PICK at \in [0 .. n -> Place] : at[0] = s /\ at[n] = u /\ Stops(a, q, at)
    BY DEF Path
  <1> DEFINE to == [k \in 0 .. n - 1 |-> at[k + 1]]
  <1>4. Stops(a, q, at) => \A k \in 1 .. n : Move(a, q[k], at[k - 1], at[k])
    BY DEF Stops
  <1> HIDE DEF n, r
  <1>5. to \in [0 .. n - 1 -> Place] /\ to[0] = at[1] /\ to[n - 1] = u
    BY <1>2, <1>3
  <1>6. \A k \in 0 .. n - 1 : to[k] = at[k + 1]
    BY <1>2
  <1> HIDE DEF to
  <1>7. ASSUME NEW k \in 1 .. n - 1 PROVE Move(a, r[k], to[k - 1], to[k])
    <2>1. k + 1 \in 1 .. n /\ k + 1 - 1 = k /\ k - 1 + 1 = k /\ k \in 0 .. n - 1
          /\ k - 1 \in 0 .. n - 1
      BY <1>2
    <2>2. Move(a, q[k + 1], at[k], at[k + 1])
      BY <1>3, <1>4, <2>1
    <2>3. r[k] = q[k + 1] /\ to[k - 1] = at[k] /\ to[k] = at[k + 1]
      BY <1>1, <1>6, <2>1
    <2> QED
      BY <2>2, <2>3
  <1>8. Path(a, r, at[1], u)
    <2>1. Stops(a, r, to)
      BY <1>1, <1>7 DEF Stops
    <2> QED
      BY <1>1, <1>5, <2>1 DEF Path
  <1>9. at[1] \in Place /\ Move(a, Head(q), s, at[1])
    <2>1. 1 \in 1 .. n /\ 1 \in 0 .. n /\ 1 - 1 = 0
      BY <1>2
    <2>2. Move(a, q[1], at[0], at[1])
      BY <1>3, <1>4, <2>1
    <2> QED
      BY <1>1, <1>3, <2>1, <2>2
  <1> QED
    BY <1>8, <1>9 DEF r

\* A message accepted later does not disturb the path through those before it.
LEMMA PathLonger ==
    ASSUME NEW a \in Seq(Message), NEW m \in Message, NEW q \in Seq(Piece),
           NEW s \in Place, NEW t \in Place, Path(a, q, s, t)
    PROVE  Path(Append(a, m), q, s, t)
  <1> DEFINE b == Append(a, m)
  <1>1. /\ Len(a) \in Nat /\ Len(b) = Len(a) + 1
        /\ \A k \in 1 .. Len(a) : b[k] = a[k]
    BY LenProperties, AppendProperties
  <1> HIDE DEF b
  <1>2. ASSUME NEW p, NEW x \in Place, NEW y, Move(a, p, x, y)
        PROVE  Move(b, p, x, y)
    <2>1. CASE p = Beat /\ y = x
      BY <2>1 DEF Move
    <2>2. CASE x[1] < Len(a)
      <3>1. x[1] \in Nat
        BY DEF Place
      <3>2. x[1] + 1 \in 1 .. Len(a) /\ x[1] < Len(b)
        BY <1>1, <2>2, <3>1
      <3>3. b[x[1] + 1] = a[x[1] + 1]
        BY <1>1, <3>2
      <3> QED
        BY <1>2, <3>2, <3>3 DEF Move
    <2> QED
      BY <1>2, <2>1, <2>2 DEF Move
  <1>3. PICK at \in [0 .. Len(q) -> Place] :
            at[0] = s /\ at[Len(q)] = t /\ Stops(a, q, at)
    BY DEF Path
  <1>4. ASSUME NEW k \in 1 .. Len(q) PROVE Move(b, q[k], at[k - 1], at[k])
    <2>1. Len(q) \in Nat
      BY LenProperties
    <2>2. k - 1 \in 0 .. Len(q)
      BY <2>1
    <2>3. at[k - 1] \in Place /\ Move(a, q[k], at[k - 1], at[k])
      BY <1>3, <2>2 DEF Stops
    <2> QED
      BY <1>2, <2>3
  <1>5. Stops(b, q, at)
    BY <1>4 DEF Stops
  <1>6. Path(b, q, s, t)
    BY <1>3, <1>5 DEF Path
  <1> QED
    BY <1>6 DEF b

LEMMA PiecesFacts ==
    ASSUME NEW m \in Message
    PROVE  /\ Pieces(m) \in Seq(Piece) /\ Len(Pieces(m)) \in Nat \ {0}
           /\ m \in Big => /\ SectionCount[m] \in Nat \ {0}
                           /\ Len(Pieces(m)) = SectionCount[m] + 2
                           /\ Pieces(m) = Sections(m)
           /\ m \notin Big =>
                /\ Len(Pieces(m)) = 1
                /\ Pieces(m)[1] = [kind |-> "Message", msg |-> m, section |-> 0]
  <1>1. CASE m \in Big
    <2>1. SectionCount[m] \in Nat \ {0}
      BY <1>1, CountType
    <2>2. Sections(m) \in Seq(Piece) /\ DOMAIN Sections(m) = 1 .. SectionCount[m] + 2
      BY <1>1, SectionsType DEF Sections
    <2>3. Len(Sections(m)) = SectionCount[m] + 2
      BY <2>1, <2>2, LenProperties
    <2> QED
      BY <1>1, <2>1, <2>2, <2>3 DEF Pieces
  <1>2. CASE m \notin Big
    <2>1. m \in Small
      BY <1>2 DEF Message
    <2>2. [kind |-> "Message", msg |-> m, section |-> 0] \in Piece
      BY <2>1, PieceFacts
    <2> QED
      BY <1>2, <2>2 DEF Pieces
  <1> QED
    BY <1>1, <1>2

\* What Send makes of the next message leads past it.
LEMMA PathThrough ==
    ASSUME NEW a \in Seq(Message), NEW m \in Message
    PROVE  Path(Append(a, m), Pieces(m), <<Len(a), 0>>, <<Len(a) + 1, 0>>)
  <1> DEFINE b == Append(a, m)
             l == Len(a)
             n == Len(Pieces(m))
             at == [k \in 0 .. n |-> IF k = n THEN <<l + 1, 0>> ELSE <<l, k>>]
  <1>1. l \in Nat /\ Len(b) = l + 1 /\ b[l + 1] = m
    BY LenProperties, AppendProperties
  <1>2. n \in Nat /\ n # 0
    BY PiecesFacts
  <1> HIDE DEF b, l, n
  <1>3. at \in [0 .. n -> Place] /\ at[0] = <<l, 0>> /\ at[n] = <<l + 1, 0>>
    BY <1>1, <1>2 DEF Place
  <1>4. ASSUME NEW k \in 1 .. n PROVE Move(b, Pieces(m)[k], at[k - 1], at[k])
    <2>1. at[k - 1] = <<l, k - 1>> /\ at[k] = IF k = n THEN <<l + 1, 0>> ELSE <<l, k>>
      BY <1>2
    <2> HIDE DEF at
    <2>2. l < Len(b) /\ k - 1 < n /\ k - 1 + 1 = k
      BY <1>1, <1>2
    <2> QED
      BY <1>1, <2>1, <2>2 DEF Move, n
  <1> HIDE DEF at
  <1>5. Stops(b, Pieces(m), at)
    BY <1>4 DEF Stops, n
  <1>6. Path(b, Pieces(m), <<l, 0>>, <<l + 1, 0>>)
    BY <1>3, <1>5 DEF Path, n
  <1> QED
    BY <1>6 DEF b, l


\* The peer has passed the messages delivered and j packages of the one after
\* them: it knows that message by its header, and has its first j - 1 sections.
PeerAt(j) ==
    /\ Len(delivered) <= Len(accepted)
    /\ \A k \in 1 .. Len(delivered) : delivered[k] = Whole(accepted[k])
    /\ j # 0 =>
        LET m == accepted[Len(delivered) + 1] IN
        /\ Len(delivered) < Len(accepted) /\ m \in Big /\ header = m
        /\ Len(recvData) = SectionCount[m]
        /\ \A k \in 1 .. SectionCount[m] : k < j => recvData[k] = m

\* The peer hands over the next message.
Handed ==
    /\ Len(delivered) < Len(accepted)
    /\ delivered' = Append(delivered, Whole(accepted[Len(delivered) + 1]))

\* After it the peer is at the beginning of another.
LEMMA HandedKeeps ==
    ASSUME TypeInv, NEW j, PeerAt(j), Handed, UNCHANGED accepted
    PROVE  Len(delivered') = Len(delivered) + 1 /\ PeerAt(0)'
  <1> DEFINE d == Len(delivered)
             e == Whole(accepted[d + 1])
  <1>1. /\ delivered \in Seq(Parcel) /\ accepted \in Seq(Message)
        /\ d \in Nat /\ Len(accepted) \in Nat
    BY LenProperties DEF TypeInv, PeerType, SendType
  <1>2. e \in Parcel
    <2>1. d + 1 \in 1 .. Len(accepted)
      BY <1>1 DEF Handed
    <2>2. accepted[d + 1] \in Message
      BY <1>1, <2>1, ElementOfSeq
    <2> QED
      BY <2>2, WholeType
  <1>3. delivered' = Append(delivered, e) /\ d < Len(accepted)
    BY DEF Handed
  <1>4. /\ Len(delivered') = d + 1 /\ delivered'[d + 1] = e
        /\ \A k \in 1 .. d : delivered'[k] = delivered[k]
    BY <1>1, <1>2, <1>3, AppendProperties
  <1>5. \A k \in 1 .. d + 1 : delivered'[k] = Whole(accepted[k])
    <2> SUFFICES ASSUME NEW k \in 1 .. d + 1 PROVE delivered'[k] = Whole(accepted[k])
      OBVIOUS
    <2>1. k = d + 1 \/ k \in 1 .. d
      BY <1>1
    <2> QED
      BY <1>4, <2>1 DEF PeerAt
  <1> HIDE DEF e
  <1> QED
    BY <1>1, <1>3, <1>4, <1>5 DEF PeerAt

\* What the peer makes of its next package, if that is the one that comes next
\* in the stream of messages.
LEMMA ReceiveInOrder ==
    ASSUME TypeInv, Receive, NEW j \in Nat, PeerAt(j), NEW t \in Place,
           Move(accepted, Head(wire), <<Len(delivered), j>>, t)
    PROVE  /\ t[1] = Len(delivered') /\ PeerAt(t[2])'
           /\ UNCHANGED delivered \/ Handed
  <1> DEFINE d == Len(delivered)
             p == Head(wire)
             m == accepted[d + 1]
             c == SectionCount[m]
  <1>1. /\ wire # << >> /\ UNCHANGED accepted
        /\ p.kind = "Begin" => RecvBegin(p)
        /\ p.kind = "Data" => RecvData(p)
        /\ p.kind = "End" => RecvEnd(p)
        /\ p.kind = "Message" => /\ delivered' = Append(delivered, Whole(p.msg))
                                 /\ UNCHANGED <<header, recvData>>
        /\ p.kind = "Heartbeat" => UNCHANGED peerVars
    BY DEF Receive
  <1>2. /\ accepted \in Seq(Message) /\ d \in Nat /\ Len(accepted) \in Nat
        /\ recvData \in Seq(Big \cup {None})
    BY LenProperties DEF TypeInv, PeerType, SendType
  <1>3. CASE p = Beat /\ t = <<d, j>>
    <2>1. UNCHANGED <<header, recvData, delivered>>
      BY <1>1, <1>3 DEF Beat, peerVars
    <2>2. PeerAt(j)'
      BY <1>1, <2>1 DEF PeerAt
    <2> QED
      BY <1>3, <2>1, <2>2
  <1>4. ASSUME d < Len(accepted), j < Len(Pieces(m)), p = Pieces(m)[j + 1],
               t = IF j + 1 = Len(Pieces(m)) THEN <<d + 1, 0>> ELSE <<d, j + 1>>
        PROVE  t[1] = Len(delivered') /\ PeerAt(t[2])' /\ (UNCHANGED delivered \/ Handed)
    <2>1. m \in Message
      <3>1. d + 1 \in 1 .. Len(accepted)
        BY <1>2, <1>4
      <3> QED
        BY <1>2, <3>1, ElementOfSeq
    <2>2. ASSUME Handed, j + 1 = Len(Pieces(m))
          PROVE  t[1] = Len(delivered') /\ PeerAt(t[2])'
      <3>1. Len(delivered') = d + 1 /\ PeerAt(0)'
        BY <1>1, <2>2, HandedKeeps
      <3>2. t = <<d + 1, 0>>
        BY <1>4, <2>2
      <3>3. t[1] = d + 1 /\ t[2] = 0
        BY <3>2
      <3> QED
        BY <3>1, <3>3
    <2>3. CASE m \notin Big
      <3>0. \A x \in Message : x \notin Big =>
                /\ Len(Pieces(x)) = 1
                /\ Pieces(x)[1] = [kind |-> "Message", msg |-> x, section |-> 0]
        BY PiecesFacts
      <3>1. Len(Pieces(m)) = 1 /\ j = 0
        <4>1. Len(Pieces(m)) = 1 /\ j < Len(Pieces(m))
          BY <1>4, <2>1, <2>3, <3>0, Zenon
        <4> QED
          BY <4>1
      <3>2. p = [kind |-> "Message", msg |-> m, section |-> 0]
        <4>1. j + 1 = 1
          BY <3>1
        <4>2. p = Pieces(m)[1]
          BY <1>4, <4>1, Zenon
        <4> QED
          BY <2>1, <2>3, <3>0, <4>2, Zenon
      <3>3. p.kind = "Message" /\ p.msg = m
        BY <3>2
      <3>4. Handed
        BY <1>1, <1>4, <3>3 DEF Handed
      <3> QED
        BY <2>2, <3>1, <3>4
    <2>4. CASE m \in Big
      <3>1. c \in Nat \ {0} /\ Len(Pieces(m)) = c + 2 /\ Pieces(m) = Sections(m)
        BY <2>1, <2>4, PiecesFacts
      <3>2. p = IF j + 1 = 1 THEN [kind |-> "Begin", msg |-> m, section |-> 0]
                ELSE IF j + 1 = c + 2 THEN [kind |-> "End", msg |-> m, section |-> 0]
                ELSE [kind |-> "Data", msg |-> m, section |-> j + 1 - 1]
        <4>1. j + 1 \in 1 .. c + 2
          BY <1>4, <3>1
        <4> QED
          BY <1>4, <3>1, <4>1 DEF Sections
      <3>3. ASSUME j < c + 1, UNCHANGED delivered, header' = m, Len(recvData') = c,
                   \A k \in 1 .. c : k < j + 1 => recvData'[k] = m
            PROVE  t[1] = Len(delivered') /\ PeerAt(t[2])'
        <4>1. t = <<d, j + 1>>
          BY <1>4, <3>1, <3>3
        <4>2. t[1] = d /\ t[2] = j + 1
          BY <4>1
        <4>3. PeerAt(j + 1)'
          BY <1>1, <1>4, <2>4, <3>3 DEF PeerAt
        <4> QED
          BY <3>3, <4>2, <4>3
      <3>4. CASE j = 0
        <4>1. p.kind = "Begin" /\ p.msg = m
          BY <3>2, <3>4
        <4>2. header' = m /\ UNCHANGED delivered
              /\ recvData' = [k \in 1 .. c |-> IF k <= Len(recvData) THEN recvData[k] ELSE None]
          BY <1>1, <4>1 DEF RecvBegin
        <4>3. recvData' \in Seq(Big \cup {None})
          BY ReceiveKeeps DEF TypeInv, PeerType
        <4>4. DOMAIN recvData' = 1 .. c
          BY <4>2
        <4>5. Len(recvData') = c
          BY <3>1, <4>3, <4>4, LenProperties
        <4>6. j < c + 1 /\ \A k \in 1 .. c : k < j + 1 => recvData'[k] = m
          BY <3>1, <3>4
        <4> QED
          BY <3>3, <4>2, <4>5, <4>6
      <3>5. ASSUME j # 0
            PROVE  /\ header = m /\ Len(recvData) = c /\ header # None
                   /\ \A k \in 1 .. c : k < j => recvData[k] = m
        <4>1. m # None
          BY <2>1, LinkStreamAssumption DEF Message
        <4> QED
          BY <3>5, <4>1 DEF PeerAt
      <3>6. CASE j # 0 /\ j # c + 1
        <4>1. j \in 1 .. c /\ j < c + 1 /\ j + 1 # 1 /\ j + 1 # c + 2 /\ j + 1 - 1 = j
          <5>1. j < c + 2 /\ c \in Nat
            BY <1>4, <3>1
          <5> HIDE DEF c
          <5> QED
            BY <5>1, <3>6
        <4>2. p.kind = "Data" /\ p.msg = m /\ p.section = j
          BY <3>2, <4>1
        <4>3. UNCHANGED <<header, delivered>> /\ recvData' = [recvData EXCEPT ![j] = m]
          <5>1. j <= c
            BY <3>1, <4>1
          <5> QED
            BY <1>1, <3>5, <3>6, <4>2, <5>1 DEF RecvData
        <4>4. /\ Len(recvData') = c
              /\ \A k \in 1 .. c : recvData'[k] = IF k = j THEN m ELSE recvData[k]
          <5>1. /\ recvData \in Seq(Big \cup {None}) /\ m \in Big \cup {None}
                /\ Len(recvData) = c /\ j \in 1 .. Len(recvData)
            BY <1>2, <2>4, <3>5, <3>6, <4>1
          <5> HIDE DEF m, c
          <5> QED
            BY <4>3, <5>1, ExceptSeq
        <4>5. \A k \in 1 .. c : k < j + 1 => recvData'[k] = m
          <5> SUFFICES ASSUME NEW k \in 1 .. c, k < j + 1 PROVE recvData'[k] = m
            OBVIOUS
          <5>1. k = j \/ k < j
            BY <3>1
          <5> QED
            BY <3>5, <3>6, <4>4, <5>1
        <4> QED
          BY <3>3, <3>5, <3>6, <4>1, <4>3, <4>4, <4>5
      <3>7. CASE j = c + 1
        <4>1. j # 0 /\ j + 1 # 1 /\ j + 1 = c + 2
          BY <3>1, <3>7
        <4>2. p.kind = "End" /\ p.msg = m
          BY <3>2, <4>1
        <4>3. delivered' = Append(delivered, Assembled(m, recvData))
          BY <1>1, <3>5, <4>1, <4>2 DEF RecvEnd
        <4>4. recvData = [k \in 1 .. c |-> m]
          <5>1. \A k \in 1 .. c : recvData[k] = m
            BY <3>1, <3>5, <3>7, <4>1
          <5>2. DOMAIN recvData = 1 .. c /\ recvData = [k \in DOMAIN recvData |-> recvData[k]]
            <6>1. recvData \in Seq(Big \cup {None}) /\ Len(recvData) = c
              BY <1>2, <3>5, <4>1
            <6> HIDE DEF c
            <6>2. recvData \in [1 .. c -> Big \cup {None}]
              BY <6>1, LenProperties
            <6> QED
              BY <6>2
          <5> QED
            BY <5>1, <5>2
        <4>5. Handed
          BY <1>4, <2>4, <4>3, <4>4 DEF Handed, Whole
        <4> QED
          BY <2>2, <3>1, <4>1, <4>5
      <3> QED
        BY <3>4, <3>6, <3>7
    <2> QED
      BY <2>3, <2>4
  <1>5. \/ p = Beat /\ t = <<d, j>>
        \/ /\ d < Len(accepted) /\ j < Len(Pieces(m)) /\ p = Pieces(m)[j + 1]
           /\ t = IF j + 1 = Len(Pieces(m)) THEN <<d + 1, 0>> ELSE <<d, j + 1>>
    BY DEF Move
  <1> QED
    BY <1>3, <1>4, <1>5


Broken == ~open \/ writing = "failed"

\* The packages of the queue that have not been transmitted.
Unwritten == IF writing = "done" THEN Tail(write_msgs) ELSE write_msgs

\* The packages that are neither read by the peer nor queued lead from where
\* the peer is to the end of what was accepted; on a broken connection, only
\* those transmitted lead anywhere.
WayInv ==
    \E j \in Nat, s, t \in Place :
        /\ PeerAt(j)
        /\ Path(accepted, wire, <<Len(delivered), j>>, s)
        /\ ~Broken => /\ Path(accepted, Unwritten, s, t)
                      /\ Path(accepted, sending, t, <<Len(accepted), 0>>)

LEMMA WayInit == Init => WayInv
  <1> SUFFICES ASSUME Init PROVE WayInv
    OBVIOUS
  <1>1. /\ sending = << >> /\ wire = << >> /\ write_msgs = << >> /\ writing = "idle"
        /\ Len(accepted) = 0 /\ Len(delivered) = 0 /\ <<0, 0>> \in Place
    BY EmptySeq DEF Init, Place
  <1>2. Unwritten = << >>
    BY <1>1 DEF Unwritten
  <1>3. PeerAt(0)
    BY <1>1 DEF PeerAt
  <1>4. Path(accepted, << >>, <<0, 0>>, <<0, 0>>)
    BY <1>1, PathEmpty
  <1> QED
    BY <1>1, <1>2, <1>3, <1>4 DEF WayInv

LEMMA PlaceFacts ==
    /\ TypeInv => Len(delivered) \in Nat /\ Len(accepted) \in Nat
    /\ \A i, j \in Nat : <<i, j>> \in Place
  <1>1. TypeInv => Len(delivered) \in Nat /\ Len(accepted) \in Nat
    BY LenProperties DEF TypeInv, SendType, PeerType
  <1> QED
    BY <1>1 DEF Place

\* What is appended behind others does not become the head.
LEMMA TailOfAppend ==
    ASSUME NEW q \in Seq(Piece), q # << >>, NEW e \in Piece
    PROVE  Tail(Append(q, e)) = Append(Tail(q), e) /\ Tail(q) \in Seq(Piece)
  <1> DEFINE l == Tail(Append(q, e))
             r == Append(Tail(q), e)
             n == Len(q)
  <1>1. n \in Nat /\ n # 0
    BY LenProperties, EmptySeq
  <1>2. /\ Tail(q) \in Seq(Piece) /\ Len(Tail(q)) = n - 1
        /\ \A k \in 1 .. Len(Tail(q)) : Tail(q)[k] = q[k + 1]
    BY HeadTailProperties
  <1>3. /\ Append(q, e) \in Seq(Piece) /\ Append(q, e) # << >>
        /\ Len(Append(q, e)) = n + 1 /\ Append(q, e)[n + 1] = e
        /\ \A k \in 1 .. n : Append(q, e)[k] = q[k]
    BY AppendProperties
  <1>4. /\ l \in Seq(Piece) /\ Len(l) = Len(Append(q, e)) - 1
        /\ \A k \in 1 .. Len(l) : l[k] = Append(q, e)[k + 1]
    BY <1>3, HeadTailProperties
  <1>5. /\ r \in Seq(Piece) /\ Len(r) = Len(Tail(q)) + 1 /\ r[Len(Tail(q)) + 1] = e
        /\ \A k \in 1 .. Len(Tail(q)) : r[k] = Tail(q)[k]
    BY <1>2, AppendProperties
  <1> HIDE DEF l, r, n
  <1>6. Len(l) = n /\ Len(r) = n
    BY <1>1, <1>2, <1>3, <1>4, <1>5
  <1>7. ASSUME NEW k \in 1 .. n PROVE l[k] = r[k]
    <2>1. CASE k = n
      BY <1>1, <1>2, <1>3, <1>4, <1>5, <1>6, <2>1
    <2>2. CASE k # n
      <3>1. k \in 1 .. n - 1 /\ k + 1 \in 1 .. n
        BY <1>1, <2>2
      <3> QED
        BY <1>2, <1>3, <1>4, <1>5, <1>6, <3>1
    <2> QED
      BY <2>1, <2>2
  <1>8. l = r
    BY <1>4, <1>5, <1>6, <1>7, SeqEqual
  <1> QED
    BY <1>2, <1>8 DEF l, r

\* A package that Send queues comes after all that are not written.
LEMMA QueuedLast ==
    ASSUME TypeInv, ~Broken, NEW p \in Piece, Send(p), writing # "popped"
    PROVE  Unwritten' = Append(Unwritten, p) /\ Unwritten \in Seq(Piece)
  <1>1. write_msgs \in Seq(Piece) /\ write_msgs' = Append(write_msgs, p)
    BY DEF TypeInv, SendType, Send, Broken
  <1>2. CASE write_msgs = << >>
    <2>1. writing = "idle" /\ writing' = "armed"
      BY <1>2 DEF TypeInv, WriteOutstanding, Send, Broken
    <2> QED
      BY <1>1, <2>1 DEF Unwritten
  <1>3. CASE write_msgs # << >>
    <2>1. writing' = writing
      BY <1>3 DEF Send, sendVars
    <2>2. /\ Tail(Append(write_msgs, p)) = Append(Tail(write_msgs), p)
          /\ Tail(write_msgs) \in Seq(Piece)
      BY <1>1, <1>3, TailOfAppend
    <2> QED
      BY <1>1, <2>1, <2>2 DEF Unwritten
  <1> QED
    BY <1>2, <1>3

\* A message accepted leaves the peer where it is.
LEMMA PeerLonger ==
    ASSUME TypeInv, NEW j, PeerAt(j), NEW m \in Message, accepted' = Append(accepted, m),
           UNCHANGED peerVars
    PROVE  PeerAt(j)'
  <1>1. /\ Len(accepted) \in Nat /\ Len(delivered) \in Nat
        /\ Len(accepted') = Len(accepted) + 1
        /\ \A k \in 1 .. Len(accepted) : accepted'[k] = accepted[k]
    BY PlaceFacts, AppendProperties DEF TypeInv, SendType
  <1>2. UNCHANGED <<header, recvData, delivered>>
    BY DEF peerVars
  <1>3. \A k \in 1 .. Len(delivered) : delivered'[k] = Whole(accepted'[k])
    <2> SUFFICES ASSUME NEW k \in 1 .. Len(delivered) PROVE delivered'[k] = Whole(accepted'[k])
      OBVIOUS
    <2>1. k \in 1 .. Len(accepted)
      BY <1>1 DEF PeerAt
    <2> QED
      BY <1>1, <1>2, <2>1 DEF PeerAt
  <1>4. ASSUME j # 0 PROVE accepted'[Len(delivered) + 1] = accepted[Len(delivered) + 1]
    <2>1. Len(delivered) + 1 \in 1 .. Len(accepted)
      BY <1>1, <1>4 DEF PeerAt
    <2> QED
      BY <1>1, <2>1
  <1>5. /\ Len(delivered) <= Len(accepted')
        /\ Len(delivered) < Len(accepted) => Len(delivered) < Len(accepted')
    BY <1>1 DEF PeerAt
  <1> QED
    BY <1>2, <1>3, <1>4, <1>5 DEF PeerAt

\* Every package takes its turn: it is made by Send, queued, written and read,
\* and stays in its place among the others on the way.
LEMMA WayStep == ~LateCopy /\ TypeInv /\ WayInv /\ [Next]_streamVars => WayInv'
  <1> SUFFICES ASSUME ~LateCopy, TypeInv, WayInv, [Next]_streamVars PROVE WayInv'
    OBVIOUS
  <1>0. PICK j \in Nat, s \in Place, t \in Place :
            /\ PeerAt(j)
            /\ Path(accepted, wire, <<Len(delivered), j>>, s)
            /\ ~Broken => /\ Path(accepted, Unwritten, s, t)
                          /\ Path(accepted, sending, t, <<Len(accepted), 0>>)
    BY DEF WayInv
  <1>a. /\ sending \in Seq(Piece) /\ write_msgs \in Seq(Piece) /\ wire \in Seq(Piece)
        /\ accepted \in Seq(Message)
        /\ Unwritten \in Seq(Piece)
    <2>1. sending \in Seq(Piece) /\ write_msgs \in Seq(Piece) /\ wire \in Seq(Piece)
          /\ accepted \in Seq(Message)
      BY DEF TypeInv, SendType, PeerType
    <2>2. write_msgs = << >> => writing # "done"
      BY DEF TypeInv, WriteOutstanding
    <2>3. write_msgs # << >> => Tail(write_msgs) \in Seq(Piece)
      BY <2>1, HeadTailProperties
    <2> QED
      BY <2>1, <2>2, <2>3 DEF Unwritten
  <1>b. <<Len(delivered), j>> \in Place /\ <<Len(accepted), 0>> \in Place
        /\ <<Len(accepted) + 1, 0>> \in Place /\ Len(accepted) \in Nat
    BY PlaceFacts
  <1>1. ASSUME NEW m \in Message, sending = << >>, sending' = Pieces(m),
               accepted' = Append(accepted, m),
               UNCHANGED <<sendVars, peerVars, open, wire>>
        PROVE  WayInv'
    <2>1. PeerAt(j)' /\ delivered' = delivered
      BY <1>0, <1>1, PeerLonger DEF peerVars
    <2>2. Path(accepted', wire', <<Len(delivered'), j>>, s)
      BY <1>0, <1>1, <1>a, <1>b, <2>1, PathLonger
    <2>3. ASSUME ~Broken PROVE /\ Path(accepted', Unwritten, s, t)
                               /\ Path(accepted', sending', t, <<Len(accepted'), 0>>)
      <3>1. t = <<Len(accepted), 0>>
        BY <1>0, <1>1, <1>b, <2>3, PathEmpty
      <3>2. Len(accepted') = Len(accepted) + 1
        BY <1>1, <1>a, AppendProperties
      <3>3. Path(accepted', sending', t, <<Len(accepted'), 0>>)
        BY <1>1, <1>a, <3>1, <3>2, PathThrough
      <3>4. Path(accepted', Unwritten, s, t)
        BY <1>0, <1>1, <1>a, <2>3, PathLonger
      <3> QED
        BY <3>3, <3>4
    <2>4. Unwritten' = Unwritten /\ Broken' = Broken
      BY <1>1 DEF Unwritten, Broken, sendVars
    <2> QED
      BY <1>0, <2>1, <2>2, <2>3, <2>4 DEF WayInv
  <1>2. ASSUME NEW m \in Big, SendBig(m) PROVE WayInv'
    <2>1. m \in Message /\ Pieces(m) = Sections(m)
      BY DEF Message, Pieces
    <2> QED
      BY <1>1, <1>2, <2>1 DEF SendBig
  <1>3. ASSUME NEW m \in Small, SendSmall(m) PROVE WayInv'
    <2>1. m \in Message /\ m \notin Big
      BY LinkStreamAssumption DEF Message
    <2>2. Pieces(m) = <<[kind |-> "Message", msg |-> m, section |-> 0]>>
      BY <2>1 DEF Pieces
    <2> QED
      BY <1>1, <1>3, <2>1, <2>2 DEF SendSmall
  <1>5. ASSUME NEW p \in Piece, Send(p), writing # "popped",
               UNCHANGED <<peerVars, open, wire, accepted>>,
               NEW u \in Place, ~Broken => Move(accepted, p, t, u),
               ~Broken => Path(accepted, sending', u, <<Len(accepted), 0>>)
        PROVE  WayInv'
    <2>1. UNCHANGED <<header, recvData, delivered>>
      BY <1>5 DEF peerVars
    <2>2. PeerAt(j)'
      BY <1>0, <1>5, <2>1 DEF PeerAt
    <2>3. Broken => Broken'
      <3>1. writing = "failed" => writing' = "failed"
        BY <1>5 DEF Send, sendVars, TypeInv, WriteOutstanding
      <3> QED
        BY <1>5, <3>1 DEF Broken
    <2>4. ASSUME ~Broken PROVE Path(accepted, Unwritten', s, u)
      <3>1. Unwritten' = Append(Unwritten, p) /\ Unwritten \in Seq(Piece)
        BY <1>5, <2>4, QueuedLast
      <3>2. Path(accepted, Append(Unwritten, p), s, u)
        BY <1>0, <1>5, <2>4, <3>1, PathAppend
      <3> QED
        BY <3>1, <3>2
    <2> QED
      BY <1>0, <1>5, <2>1, <2>2, <2>3, <2>4 DEF WayInv
  <1>6. CASE SendNext
    <2>1. /\ sending # << >> /\ writing # "popped"
          /\ Send(Head(sending)) /\ sending' = Tail(sending)
          /\ UNCHANGED <<peerVars, open, wire, accepted>>
      BY <1>6 DEF SendNext
    <2>2. Head(sending) \in Piece
      BY <1>a, <2>1, HeadTailProperties
    <2>3. CASE Broken
      BY <1>5, <1>b, <2>1, <2>2, <2>3
    <2>4. CASE ~Broken
      <3>1. Path(accepted, sending, t, <<Len(accepted), 0>>)
        BY <1>0, <2>4
      <3>2. PICK u \in Place : Move(accepted, Head(sending), t, u)
                               /\ Path(accepted, Tail(sending), u, <<Len(accepted), 0>>)
        BY <1>a, <1>b, <2>1, <3>1, PathHead
      <3> QED
        BY <1>5, <2>1, <2>2, <3>2
    <2> QED
      BY <2>3, <2>4
  <1>7. CASE EchoHeartbeat
    <2>1. /\ Beat \in Piece /\ Send(Beat) /\ writing # "popped"
          /\ UNCHANGED <<peerVars, sending, open, wire, accepted>>
      BY <1>7, PieceFacts DEF EchoHeartbeat, Beat
    <2>2. Move(accepted, Beat, t, t)
      BY DEF Move
    <2> QED
      BY <1>0, <1>5, <2>1, <2>2
  <1>8. ASSUME UNCHANGED <<peerVars, wire, accepted, sending, open, Unwritten>>,
               Broken' = Broken
        PROVE  WayInv'
    <2>1. UNCHANGED <<header, recvData, delivered>>
      BY <1>8 DEF peerVars
    <2>2. PeerAt(j)'
      BY <1>0, <1>8, <2>1 DEF PeerAt
    <2> QED
      BY <1>0, <1>8, <2>1, <2>2 DEF WayInv
  <1>9. CASE HandleWrite
    <2>1. /\ writing = "popped" /\ writing' \in {"armed", "idle"}
          /\ UNCHANGED <<write_msgs, peerVars, wire, accepted, sending, open>>
      BY <1>9 DEF HandleWrite, WriteNext
    <2>2. Unwritten' = Unwritten /\ Broken' = Broken
      BY <2>1 DEF Unwritten, Broken
    <2> QED
      BY <1>8, <2>1, <2>2
  <1>16. CASE HandleWritePops
    <2>1. /\ writing = "done" /\ write_msgs' = Tail(write_msgs) /\ writing' = "popped"
          /\ UNCHANGED <<peerVars, wire, accepted, sending, open>>
      BY <1>16 DEF HandleWritePops
    <2>2. Unwritten' = Unwritten /\ Broken' = Broken
      BY <2>1 DEF Unwritten, Broken
    <2> QED
      BY <1>8, <2>1, <2>2
  <1>10. ASSUME Broken', UNCHANGED <<peerVars, wire, accepted>> PROVE WayInv'
    <2>1. UNCHANGED <<header, recvData, delivered>>
      BY <1>10 DEF peerVars
    <2>2. PeerAt(j)'
      BY <1>0, <1>10, <2>1 DEF PeerAt
    <2> QED
      BY <1>0, <1>10, <2>1, <2>2 DEF WayInv
  <1>11. CASE HandleWriteError
    BY <1>10, <1>11 DEF HandleWriteError, Broken
  <1>12. CASE CloseSocket
    BY <1>10, <1>12 DEF CloseSocket, Broken
  <1>13. CASE Transmit
    <2> DEFINE p == Head(write_msgs)
    <2>1. /\ writing = "armed" /\ writing' = "done" /\ open /\ wire' = Append(wire, p)
          /\ UNCHANGED <<write_msgs, peerVars, sending, open, accepted>>
      BY <1>13 DEF Transmit
    <2>2. write_msgs # << >> /\ ~Broken /\ ~Broken'
          /\ Unwritten = write_msgs /\ Unwritten' = Tail(write_msgs)
      BY <2>1 DEF TypeInv, WriteOutstanding, Broken, Unwritten
    <2>3. p \in Piece
      BY <1>a, <2>2, HeadTailProperties
    <2>4. PICK u \in Place : Move(accepted, p, s, u) /\ Path(accepted, Tail(write_msgs), u, t)
      BY <1>0, <1>a, <2>2, PathHead
    <2> HIDE DEF p
    <2>5. Path(accepted, Append(wire, p), <<Len(delivered), j>>, u)
      BY <1>0, <1>a, <1>b, <2>3, <2>4, PathAppend
    <2>6. UNCHANGED <<header, recvData, delivered>>
      BY <2>1 DEF peerVars
    <2>7. PeerAt(j)'
      BY <1>0, <2>1, <2>6 DEF PeerAt
    <2> QED
      BY <1>0, <2>1, <2>2, <2>4, <2>5, <2>6, <2>7 DEF WayInv
  <1>14. CASE Receive
    <2>1. /\ wire # << >> /\ wire' = Tail(wire)
          /\ UNCHANGED <<sendVars, sending, open, accepted>>
      BY <1>14 DEF Receive
    <2>2. PICK u \in Place : /\ Move(accepted, Head(wire), <<Len(delivered), j>>, u)
                             /\ Path(accepted, Tail(wire), u, s)
      BY <1>0, <1>a, <1>b, <2>1, PathHead
    <2>3. u[1] = Len(delivered') /\ PeerAt(u[2])'
      BY <1>0, <1>14, <2>2, ReceiveInOrder
    <2>4. u = <<Len(delivered'), u[2]>> /\ u[2] \in Nat
      BY <2>3 DEF Place
    <2>5. Unwritten' = Unwritten /\ Broken' = Broken
      BY <2>1 DEF sendVars, Unwritten, Broken
    <2>6. Path(accepted', wire', <<Len(delivered'), u[2]>>, s)
      BY <2>1, <2>2, <2>4
    <2> QED
      BY <1>0, <2>1, <2>3, <2>4, <2>5, <2>6 DEF WayInv
  <1>15. CASE UNCHANGED streamVars
    <2>1. Unwritten' = Unwritten /\ Broken' = Broken
      BY <1>15 DEF streamVars, sendVars, Unwritten, Broken
    <2> QED
      BY <1>8, <1>15, <2>1 DEF streamVars
  <1> QED
    BY <1>2, <1>3, <1>6, <1>7, <1>9, <1>11, <1>12, <1>13, <1>14, <1>15, <1>16 DEF Next


\* What the peer's programs will be given for the messages accepted.
Wholes == [k \in DOMAIN accepted |-> Whole(accepted[k])]

WholesSeq ==
    /\ Wholes \in Seq(Parcel) /\ Len(Wholes) = Len(accepted)
    /\ \A k \in 1 .. Len(accepted) : Wholes[k] = Whole(accepted[k])

LEMMA WholesType == TypeInv => WholesSeq
  <1> SUFFICES ASSUME TypeInv PROVE WholesSeq
    OBVIOUS
  <1>1. accepted \in Seq(Message) /\ Len(accepted) \in Nat /\ DOMAIN accepted = 1 .. Len(accepted)
    BY LenProperties DEF TypeInv, SendType
  <1>2. \A k \in 1 .. Len(accepted) : Whole(accepted[k]) \in Parcel
    BY <1>1, ElementOfSeq, WholeType
  <1>3. Wholes \in [1 .. Len(accepted) -> Parcel]
    BY <1>1, <1>2 DEF Wholes
  <1> QED
    BY <1>1, <1>3, FunctionIsSeq DEF Wholes, WholesSeq

\* The same of the next state.
LEMMA WholesNext == TypeInv' => WholesSeq'
  BY WholesType, PTL

\* A message accepted is one more.
LEMMA WholesAppend ==
    ASSUME TypeInv, TypeInv', NEW m \in Message, accepted' = Append(accepted, m)
    PROVE  Wholes' = Append(Wholes, Whole(m))
  <1> DEFINE n == Len(accepted)
             r == Append(Wholes, Whole(m))
  <1>1. /\ Wholes \in Seq(Parcel) /\ Len(Wholes) = n
        /\ \A k \in 1 .. n : Wholes[k] = Whole(accepted[k])
    BY WholesType DEF WholesSeq
  <1>2. /\ Wholes' \in Seq(Parcel) /\ Len(Wholes') = Len(accepted')
        /\ \A k \in 1 .. Len(accepted') : Wholes'[k] = Whole(accepted'[k])
    BY WholesNext DEF WholesSeq
  <1>3. /\ n \in Nat /\ Len(accepted') = n + 1 /\ accepted'[n + 1] = m
        /\ \A k \in 1 .. n : accepted'[k] = accepted[k]
    BY PlaceFacts, AppendProperties DEF TypeInv, SendType
  <1>4. /\ r \in Seq(Parcel) /\ Len(r) = n + 1 /\ r[n + 1] = Whole(m)
        /\ \A k \in 1 .. n : r[k] = Wholes[k]
    BY <1>1, WholeType, AppendProperties
  <1> HIDE DEF n, r
  <1>5. ASSUME NEW k \in 1 .. n + 1 PROVE Wholes'[k] = r[k]
    <2>1. Wholes'[k] = Whole(accepted'[k])
      BY <1>2, <1>3
    <2>2. k = n + 1 \/ k \in 1 .. n
      BY <1>3
    <2> QED
      BY <1>1, <1>3, <1>4, <2>1, <2>2
  <1>6. Wholes' = r
    BY <1>2, <1>3, <1>4, <1>5, SeqEqual
  <1> QED
    BY <1>6 DEF r

\* The safety half of ImplementsChannel.
ChannelSafety == Channel!Init /\ [][Channel!Next]_(Channel!channelVars)

LEMMA ChannelInit == Init => Channel!Init
  <1> SUFFICES ASSUME Init PROVE Channel!Init
    OBVIOUS
  <1>1. TypeInv /\ accepted = << >> /\ Len(accepted) = 0
    BY TypeInit, EmptySeq DEF Init
  <1>2. Wholes = << >>
    BY <1>1, WholesType, EmptySeq DEF WholesSeq
  <1> QED
    BY <1>2 DEF Init, Channel!Init, Wholes

\* Send accepts, the peer hands over, errors break; everything else happens
\* inside the channel.
LEMMA ChannelStep ==
    ~LateCopy /\ TypeInv /\ TypeInv' /\ WayInv /\ [Next]_streamVars
        => [Channel!Next]_(Channel!channelVars)
  <1> SUFFICES ASSUME ~LateCopy, TypeInv, TypeInv', WayInv, [Next]_streamVars
               PROVE  [Channel!Next]_(Channel!channelVars)
    OBVIOUS
  <1>1. ASSUME UNCHANGED <<accepted, delivered, Broken>>
        PROVE  UNCHANGED Channel!channelVars
    BY <1>1 DEF Channel!channelVars, Broken
  <1>2. ASSUME NEW m \in Message, accepted' = Append(accepted, m),
               UNCHANGED <<sendVars, peerVars, open>>
        PROVE  Channel!Next
    <2>1. Wholes' = Append(Wholes, Whole(m))
      BY <1>2, WholesAppend
    <2>2. UNCHANGED <<delivered, Broken>>
      BY <1>2 DEF sendVars, peerVars, Broken
    <2>3. Channel!Accept(Whole(m))
      BY <2>1, <2>2 DEF Channel!Accept, Wholes, Broken
    <2> QED
      BY <2>3 DEF Channel!Next
  <1>3. ASSUME Broken', UNCHANGED <<accepted, delivered>> PROVE Channel!Next
    BY <1>3 DEF Channel!Next, Channel!Break, Broken
  <1>4. ASSUME NEW m \in Big, SendBig(m) PROVE Channel!Next
    <2>1. m \in Message /\ accepted' = Append(accepted, m) /\ UNCHANGED <<sendVars, peerVars, open>>
      BY <1>4 DEF SendBig, Message
    <2> QED
      BY <1>2, <2>1
  <1>5. ASSUME NEW m \in Small, SendSmall(m) PROVE Channel!Next
    <2>1. m \in Message /\ accepted' = Append(accepted, m) /\ UNCHANGED <<sendVars, peerVars, open>>
      BY <1>5 DEF SendSmall, Message
    <2> QED
      BY <1>2, <2>1
  <1>6. ASSUME NEW p, Send(p), writing # "popped", UNCHANGED <<peerVars, open, accepted>>
        PROVE  UNCHANGED <<accepted, delivered, Broken>>
    BY <1>6 DEF Send, sendVars, peerVars, Broken, TypeInv, WriteOutstanding
  <1>7. CASE SendNext
    BY <1>1, <1>6, <1>7 DEF SendNext
  <1>8. CASE EchoHeartbeat
    BY <1>1, <1>6, <1>8 DEF EchoHeartbeat
  <1>9. CASE HandleWrite
    BY <1>1, <1>9 DEF HandleWrite, WriteNext, peerVars, Broken
  <1>15. CASE HandleWritePops
    BY <1>1, <1>15 DEF HandleWritePops, peerVars, Broken
  <1>10. CASE HandleWriteError
    BY <1>3, <1>10 DEF HandleWriteError, peerVars, Broken
  <1>11. CASE CloseSocket
    BY <1>3, <1>11 DEF CloseSocket, peerVars, Broken
  <1>12. CASE Transmit
    BY <1>1, <1>12 DEF Transmit, peerVars, Broken
  <1>13. CASE Receive
    <2>1. PICK j \in Nat, s \in Place, t \in Place :
              PeerAt(j) /\ Path(accepted, wire, <<Len(delivered), j>>, s)
      BY DEF WayInv
    <2>2. /\ wire \in Seq(Piece) /\ wire # << >> /\ <<Len(delivered), j>> \in Place
          /\ UNCHANGED <<sendVars, open, accepted>>
      BY <1>13, PlaceFacts DEF Receive, TypeInv, PeerType
    <2>3. PICK u \in Place : Move(accepted, Head(wire), <<Len(delivered), j>>, u)
      BY <2>1, <2>2, PathHead
    <2>4. UNCHANGED delivered \/ Handed
      BY <1>13, <2>1, <2>3, ReceiveInOrder
    <2>5. UNCHANGED Broken
      BY <2>2 DEF sendVars, Broken
    <2>6. ASSUME Handed PROVE Channel!Next
      <3>1. Len(delivered) + 1 \in 1 .. Len(accepted)
        BY <2>6, PlaceFacts DEF Handed
      <3>2. Len(Wholes) = Len(accepted)
            /\ Wholes[Len(delivered) + 1] = Whole(accepted[Len(delivered) + 1])
        BY <3>1, WholesType DEF WholesSeq
      <3>3. Len(delivered) < Len(Wholes)
            /\ delivered' = Append(delivered, Wholes[Len(delivered) + 1])
        BY <2>6, <3>2 DEF Handed
      <3>4. UNCHANGED <<Wholes, Broken>>
        BY <2>2, <2>5 DEF Wholes
      <3>5. Channel!Deliver
        BY <3>3, <3>4 DEF Channel!Deliver, Wholes, Broken
      <3> QED
        BY <3>5 DEF Channel!Next
    <2> QED
      BY <1>1, <2>2, <2>4, <2>5, <2>6
  <1>14. CASE UNCHANGED streamVars
    BY <1>1, <1>14 DEF streamVars, sendVars, peerVars, Broken
  <1> QED
    BY <1>4, <1>5, <1>7, <1>8, <1>9, <1>10, <1>11, <1>12, <1>13, <1>14, <1>15 DEF Next

LEMMA StreamWayInv == ~LateCopy /\ Spec => []WayInv
  <1>1. ~LateCopy /\ TypeInv /\ WayInv /\ [Next]_streamVars => WayInv'
    BY WayStep
  <1>2. ASSUME ~LateCopy PROVE Spec => []WayInv
    <2>1. TypeInv /\ WayInv /\ [Next]_streamVars => WayInv'
      BY <1>1, <1>2
    <2> QED
      BY <2>1, WayInit, StreamTypeInv, PTL DEF Spec
  <1> QED
    BY <1>2

\* What handle_write says of itself is true when the system has copied the bytes
\* of a write before the call returns: the peer is given what was queued.  So the
\* local variable is the only reason why it may not be.
THEOREM SentAsQueued == ~LateCopy /\ Spec => []QueueIsSentAsQueued
  <1>1. TypeInv /\ WayInv => QueueIsSentAsQueued
    <2> SUFFICES ASSUME TypeInv, WayInv PROVE QueueIsSentAsQueued
      OBVIOUS
    <2>1. PICK j \in Nat : PeerAt(j)
      BY DEF WayInv
    <2>2. DOMAIN delivered = 1 .. Len(delivered)
      BY LenProperties DEF TypeInv, PeerType
    <2> QED
      BY <2>1, <2>2 DEF PeerAt, QueueIsSentAsQueued
  <1> QED
    BY <1>1, StreamTypeInv, StreamWayInv, PTL

\* When the system has copied the bytes of a write before the call returns, a
\* connection is a channel as far as safety goes: SetBigPackage, the queue of
\* HXLibAccept, its writes, heartbeats in between, and RecvPackage hand over the
\* messages accepted, whole and in order, however many sections they have.
THEOREM StreamIsChannel == ~LateCopy /\ Spec => ChannelSafety
  <1>1. ~LateCopy /\ TypeInv /\ TypeInv' /\ WayInv /\ [Next]_streamVars
            => [Channel!Next]_(Channel!channelVars)
    BY ChannelStep
  <1>2. ASSUME ~LateCopy PROVE Spec => ChannelSafety
    <2>1. TypeInv /\ TypeInv' /\ WayInv /\ [Next]_streamVars
              => [Channel!Next]_(Channel!channelVars)
      BY <1>1, <1>2
    <2>2. Spec => []WayInv
      BY <1>2, StreamWayInv
    <2> QED
      BY <2>1, <2>2, ChannelInit, StreamTypeInv, PTL DEF Spec, ChannelSafety
  <1> QED
    BY <1>2

-----------------------------------------------------------------------------
(* Nothing is left lying. *)

\* While the connection lasts, a message the peer has not been given is in the
\* hands of somebody who takes it on: the sender, handle_write, the system or
\* the peer.  When all of them have nothing left to do, all of it was delivered.
MessagesGoOn ==
    ~Broken /\ Len(delivered) < Len(accepted) =>
        \/ sending # << >>
        \/ writing \in {"done", "popped"}
        \/ writing = "armed" /\ open
        \/ wire # << >>

LEMMA MessagesCarried == ASSUME TypeInv, WayInv PROVE MessagesGoOn
  <1> SUFFICES ASSUME ~Broken, sending = << >>, wire = << >>,
                      writing \notin {"done", "popped", "armed"}
               PROVE  Len(delivered) = Len(accepted)
    <2>1. Len(delivered) < Len(accepted) => Len(delivered) # Len(accepted)
      BY PlaceFacts
    <2>2. ~Broken => open
      BY DEF Broken
    <2> QED
      BY <2>1, <2>2, Zenon DEF MessagesGoOn
  <1>1. PICK j \in Nat, s \in Place, t \in Place :
            /\ Path(accepted, wire, <<Len(delivered), j>>, s)
            /\ Path(accepted, Unwritten, s, t)
            /\ Path(accepted, sending, t, <<Len(accepted), 0>>)
    BY DEF WayInv
  <1>2. /\ <<Len(delivered), j>> \in Place /\ <<Len(accepted), 0>> \in Place
    BY PlaceFacts
  <1>3. Unwritten = << >>
    <2>1. writing = "idle"
      BY DEF Broken, TypeInv, WriteType
    <2> QED
      BY <2>1 DEF TypeInv, WriteOutstanding, Unwritten
  <1>4. <<Len(delivered), j>> = s /\ s = t /\ t = <<Len(accepted), 0>>
    BY <1>1, <1>2, <1>3, PathEmpty, Zenon
  <1> QED
    BY <1>4

\* No message comes to rest half-way, whatever its number of sections and
\* wherever heartbeats come in between: neither in write_msgs_ without a write
\* nor in the peer's buffer with its last section read.
THEOREM NoMessageIsLeft == ~LateCopy /\ Spec => []MessagesGoOn
  <1>1. TypeInv /\ WayInv => MessagesGoOn
    BY MessagesCarried
  <1> QED
    BY <1>1, StreamTypeInv, StreamWayInv, PTL
=============================================================================
