----------------------------- MODULE UserProofs -----------------------------
(* What holds of the verification of users, for every set of requests and *)
(* every size of the queues, and of the database it is to ask, for every set *)
(* of users and every number of statements, results and rows. *)
EXTENDS UserVerifier, UserDatabase, SequenceTheorems, TLAPS

-----------------------------------------------------------------------------
(* Sequences. *)

\* An element may be moved over from the end of a sequence to the front of the
\* one behind it.
LEMMA AppendConcat ==
    ASSUME NEW S, NEW s \in Seq(S), NEW t \in Seq(S), NEW e \in S
    PROVE  Append(s, e) \o t = s \o (<<e>> \o t)
  <1>1. <<e>> \in Seq(S)
    OBVIOUS
  <1>2. Append(s, e) = s \o <<e>>
    BY AppendIsConcat
  <1>3. (s \o <<e>>) \o t = s \o (<<e>> \o t)
    BY <1>1, ConcatAssociative
  <1> QED
    BY <1>2, <1>3

\* Appending to the last of two sequences is appending to both together.
LEMMA ConcatAppend ==
    ASSUME NEW S, NEW s \in Seq(S), NEW t \in Seq(S), NEW e \in S
    PROVE  s \o Append(t, e) = Append(s \o t, e)
  <1>1. <<e>> \in Seq(S) /\ s \o t \in Seq(S)
    BY ConcatProperties
  <1>2. Append(t, e) = t \o <<e>> /\ Append(s \o t, e) = (s \o t) \o <<e>>
    BY <1>1, AppendIsConcat
  <1>3. (s \o t) \o <<e>> = s \o (t \o <<e>>)
    BY <1>1, ConcatAssociative
  <1> QED
    BY <1>2, <1>3

\* The same for requests, to be instantiated by matching.
LEMMA AppendToConcat ==
    \A s, t \in Seq(Request) : \A r \in Request : s \o Append(t, r) = Append(s \o t, r)
  BY ConcatAppend

\* A sequence is its head followed by its tail.
LEMMA HeadThenTail ==
    ASSUME NEW S, NEW q \in Seq(S), q # << >>
    PROVE  <<Head(q)>> \o Tail(q) = q
  <1>1. /\ Head(q) \in S /\ Tail(q) \in Seq(S)
        /\ Len(Tail(q)) = Len(q) - 1
        /\ \A i \in 1 .. Len(Tail(q)) : Tail(q)[i] = q[i + 1]
    BY HeadTailProperties
  <1>2. Len(q) \in Nat /\ Len(q) # 0 /\ Head(q) = q[1]
    BY LenProperties, EmptySeq
  <1>3. <<Head(q)>> \in Seq(S) /\ Len(<<Head(q)>>) = 1 /\ <<Head(q)>>[1] = Head(q)
    BY <1>1
  <1> DEFINE h == <<Head(q)>>
             r == Tail(q)
  <1>4. h \o r \in Seq(S) /\ Len(h \o r) = Len(h) + Len(r)
    BY <1>1, <1>3, ConcatProperties
  <1>5. \A i \in 1 .. Len(h) + Len(r) :
            (h \o r)[i] = IF i <= Len(h) THEN h[i] ELSE r[i - Len(h)]
    BY <1>1, <1>3, ConcatProperties
  <1>6. Len(h \o r) = Len(q)
    BY <1>1, <1>2, <1>3, <1>4
  <1>7. \A i \in 1 .. Len(q) : (h \o r)[i] = q[i]
    <2> SUFFICES ASSUME NEW i \in 1 .. Len(q) PROVE (h \o r)[i] = q[i]
      OBVIOUS
    <2>1. (h \o r)[i] = IF i <= 1 THEN h[i] ELSE r[i - 1]
      BY <1>1, <1>2, <1>3, <1>5
    <2>2. CASE i = 1
      BY <2>1, <2>2, <1>2, <1>3
    <2>3. CASE i # 1
      <3>1. i - 1 \in 1 .. Len(r) /\ i - 1 + 1 = i
        BY <1>1, <1>2, <2>3
      <3> QED
        BY <2>1, <2>3, <3>1, <1>1
    <2> QED
      BY <2>2, <2>3
  <1> QED
    BY <1>4, <1>6, <1>7, SeqEqual

-----------------------------------------------------------------------------
(* Types. *)

LEMMA TypeInit == ASSUME Init PROVE TypeOK
  BY VerifierAssumption DEF Init, TypeOK

\* A queue that is not full has room for one more.
LEMMA RoomForOne ==
    ASSUME NEW q \in Seq(Request), Len(q) <= MaxSize, ~IsFull(q), NEW r \in Request
    PROVE  Append(q, r) \in Seq(Request) /\ Len(Append(q, r)) <= MaxSize
  <1>1. Len(q) \in Nat /\ MaxSize \in Nat /\ Len(q) # MaxSize
    BY LenProperties, VerifierAssumption DEF IsFull
  <1>2. Append(q, r) \in Seq(Request) /\ Len(Append(q, r)) = Len(q) + 1
    BY AppendProperties
  <1> QED
    BY <1>1, <1>2

\* What is got from a queue is one of its messages.
LEMMA GotFromQueue ==
    ASSUME NEW q \in Seq(Request), Len(q) <= MaxSize, ~IsEmpty(q)
    PROVE  Head(q) \in Request /\ Tail(q) \in Seq(Request) /\ Len(Tail(q)) <= MaxSize
  <1>1. Len(q) \in Nat /\ MaxSize \in Nat
    BY LenProperties, VerifierAssumption
  <1>2. Head(q) \in Request /\ Tail(q) \in Seq(Request) /\ Len(Tail(q)) = Len(q) - 1
    BY HeadTailProperties DEF IsEmpty
  <1> QED
    BY <1>1, <1>2

\* Each step keeps the types, and the queues within their size.
LEMMA TypeStep == ASSUME TypeOK, [Next]_vars PROVE TypeOK'
  <1> USE DEF TypeOK
  <1>1. ASSUME NEW r \in Request, Receive(r) PROVE TypeOK'
    BY <1>1 DEF Receive
  <1>2. CASE AddMsgPackage
    <2>1. CASE IsFull(queueIn) /\ UNCHANGED <<queueIn, adding, accepted>>
      BY <1>2, <2>1 DEF AddMsgPackage, Wait, Notify, Thread
    <2>2. CASE ~IsFull(queueIn) /\ queueIn' = Append(queueIn, adding)
      <3>1. adding \in Request
        BY <1>2 DEF AddMsgPackage
      <3>2. queueIn' \in Seq(Request) /\ Len(queueIn') <= MaxSize
        BY <2>2, <3>1, RoomForOne
      <3>3. accepted' \in Seq(Request)
        <4>1. accepted' = Append(accepted, adding)
          BY <1>2, <2>2 DEF AddMsgPackage
        <4> QED
          BY <3>1, <4>1, AppendProperties
      <3> QED
        BY <1>2, <2>2, <3>2, <3>3 DEF AddMsgPackage, Notify
    <2> QED
      BY <1>2, <2>1, <2>2 DEF AddMsgPackage
  <1>3. CASE GetRequest
    <2>1. CASE IsEmpty(queueIn)
      BY <1>3, <2>1 DEF GetRequest, Wait, Thread
    <2>2. CASE ~IsEmpty(queueIn)
      BY <1>3, <2>2, GotFromQueue DEF GetRequest, Notify
    <2> QED
      BY <2>1, <2>2
  <1>4. CASE VerifyUserID
    <2>1. CASE IsFull(queueOut)
      BY <1>4, <2>1 DEF VerifyUserID, Wait, Thread
    <2>2. CASE ~IsFull(queueOut)
      <3>1. verified \in Request
        BY <1>4 DEF VerifyUserID
      <3>2. queueOut' = Append(queueOut, verified)
        BY <1>4, <2>2 DEF VerifyUserID
      <3>3. queueOut' \in Seq(Request) /\ Len(queueOut') <= MaxSize
        BY <2>2, <3>1, <3>2, RoomForOne
      <3> QED
        BY <1>4, <2>2, <3>3 DEF VerifyUserID, Notify
    <2> QED
      BY <2>1, <2>2
  <1>5. CASE GetAnswer
    <2>1. CASE IsEmpty(queueOut)
      BY <1>5, <2>1 DEF GetAnswer, Wait, Thread
    <2>2. CASE ~IsEmpty(queueOut)
      BY <1>5, <2>2, GotFromQueue DEF GetAnswer, Notify
    <2> QED
      BY <2>1, <2>2
  <1>6. CASE SendAnswer
    <2>1. sending \in Request
      BY <1>6 DEF SendAnswer
    <2>2. sent' \in Seq(Request)
      BY <1>6, <2>1, AppendProperties DEF SendAnswer
    <2> QED
      BY <1>6, <2>2 DEF SendAnswer
  <1>7. ASSUME NEW t \in Thread, WakeUp(t) PROVE TypeOK'
    BY <1>7 DEF WakeUp
  <1>8. CASE UNCHANGED vars
    BY <1>8 DEF vars
  <1> QED
    BY <1>1, <1>2, <1>3, <1>4, <1>5, <1>6, <1>7, <1>8 DEF Next

\* The variables keep their types, and no queue of MsgQueue grows beyond its
\* m_maxSize, whatever its size is.
THEOREM VerifierTyped == Spec => []TypeOK
  <1>1. Init => TypeOK
    BY TypeInit
  <1>2. TypeOK /\ [Next]_vars => TypeOK'
    BY TypeStep
  <1> QED
    BY <1>1, <1>2, PTL DEF Spec

-----------------------------------------------------------------------------
(* Wakeups. *)

\* No thread goes to sleep, or stays asleep, past the moment its turn has come.
LEMMA WakeupStep == ASSUME NoLostWakeup, [Next]_vars PROVE NoLostWakeup'
  <1> USE DEF NoLostWakeup
  <1>1. ASSUME NEW r \in Request, Receive(r) PROVE NoLostWakeup'
    BY <1>1, VerifierAssumption DEF Receive
  <1>2. CASE AddMsgPackage
    BY <1>2 DEF AddMsgPackage, Wait, Notify
  <1>3. CASE GetRequest
    BY <1>3 DEF GetRequest, Wait, Notify
  <1>4. CASE VerifyUserID
    BY <1>4 DEF VerifyUserID, Wait, Notify
  <1>5. CASE GetAnswer
    BY <1>5 DEF GetAnswer, Wait, Notify
  <1>6. CASE SendAnswer
    BY <1>6 DEF SendAnswer
  <1>7. ASSUME NEW t \in Thread, WakeUp(t) PROVE NoLostWakeup'
    BY <1>7 DEF WakeUp
  <1>8. CASE UNCHANGED vars
    BY <1>8 DEF vars
  <1> QED
    BY <1>1, <1>2, <1>3, <1>4, <1>5, <1>6, <1>7, <1>8 DEF Next

\* A thread of the verification is asleep only while the queue it waits for is
\* full or empty: one notify_one in put and in get is enough.
THEOREM NoWakeupIsLost == Spec => []NoLostWakeup
  <1>1. Init => NoLostWakeup
    BY DEF Init, NoLostWakeup
  <1>2. NoLostWakeup /\ [Next]_vars => NoLostWakeup'
    BY WakeupStep
  <1> QED
    BY <1>1, <1>2, PTL DEF Spec

-----------------------------------------------------------------------------
(* Order. *)

\* A message on its way between two queues.
Opt(m) == IF m = None THEN << >> ELSE <<m>>

\* What a thread that answers, or sends, has before it.
Behind == Opt(verified) \o queueIn
Waiting == queueOut \o Behind
Unsent == Opt(sending) \o Waiting

\* What was added is what was sent and then what is under way, in order.
OrderInv == accepted = sent \o Unsent

LEMMA OptTyped == ASSUME NEW m \in Request \cup {None} PROVE Opt(m) \in Seq(Request)
  BY DEF Opt

LEMMA WayTyped ==
    ASSUME TypeOK
    PROVE  Behind \in Seq(Request) /\ Waiting \in Seq(Request) /\ Unsent \in Seq(Request)
  <1>1. /\ Opt(verified) \in Seq(Request) /\ Opt(sending) \in Seq(Request)
        /\ queueIn \in Seq(Request) /\ queueOut \in Seq(Request)
    BY OptTyped DEF TypeOK
  <1>2. Behind \in Seq(Request)
    BY <1>1, ConcatProperties DEF Behind
  <1>3. Waiting \in Seq(Request)
    BY <1>1, <1>2, ConcatProperties DEF Waiting
  <1>4. Unsent \in Seq(Request)
    BY <1>1, <1>3, ConcatProperties DEF Unsent
  <1> QED
    BY <1>2, <1>3, <1>4

\* A message got from a queue is still in front of what is behind it.
LEMMA GotInOrder ==
    ASSUME NEW q \in Seq(Request), q # << >>, NEW t \in Seq(Request)
    PROVE  Opt(Head(q)) \o (Tail(q) \o t) = Opt(None) \o (q \o t)
  <1>1. Head(q) \in Request /\ Tail(q) \in Seq(Request)
    BY HeadTailProperties
  <1>2. Opt(Head(q)) = <<Head(q)>> /\ Opt(None) = << >> /\ <<Head(q)>> \in Seq(Request)
    BY <1>1, VerifierAssumption DEF Opt
  <1>3. (<<Head(q)>> \o Tail(q)) \o t = <<Head(q)>> \o (Tail(q) \o t)
    BY <1>1, <1>2, ConcatAssociative
  <1>4. q \o t \in Seq(Request)
    BY ConcatProperties
  <1>5. << >> \o (q \o t) = q \o t
    BY <1>4, ConcatEmptySeq
  <1> QED
    BY <1>2, <1>3, <1>5, HeadThenTail

\* A message put on a queue stays in front of what is behind it.
LEMMA PutInOrder ==
    ASSUME NEW q \in Seq(Request), NEW m \in Request, NEW t \in Seq(Request)
    PROVE  Append(q, m) \o (Opt(None) \o t) = q \o (Opt(m) \o t)
  <1>1. Opt(m) = <<m>> /\ Opt(None) = << >>
    BY VerifierAssumption DEF Opt
  <1>2. << >> \o t = t
    BY ConcatEmptySeq
  <1> QED
    BY <1>1, <1>2, AppendConcat

LEMMA OrderInit == ASSUME Init PROVE OrderInv
  BY DEF Init, OrderInv, Unsent, Waiting, Behind, Opt

\* Each step leaves the order as it is: it moves a message to the next place, or
\* adds one behind all others.
LEMMA OrderStep == ASSUME TypeOK, OrderInv, [Next]_vars PROVE OrderInv'
  <1> USE DEF OrderInv
  <1>0. /\ queueIn \in Seq(Request) /\ queueOut \in Seq(Request) /\ sent \in Seq(Request)
        /\ Behind \in Seq(Request) /\ Waiting \in Seq(Request) /\ Unsent \in Seq(Request)
        /\ Opt(verified) \in Seq(Request) /\ Opt(sending) \in Seq(Request)
    BY WayTyped, OptTyped DEF TypeOK
  <1> DEFINE same == UNCHANGED <<queueIn, queueOut, verified, sending, accepted, sent>>
  <1>1. CASE same
    BY <1>1 DEF Unsent, Waiting, Behind
  <1>2. CASE AddMsgPackage /\ ~same
    <2>1. /\ adding \in Request
          /\ queueIn' = Append(queueIn, adding)
          /\ accepted' = Append(accepted, adding)
          /\ UNCHANGED <<queueOut, verified, sending, sent>>
      BY <1>2 DEF AddMsgPackage, TypeOK
    <2>2. Opt(verified)' = Opt(verified) /\ Opt(sending)' = Opt(sending)
      BY <2>1 DEF Opt
    <2>3. Behind' = Append(Behind, adding)
      <3>1. Opt(verified) \o Append(queueIn, adding) = Append(Opt(verified) \o queueIn, adding)
        BY <1>0, <2>1, AppendToConcat, Zenon
      <3> QED
        BY <2>1, <2>2, <3>1 DEF Behind
    <2>4. Waiting' = Append(Waiting, adding)
      <3>1. queueOut \o Append(Behind, adding) = Append(queueOut \o Behind, adding)
        BY <1>0, <2>1, AppendToConcat, Zenon
      <3> QED
        BY <2>1, <2>3, <3>1 DEF Waiting
    <2>5. Unsent' = Append(Unsent, adding)
      <3>1. Opt(sending) \o Append(Waiting, adding) = Append(Opt(sending) \o Waiting, adding)
        BY <1>0, <2>1, AppendToConcat, Zenon
      <3> QED
        BY <2>2, <2>4, <3>1 DEF Unsent
    <2>6. sent \o Append(Unsent, adding) = Append(sent \o Unsent, adding)
      BY <1>0, <2>1, AppendToConcat, Zenon
    <2> QED
      BY <2>1, <2>5, <2>6
  <1>3. CASE GetRequest /\ ~same
    <2>1. /\ verified = None /\ queueIn # << >>
          /\ verified' = Head(queueIn) /\ queueIn' = Tail(queueIn)
          /\ UNCHANGED <<queueOut, sending, accepted, sent>>
      BY <1>3 DEF GetRequest, IsEmpty
    <2>2. <<Head(queueIn)>> \o Tail(queueIn) = queueIn /\ << >> \o queueIn = queueIn
      BY <1>0, <2>1, HeadThenTail, ConcatEmptySeq
    <2>3. Head(queueIn) # None
      BY <1>0, <2>1, HeadTailProperties, VerifierAssumption
    <2>4. Opt(verified) = << >> /\ Opt(verified)' = <<Head(queueIn)>>
      BY <2>1, <2>3 DEF Opt
    <2>5. Behind' = Behind
      BY <2>1, <2>2, <2>4 DEF Behind
    <2> QED
      BY <2>1, <2>5 DEF Unsent, Waiting
  <1>4. CASE VerifyUserID /\ ~same
    <2>1. /\ verified \in Request /\ verified' = None
          /\ queueOut' = Append(queueOut, verified)
          /\ UNCHANGED <<queueIn, sending, accepted, sent>>
      BY <1>4 DEF VerifyUserID, TypeOK
    <2>2. Waiting' = Waiting
      BY <1>0, <2>1, PutInOrder DEF Waiting, Behind
    <2> QED
      BY <2>1, <2>2 DEF Unsent
  <1>5. CASE GetAnswer /\ ~same
    <2>1. /\ sending = None /\ queueOut # << >>
          /\ sending' = Head(queueOut) /\ queueOut' = Tail(queueOut)
          /\ UNCHANGED <<queueIn, verified, accepted, sent>>
      BY <1>5 DEF GetAnswer, IsEmpty
    <2>2. Behind' = Behind
      BY <2>1 DEF Behind
    <2>3. Unsent' = Unsent
      BY <1>0, <2>1, <2>2, GotInOrder DEF Unsent, Waiting
    <2> QED
      BY <2>1, <2>3
  <1>6. CASE SendAnswer /\ ~same
    <2>1. /\ sending \in Request /\ sending' = None
          /\ sent' = Append(sent, sending)
          /\ UNCHANGED <<queueIn, queueOut, verified, accepted>>
      BY <1>6 DEF SendAnswer, TypeOK
    <2>2. Waiting' = Waiting
      BY <2>1 DEF Waiting, Behind
    <2>3. sent' \o Unsent' = sent \o Unsent
      BY <1>0, <2>1, <2>2, PutInOrder DEF Unsent
    <2> QED
      BY <2>1, <2>3
  <1>7. ASSUME NEW r \in Request, Receive(r) PROVE same
    BY <1>7 DEF Receive
  <1>8. ASSUME NEW t \in Thread, WakeUp(t) PROVE same
    BY <1>8 DEF WakeUp
  <1>9. CASE UNCHANGED vars
    BY <1>1, <1>9 DEF vars
  <1> QED
    BY <1>1, <1>2, <1>3, <1>4, <1>5, <1>6, <1>7, <1>8, <1>9 DEF Next

VerifierInv == TypeOK /\ OrderInv

LEMMA VerifierInvariant == Spec => []VerifierInv
  <1>1. Init => VerifierInv
    BY TypeInit, OrderInit DEF VerifierInv
  <1>2. VerifierInv /\ [Next]_vars => VerifierInv'
    BY TypeStep, OrderStep DEF VerifierInv
  <1> QED
    BY <1>1, <1>2, PTL DEF Spec

\* The safety half of ImplementsChannel.
ChannelSafety == Channel!Init /\ [][Channel!Next]_(Channel!channelVars)

\* Only putting a request on queueIn and handing an answer to the service are
\* steps of the channel.
LEMMA ChannelStep ==
    ASSUME VerifierInv, [Next]_vars
    PROVE  [Channel!Next]_(Channel!channelVars)
  <1> USE DEF Channel!channelVars
  <1>0. TypeOK /\ OrderInv
    BY DEF VerifierInv
  <1>1. CASE UNCHANGED <<accepted, sent>>
    BY <1>1
  <1>2. CASE AddMsgPackage /\ ~UNCHANGED <<accepted, sent>>
    <2>1. /\ adding \in Request
          /\ accepted' = Append(accepted, adding) /\ sent' = sent
      BY <1>0, <1>2 DEF AddMsgPackage, TypeOK
    <2>2. Channel!Accept(adding)
      BY <2>1 DEF Channel!Accept
    <2> QED
      BY <2>1, <2>2 DEF Channel!Next
  <1>3. CASE SendAnswer
    <2>1. /\ sending \in Request /\ sent' = Append(sent, sending) /\ accepted' = accepted
      BY <1>0, <1>3 DEF SendAnswer, TypeOK
    <2>2. /\ sent \in Seq(Request) /\ Waiting \in Seq(Request) /\ Unsent \in Seq(Request)
      BY <1>0, WayTyped DEF TypeOK
    <2>3. Unsent = <<sending>> \o Waiting /\ <<sending>> \in Seq(Request)
      BY <2>1, VerifierAssumption DEF Unsent, Opt
    <2>4. /\ Len(<<sending>>) = 1 /\ <<sending>>[1] = sending
          /\ Len(sent) \in Nat /\ Len(Waiting) \in Nat
      BY <2>2, LenProperties
    <2>5. /\ Len(Unsent) = 1 + Len(Waiting)
          /\ Unsent[1] = sending
      BY <2>2, <2>3, <2>4, ConcatProperties
    <2>6. /\ Len(accepted) = Len(sent) + Len(Unsent)
          /\ accepted[Len(sent) + 1] = Unsent[1]
      <3>1. accepted = sent \o Unsent
        BY <1>0 DEF OrderInv
      <3>2. \A i \in 1 .. Len(sent) + Len(Unsent) : (sent \o Unsent)[i] =
                IF i <= Len(sent) THEN sent[i] ELSE Unsent[i - Len(sent)]
        BY <2>2, ConcatProperties
      <3>3. /\ Len(sent) + 1 \in 1 .. Len(sent) + Len(Unsent)
            /\ ~(Len(sent) + 1 <= Len(sent)) /\ Len(sent) + 1 - Len(sent) = 1
        BY <2>4, <2>5
      <3>4. (sent \o Unsent)[Len(sent) + 1] = Unsent[1]
        BY <3>2, <3>3
      <3>5. Len(sent \o Unsent) = Len(sent) + Len(Unsent)
        BY <2>2, ConcatProperties
      <3> QED
        BY <3>1, <3>4, <3>5
    <2>7. Channel!Deliver
      <3>1. Len(sent) < Len(accepted)
        BY <2>4, <2>5, <2>6
      <3>2. sent' = Append(sent, accepted[Len(sent) + 1])
        BY <2>1, <2>5, <2>6
      <3> QED
        BY <2>1, <3>1, <3>2 DEF Channel!Deliver
    <2> QED
      BY <2>7 DEF Channel!Next
  <1>4. ASSUME NEW r \in Request, Receive(r) PROVE UNCHANGED <<accepted, sent>>
    BY <1>4 DEF Receive
  <1>5. ASSUME NEW t \in Thread, WakeUp(t) PROVE UNCHANGED <<accepted, sent>>
    BY <1>5 DEF WakeUp
  <1>6. CASE GetRequest \/ VerifyUserID \/ GetAnswer
    BY <1>1, <1>6 DEF GetRequest, VerifyUserID, GetAnswer
  <1>7. CASE UNCHANGED vars
    BY <1>1, <1>7 DEF vars
  <1> QED
    BY <1>1, <1>2, <1>3, <1>4, <1>5, <1>6, <1>7 DEF Next

\* The verification is a channel from the main loop to the service as far as
\* safety goes: no answer is made up, repeated or out of turn, whatever the
\* sizes of the queues and however the three threads take turns.
THEOREM AnswersKeepOrder == Spec => ChannelSafety
  <1>1. Init => Channel!Init
    BY DEF Init, Channel!Init
  <1>2. VerifierInv /\ [Next]_vars => [Channel!Next]_(Channel!channelVars)
    BY ChannelStep
  <1> QED
    BY <1>1, <1>2, VerifierInvariant, PTL DEF Spec, ChannelSafety

-----------------------------------------------------------------------------
(* Progress. *)

\* Somebody has something to do.
SomebodyGoesOn ==
    \/ adding # None /\ ~IsFull(queueIn) /\ "main" \notin asleep
    \/ verified = None /\ queueIn # << >> /\ "in" \notin asleep
    \/ verified # None /\ ~IsFull(queueOut) /\ "in" \notin asleep
    \/ sending = None /\ queueOut # << >> /\ "out" \notin asleep
    \/ sending # None

Unfinished == adding # None \/ Len(sent) < Len(accepted)

\* The three threads never wait for each other: while a request is on its way to
\* its answer, one of them can take it a step further.
NeverStuck == Unfinished => SomebodyGoesOn

\* The places requests have still to go through: adding, queueIn, verified,
\* queueOut and sending, the last one first.
One(m) == IF m = None THEN 0 ELSE 1
Work == 5 * One(adding) + 4 * Len(queueIn) + 3 * One(verified) + 2 * Len(queueOut) + One(sending)

\* But for a request that comes and a thread that falls asleep or wakes up, each
\* step leaves one place less to go through.
WorkGoesOn ==
    \/ \E r \in Request : Receive(r)
    \/ Work' = Work - 1
    \/ UNCHANGED <<queueIn, queueOut, adding, verified, sending, accepted, sent>>

LEMMA NeverStuckHolds == ASSUME VerifierInv, NoLostWakeup PROVE NeverStuck
  <1> SUFFICES ASSUME Unfinished, ~SomebodyGoesOn PROVE FALSE
    BY DEF NeverStuck
  <1>0. TypeOK /\ accepted = sent \o Unsent
    BY DEF VerifierInv, OrderInv
  <1>1. \A q : q = << >> => ~IsFull(q)
    BY VerifierAssumption DEF IsFull
  <1>2. sending = None
    BY DEF SomebodyGoesOn
  <1>3. queueOut = << >>
    BY <1>2 DEF SomebodyGoesOn, NoLostWakeup, IsEmpty
  <1>4. verified = None
    BY <1>1, <1>3 DEF SomebodyGoesOn, NoLostWakeup
  <1>5. queueIn = << >>
    BY <1>4 DEF SomebodyGoesOn, NoLostWakeup, IsEmpty
  <1>6. adding = None
    BY <1>1, <1>5 DEF SomebodyGoesOn, NoLostWakeup
  <1>7. Unsent = << >>
    BY <1>2, <1>3, <1>4, <1>5 DEF Unsent, Waiting, Behind, Opt
  <1>8. sent \o << >> = sent
    BY <1>0, ConcatEmptySeq DEF TypeOK
  <1>9. Len(accepted) = Len(sent) /\ Len(sent) \in Nat
    BY <1>0, <1>7, <1>8 DEF TypeOK
  <1> QED
    BY <1>6, <1>9 DEF Unfinished

\* The verification never deadlocks, for any size of the two queues: each thread
\* waits for the next one only, and the last one for nobody.
THEOREM VerifierNeverStuck == Spec => []NeverStuck
  <1>1. VerifierInv /\ NoLostWakeup => NeverStuck
    BY NeverStuckHolds
  <1> QED
    BY <1>1, VerifierInvariant, NoWakeupIsLost, PTL

LEMMA QueueLengths ==
    ASSUME NEW q \in Seq(Request)
    PROVE  /\ Len(q) \in Nat
           /\ \A m \in Request : Len(Append(q, m)) = Len(q) + 1
           /\ q # << >> => Len(Tail(q)) = Len(q) - 1 /\ Head(q) \in Request
  OBVIOUS

LEMMA Places ==
    ASSUME NEW a \in Nat, NEW i \in Nat, NEW v \in Nat, NEW o \in Nat, NEW s \in Nat,
           NEW aa \in Nat, NEW ii \in Nat, NEW vv \in Nat, NEW oo \in Nat, NEW ss \in Nat,
           \/ a = aa + 1 /\ ii = i + 1 /\ <<vv, oo, ss>> = <<v, o, s>>
           \/ i = ii + 1 /\ vv = v + 1 /\ <<aa, oo, ss>> = <<a, o, s>>
           \/ v = vv + 1 /\ oo = o + 1 /\ <<aa, ii, ss>> = <<a, i, s>>
           \/ o = oo + 1 /\ ss = s + 1 /\ <<aa, ii, vv>> = <<a, i, v>>
           \/ s = ss + 1 /\ <<aa, ii, vv, oo>> = <<a, i, v, o>>
    PROVE  5 * aa + 4 * ii + 3 * vv + 2 * oo + ss = (5 * a + 4 * i + 3 * v + 2 * o + s) - 1
  OBVIOUS

LEMMA WorkStep == ASSUME TypeOK, [Next]_vars PROVE WorkGoesOn \/ UNCHANGED vars
  <1> DEFINE same == UNCHANGED <<queueIn, queueOut, adding, verified, sending, accepted, sent>>
             a == One(adding)    aa == One(adding')
             i == Len(queueIn)   ii == Len(queueIn')
             v == One(verified)  vv == One(verified')
             o == Len(queueOut)  oo == Len(queueOut')
             s == One(sending)   ss == One(sending')
  <1>0. /\ queueIn \in Seq(Request) /\ queueOut \in Seq(Request)
        /\ adding # None => adding \in Request
        /\ verified # None => verified \in Request
        /\ \A m \in Request : m # None
    BY VerifierAssumption DEF TypeOK
  <1>t. /\ a \in Nat /\ i \in Nat /\ v \in Nat /\ o \in Nat /\ s \in Nat
        /\ aa \in Nat /\ ii \in Nat /\ vv \in Nat /\ oo \in Nat /\ ss \in Nat
    <2>1. TypeOK'
      BY TypeStep
    <2> QED
      BY <1>0, <2>1 DEF TypeOK, One
  <1>w. /\ Work = 5 * a + 4 * i + 3 * v + 2 * o + s
        /\ Work' = 5 * aa + 4 * ii + 3 * vv + 2 * oo + ss
    BY DEF Work, One
  <1>p. ASSUME \/ a = aa + 1 /\ ii = i + 1 /\ <<vv, oo, ss>> = <<v, o, s>>
               \/ i = ii + 1 /\ vv = v + 1 /\ <<aa, oo, ss>> = <<a, o, s>>
               \/ v = vv + 1 /\ oo = o + 1 /\ <<aa, ii, ss>> = <<a, i, s>>
               \/ o = oo + 1 /\ ss = s + 1 /\ <<aa, ii, vv>> = <<a, i, v>>
               \/ s = ss + 1 /\ <<aa, ii, vv, oo>> = <<a, i, v, o>>
        PROVE  WorkGoesOn
    <2> HIDE DEF a, i, v, o, s, aa, ii, vv, oo, ss
    <2>1. 5 * aa + 4 * ii + 3 * vv + 2 * oo + ss = (5 * a + 4 * i + 3 * v + 2 * o + s) - 1
      BY <1>t, <1>p, Places
    <2>2. Work' = Work - 1
      BY <1>w, <2>1
    <2> QED
      BY <2>2 DEF WorkGoesOn
  <1>1. CASE AddMsgPackage /\ ~same
    <2>1. /\ adding \in Request /\ adding' = None
          /\ queueIn' = Append(queueIn, adding)
          /\ UNCHANGED <<queueOut, verified, sending>>
      BY <1>0, <1>1 DEF AddMsgPackage
    <2>2. a = aa + 1 /\ ii = i + 1 /\ <<vv, oo, ss>> = <<v, o, s>>
      BY <1>0, <2>1, QueueLengths DEF One
    <2> QED
      BY <1>p, <2>2
  <1>2. CASE GetRequest /\ ~same
    <2>1. /\ verified = None /\ queueIn # << >>
          /\ verified' = Head(queueIn) /\ queueIn' = Tail(queueIn)
          /\ UNCHANGED <<queueOut, adding, sending>>
      BY <1>2 DEF GetRequest, IsEmpty
    <2>2. i = ii + 1 /\ vv = v + 1 /\ <<aa, oo, ss>> = <<a, o, s>>
      BY <1>0, <1>t, <2>1, QueueLengths DEF One
    <2> QED
      BY <1>p, <2>2
  <1>3. CASE VerifyUserID /\ ~same
    <2>1. /\ verified \in Request /\ verified' = None
          /\ queueOut' = Append(queueOut, verified)
          /\ UNCHANGED <<queueIn, adding, sending>>
      BY <1>0, <1>3 DEF VerifyUserID
    <2>2. v = vv + 1 /\ oo = o + 1 /\ <<aa, ii, ss>> = <<a, i, s>>
      BY <1>0, <2>1, QueueLengths DEF One
    <2> QED
      BY <1>p, <2>2
  <1>4. CASE GetAnswer /\ ~same
    <2>1. /\ sending = None /\ queueOut # << >>
          /\ sending' = Head(queueOut) /\ queueOut' = Tail(queueOut)
          /\ UNCHANGED <<queueIn, adding, verified>>
      BY <1>4 DEF GetAnswer, IsEmpty
    <2>2. o = oo + 1 /\ ss = s + 1 /\ <<aa, ii, vv>> = <<a, i, v>>
      BY <1>0, <1>t, <2>1, QueueLengths DEF One
    <2> QED
      BY <1>p, <2>2
  <1>5. CASE SendAnswer
    <2>1. s = ss + 1 /\ <<aa, ii, vv, oo>> = <<a, i, v, o>>
      BY <1>5 DEF SendAnswer, One
    <2> QED
      BY <1>p, <2>1
  <1>6. ASSUME NEW t \in Thread, WakeUp(t) PROVE same
    BY <1>6 DEF WakeUp
  <1>7. CASE same
    BY <1>7 DEF WorkGoesOn
  <1>8. ASSUME NEW r \in Request, Receive(r) PROVE WorkGoesOn
    BY <1>8 DEF WorkGoesOn
  <1>9. CASE UNCHANGED vars
    BY <1>9
  <1> HIDE DEF same
  <1> QED
    BY <1>1, <1>2, <1>3, <1>4, <1>5, <1>6, <1>7, <1>8, <1>9 DEF Next

\* No step undoes another one: after as many steps as Work, other than falling
\* asleep and waking up, every request that has come is answered.
THEOREM EachStepIsProgress == Spec => [][WorkGoesOn]_vars
  <1>1. TypeOK /\ [Next]_vars => [WorkGoesOn]_vars
    BY WorkStep
  <1> QED
    BY <1>1, VerifierTyped, PTL DEF Spec

-----------------------------------------------------------------------------
(* The database: the connector and GetUserInfo. *)

Param == User \cup {Nobody}
RecordSet == [stmt : Nat, of : Param, rows : Nat]

\* The connector between two operations.
DataTyped ==
    /\ prepared \in Nat /\ m_DBPrepareState \in Nat /\ pending \in Nat
    /\ m_DBRecordSet \in {Null} \cup RecordSet
    /\ parameter \in Param

AliveTyped == alive \in BOOLEAN /\ (alive => m_DBConnect = "made")

ConnTyped == DataTyped /\ AliveTyped

ConnInv == ConnTyped /\ LeftoversHaveTheirStatement

\* Where GetUserInfo is, and what *testRec and the connector hold for it then.
CallInv ==
    /\ userID \in Param
    /\ at = "new" \/ caller = "program" => ret = "none"
    /\ at \in {"prepare", "bind", "execute"} => testRec = NoRec
    /\ at = "execute" => parameter = userID
    /\ at = "rows" /\ m_DBRecordSet # Null => m_DBRecordSet.of = userID
    /\ at \in {"rows", "close"} => testRec \in {NoRec, [id |-> userID, name |-> userID]}
    /\ caller = "program" => at \in {"new", "out"}

DbInv == ConnInv /\ CallInv /\ SuccessIsThisUsers

-----------------------------------------------------------------------------
(* Each operation of the connector keeps ConnInv. *)

\* A record set read from the statement that is kept belongs to it.
LEMMA RecordSetsTyped ==
    ASSUME ConnTyped, NEW p \in Param, NEW r \in RecordSets(p)
    PROVE  r \in RecordSet /\ r.stmt = m_DBPrepareState /\ r.of = p
  BY DatabaseAssumption DEF ConnTyped, DataTyped, AliveTyped, RecordSets, RecordSet

\* Record sets of the statement, as ConnInv needs them.
LEMMA RecordSetKept ==
    ASSUME ConnTyped, m_DBPrepareState # 0, UNCHANGED m_DBPrepareState,
           m_DBRecordSet' \in RecordSets(parameter)
    PROVE  m_DBRecordSet' \in RecordSet /\ m_DBRecordSet'.stmt = m_DBPrepareState'
  <1>1. parameter \in Param
    BY DEF ConnTyped, DataTyped, AliveTyped
  <1> QED
    BY <1>1, RecordSetsTyped

LEMMA InitDBConnKeeps ==
    ASSUME ConnInv, NEW ok \in BOOLEAN, InitDBConn(ok)
    PROVE  ConnInv'
  <1> USE DEF InitDBConn, statementVars
  <1>1. ConnTyped'
    BY DEF ConnInv, ConnTyped, DataTyped, AliveTyped
  <1>2. LeftoversHaveTheirStatement'
    BY DEF ConnInv, LeftoversHaveTheirStatement
  <1> QED
    BY <1>1, <1>2 DEF ConnInv

\* No operation but InitDBConn makes a connection work.
LEMMA AliveKept ==
    ASSUME AliveTyped, alive' \in {alive, FALSE}, m_DBConnect' = m_DBConnect
    PROVE  AliveTyped'
  <1>1. CASE alive' = FALSE
    BY <1>1 DEF AliveTyped
  <1>2. CASE alive' = alive
    BY <1>2 DEF AliveTyped
  <1> QED
    BY <1>1, <1>2

LEMMA DrainFailsKeeps == ASSUME ConnInv, DrainFails PROVE ConnInv'
  <1> USE DEF DrainFails, ConnInv
  <1>1. \/ m_DBRecordSet' = m_DBRecordSet
        \/ m_DBRecordSet' \in RecordSet /\ m_DBRecordSet'.stmt = m_DBPrepareState'
    BY RecordSetKept
  <1>2. ConnTyped'
    <2>1. DataTyped'
      BY <1>1 DEF ConnTyped, DataTyped
    <2>2. alive' \in {alive, FALSE}
      OBVIOUS
    <2> QED
      BY <2>1, <2>2, AliveKept DEF ConnTyped
  <1>3. LeftoversHaveTheirStatement'
    BY <1>1 DEF LeftoversHaveTheirStatement, ConnTyped, DataTyped, AliveTyped
  <1> QED
    BY <1>2, <1>3

\* What is left when the statement goes.
LEMMA DrainedFacts ==
    ASSUME ConnInv
    PROVE  Drained \in Nat /\ (alive => Drained = 0)
  BY DEF ConnInv, ConnTyped, DataTyped, AliveTyped, LeftoversHaveTheirStatement, Drained

\* The statement and its record set have gone.
LEMMA NothingLeft ==
    ASSUME ConnInv, alive' \in {alive, FALSE}, m_DBConnect' = m_DBConnect,
           pending' \in {Drained, 0}, prepared' = prepared,
           m_DBPrepareState' = 0, m_DBRecordSet' = Null, parameter' = Nobody
    PROVE  ConnInv'
  <1>1. DataTyped'
    BY DrainedFacts DEF ConnInv, ConnTyped, DataTyped, Param
  <1>2. AliveTyped'
    BY AliveKept DEF ConnInv, ConnTyped
  <1>3. alive' => pending' = 0
    <2>1. alive' => alive
      OBVIOUS
    <2> QED
      BY <2>1, DrainedFacts
  <1>4. LeftoversHaveTheirStatement'
    BY <1>3 DEF LeftoversHaveTheirStatement
  <1> QED
    BY <1>1, <1>2, <1>4 DEF ConnInv, ConnTyped

LEMMA CloseRecordsetKeeps ==
    ASSUME ConnInv, NEW ok \in BOOLEAN, CloseRecordset(ok)
    PROVE  ConnInv'
  <1>1. CASE DrainFails
    BY <1>1, DrainFailsKeeps
  <1>2. CASE ~DrainFails
    BY <1>2, NothingLeft DEF CloseRecordset
  <1> QED
    BY <1>1, <1>2

LEMMA CloseConnectKeeps ==
    ASSUME ConnInv, NEW ok \in BOOLEAN, CloseConnect(ok)
    PROVE  ConnInv'
  <1>1. CASE DrainFails
    BY <1>1, DrainFailsKeeps
  <1>2. CASE ~DrainFails
    <2>1. /\ alive' = FALSE /\ pending' = 0 /\ prepared' = prepared
          /\ m_DBPrepareState' = 0 /\ m_DBRecordSet' = Null /\ parameter' = Nobody
      BY <1>2 DEF CloseConnect
    <2>2. DataTyped' /\ LeftoversHaveTheirStatement'
      BY <2>1 DEF ConnInv, ConnTyped, DataTyped, LeftoversHaveTheirStatement, Param
    <2>3. AliveTyped'
      BY <2>1 DEF AliveTyped
    <2> QED
      BY <2>2, <2>3 DEF ConnInv, ConnTyped
  <1> QED
    BY <1>1, <1>2

LEMMA PreparedExcuteKeeps ==
    ASSUME ConnInv, NEW ok \in BOOLEAN, PreparedExcute(ok)
    PROVE  ConnInv'
  <1>1. CASE DrainFails
    BY <1>1, DrainFailsKeeps
  <1>2. CASE /\ m_DBPrepareState' = 0 /\ m_DBRecordSet' = Null /\ parameter' = Nobody
             /\ pending' = Drained /\ Fails
             /\ UNCHANGED <<m_DBConnect, prepared>>
    BY <1>2, NothingLeft DEF Fails
  <1>3. CASE /\ prepared' = prepared + 1 /\ m_DBPrepareState' = prepared + 1
             /\ m_DBRecordSet' = Null /\ parameter' = Nobody /\ pending' = 0
             /\ UNCHANGED <<m_DBConnect, alive>>
    BY <1>3 DEF ConnInv, ConnTyped, DataTyped, AliveTyped, LeftoversHaveTheirStatement, Param
  <1> QED
    BY <1>1, <1>2, <1>3 DEF PreparedExcute

LEMMA SetParameterKeeps ==
    ASSUME ConnInv, NEW u \in Param, NEW ok \in BOOLEAN, SetParameter(u, ok)
    PROVE  ConnInv'
  BY DEF SetParameter, ConnInv, ConnTyped, DataTyped, AliveTyped, LeftoversHaveTheirStatement

LEMMA ExecuteCommandKeeps ==
    ASSUME ConnInv, NEW bRecordset \in BOOLEAN, NEW ok \in BOOLEAN,
           ExecuteCommand(bRecordset, ok)
    PROVE  ConnInv'
  <1>1. /\ m_DBPrepareState # 0
        /\ UNCHANGED <<m_DBConnect, m_DBPrepareState, parameter, prepared>>
        /\ m_DBRecordSet' = m_DBRecordSet \/ m_DBRecordSet' \in RecordSets(parameter)
        /\ pending' \in 0 .. MaxPending \/ pending' = pending
        /\ alive' \in {alive, FALSE}
    BY DEF ExecuteCommand, Fails
  <1>2. \/ m_DBRecordSet' = m_DBRecordSet
        \/ m_DBRecordSet' \in RecordSet /\ m_DBRecordSet'.stmt = m_DBPrepareState'
    BY <1>1, RecordSetKept DEF ConnInv
  <1>3. ConnTyped'
    <2>1. DataTyped'
      BY <1>1, <1>2, DatabaseAssumption DEF ConnInv, ConnTyped, DataTyped
    <2> QED
      BY <1>1, <2>1, AliveKept DEF ConnInv, ConnTyped
  <1>4. LeftoversHaveTheirStatement'
    BY <1>1, <1>2 DEF ConnInv, LeftoversHaveTheirStatement
  <1> QED
    BY <1>3, <1>4 DEF ConnInv

LEMMA QueryKeeps ==
    ASSUME ConnInv, NEW bRecordset \in BOOLEAN, NEW ok \in BOOLEAN, Query(bRecordset, ok)
    PROVE  ConnInv'
  <1>1. CASE PreparedExcute(FALSE)
    BY <1>1, PreparedExcuteKeeps
  <1>2. CASE ~PreparedExcute(FALSE)
    <2> DEFINE read == [stmt : {prepared + 1}, of : {Nobody}, rows : 0 .. MaxRows]
    <2>1. /\ prepared' = prepared + 1 /\ m_DBPrepareState' = prepared + 1
          /\ parameter' = Nobody
          /\ pending' \in 0 .. MaxPending
          /\ m_DBRecordSet' = Null \/ m_DBRecordSet' \in read
          /\ alive' \in {alive, FALSE}
          /\ UNCHANGED m_DBConnect
      BY <1>2 DEF Query, Fails
    <2>2. prepared \in Nat /\ prepared + 1 \in Nat /\ prepared + 1 # 0
      BY DEF ConnInv, ConnTyped, DataTyped, AliveTyped
    <2>3. \A r \in read : r \in RecordSet /\ r.stmt = prepared + 1
      BY <2>2, DatabaseAssumption DEF RecordSet, Param
    <2> HIDE DEF read
    <2>4. ConnTyped'
      <3>1. DataTyped'
        BY <2>1, <2>2, <2>3, DatabaseAssumption DEF ConnInv, ConnTyped, DataTyped, Param
      <3> QED
        BY <2>1, <3>1, AliveKept DEF ConnInv, ConnTyped
    <2>5. LeftoversHaveTheirStatement'
      BY <2>1, <2>2, <2>3 DEF LeftoversHaveTheirStatement
    <2> QED
      BY <2>4, <2>5 DEF ConnInv
  <1> QED
    BY <1>1, <1>2

LEMMA GetNextResultSetKeeps ==
    ASSUME ConnInv, NEW ok \in BOOLEAN, GetNextResultSet(ok)
    PROVE  ConnInv'
  <1>1. /\ m_DBPrepareState # 0
        /\ UNCHANGED <<m_DBConnect, m_DBPrepareState, parameter, prepared>>
        /\ m_DBRecordSet' = m_DBRecordSet \/ m_DBRecordSet' \in RecordSets(parameter)
        /\ pending' \in Nat
        /\ alive' \in {alive, FALSE}
    <2>1. pending \in Nat
      BY DEF ConnInv, ConnTyped, DataTyped
    <2>2. CASE ok
      BY <2>1, <2>2 DEF GetNextResultSet
    <2>3. CASE ~ok
      BY <2>1, <2>3 DEF GetNextResultSet, Fails
    <2> QED
      BY <2>2, <2>3
  <1>2. \/ m_DBRecordSet' = m_DBRecordSet
        \/ m_DBRecordSet' \in RecordSet /\ m_DBRecordSet'.stmt = m_DBPrepareState'
    BY <1>1, RecordSetKept DEF ConnInv
  <1>3. ConnTyped'
    <2>1. DataTyped'
      BY <1>1, <1>2 DEF ConnInv, ConnTyped, DataTyped
    <2> QED
      BY <1>1, <2>1, AliveKept DEF ConnInv, ConnTyped
  <1>4. LeftoversHaveTheirStatement'
    BY <1>1, <1>2 DEF ConnInv, LeftoversHaveTheirStatement
  <1> QED
    BY <1>3, <1>4 DEF ConnInv

\* The next row leaves the record set the same but for the number of rows.
LEMMA NextRow ==
    ASSUME ConnInv, NextFieldExist
    PROVE  /\ m_DBRecordSet \in RecordSet /\ m_DBRecordSet' \in RecordSet
           /\ m_DBRecordSet'.stmt = m_DBRecordSet.stmt
           /\ m_DBRecordSet'.of = m_DBRecordSet.of
  BY DEF NextFieldExist, ConnInv, ConnTyped, DataTyped, AliveTyped, RecordSet

LEMMA NextFieldExistKeeps == ASSUME ConnInv, NextFieldExist PROVE ConnInv'
  <1>1. ConnTyped'
    BY NextRow DEF NextFieldExist, ConnInv, ConnTyped, DataTyped, AliveTyped
  <1>2. LeftoversHaveTheirStatement'
    BY NextRow DEF NextFieldExist, ConnInv, LeftoversHaveTheirStatement
  <1> QED
    BY <1>1, <1>2 DEF ConnInv

-----------------------------------------------------------------------------
(* The steps. *)

LEMMA DbInit == ASSUME DatabaseInit PROVE DbInv
  <1>1. ConnInv
    BY DEF DatabaseInit, ConnInv, ConnTyped, DataTyped, AliveTyped, LeftoversHaveTheirStatement, Param
  <1>2. CallInv
    BY DEF DatabaseInit, CallInv, Param
  <1>3. SuccessIsThisUsers
    BY DEF DatabaseInit, SuccessIsThisUsers
  <1> QED
    BY <1>1, <1>2, <1>3 DEF DbInv

LEMMA ConnStep == ASSUME ConnInv, CallInv, [DatabaseNext]_dbVars PROVE ConnInv'
  <1>0. userID \in Param /\ User \subseteq Param
    BY DEF CallInv, Param
  <1>1. ASSUME NEW ok \in BOOLEAN, CreateDBConn(ok) PROVE ConnInv'
    BY <1>1, InitDBConnKeeps DEF CreateDBConn
  <1>2. CASE UNCHANGED connectorVars
    BY <1>2 DEF connectorVars, statementVars, ConnInv, ConnTyped, DataTyped, AliveTyped, LeftoversHaveTheirStatement
  <1>3. CASE GetUserInfo
    <2>1. ASSUME NEW u \in User, Call(u) PROVE ConnInv'
      BY <2>1, <1>2 DEF Call
    <2>2. ASSUME NEW ok \in BOOLEAN, CallPrepares(ok) PROVE ConnInv'
      BY <2>2, PreparedExcuteKeeps DEF CallPrepares
    <2>3. ASSUME NEW ok \in BOOLEAN, CallBinds(ok) PROVE ConnInv'
      BY <2>3, <1>0, SetParameterKeeps DEF CallBinds
    <2>4. ASSUME NEW ok \in BOOLEAN, CallExecutes(ok) PROVE ConnInv'
      BY <2>4, ExecuteCommandKeeps DEF CallExecutes
    <2>5. ASSUME NEW ok \in BOOLEAN, CallCloses(ok) PROVE ConnInv'
      BY <2>5, CloseRecordsetKeeps DEF CallCloses
    <2>6. ASSUME NEW id \in BOOLEAN, NEW name \in BOOLEAN, CallReadsRow(id, name)
          PROVE  ConnInv'
      BY <2>6, NextFieldExistKeeps DEF CallReadsRow
    <2>7. CASE CallReadAll
      BY <2>7, <1>2 DEF CallReadAll
    <2> QED
      BY <1>3, <2>1, <2>2, <2>3, <2>4, <2>5, <2>6, <2>7 DEF GetUserInfo
  <1>4. CASE Program
    <2>1. PICK ok \in BOOLEAN :
            \/ CloseRecordset(ok) \/ CloseConnect(ok) \/ PreparedExcute(ok)
            \/ \E u \in User : SetParameter(u, ok)
            \/ \E bRecordset \in BOOLEAN : ExecuteCommand(bRecordset, ok) \/ Query(bRecordset, ok)
            \/ GetNextResultSet(ok)
            \/ NextFieldExist
            \/ InitDBConn(ok)
      BY <1>4 DEF Program
    <2>2. CASE CloseRecordset(ok) \/ CloseConnect(ok) \/ PreparedExcute(ok)
      BY <2>2, CloseRecordsetKeeps, CloseConnectKeeps, PreparedExcuteKeeps
    <2>3. ASSUME NEW u \in User, SetParameter(u, ok) PROVE ConnInv'
      BY <2>3, <1>0, SetParameterKeeps
    <2>4. ASSUME NEW b \in BOOLEAN, ExecuteCommand(b, ok) \/ Query(b, ok) PROVE ConnInv'
      BY <2>4, ExecuteCommandKeeps, QueryKeeps
    <2>5. CASE GetNextResultSet(ok) \/ NextFieldExist \/ InitDBConn(ok)
      BY <2>5, GetNextResultSetKeeps, NextFieldExistKeeps, InitDBConnKeeps
    <2> QED
      BY <2>1, <2>2, <2>3, <2>4, <2>5
  <1>5. CASE Lose
    BY <1>5 DEF Lose, statementVars, ConnInv, ConnTyped, DataTyped, AliveTyped, LeftoversHaveTheirStatement
  <1>6. CASE UNCHANGED dbVars
    BY <1>2, <1>6 DEF dbVars
  <1> QED
    BY <1>1, <1>3, <1>4, <1>5, <1>6 DEF DatabaseNext

LEMMA CallStep == ASSUME ConnInv, CallInv, [DatabaseNext]_dbVars PROVE CallInv'
  <1> USE DEF CallInv
  <1>1. ASSUME NEW ok \in BOOLEAN, CreateDBConn(ok) PROVE CallInv'
    BY <1>1 DEF CreateDBConn
  <1>2. ASSUME NEW u \in User, Call(u) PROVE CallInv'
    BY <1>2 DEF Call, Param
  <1>3. ASSUME NEW ok \in BOOLEAN, CallPrepares(ok) PROVE CallInv'
    BY <1>3 DEF CallPrepares, Then, GoesTo, Returns
  <1>4. ASSUME NEW ok \in BOOLEAN, CallBinds(ok) PROVE CallInv'
    BY <1>4 DEF CallBinds, SetParameter, Then, GoesTo, Returns
  <1>5. ASSUME NEW ok \in BOOLEAN, CallExecutes(ok) PROVE CallInv'
    <2>1. CASE ok
      <3>1. /\ at = "execute" /\ at' = "rows" /\ UNCHANGED <<caller, userID, testRec, ret>>
            /\ m_DBRecordSet' \in RecordSets(parameter)
        BY <1>5, <2>1 DEF CallExecutes, ExecuteCommand, Then, GoesTo
      <3>2. parameter \in Param /\ parameter = userID
        BY <3>1 DEF ConnInv, ConnTyped, DataTyped, AliveTyped
      <3>3. m_DBRecordSet'.of = userID
        BY <3>1, <3>2, RecordSetsTyped DEF ConnInv
      <3> QED
        BY <3>1, <3>3
    <2>2. CASE ~ok
      BY <1>5, <2>2 DEF CallExecutes, Then, Returns
    <2> QED
      BY <2>1, <2>2
  <1>6. ASSUME NEW ok \in BOOLEAN, CallCloses(ok) PROVE CallInv'
    BY <1>6 DEF CallCloses, Returns
  <1>7. ASSUME NEW id \in BOOLEAN, NEW name \in BOOLEAN, CallReadsRow(id, name)
        PROVE  CallInv'
    <2>1. at = "rows" /\ m_DBRecordSet # Null /\ UNCHANGED <<caller, userID>>
      BY <1>7 DEF CallReadsRow, NextFieldExist
    <2>2. CASE id /\ name
      <3>1. testRec' = [id |-> userID, name |-> userID]
        BY <1>7, <2>1, <2>2 DEF CallReadsRow, GetFieldValue
      <3>2. m_DBRecordSet'.of = userID
        BY <1>7, <2>1, NextRow DEF CallReadsRow
      <3>3. UNCHANGED <<at, ret>>
        BY <1>7, <2>2 DEF CallReadsRow
      <3> QED
        BY <2>1, <3>1, <3>2, <3>3
    <2>3. CASE ~(id /\ name)
      BY <1>7, <2>1, <2>3 DEF CallReadsRow
    <2> QED
      BY <2>2, <2>3
  <1>8. CASE CallReadAll
    BY <1>8 DEF CallReadAll, GoesTo
  <1>9. CASE GetUserInfo
    BY <1>2, <1>3, <1>4, <1>5, <1>6, <1>7, <1>8, <1>9 DEF GetUserInfo
  <1>10. CASE Program
    BY <1>10 DEF Program, callVars
  <1>11. CASE Lose
    BY <1>11 DEF Lose, callVars, statementVars
  <1>12. CASE UNCHANGED dbVars
    BY <1>12 DEF dbVars, callVars, connectorVars, statementVars
  <1> QED
    BY <1>1, <1>9, <1>10, <1>11, <1>12 DEF DatabaseNext

\* Only CloseRecordset without an error leads to SUCCESS, and it leaves nothing
\* pending on a connection that works.
LEMMA SuccessStep ==
    ASSUME ConnInv, CallInv, SuccessIsThisUsers, [DatabaseNext]_dbVars
    PROVE  SuccessIsThisUsers'
  <1> USE DEF SuccessIsThisUsers, NoRec
  <1>1. ASSUME NEW ok \in BOOLEAN, CreateDBConn(ok) PROVE SuccessIsThisUsers'
    BY <1>1 DEF CreateDBConn, CallInv
  <1>2. ASSUME NEW u \in User, Call(u) PROVE SuccessIsThisUsers'
    BY <1>2 DEF Call
  <1>3. ASSUME NEW ok \in BOOLEAN, CallPrepares(ok) \/ CallBinds(ok) \/ CallExecutes(ok)
        PROVE  SuccessIsThisUsers'
    BY <1>3 DEF CallPrepares, CallBinds, CallExecutes, Then, GoesTo, Returns
  <1>4. ASSUME NEW ok \in BOOLEAN, CallCloses(ok) PROVE SuccessIsThisUsers'
    <2>1. CASE ok
      <3>1. testRec' \in {NoRec, [id |-> userID', name |-> userID']}
        BY <1>4 DEF CallCloses, Returns, CallInv
      <3>2. alive' = alive /\ m_DBConnect' = m_DBConnect /\ pending' = Drained
        BY <1>4, <2>1 DEF CallCloses, CloseRecordset
      <3>3. alive' => IsDBConnValid'
        BY <3>2, DrainedFacts DEF IsDBConnValid, ConnInv, ConnTyped, DataTyped, AliveTyped
      <3> QED
        BY <3>1, <3>3
    <2>2. CASE ~ok
      BY <1>4, <2>2 DEF CallCloses, Returns
    <2> QED
      BY <2>1, <2>2
  <1>5. ASSUME NEW id \in BOOLEAN, NEW name \in BOOLEAN, CallReadsRow(id, name)
        PROVE  SuccessIsThisUsers'
    BY <1>5 DEF CallReadsRow
  <1>6. CASE CallReadAll
    BY <1>6 DEF CallReadAll, GoesTo
  <1>7. CASE GetUserInfo
    BY <1>2, <1>3, <1>4, <1>5, <1>6, <1>7 DEF GetUserInfo
  <1>8. CASE Program
    BY <1>8 DEF Program, CallInv, callVars
  <1>9. CASE Lose
    BY <1>9 DEF Lose, callVars
  <1>10. CASE UNCHANGED dbVars
    BY <1>10 DEF dbVars, callVars, connectorVars, statementVars, IsDBConnValid
  <1> QED
    BY <1>1, <1>7, <1>8, <1>9, <1>10 DEF DatabaseNext

LEMMA DbInvariant == DatabaseSpec => []DbInv
  <1>1. DatabaseInit => DbInv
    BY DbInit
  <1>2. DbInv /\ [DatabaseNext]_dbVars => DbInv'
    BY ConnStep, CallStep, SuccessStep DEF DbInv
  <1> QED
    BY <1>1, <1>2, PTL DEF DatabaseSpec

\* Wherever an operation of the connector fails, unread results and the record
\* set it leaves behind belong to the statement it keeps.
THEOREM LeftoversAreOwned == DatabaseSpec => []LeftoversHaveTheirStatement
  <1>1. DbInv => LeftoversHaveTheirStatement
    BY DEF DbInv, ConnInv
  <1> QED
    BY <1>1, DbInvariant, PTL

\* GetUserInfo returns SUCCESS only with a row of the user asked for, or none,
\* and with a connector that is ready for the next call if it is alive.
THEOREM SuccessIsTrue == DatabaseSpec => []SuccessIsThisUsers
  <1>1. DbInv => SuccessIsThisUsers
    BY DEF DbInv
  <1> QED
    BY <1>1, DbInvariant, PTL
=============================================================================
