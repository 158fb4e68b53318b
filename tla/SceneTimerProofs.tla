-------------------------- MODULE SceneTimerProofs --------------------------
(* What holds of the transforms of a scene server's players for every *)
(* number of clients and every size of the buffer. *)
EXTENDS SceneTimer, SequenceTheorems, TLAPS

-----------------------------------------------------------------------------
(* The list of players. *)

\* Erase takes one element out of a list and keeps the others, in their order.
LEMMA EraseFacts ==
    ASSUME NEW q \in Seq(Client), NEW k \in DOMAIN q
    PROVE  /\ Erase(q, k) \in Seq(Client)
           /\ DOMAIN Erase(q, k) = 1 .. Len(q) - 1
           /\ Len(Erase(q, k)) = Len(q) - 1
           /\ \A i \in DOMAIN Erase(q, k) :
                Erase(q, k)[i] = IF i < k THEN q[i] ELSE q[i + 1]
  <1>1. Len(q) \in Nat /\ DOMAIN q = 1 .. Len(q) /\ Len(q) - 1 \in Nat /\ k \in 1 .. Len(q)
    BY LenProperties
  <1>2. \A i \in 1 .. Len(q) : q[i] \in Client
    BY <1>1, ElementOfSeq
  <1>3. \A i \in 1 .. Len(q) - 1 : (IF i < k THEN q[i] ELSE q[i + 1]) \in Client
    BY <1>1, <1>2
  <1>4. Erase(q, k) \in Seq(Client)
    <2>1. Erase(q, k) \in [1 .. Len(q) - 1 -> Client]
      BY <1>3 DEF Erase
    <2>2. [1 .. Len(q) - 1 -> Client] \subseteq Seq(Client)
      <3> DEFINE n == Len(q) - 1
      <3>1. n \in Nat
        BY <1>1
      <3> HIDE DEF n
      <3>2. [1 .. n -> Client] \in {[1 .. m -> Client] : m \in Nat}
        BY <3>1, Zenon
      <3>3. Seq(Client) = UNION {[1 .. m -> Client] : m \in Nat}
        BY SeqDef
      <3>4. [1 .. n -> Client] \subseteq Seq(Client)
        BY <3>2, <3>3, Zenon
      <3> QED
        BY <3>4 DEF n
    <2> QED
      BY <2>1, <2>2
  <1>5. DOMAIN Erase(q, k) = 1 .. Len(q) - 1
    BY DEF Erase
  <1>6. Len(Erase(q, k)) = Len(q) - 1
    <2> DEFINE rest == Erase(q, k)
               n == Len(q) - 1
    <2>1. rest \in Seq(Client) /\ DOMAIN rest = 1 .. n /\ n \in Nat
      BY <1>1, <1>4, <1>5
    <2> HIDE DEF rest, n
    <2>2. Len(rest) \in Nat /\ DOMAIN rest = 1 .. Len(rest)
      BY <2>1, LenProperties
    <2>3. Len(rest) = n
      BY <2>1, <2>2
    <2> QED
      BY <2>3 DEF rest, n
  <1> QED
    BY <1>4, <1>5, <1>6 DEF Erase

\* The players left are the others, provided each is in the list once.
LEMMA EraseListed ==
    ASSUME NEW q \in Seq(Client), NEW k \in DOMAIN q
    PROVE  /\ \A i \in DOMAIN Erase(q, k) : \E j \in DOMAIN q : Erase(q, k)[i] = q[j]
           /\ \A j \in DOMAIN q : j # k =>
                \E i \in DOMAIN Erase(q, k) : Erase(q, k)[i] = q[j]
  <1>1. Len(q) \in Nat /\ DOMAIN q = 1 .. Len(q) /\ k \in 1 .. Len(q)
    BY LenProperties
  <1>2. ASSUME NEW i \in DOMAIN Erase(q, k)
        PROVE  \E j \in DOMAIN q : Erase(q, k)[i] = q[j]
    <2>1. i \in 1 .. Len(q) - 1 /\ Erase(q, k)[i] = IF i < k THEN q[i] ELSE q[i + 1]
      BY EraseFacts
    <2>2. CASE i < k
      BY <1>1, <2>1, <2>2
    <2>3. CASE ~(i < k)
      <3>1. i + 1 \in DOMAIN q
        BY <1>1, <2>1
      <3> QED
        BY <2>1, <2>3, <3>1
    <2> QED
      BY <2>2, <2>3
  <1>3. ASSUME NEW j \in DOMAIN q, j # k
        PROVE  \E i \in DOMAIN Erase(q, k) : Erase(q, k)[i] = q[j]
    <2>1. CASE j < k
      <3>1. j \in DOMAIN Erase(q, k)
        BY <1>1, <2>1, EraseFacts
      <3> QED
        BY <2>1, <3>1, EraseFacts
    <2>2. CASE j > k
      <3>1. j - 1 \in DOMAIN Erase(q, k) /\ ~(j - 1 < k) /\ (j - 1) + 1 = j
        BY <1>1, <2>2, EraseFacts
      <3>2. Erase(q, k)[j - 1] = q[(j - 1) + 1]
        BY <3>1, EraseFacts
      <3> QED
        BY <3>1, <3>2
    <2> QED
      BY <1>1, <1>3, <2>1, <2>2
  <1> QED
    BY <1>2, <1>3

\* A player appended is the only change to who is listed.
LEMMA AppendListed ==
    ASSUME NEW q \in Seq(Client), NEW c \in Client
    PROVE  /\ Append(q, c) \in Seq(Client)
           /\ DOMAIN Append(q, c) = 1 .. Len(q) + 1
           /\ DOMAIN q = 1 .. Len(q) /\ Len(q) \in Nat
           /\ Append(q, c)[Len(q) + 1] = c
           /\ \A i \in DOMAIN q : i \in DOMAIN Append(q, c) /\ Append(q, c)[i] = q[i]
           /\ Len(Append(q, c)) = Len(q) + 1
  BY AppendProperties, LenProperties

-----------------------------------------------------------------------------
(* Types. *)

LEMMA TypeInit == Init => TypeOK
  <1> SUFFICES ASSUME Init PROVE TypeOK
    OBVIOUS
  <1>1. players \in Seq(Client) /\ Len(players) = 0
    BY EmptySeq DEF Init
  <1>2. due \in [Client -> SUBSET Receiver] /\ late \in [Receiver -> Nat]
    BY DEF Init
  <1>3. position \in 1 .. Len(players) + 1
    BY <1>1 DEF Init
  <1>4. buffer \subseteq Client /\ used \subseteq Client
    BY DEF Init
  <1> QED
    BY <1>1, <1>2, <1>3, <1>4, Zenon DEF Init, TypeOK

\* What the main loop does, one lemma per step that changes more than a flag.
LEMMA TypeAdd == ASSUME TypeOK, NEW c \in Client, AddPlayer(c) PROVE TypeOK'
  <1>1. players' \in Seq(Client) /\ Len(players') = Len(players) + 1 /\ Len(players) \in Nat
    BY AppendListed DEF TypeOK, AddPlayer
  <1>2. position' \in 1 .. Len(players') + 1
    BY <1>1 DEF TypeOK, AddPlayer, timerVars
  <1> QED
    BY <1>1, <1>2 DEF TypeOK, AddPlayer, timerVars

\* While the lock is free the timer stands at the first player.
WaitInv == timerPc = "waiting" => position = 1 /\ buffer = {}

LEMMA TypeForget ==
    ASSUME TypeOK, WaitInv, NEW c \in Client, Unlocked, Forget(c) PROVE TypeOK'
  <1> PICK k \in DOMAIN players : players' = Erase(players, k)
    BY DEF Forget
  <1>1. /\ players' \in Seq(Client) /\ Len(players') \in Nat
        /\ position' = 1
    BY EraseFacts, LenProperties DEF TypeOK, WaitInv, Unlocked, Forget, timerVars
  <1>2. due' \in [Client -> SUBSET Receiver]
    BY DEF TypeOK, Forget
  <1>3. late' \in [Receiver -> Nat]
    BY DEF Forget
  <1> QED
    BY <1>1, <1>2, <1>3 DEF TypeOK, Forget, timerVars

LEMMA TypeDeliver ==
    ASSUME TypeOK, NEW r \in Receiver, Deliver(r)
    PROVE  due' \in [Client -> SUBSET Receiver] /\ late' \in [Receiver -> Nat]
  BY DEF TypeOK, Deliver

LEMMA ListType ==
    ASSUME TypeOK
    PROVE  /\ Len(players) \in Nat /\ DOMAIN players = 1 .. Len(players)
           /\ \A k \in DOMAIN players : players[k] \in Client /\ players[k] \in Receiver
           /\ Listed \subseteq Client
  <1>1. Len(players) \in Nat /\ DOMAIN players = 1 .. Len(players)
    BY LenProperties DEF TypeOK
  <1>2. \A k \in DOMAIN players : players[k] \in Client
    BY <1>1, ElementOfSeq DEF TypeOK
  <1> QED
    BY <1>1, <1>2 DEF Listed, Receiver

LEMMA TypeNext == TypeOK /\ WaitInv /\ [Next]_sceneTimerVars => TypeOK'
  <1> SUFFICES ASSUME TypeOK, WaitInv, [Next]_sceneTimerVars PROVE TypeOK'
    OBVIOUS
  <1>1. CASE TimerBegin
    BY <1>1, ListType DEF TypeOK, TimerBegin, listVars
  <1>2. CASE Collect
    <2> DEFINE c == players[position]
    <2>1. c \in Client /\ position + 1 \in 1 .. Len(players) + 1
      BY <1>2, ListType DEF Collect
    <2>2. buffer' \subseteq Client /\ update' \in [Client -> BOOLEAN]
      BY <1>2, <2>1 DEF TypeOK, Collect
    <2> QED
      BY <1>2, <2>1, <2>2 DEF TypeOK, Collect, listVars
  <1>3. CASE CollectEnd
    BY <1>3, ListType DEF TypeOK, CollectEnd, listVars
  <1>4. CASE SendTransforms
    <2>1. players[position] \in Receiver /\ position + 1 \in 1 .. Len(players) + 1
      BY <1>4, ListType DEF SendTransforms
    <2>2. due' \in [Client -> SUBSET Receiver] /\ late' \in [Receiver -> Nat]
      BY <1>4, <2>1, TypeDeliver DEF SendTransforms
    <2> QED
      BY <1>4, <2>1, <2>2 DEF TypeOK, SendTransforms, listVars
  <1>5. CASE SendToCenter
    <2>1. Center \in Receiver
      BY DEF Receiver
    <2>2. due' \in [Client -> SUBSET Receiver] /\ late' \in [Receiver -> Nat]
      BY <1>5, <2>1, TypeDeliver DEF SendToCenter, TypeOK
    <2> QED
      BY <1>5, <2>2, ListType DEF TypeOK, SendToCenter, listVars
  <1>6. ASSUME NEW c \in Client, AddPlayer(c) PROVE TypeOK'
    BY <1>6, TypeAdd
  <1>7. ASSUME NEW c \in Client, UpdatePlayerTransform(c) PROVE TypeOK'
    <2>1. due' \in [Client -> SUBSET Receiver]
      BY <1>7, ListType DEF UpdatePlayerTransform, TypeOK, Receiver
    <2> QED
      BY <1>7, <2>1 DEF UpdatePlayerTransform, TypeOK, listVars, timerVars
  <1>8. ASSUME NEW c \in Client, SendPlayerLeaveMsg(c) PROVE TypeOK'
    BY <1>8 DEF SendPlayerLeaveMsg, TypeOK, timerVars
  <1>9. CASE ShowUsers
    BY <1>9 DEF ShowUsers, TypeOK, timerVars
  <1>10. CASE DeletePlayer
    <2>1. leaving \in Client
      BY <1>10 DEF DeletePlayer, MainIdle, TypeOK
    <2> QED
      BY <1>10, <2>1, TypeForget DEF DeletePlayer
  <1>11. CASE UNCHANGED sceneTimerVars
    BY <1>11 DEF TypeOK, sceneTimerVars, listVars, timerVars
  <1> QED
    BY <1>1, <1>2, <1>3, <1>4, <1>5, <1>6, <1>7, <1>8, <1>9, <1>10, <1>11
       DEF Next, Timer, MainLoop

LEMMA WaitNext == TypeOK /\ WaitInv /\ [Next]_sceneTimerVars => WaitInv'
  BY DEF TypeOK, WaitInv, Next, Timer, MainLoop, TimerBegin, Collect, CollectEnd,
         SendTransforms, SendToCenter, AddPlayer, UpdatePlayerTransform,
         SendPlayerLeaveMsg, ShowUsers, DeletePlayer, Forget,
         sceneTimerVars, timerVars

-----------------------------------------------------------------------------
(* The list of players under the steps of the main loop. *)

\* A connection is listed at most once, as it begins at most once.
DistinctInv ==
    /\ \A i, j \in DOMAIN players : players[i] = players[j] => i = j
    /\ Listed \subseteq used

LEMMA AddListed ==
    ASSUME TypeOK, NEW c \in Client, AddPlayer(c)
    PROVE  Listed' = Listed \cup {c}
  <1> DEFINE n == Len(players) + 1
  <1>1. /\ DOMAIN players' = 1 .. n /\ DOMAIN players = 1 .. Len(players)
        /\ Len(players) \in Nat /\ players'[n] = c
        /\ \A i \in DOMAIN players : players'[i] = players[i]
    BY AppendListed DEF TypeOK, AddPlayer
  <1>2. \A i \in DOMAIN players' : i = n \/ i \in DOMAIN players
    BY <1>1
  <1>3. n \in DOMAIN players' /\ \A i \in DOMAIN players : i \in DOMAIN players'
    BY <1>1
  <1> HIDE DEF n
  <1> QED
    BY <1>1, <1>2, <1>3, Zenon DEF Listed

LEMMA ForgetListed ==
    ASSUME TypeOK, NEW c \in Client, Forget(c)
    PROVE  Listed' \subseteq Listed /\ Listed \ {c} \subseteq Listed'
  <1> PICK k \in DOMAIN players : players[k] = c /\ players' = Erase(players, k)
    BY DEF Forget
  <1>1. players \in Seq(Client)
    BY DEF TypeOK
  <1>2. /\ \A i \in DOMAIN players' : \E j \in DOMAIN players : players'[i] = players[j]
        /\ \A j \in DOMAIN players : j # k =>
             \E i \in DOMAIN players' : players'[i] = players[j]
    BY <1>1, EraseListed
  <1>3. ASSUME NEW d \in Listed' PROVE d \in Listed
    BY <1>2, <1>3 DEF Listed
  <1>4. ASSUME NEW d \in Listed, d # c PROVE d \in Listed'
    <2> PICK j \in DOMAIN players : d = players[j]
      BY <1>4 DEF Listed
    <2> QED
      BY <1>2, <1>4 DEF Listed
  <1> QED
    BY <1>3, <1>4

LEMMA DistinctAdd ==
    ASSUME TypeOK, DistinctInv, NEW c \in Client, AddPlayer(c) PROVE DistinctInv'
  <1>1. Listed' \subseteq used'
    BY AddListed DEF DistinctInv, AddPlayer
  <1>2. \A i \in DOMAIN players : players[i] # c
    BY DEF DistinctInv, AddPlayer, Listed
  <1> DEFINE n == Len(players) + 1
  <1>3. /\ DOMAIN players' = 1 .. n /\ DOMAIN players = 1 .. Len(players)
        /\ Len(players) \in Nat /\ players'[n] = c
        /\ \A i \in DOMAIN players : players'[i] = players[i]
    BY AppendListed DEF TypeOK, AddPlayer
  <1>4. \A i \in DOMAIN players' : i = n \/ i \in DOMAIN players
    BY <1>3
  <1> HIDE DEF n
  <1>5. ASSUME NEW i \in DOMAIN players', NEW j \in DOMAIN players', players'[i] = players'[j]
        PROVE  i = j
    BY <1>2, <1>3, <1>4, <1>5, Zenon DEF DistinctInv
  <1> QED
    BY <1>1, <1>5 DEF DistinctInv

LEMMA DistinctForget ==
    ASSUME TypeOK, DistinctInv, NEW c \in Client, Forget(c) PROVE DistinctInv'
  <1>1. Listed' \subseteq used'
    BY ForgetListed DEF DistinctInv, Forget
  <1> PICK k \in DOMAIN players : players' = Erase(players, k)
    BY DEF Forget
  <1>2. /\ DOMAIN players = 1 .. Len(players) /\ Len(players) \in Nat
        /\ DOMAIN players' = 1 .. Len(players) - 1
        /\ \A i \in DOMAIN players' :
             players'[i] = IF i < k THEN players[i] ELSE players[i + 1]
    BY EraseFacts, ListType DEF TypeOK
  <1> DEFINE old(i) == IF i < k THEN i ELSE i + 1
  <1>3. ASSUME NEW i \in DOMAIN players'
        PROVE  i \in Int /\ old(i) \in DOMAIN players /\ players'[i] = players[old(i)]
    BY <1>2, <1>3
  <1>4. ASSUME NEW i \in DOMAIN players', NEW j \in DOMAIN players', players'[i] = players'[j]
        PROVE  i = j
    <2>1. old(i) = old(j)
      BY <1>3, <1>4 DEF DistinctInv
    <2> QED
      BY <1>2, <1>3, <2>1
  <1> QED
    BY <1>1, <1>4 DEF DistinctInv

LEMMA DistinctNext == TypeOK /\ DistinctInv /\ [Next]_sceneTimerVars => DistinctInv'
  <1> SUFFICES ASSUME TypeOK, DistinctInv, [Next]_sceneTimerVars PROVE DistinctInv'
    OBVIOUS
  <1>1. ASSUME NEW c \in Client, AddPlayer(c) PROVE DistinctInv'
    BY <1>1, DistinctAdd
  <1>2. CASE DeletePlayer
    BY <1>2, DistinctForget DEF DeletePlayer, MainIdle, TypeOK
  <1>3. CASE UNCHANGED listVars
    BY <1>3 DEF listVars, DistinctInv, Listed
  <1>4. CASE ShowUsers \/ \E c \in Client : SendPlayerLeaveMsg(c)
    BY <1>4 DEF ShowUsers, SendPlayerLeaveMsg, DistinctInv, Listed
  <1>5. Timer => UNCHANGED listVars
    BY DEF Timer, TimerBegin, Collect, CollectEnd, SendTransforms, SendToCenter
  <1> QED
    BY <1>1, <1>2, <1>3, <1>4, <1>5
       DEF Next, MainLoop, UpdatePlayerTransform, sceneTimerVars

-----------------------------------------------------------------------------
(* What the timer has collected. *)

\* The players in the buffer are listed, and none has a transform newer than it.
BufferInv == \A c \in buffer : c \in Listed /\ ~update[c]

LEMMA BufferNext ==
    TypeOK /\ WaitInv /\ BufferInv /\ [Next]_sceneTimerVars => BufferInv'
  <1> SUFFICES ASSUME TypeOK, WaitInv, BufferInv, [Next]_sceneTimerVars PROVE BufferInv'
    OBVIOUS
  <1>1. CASE TimerBegin
    BY <1>1 DEF TimerBegin, BufferInv
  <1>2. CASE Collect
    <2> DEFINE c == players[position]
    <2>1. c \in Client /\ c \in Listed
      BY <1>2, ListType DEF Collect, Listed
    <2>2. Listed' = Listed
      BY <1>2 DEF Collect, listVars, Listed
    <2>3. /\ buffer' = IF update[c] THEN buffer \cup {c} ELSE buffer
          /\ update' = [update EXCEPT ![c] = FALSE]
      BY <1>2 DEF Collect
    <2>4. buffer \subseteq Client /\ update \in [Client -> BOOLEAN]
      BY DEF TypeOK
    <2> HIDE DEF c
    <2>5. ASSUME NEW d \in buffer' PROVE d \in Listed /\ ~update'[d]
      BY <2>1, <2>3, <2>4, <2>5 DEF BufferInv
    <2> QED
      BY <2>2, <2>5 DEF BufferInv
  <1>3. CASE CollectEnd \/ SendTransforms
    BY <1>3 DEF CollectEnd, SendTransforms, listVars, BufferInv, Listed
  <1>4. CASE SendToCenter
    BY <1>4 DEF SendToCenter, BufferInv
  <1>5. CASE Unlocked /\ buffer' = buffer
    BY <1>5 DEF Unlocked, WaitInv, BufferInv
  <1>6. CASE UNCHANGED <<players, buffer, update>>
    BY <1>6 DEF BufferInv, Listed
  <1> QED
    BY <1>1, <1>2, <1>3, <1>4, <1>5, <1>6
       DEF Next, Timer, MainLoop, AddPlayer, UpdatePlayerTransform, SendPlayerLeaveMsg,
           ShowUsers, DeletePlayer, Forget, sceneTimerVars, listVars, timerVars

-----------------------------------------------------------------------------
(* Who has still to be sent a movement. *)

\* Only those who are there, and the center once users are visible to it.
DueInv ==
    \A c \in Client : \A r \in due[c] : r \in Listed \/ (r = Center /\ user_visible_flag)

LEMMA DueNext == TypeOK /\ DueInv /\ [Next]_sceneTimerVars => DueInv'
  <1> SUFFICES ASSUME TypeOK, DueInv, [Next]_sceneTimerVars PROVE DueInv'
    OBVIOUS
  <1>1. ASSUME NEW c \in Client, AddPlayer(c) PROVE DueInv'
    <2>1. Listed \subseteq Listed' /\ due' = due /\ user_visible_flag' = user_visible_flag
      BY <1>1, AddListed DEF AddPlayer
    <2> QED
      BY <2>1 DEF DueInv
  <1>2. ASSUME NEW c \in Client, UpdatePlayerTransform(c) PROVE DueInv'
    <2>1. Listed' = Listed /\ user_visible_flag' = user_visible_flag
      BY <1>2 DEF UpdatePlayerTransform, listVars, Listed
    <2>2. due' = [due EXCEPT ![c] = Listed \cup IF user_visible_flag THEN {Center} ELSE {}]
      BY <1>2 DEF UpdatePlayerTransform
    <2>3. due \in [Client -> SUBSET Receiver]
      BY DEF TypeOK
    <2>4. ASSUME NEW d \in Client, NEW r \in due'[d]
          PROVE  r \in Listed \/ (r = Center /\ user_visible_flag)
      <3>1. CASE d = c
        <4>1. due'[c] = Listed \cup IF user_visible_flag THEN {Center} ELSE {}
          BY <2>2, <2>3
        <4> QED
          BY <2>4, <3>1, <4>1
      <3>2. CASE d # c
        BY <2>2, <2>3, <2>4, <3>2 DEF DueInv
      <3> QED
        BY <3>1, <3>2
    <2> QED
      BY <2>1, <2>4 DEF DueInv
  <1>3. CASE DeletePlayer
    <2>1. /\ Listed \ {leaving} \subseteq Listed' /\ user_visible_flag' = user_visible_flag
          /\ due' = [d \in Client |-> IF d = leaving THEN {} ELSE due[d] \ {leaving}]
      BY <1>3, ForgetListed DEF DeletePlayer, MainIdle, TypeOK, Forget
    <2>2. ASSUME NEW d \in Client, NEW r \in due'[d]
          PROVE  r \in Listed' \/ (r = Center /\ user_visible_flag')
      <3>1. r \in due[d] /\ r # leaving
        BY <2>1, <2>2
      <3> QED
        BY <2>1, <3>1 DEF DueInv
    <2> QED
      BY <2>2 DEF DueInv
  <1>4. CASE ShowUsers
    BY <1>4 DEF ShowUsers, DueInv, Listed
  <1>5. ASSUME NEW r, Deliver(r), UNCHANGED listVars PROVE DueInv'
    <2>1. Listed' = Listed /\ user_visible_flag' = user_visible_flag
      BY <1>5 DEF listVars, Listed
    <2>2. \A c \in Client : due'[c] \subseteq due[c]
      BY <1>5 DEF Deliver
    <2> QED
      BY <2>1, <2>2 DEF DueInv
  <1>6. CASE UNCHANGED <<players, due, user_visible_flag>>
    BY <1>6 DEF DueInv, Listed
  <1> QED
    BY <1>1, <1>2, <1>3, <1>4, <1>5, <1>6
       DEF Next, Timer, MainLoop, TimerBegin, Collect, CollectEnd, SendTransforms,
           SendToCenter, SendPlayerLeaveMsg, sceneTimerVars, listVars

\* Who is ahead of the timer, in each of its phases.
LEMMA AheadFacts ==
    ASSUME TypeOK
    PROVE  /\ timerPc = "waiting" => Ahead = {}
           /\ timerPc = "collecting" => Ahead = Receiver
           /\ timerPc = "sending" =>
                Ahead = {players[k] : k \in position .. Len(players)} \cup {Center}
  BY DEF Ahead

LEMMA AheadSend ==
    ASSUME TypeOK, SendTransforms
    PROVE  /\ Ahead' \subseteq Ahead
           /\ \A r \in Ahead : r = players[position] \/ r \in Ahead'
           /\ players[position] \in Ahead
  <1>1. /\ timerPc = "sending" /\ timerPc' = "sending" /\ players' = players
        /\ position' = position + 1 /\ position \in DOMAIN players
    BY DEF SendTransforms, listVars
  <1>2. /\ Ahead = {players[k] : k \in position .. Len(players)} \cup {Center}
        /\ Ahead' = {players[k] : k \in position + 1 .. Len(players)} \cup {Center}
    BY <1>1 DEF Ahead
  <1>3. position \in position .. Len(players) /\ position \in Int /\ Len(players) \in Int
    BY <1>1, ListType
  <1>4. \A k \in position .. Len(players) : k = position \/ k \in position + 1 .. Len(players)
    BY <1>3
  <1>5. \A k \in position + 1 .. Len(players) : k \in position .. Len(players)
    BY <1>3
  <1>6. ASSUME NEW r \in Ahead' PROVE r \in Ahead
    BY <1>2, <1>5, <1>6
  <1>7. ASSUME NEW r \in Ahead PROVE r = players[position] \/ r \in Ahead'
    BY <1>2, <1>4, <1>7
  <1>8. players[position] \in Ahead
    BY <1>2, <1>3
  <1> QED
    BY <1>6, <1>7, <1>8

LEMMA AheadAtEnd ==
    ASSUME TypeOK, SendToCenter PROVE Ahead = {Center} /\ Ahead' = {}
  <1>1. Len(players) \in Nat /\ position \in Int
    BY ListType DEF TypeOK
  <1>2. position .. Len(players) = {}
    BY <1>1 DEF SendToCenter
  <1> QED
    BY <1>2 DEF SendToCenter, Ahead

-----------------------------------------------------------------------------
(* Movements are marked. *)

LEMMA MarkedNext ==
    TypeOK /\ WaitInv /\ DueInv /\ MovesAreMarked /\ [Next]_sceneTimerVars => MovesAreMarked'
  <1> SUFFICES ASSUME TypeOK, WaitInv, DueInv, MovesAreMarked, [Next]_sceneTimerVars,
                      NEW c \in Client, NEW r \in due'[c]
               PROVE  update'[c] \/ (c \in buffer' /\ r \in Ahead')
    BY DEF MovesAreMarked
  <1>t. /\ update \in [Client -> BOOLEAN] /\ due \in [Client -> SUBSET Receiver]
        /\ buffer \subseteq Client
    BY DEF TypeOK
  <1>m. ASSUME r \in due[c] PROVE update[c] \/ (c \in buffer /\ r \in Ahead)
    BY <1>m DEF MovesAreMarked
  <1>w. timerPc = "waiting" => Ahead = {}
    BY DEF Ahead
  <1>1. CASE TimerBegin
    BY <1>1, <1>m, <1>w DEF TimerBegin
  <1>2. CASE Collect
    <2> DEFINE p == players[position]
    <2>1. /\ r \in due[c]
          /\ buffer' = IF update[p] THEN buffer \cup {p} ELSE buffer
          /\ update' = [update EXCEPT ![p] = FALSE]
      BY <1>2 DEF Collect
    <2>2. Ahead' = Receiver
      BY <1>2 DEF Collect, listVars, Ahead
    <2>3. r \in Ahead'
      BY <1>t, <2>1, <2>2
    <2> HIDE DEF p
    <2> QED
      BY <1>t, <1>m, <2>1, <2>3
  <1>3. CASE CollectEnd
    <2>1. /\ r \in due[c] /\ update' = update /\ buffer' = buffer /\ players' = players
          /\ position' = 1
          /\ timerPc' = IF buffer = {} THEN "waiting" ELSE "sending"
      BY <1>3 DEF CollectEnd, listVars
    <2>2. CASE buffer = {}
      BY <1>m, <2>1, <2>2
    <2>3. CASE buffer # {}
      <3>1. Ahead' = {players[k] : k \in 1 .. Len(players)} \cup {Center}
        BY <2>1, <2>3 DEF Ahead
      <3>2. Listed = {players[k] : k \in 1 .. Len(players)}
        BY ListType DEF Listed
      <3>3. r \in Listed \/ r = Center
        BY <2>1 DEF DueInv
      <3> QED
        BY <1>m, <2>1, <3>1, <3>2, <3>3
    <2> QED
      BY <2>2, <2>3
  <1>4. CASE SendTransforms
    <2>1. /\ due' = [d \in Client |-> IF d \in buffer THEN due[d] \ {players[position]} ELSE due[d]]
          /\ update' = update /\ buffer' = buffer
      BY <1>4 DEF SendTransforms, Deliver
    <2>2. r \in due[c] /\ (c \in buffer => r # players[position])
      BY <2>1
    <2> QED
      BY <1>4, <1>m, <2>1, <2>2, AheadSend
  <1>5. CASE SendToCenter
    <2>1. Ahead = {Center} /\ update' = update
      BY <1>5, AheadAtEnd DEF SendToCenter
    <2>2. CASE user_visible_flag
      <3>1. due' = [d \in Client |-> IF d \in buffer THEN due[d] \ {Center} ELSE due[d]]
        BY <1>5, <2>2 DEF SendToCenter, Deliver
      <3> QED
        BY <1>m, <2>1, <3>1
    <2>3. CASE ~user_visible_flag
      <3>1. r \in due[c] /\ r \in Listed
        BY <1>5, <2>3 DEF SendToCenter, DueInv
      <3>2. Center \notin Client /\ Listed \subseteq Client
        BY ListType, SceneTimerAssumption
      <3> QED
        BY <1>m, <2>1, <3>1, <3>2
    <2> QED
      BY <2>2, <2>3
  <1>6. CASE UNCHANGED <<due, update, buffer, timerPc>> /\ Unlocked
    BY <1>6, <1>m, <1>w DEF Unlocked
  <1>7. ASSUME NEW d \in Client, UpdatePlayerTransform(d) PROVE update'[c]
    <2>1. /\ Unlocked /\ update' = [update EXCEPT ![d] = TRUE]
          /\ due' = [due EXCEPT ![d] = Listed \cup IF user_visible_flag THEN {Center} ELSE {}]
      BY <1>7 DEF UpdatePlayerTransform
    <2>2. c = d \/ update[c]
      BY <1>t, <1>m, <1>w, <2>1 DEF Unlocked
    <2> QED
      BY <1>t, <2>1, <2>2
  <1>8. CASE DeletePlayer
    <2>1. /\ Unlocked
          /\ update' = [update EXCEPT ![leaving] = FALSE]
          /\ due' = [d \in Client |-> IF d = leaving THEN {} ELSE due[d] \ {leaving}]
      BY <1>8 DEF DeletePlayer, Forget
    <2>2. c # leaving /\ r \in due[c]
      BY <2>1
    <2>3. update[c]
      BY <1>m, <1>w, <2>1, <2>2 DEF Unlocked
    <2> QED
      BY <1>t, <2>1, <2>2, <2>3
  <1>9. CASE UNCHANGED <<due, update, timerVars, players>>
    BY <1>9, <1>m DEF timerVars, Ahead
  <1> QED
    BY <1>1, <1>2, <1>3, <1>4, <1>5, <1>6, <1>7, <1>8, <1>9
       DEF Next, Timer, MainLoop, AddPlayer, SendPlayerLeaveMsg, ShowUsers,
           sceneTimerVars, listVars, timerVars

-----------------------------------------------------------------------------
(* Transforms that come too late. *)

\* Who was sent one of the player leaving has had all it gets: the player is not
\* marked as new, and if the timer still has it, this receiver is behind the timer.
LateInv ==
    \A r \in Receiver :
        \/ late[r] = 0
        \/ /\ late[r] = 1
           /\ leaving # NoClient
           /\ ~update[leaving]
           /\ leaving \in buffer => timerPc = "sending" /\ r \notin Ahead

LEMMA LateNext ==
    TypeOK /\ WaitInv /\ BufferInv /\ DistinctInv /\ LateInv /\ [Next]_sceneTimerVars
    => LateInv'
  <1> SUFFICES ASSUME TypeOK, WaitInv, BufferInv, DistinctInv, LateInv,
                      [Next]_sceneTimerVars, NEW r \in Receiver
               PROVE  \/ late'[r] = 0
                      \/ /\ late'[r] = 1
                         /\ leaving' # NoClient
                         /\ ~update'[leaving']
                         /\ leaving' \in buffer' => timerPc' = "sending" /\ r \notin Ahead'
    BY DEF LateInv
  <1>t. /\ update \in [Client -> BOOLEAN] /\ late \in [Receiver -> Nat]
        /\ buffer \subseteq Client /\ leaving \in Client \cup {NoClient}
    BY DEF TypeOK
  <1>m. \/ late[r] = 0
        \/ /\ late[r] = 1
           /\ leaving # NoClient
           /\ ~update[leaving]
           /\ leaving \in buffer => timerPc = "sending" /\ r \notin Ahead
    BY DEF LateInv
  <1>1. CASE TimerBegin
    BY <1>1, <1>m DEF TimerBegin, listVars
  <1>2. CASE Collect
    <2> DEFINE p == players[position]
    <2>1. /\ late' = late /\ leaving' = leaving /\ timerPc = "collecting"
          /\ buffer' = IF update[p] THEN buffer \cup {p} ELSE buffer
          /\ update' = [update EXCEPT ![p] = FALSE]
      BY <1>2 DEF Collect, listVars
    <2> HIDE DEF p
    <2>2. CASE late[r] = 0
      BY <2>1, <2>2
    <2>3. CASE late[r] # 0
      <3>1. /\ late[r] = 1 /\ leaving \in Client /\ leaving # NoClient
            /\ ~update[leaving] /\ leaving \notin buffer
        BY <1>t, <1>m, <2>1, <2>3
      <3>2. leaving \notin buffer' /\ ~update'[leaving]
        BY <1>t, <2>1, <3>1
      <3> QED
        BY <2>1, <3>1, <3>2
    <2> QED
      BY <2>2, <2>3
  <1>3. CASE CollectEnd
    BY <1>3, <1>m DEF CollectEnd, listVars
  <1>4. CASE SendTransforms
    <2> DEFINE p == players[position]
    <2>1. /\ leaving' = leaving /\ update' = update /\ buffer' = buffer
          /\ timerPc = "sending" /\ timerPc' = "sending"
          /\ late' = IF leaving \in buffer THEN [late EXCEPT ![p] = @ + 1] ELSE late
      BY <1>4 DEF SendTransforms, Deliver, listVars
    <2>2. p \in Ahead /\ Ahead' \subseteq Ahead
      BY <1>4, AheadSend
    <2>3. p \notin Ahead'
      <3>1. /\ position' = position + 1 /\ players' = players
            /\ position \in DOMAIN players /\ position \in 1 .. Len(players)
        BY <1>4, ListType DEF SendTransforms, listVars
      <3>2. Ahead' = {players[k] : k \in position + 1 .. Len(players)} \cup {Center}
        BY <2>1, <3>1 DEF Ahead
      <3>3. p \in Client /\ p # Center
        BY <3>1, ListType, SceneTimerAssumption
      <3>4. \A k \in position + 1 .. Len(players) : k \in DOMAIN players /\ k # position
        BY <3>1, ListType
      <3>5. \A k \in position + 1 .. Len(players) : players[k] # p
        BY <3>1, <3>4 DEF DistinctInv
      <3> QED
        BY <3>2, <3>3, <3>5
    <2> HIDE DEF p
    <2>4. CASE leaving \in buffer /\ r = p
      <3>1. late[r] = 0
        BY <1>m, <2>2, <2>4
      <3>2. late'[r] = 1
        BY <1>t, <2>1, <2>4, <3>1
      <3>3. leaving # NoClient /\ ~update[leaving]
        BY <1>t, <2>4, SceneTimerAssumption DEF BufferInv
      <3> QED
        BY <2>1, <2>3, <2>4, <3>2, <3>3
    <2>5. CASE ~(leaving \in buffer /\ r = p)
      <3>1. late'[r] = late[r]
        BY <1>t, <2>1, <2>5
      <3> QED
        BY <1>m, <2>1, <2>2, <3>1
    <2> QED
      BY <2>4, <2>5
  <1>5. CASE SendToCenter
    <2>1. leaving' = leaving /\ update' = update /\ buffer' = {} /\ Ahead = {Center}
      BY <1>5, AheadAtEnd DEF SendToCenter, listVars
    <2>2. CASE late' = late
      BY <1>m, <2>1, <2>2
    <2>3. CASE leaving \in buffer /\ late' = [late EXCEPT ![Center] = @ + 1]
      <3>1. leaving # NoClient /\ ~update[leaving]
        BY <1>t, <2>3, SceneTimerAssumption DEF BufferInv
      <3>2. CASE r = Center
        <4>1. late[r] = 0
          BY <1>m, <2>1, <2>3, <3>2
        <4>2. late'[r] = 1
          BY <1>t, <2>3, <3>2, <4>1
        <4> QED
          BY <2>1, <3>1, <4>2
      <3>3. CASE r # Center
        <4>1. late'[r] = late[r]
          BY <1>t, <2>3, <3>3
        <4> QED
          BY <1>m, <2>1, <4>1
      <3> QED
        BY <3>2, <3>3
    <2> QED
      BY <1>5, <2>2, <2>3 DEF SendToCenter, Deliver
  <1>6. CASE MainIdle /\ late' = late
    BY <1>6, <1>m DEF MainIdle
  <1>7. CASE DeletePlayer
    BY <1>7 DEF DeletePlayer, Forget
  <1>8. CASE UNCHANGED sceneTimerVars
    BY <1>8, <1>m DEF sceneTimerVars, listVars, timerVars, Ahead
  <1> QED
    BY <1>1, <1>2, <1>3, <1>4, <1>5, <1>6, <1>7, <1>8
       DEF Next, Timer, MainLoop, AddPlayer, UpdatePlayerTransform, SendPlayerLeaveMsg,
           ShowUsers

-----------------------------------------------------------------------------
(* The theorems. *)

TimerInv ==
    /\ TypeOK
    /\ WaitInv
    /\ DistinctInv
    /\ BufferInv
    /\ DueInv
    /\ MovesAreMarked
    /\ LateInv

LEMMA TimerInvInit == Init => TimerInv
  <1> SUFFICES ASSUME Init PROVE TimerInv
    OBVIOUS
  <1>1. DOMAIN players = {}
    BY DEF Init
  <1>2. DistinctInv /\ BufferInv
    BY <1>1 DEF Init, DistinctInv, BufferInv, Listed
  <1>3. DueInv /\ MovesAreMarked
    BY DEF Init, DueInv, MovesAreMarked
  <1>4. LateInv
    BY DEF Init, LateInv
  <1> QED
    BY <1>2, <1>3, <1>4, TypeInit DEF Init, TimerInv, WaitInv

LEMMA TimerInvNext == TimerInv /\ [Next]_sceneTimerVars => TimerInv'
  BY TypeNext, WaitNext, DistinctNext, BufferNext, DueNext, MarkedNext, LateNext
     DEF TimerInv

LEMMA TimerInvariant == Spec => []TimerInv
  BY TimerInvInit, TimerInvNext, PTL DEF Spec

\* The variables keep their types, and the timer's iterator its place in the list.
THEOREM TimerTyped == Spec => []TypeOK
  <1>1. TimerInv => TypeOK
    BY DEF TimerInv
  <1> QED
    BY <1>1, TimerInvariant, PTL

\* The timer holds no transform of a player that has been deleted: the list has not
\* changed under it.
THEOREM TimerSendsListed == Spec => []CollectedAreListed
  <1>1. TimerInv => CollectedAreListed
    BY DEF TimerInv, CollectedAreListed, BufferInv
  <1> QED
    BY <1>1, TimerInvariant, PTL

\* Between the two threads no movement gets lost: whoever has not been sent a player's
\* last transform is ahead of the timer, or the player is marked for its next round.
THEOREM NoMoveIsLost == Spec => []MovesAreMarked
  <1>1. TimerInv => MovesAreMarked
    BY DEF TimerInv
  <1> QED
    BY <1>1, TimerInvariant, PTL

\* After a player's leave message at most one of its transforms is still sent to each
\* client, and to the center.
THEOREM OneLateTransform == Spec => []LateAtMostOnce
  <1>1. TimerInv => LateAtMostOnce
    BY DEF TimerInv, LateInv, LateAtMostOnce
  <1> QED
    BY <1>1, TimerInvariant, PTL
=============================================================================
