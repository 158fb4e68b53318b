--------------------------- MODULE TheatreProofs ---------------------------
(* What holds of scene servers and their center for every number of scenes, *)
(* of clients and of commands, and every script of what clients do. *)
EXTENDS Theatre, SequenceTheorems, WellFoundedInduction, TLAPS

-----------------------------------------------------------------------------
(* Every set of numbers has a least one. *)

Less == {p \in Nat \X Nat : p[1] < p[2]}

LEMMA LessIsWellFounded == IsWellFoundedOn(Less, Nat)
  <1>1. OpToRel(<, Nat) = Less
    BY Zenon DEF OpToRel, Less
  <1> QED
    BY <1>1, NatLessThanWellFounded, Zenon

LEMMA Least ==
    ASSUME NEW T \in SUBSET Nat, T # {}
    PROVE  \E m \in T : \A k \in T : m <= k
  <1>1. PICK m \in T : \A k \in T : <<k, m>> \notin Less
    BY LessIsWellFounded, WFMin, Zenon
  <1>2. \A k \in T : k \in Nat /\ m \in Nat /\ ~(k < m)
    <2> TAKE k \in T
    <2>1. <<k, m>> \in Nat \X Nat /\ <<k, m>>[1] = k /\ <<k, m>>[2] = m
      OBVIOUS
    <2> QED
      BY <1>1, <2>1 DEF Less
  <1> QED
    BY <1>2

-----------------------------------------------------------------------------
(* Lists of players. *)

Members(q) == {q[k] : k \in DOMAIN q}

Distinct(q) == \A j, k \in DOMAIN q : q[j] = q[k] => j = k

LEMMA FunctionIsSeq ==
    ASSUME NEW S, NEW n \in Nat, NEW f \in [1 .. n -> S]
    PROVE  f \in Seq(S) /\ Len(f) = n
  <1>1. f \in Seq(S)
    <2>1. [1 .. n -> S] \in {[1 .. m -> S] : m \in Nat}
      OBVIOUS
    <2>2. Seq(S) = UNION {[1 .. m -> S] : m \in Nat}
      BY SeqDef
    <2> QED
      BY <2>1, <2>2, Zenon
  <1>2. Len(f) \in Nat /\ DOMAIN f = 1 .. Len(f) /\ DOMAIN f = 1 .. n
    BY <1>1, LenProperties
  <1> QED
    BY <1>1, <1>2

LEMMA MembersAppend ==
    ASSUME NEW S, NEW q \in Seq(S), NEW c \in S
    PROVE  /\ Append(q, c) \in Seq(S)
           /\ Members(Append(q, c)) = Members(q) \cup {c}
           /\ Distinct(q) /\ c \notin Members(q) => Distinct(Append(q, c))
  <1> DEFINE r == Append(q, c)
             n == Len(q)
  <1>1. r \in Seq(S) /\ n \in Nat /\ DOMAIN q = 1 .. n /\ DOMAIN r = 1 .. n + 1
        /\ r[n + 1] = c /\ \A k \in 1 .. n : r[k] = q[k]
    BY AppendProperties, LenProperties
  <1> HIDE DEF r, n
  <1>2. n + 1 \in 1 .. n + 1 /\ (1 .. n \subseteq 1 .. n + 1)
        /\ \A k \in 1 .. n + 1 : k \in 1 .. n \/ k = n + 1
    BY <1>1
  <1>3. Members(r) \subseteq Members(q) \cup {c}
    BY <1>1, <1>2 DEF Members
  <1>4. Members(q) \cup {c} \subseteq Members(r)
    BY <1>1, <1>2 DEF Members
  <1>5. ASSUME Distinct(q), c \notin Members(q), NEW j \in 1 .. n + 1, NEW k \in 1 .. n + 1,
               r[j] = r[k]
        PROVE  j = k
    BY <1>1, <1>2, <1>5 DEF Distinct, Members
  <1> QED
    BY <1>1, <1>3, <1>4, <1>5 DEF Distinct, r

\* Erase takes the one player at its position out of the list.
LEMMA MembersErase ==
    ASSUME NEW S, NEW q \in Seq(S), NEW k \in DOMAIN q, Distinct(q)
    PROVE  /\ Erase(q, k) \in Seq(S)
           /\ Members(Erase(q, k)) = Members(q) \ {q[k]}
           /\ Distinct(Erase(q, k))
  <1> DEFINE r == Erase(q, k)
             n == Len(q)
  <1>1. n \in Nat /\ DOMAIN q = 1 .. n /\ k \in 1 .. n /\ n - 1 \in Nat
    BY LenProperties
  <1>2. \A i \in 1 .. n : q[i] \in S
    BY <1>1, ElementOfSeq
  <1>3. DOMAIN r = 1 .. n - 1 /\ \A i \in 1 .. n - 1 : r[i] = IF i < k THEN q[i] ELSE q[i + 1]
    BY DEF Erase
  <1>4. r \in [1 .. n - 1 -> S]
    <2>1. \A i \in 1 .. n - 1 : (IF i < k THEN q[i] ELSE q[i + 1]) \in S
      BY <1>1, <1>2
    <2> QED
      BY <2>1 DEF Erase
  <1>5. r \in Seq(S)
    BY <1>1, <1>4, FunctionIsSeq
  <1> HIDE DEF r, n
  <1>6. \A i, j \in 1 .. n : q[i] = q[j] => i = j
    BY <1>1 DEF Distinct
  <1>7. ASSUME NEW i \in 1 .. n - 1 PROVE r[i] \in Members(q) \ {q[k]}
    <2>1. CASE i < k
      <3>1. i \in 1 .. n /\ i # k /\ r[i] = q[i]
        BY <1>1, <1>3, <2>1
      <3> QED
        BY <1>1, <1>6, <3>1 DEF Members
    <2>2. CASE ~(i < k)
      <3>1. i + 1 \in 1 .. n /\ i + 1 # k /\ r[i] = q[i + 1]
        BY <1>1, <1>3, <2>2
      <3> QED
        BY <1>1, <1>6, <3>1 DEF Members
    <2> QED
      BY <2>1, <2>2
  <1>8. ASSUME NEW i \in 1 .. n, i # k PROVE q[i] \in Members(r)
    <2>1. CASE i < k
      <3>1. i \in 1 .. n - 1 /\ r[i] = q[i]
        BY <1>1, <1>3, <2>1
      <3> QED
        BY <1>3, <3>1 DEF Members
    <2>2. CASE i > k
      <3>1. i - 1 \in 1 .. n - 1 /\ ~(i - 1 < k) /\ (i - 1) + 1 = i
        BY <1>1, <2>2
      <3>2. r[i - 1] = q[i]
        BY <1>3, <3>1
      <3> QED
        BY <1>3, <3>1, <3>2 DEF Members
    <2> QED
      BY <1>1, <1>8, <2>1, <2>2
  <1>9. Members(r) = Members(q) \ {q[k]}
    BY <1>1, <1>3, <1>7, <1>8 DEF Members
  <1>10. ASSUME NEW i \in 1 .. n - 1, NEW j \in 1 .. n - 1, r[i] = r[j] PROVE i = j
    <2> DEFINE a == IF i < k THEN i ELSE i + 1
               b == IF j < k THEN j ELSE j + 1
    <2>1. a \in 1 .. n /\ b \in 1 .. n /\ r[i] = q[a] /\ r[j] = q[b] /\ (a = b => i = j)
      BY <1>1, <1>3
    <2> HIDE DEF a, b
    <2> QED
      BY <1>6, <1>10, <2>1
  <1> QED
    BY <1>3, <1>5, <1>9, <1>10 DEF Distinct, r

-----------------------------------------------------------------------------
(* The lists of the scenes. *)

PlayerType ==
    /\ players \in [Scene -> Seq(Client)]
    /\ mUserType \in [Client -> UserType]
    /\ mSeatNumber \in [Client -> Nat]
    /\ bBoundUser \in [Client -> BOOLEAN]
    /\ said \in [Client -> SUBSET {"connect", "profile"}]
    /\ \A c \in Client : mUserType[c] \in {"VIP", Kind[c]} /\ mSeatNumber[c] \in {0, SeatOf[c]}

\* A connection is in the list of its own scene, once, and never comes back; those
\* in a list have different seats; outside the list a connection's player has its
\* first values, and only VIP clients have told a seat.
RosterInv ==
    /\ \A s \in Scene : Distinct(players[s])
    /\ \A s \in Scene : \A c \in Present(s) : SceneOf[c] = s /\ "connect" \in said[c]
    /\ \A s \in Scene : \A c, d \in Present(s) : SeatOf[c] = SeatOf[d] => c = d
    /\ \A c \in Client : c \notin Present(SceneOf[c]) =>
         mUserType[c] = "VIP" /\ mSeatNumber[c] = 0 /\ ~bBoundUser[c]
    /\ \A c \in Client : mSeatNumber[c] # 0 => Kind[c] = "VIP"

Roster == PlayerType /\ RosterInv

LEMMA PresentMembers == \A s : Present(s) = Members(players[s])
  BY DEF Present, Members

LEMMA PresentClients ==
    ASSUME PlayerType, NEW s \in Scene
    PROVE  Present(s) \subseteq Client
  <1>1. players[s] \in Seq(Client)
    BY DEF PlayerType
  <1>2. \A k \in DOMAIN players[s] : players[s][k] \in Client
    BY <1>1, ElementOfSeq, LenProperties
  <1> QED
    BY <1>2 DEF Present

LEMMA Clients ==
    ASSUME NEW c \in Client
    PROVE  /\ SceneOf[c] \in Scene /\ Kind[c] \in UserType /\ SeatOf[c] \in Nat
           /\ SeatOf[c] # 0 /\ SeatOf[c] \in Seat /\ c # NoClient
  BY SceneAssumption DEF Seat

LEMMA RosterInit == TheatreInit => Roster
  <1> SUFFICES ASSUME TheatreInit PROVE Roster
    OBVIOUS
  <1>1. players = [s \in Scene |-> << >>] /\ << >> \in Seq(Client)
    BY EmptySeq DEF TheatreInit, Init
  <1>2. PlayerType
    BY <1>1 DEF TheatreInit, Init, PlayerType, UserType
  <1>3. \A s \in Scene : Present(s) = {} /\ Distinct(players[s])
    BY <1>1 DEF Present, Distinct
  <1> QED
    BY <1>2, <1>3 DEF TheatreInit, Init, Roster, RosterInv

\* Connect puts one client more into the list.
LEMMA PresentConnect ==
    ASSUME Roster, NEW c \in Client, Connect(c)
    PROVE  /\ players' \in [Scene -> Seq(Client)]
           /\ \A s \in Scene : Distinct(players'[s])
           /\ c \notin Present(SceneOf[c])
           /\ \A s \in Scene :
                Present(s)' = IF s = SceneOf[c] THEN Present(s) \cup {c} ELSE Present(s)
  <1> DEFINE t == SceneOf[c]
  <1>1. t \in Scene /\ players[t] \in Seq(Client) /\ players \in [Scene -> Seq(Client)]
    BY Clients DEF Roster, PlayerType
  <1>2. players' = [players EXCEPT ![t] = Append(players[t], c)]
    BY DEF Connect
  <1>3. c \notin Present(t)
    BY <1>1 DEF Connect, Roster, RosterInv
  <1> HIDE DEF t
  <1>4. players'[t] = Append(players[t], c) /\ \A s \in Scene : s # t => players'[s] = players[s]
    BY <1>1, <1>2
  <1>5. /\ Append(players[t], c) \in Seq(Client)
        /\ Members(players'[t]) = Members(players[t]) \cup {c}
        /\ Distinct(players'[t])
    BY <1>1, <1>3, <1>4, MembersAppend, PresentMembers DEF Roster, RosterInv
  <1>6. \A s : Present(s)' = Members(players'[s])
    BY DEF Present, Members
  <1>7. players' \in [Scene -> Seq(Client)]
    BY <1>1, <1>2, <1>5
  <1>8. \A s \in Scene : Distinct(players'[s])
    BY <1>4, <1>5 DEF Roster, RosterInv
  <1>9. \A s \in Scene : Present(s)' = IF s = t THEN Present(s) \cup {c} ELSE Present(s)
    BY <1>4, <1>5, <1>6, PresentMembers
  <1> QED
    BY <1>3, <1>7, <1>8, <1>9 DEF t

\* DeletePlayer takes that client out, and nobody else.
LEMMA PresentDelete ==
    ASSUME Roster, NEW c \in Client, DeletePlayer(c)
    PROVE  /\ players' \in [Scene -> Seq(Client)]
           /\ \A s \in Scene : Distinct(players'[s])
           /\ c \in Present(SceneOf[c])
           /\ \A s \in Scene :
                Present(s)' = IF s = SceneOf[c] THEN Present(s) \ {c} ELSE Present(s)
  <1> DEFINE t == SceneOf[c]
  <1>1. t \in Scene /\ players[t] \in Seq(Client) /\ players \in [Scene -> Seq(Client)]
        /\ Distinct(players[t])
    BY Clients DEF Roster, PlayerType, RosterInv
  <1>2. PICK k \in DOMAIN players[t] :
            players[t][k] = c /\ players' = [players EXCEPT ![t] = Erase(players[t], k)]
    BY DEF DeletePlayer, IsFirst
  <1>3. c \in Present(t)
    BY <1>2 DEF Present
  <1> HIDE DEF t
  <1>4. players'[t] = Erase(players[t], k) /\ \A s \in Scene : s # t => players'[s] = players[s]
    BY <1>1, <1>2
  <1>5. /\ Erase(players[t], k) \in Seq(Client)
        /\ Members(players'[t]) = Members(players[t]) \ {c}
        /\ Distinct(players'[t])
    BY <1>1, <1>2, <1>4, MembersErase
  <1>6. \A s : Present(s)' = Members(players'[s])
    BY DEF Present, Members
  <1>7. players' \in [Scene -> Seq(Client)]
    BY <1>1, <1>2, <1>5
  <1>8. \A s \in Scene : Distinct(players'[s])
    BY <1>4, <1>5 DEF Roster, RosterInv
  <1>9. \A s \in Scene : Present(s)' = IF s = t THEN Present(s) \ {c} ELSE Present(s)
    BY <1>4, <1>5, <1>6, PresentMembers
  <1> QED
    BY <1>3, <1>7, <1>8, <1>9 DEF t

\* The first player of a list that is one of some clients is one of them.
LEMMA FirstOfFacts ==
    ASSUME PlayerType, NEW s \in Scene, NEW C, FirstOf(s, C) # NoClient
    PROVE  FirstOf(s, C) \in C \cap Present(s)
  <1>1. C \cap Present(s) # {} /\ players[s] \in Seq(Client)
    BY DEF FirstOf, PlayerType
  <1>2. DOMAIN players[s] = 1 .. Len(players[s]) /\ Len(players[s]) \in Nat
    BY <1>1, LenProperties
  <1> DEFINE T == {k \in DOMAIN players[s] : players[s][k] \in C}
  <1>3. T # {} /\ T \in SUBSET Nat
    BY <1>1, <1>2 DEF Present
  <1>4. PICK k \in T : \A j \in T : k <= j
    BY <1>3, Least
  <1>5. IsFirst(s, C, k)
    <2>1. k \in DOMAIN players[s] /\ players[s][k] \in C
      BY <1>4
    <2>2. ASSUME NEW j \in 1 .. k - 1 PROVE players[s][j] \notin C
      <3>1. j \in DOMAIN players[s] /\ ~(k <= j)
        BY <1>2, <2>1
      <3> QED
        BY <1>4, <3>1
    <2> QED
      BY <2>1, <2>2 DEF IsFirst
  <1> DEFINE f == CHOOSE i \in DOMAIN players[s] : IsFirst(s, C, i)
  <1>6. IsFirst(s, C, f)
    BY <1>5 DEF IsFirst
  <1>7. FirstOf(s, C) = players[s][f]
    BY <1>1 DEF FirstOf
  <1> HIDE DEF f
  <1> QED
    BY <1>6, <1>7 DEF IsFirst, Present

\* A player given away is a listed one that nobody is bound to.
LEMMA FreePlayer ==
    ASSUME PlayerType, NEW s \in Scene, GetFreePlayer(s) # NoClient
    PROVE  GetFreePlayer(s) \in Present(s) /\ ~bBoundUser[GetFreePlayer(s)]
  BY FirstOfFacts DEF GetFreePlayer

\* The steps that change no player and are no message told once.
LEMMA OtherPlayers ==
    ASSUME [TheatreNext]_theatreVars
    PROVE  \/ UNCHANGED <<playerVars, said>>
           \/ \E c \in Client : \/ Connect(c) \/ Disconnect(c) \/ TellUserType(c)
                                \/ TellSeatNumber(c) \/ TellUserProfile(c)
  BY DEF TheatreNext, SceneNext, theatreVars, sceneVars, clientVars, TellReady, PresentFlowers,
         GlobalCommand, SeenExternal, HandleCenterMessage, CenterConnected, CenterLost,
         CenterHandle

\* Steps that change no list but keep the fields of the players sound.
LEMMA RosterSame ==
    ASSUME Roster, players' = players,
           mUserType' \in [Client -> UserType], mSeatNumber' \in [Client -> Nat],
           bBoundUser' \in [Client -> BOOLEAN],
           said' \in [Client -> SUBSET {"connect", "profile"}],
           \A c \in Client : said[c] \subseteq said'[c],
           \A c \in Client : /\ mUserType'[c] \in {"VIP", Kind[c]}
                             /\ mSeatNumber'[c] \in {0, SeatOf[c]}
                             /\ mSeatNumber'[c] # 0 => Kind[c] = "VIP"
                             /\ c \notin Present(SceneOf[c]) =>
                                    mUserType'[c] = "VIP" /\ mSeatNumber'[c] = 0 /\ ~bBoundUser'[c]
    PROVE  Roster'
  <1>1. \A s : Present(s)' = Present(s)
    BY DEF Present
  <1>2. PlayerType'
    BY DEF PlayerType, Roster
  <1>3. \A s \in Scene : Present(s) \subseteq Client
    BY PresentClients DEF Roster
  <1>4. RosterInv'
    BY <1>1, <1>3 DEF RosterInv, Roster
  <1> QED
    BY <1>2, <1>4 DEF Roster

LEMMA RosterConnect == ASSUME Roster, NEW c \in Client, Connect(c) PROVE Roster'
  <1>1. /\ players' \in [Scene -> Seq(Client)]
        /\ \A s \in Scene : Distinct(players'[s])
        /\ c \notin Present(SceneOf[c])
        /\ \A s \in Scene :
             Present(s)' = IF s = SceneOf[c] THEN Present(s) \cup {c} ELSE Present(s)
    BY PresentConnect
  <1>2. said' = [said EXCEPT ![c] = {"connect"}] /\ UNCHANGED <<mUserType, mSeatNumber, bBoundUser>>
    BY DEF Connect
  <1>3. PlayerType'
    BY <1>1, <1>2 DEF PlayerType, Roster
  <1>4. said'[c] = {"connect"} /\ \A d \in Client : d # c => said'[d] = said[d]
    BY <1>2 DEF PlayerType, Roster
  <1>5. \A s \in Scene : Present(s) \subseteq Client
    BY PresentClients DEF Roster
  <1>6. ASSUME NEW s \in Scene, NEW d \in Present(s)'
        PROVE  SceneOf[d] = s /\ "connect" \in said'[d]
    <2>1. CASE d = c
      <3>1. s = SceneOf[c]
        BY <1>1, <2>1 DEF Roster, RosterInv
      <3> QED
        BY <1>4, <2>1, <3>1
    <2>2. CASE d # c
      <3>1. d \in Present(s) /\ d \in Client
        BY <1>1, <1>5, <2>2
      <3> QED
        BY <1>4, <2>2, <3>1 DEF Roster, RosterInv
    <2> QED
      BY <2>1, <2>2
  <1>7. \A d \in Client : d \notin Present(SceneOf[d])' =>
          mUserType'[d] = "VIP" /\ mSeatNumber'[d] = 0 /\ ~bBoundUser'[d]
    BY <1>1, <1>2, Clients DEF Roster, RosterInv
  <1>8. \A d \in Present(SceneOf[c]) : SeatOf[d] # SeatOf[c]
    BY DEF Connect, ChairIsFree
  <1>9. \A s \in Scene : \A d, e \in Present(s)' : SeatOf[d] = SeatOf[e] => d = e
    BY <1>1, <1>8 DEF Roster, RosterInv
  <1> QED
    BY <1>1, <1>2, <1>3, <1>6, <1>7, <1>9 DEF Roster, RosterInv

LEMMA RosterDisconnect == ASSUME Roster, NEW c \in Client, Disconnect(c) PROVE Roster'
  <1>1. DeletePlayer(c) /\ said' = said
    BY DEF Disconnect
  <1>2. /\ players' \in [Scene -> Seq(Client)]
        /\ \A s \in Scene : Distinct(players'[s])
        /\ \A s \in Scene :
             Present(s)' = IF s = SceneOf[c] THEN Present(s) \ {c} ELSE Present(s)
    BY <1>1, PresentDelete
  <1>3. /\ mUserType' = [mUserType EXCEPT ![c] = "VIP"]
        /\ mSeatNumber' = [mSeatNumber EXCEPT ![c] = 0]
        /\ bBoundUser' = [bBoundUser EXCEPT ![c] = FALSE]
    BY <1>1 DEF DeletePlayer
  <1>4. /\ mUserType'[c] = "VIP" /\ mSeatNumber'[c] = 0 /\ bBoundUser'[c] = FALSE
        /\ \A d \in Client : d # c => /\ mUserType'[d] = mUserType[d]
                                      /\ mSeatNumber'[d] = mSeatNumber[d]
                                      /\ bBoundUser'[d] = bBoundUser[d]
    BY <1>3 DEF PlayerType, Roster
  <1>5. /\ mUserType' \in [Client -> UserType] /\ mSeatNumber' \in [Client -> Nat]
        /\ bBoundUser' \in [Client -> BOOLEAN]
    BY <1>3 DEF PlayerType, Roster, UserType
  <1>6. PlayerType'
    BY <1>1, <1>2, <1>4, <1>5 DEF PlayerType, Roster
  <1>7. \A s \in Scene : \A d \in Present(s)' : SceneOf[d] = s /\ "connect" \in said'[d]
    BY <1>1, <1>2 DEF Roster, RosterInv
  <1>8. \A d \in Client : d \notin Present(SceneOf[d])' =>
          mUserType'[d] = "VIP" /\ mSeatNumber'[d] = 0 /\ ~bBoundUser'[d]
    BY <1>2, <1>4, Clients DEF Roster, RosterInv
  <1>9. \A d \in Client : mSeatNumber'[d] # 0 => Kind[d] = "VIP"
    BY <1>4 DEF Roster, RosterInv
  <1>10. \A s \in Scene : \A d, e \in Present(s)' : SeatOf[d] = SeatOf[e] => d = e
    BY <1>2 DEF Roster, RosterInv
  <1> QED
    BY <1>2, <1>6, <1>7, <1>8, <1>9, <1>10 DEF Roster, RosterInv

LEMMA RosterType == ASSUME Roster, NEW c \in Client, TellUserType(c) PROVE Roster'
  <1>1. /\ c \in Present(SceneOf[c])
        /\ mUserType' = [mUserType EXCEPT ![c] = Kind[c]]
        /\ UNCHANGED <<players, mSeatNumber, bBoundUser, said>>
    BY DEF TellUserType, clientVars
  <1>2. mUserType'[c] = Kind[c] /\ \A d \in Client : d # c => mUserType'[d] = mUserType[d]
    BY <1>1 DEF Roster, PlayerType
  <1>3. mUserType' \in [Client -> UserType]
    BY <1>1, Clients DEF Roster, PlayerType
  <1> QED
    BY <1>1, <1>2, <1>3, RosterSame DEF Roster, PlayerType, RosterInv

LEMMA RosterSeat == ASSUME Roster, NEW c \in Client, TellSeatNumber(c) PROVE Roster'
  <1>1. /\ Kind[c] = "VIP" /\ c \in Present(SceneOf[c])
        /\ mSeatNumber' = [mSeatNumber EXCEPT ![c] = SeatOf[c]]
        /\ UNCHANGED <<players, mUserType, bBoundUser, said>>
    BY DEF TellSeatNumber
  <1>2. mSeatNumber'[c] = SeatOf[c] /\ \A d \in Client : d # c => mSeatNumber'[d] = mSeatNumber[d]
    BY <1>1 DEF Roster, PlayerType
  <1>3. mSeatNumber' \in [Client -> Nat]
    BY <1>1, Clients DEF Roster, PlayerType
  <1> QED
    BY <1>1, <1>2, <1>3, RosterSame DEF Roster, PlayerType, RosterInv

LEMMA RosterProfile == ASSUME Roster, NEW c \in Client, TellUserProfile(c) PROVE Roster'
  <1> DEFINE p == GetFreePlayer(SceneOf[c])
  <1>1. /\ UNCHANGED <<players, mUserType, mSeatNumber>>
        /\ said' = [said EXCEPT ![c] = said[c] \cup {"profile"}]
    BY DEF TellUserProfile
  <1>2. \/ p # NoClient /\ bBoundUser' = [bBoundUser EXCEPT ![p] = TRUE]
        \/ bBoundUser' = bBoundUser
    BY DEF TellUserProfile
  <1>3. p # NoClient => p \in Client /\ p \in Present(SceneOf[c]) /\ SceneOf[p] = SceneOf[c]
    BY FreePlayer, PresentClients, Clients DEF Roster, RosterInv
  <1> HIDE DEF p
  <1>4. bBoundUser' \in [Client -> BOOLEAN]
        /\ \A d \in Client : d \notin Present(SceneOf[d]) => bBoundUser'[d] = bBoundUser[d]
    BY <1>2, <1>3 DEF Roster, PlayerType
  <1>5. said' \in [Client -> SUBSET {"connect", "profile"}]
        /\ \A d \in Client : said[d] \subseteq said'[d]
    BY <1>1 DEF Roster, PlayerType
  <1> QED
    BY <1>1, <1>4, <1>5, RosterSame DEF Roster, PlayerType, RosterInv

LEMMA RosterNext == Roster /\ [TheatreNext]_theatreVars => Roster'
  <1> SUFFICES ASSUME Roster, [TheatreNext]_theatreVars PROVE Roster'
    OBVIOUS
  <1>1. CASE UNCHANGED <<playerVars, said>>
    BY <1>1, RosterSame DEF Roster, PlayerType, RosterInv, playerVars
  <1> QED
    BY <1>1, OtherPlayers, RosterConnect, RosterDisconnect, RosterType, RosterSeat, RosterProfile

LEMMA TheatreRoster == TheatreSpec => []Roster
  BY RosterInit, RosterNext, PTL DEF TheatreSpec

-----------------------------------------------------------------------------
(* What the scenes send to the center. *)

\* The messages of a scene that say something of its players; a player's first
\* state is told with its seat.
Said(s) ==
    {m \in Message : /\ m.scene = s
                     /\ m.kind \in {"req_usr_list", "client_list_external",
                                    "user_leave_external", "upd_user_state"}
                     /\ m.kind = "upd_user_state" /\ m.state = "initial" => m.seat # 0}

Commanded(s) == [kind : {"command"}, scene : {s}, command : Command]

States == {"initial", "entering", "present_flowers", "stop_present_flowers"}

LEMMA SeatNumbers ==
    ASSUME PlayerType, NEW c \in Client
    PROVE  /\ mSeatNumber[c] \in Seat \cup {0}
           /\ mSeatNumber[c] > 0 <=> mSeatNumber[c] # 0
           /\ mSeatNumber[c] > 0 => mSeatNumber[c] \in Seat /\ mSeatNumber[c] = SeatOf[c]
  BY Clients DEF PlayerType, Seat

LEMMA ListedSeats ==
    ASSUME Roster, NEW s \in Scene
    PROVE  ClientList(s) \subseteq Seat
  BY SeatNumbers, PresentClients DEF ClientList, Roster

LEMMA MessageKinds ==
    ASSUME NEW s \in Scene, NEW S \in SUBSET Seat, NEW n \in Seat \cup {0}, NEW x \in States
    PROVE  /\ Request(s) \in Said(s)
           /\ [kind |-> "client_list_external", scene |-> s, seats |-> S] \in Said(s)
           /\ [kind |-> "user_leave_external", scene |-> s, seat |-> n] \in Said(s)
           /\ (x = "initial" => n # 0) =>
                [kind |-> "upd_user_state", scene |-> s, seat |-> n, state |-> x] \in Said(s)
  <1>1. Request(s) \in [kind : {"connect", "disconnect", "req_usr_list"}, scene : Scene]
    BY DEF Request
  <1>2. [kind |-> "client_list_external", scene |-> s, seats |-> S]
            \in [kind : {"client_list_external"}, scene : Scene, seats : SUBSET Seat]
    OBVIOUS
  <1>3. [kind |-> "user_leave_external", scene |-> s, seat |-> n]
            \in [kind : {"user_leave_external"}, scene : Scene, seat : Seat \cup {0}]
    OBVIOUS
  <1>4. [kind |-> "upd_user_state", scene |-> s, seat |-> n, state |-> x]
            \in [kind : {"upd_user_state"}, scene : Scene, seat : Seat \cup {0}, state : States]
    OBVIOUS
  <1> QED
    BY <1>1, <1>2, <1>3, <1>4 DEF Said, Message, Request, States

LEMMA OneMessage == ASSUME NEW S, NEW m \in S PROVE << >> \in Seq(S) /\ <<m>> \in Seq(S)
  OBVIOUS

ListsSent == \A s \in Scene : ListMessages(s) \in Seq(Said(s))

StatesSent == \A s \in Scene : \A c \in Client : \A x \in States :
                  (x = "initial" => mSeatNumber[c] # 0) => StateMessages(s, c, x) \in Seq(Said(s))

LEMMA SentNow == Roster => ListsSent /\ StatesSent
  <1> SUFFICES ASSUME Roster PROVE ListsSent /\ StatesSent
    OBVIOUS
  <1>1. ASSUME NEW s \in Scene PROVE ListMessages(s) \in Seq(Said(s))
    <2> DEFINE m == [kind |-> "client_list_external", scene |-> s, seats |-> ClientList(s)]
    <2>1. ClientList(s) \in SUBSET Seat
      BY ListedSeats
    <2>2. 0 \in Seat \cup {0} /\ "initial" \in States
      BY DEF States
    <2>3. m \in Said(s)
      BY <2>1, <2>2, MessageKinds
    <2>4. ListMessages(s) = << >> \/ ListMessages(s) = <<m>>
      BY DEF ListMessages
    <2> HIDE DEF m
    <2> QED
      BY <2>3, <2>4, OneMessage
  <1>2. ASSUME NEW s \in Scene, NEW c \in Client, NEW x \in States,
               x = "initial" => mSeatNumber[c] # 0
        PROVE  StateMessages(s, c, x) \in Seq(Said(s))
    <2> DEFINE m == [kind |-> "upd_user_state", scene |-> s, seat |-> mSeatNumber[c], state |-> x]
    <2>1. mSeatNumber[c] \in Seat \cup {0}
      BY SeatNumbers DEF Roster
    <2>2. m \in Said(s)
      BY <1>2, <2>1, MessageKinds
    <2>3. StateMessages(s, c, x) = << >> \/ StateMessages(s, c, x) = <<m>>
      BY DEF StateMessages
    <2> HIDE DEF m
    <2> QED
      BY <2>2, <2>3, OneMessage
  <1> QED
    BY <1>1, <1>2 DEF ListsSent, StatesSent

LEMMA SentNext == Roster' => ListsSent' /\ StatesSent'
  BY SentNow, PTL

\* What a scene's main loop does to the link: it sends nothing, messages about
\* its players, or a command.
Sends ==
    \/ UNCHANGED <<toCenter, missed, asked>>
    \/ \E s \in Scene : \E q \in Seq(Said(s)) : SendToCenter(s, q)
    \/ \E c \in Client : \E cmd \in Command : GlobalCommand(c, cmd)

LEMMA SceneSends == ASSUME Roster, Roster', SceneNext PROVE Sends /\ link' = link
  <1>1. \A c \in Client : SceneOf[c] \in Scene
    BY Clients
  <1>2. \A s \in Scene : Request(s) \in Said(s) /\ << >> \in Seq(Said(s)) /\ <<Request(s)>> \in Seq(Said(s))
    <2> TAKE s \in Scene
    <2>1. {} \in SUBSET Seat /\ 0 \in Seat \cup {0} /\ "initial" \in States
      BY DEF States
    <2> QED
      BY <2>1, MessageKinds, OneMessage
  <1>3. ASSUME NEW c \in Client, Disconnect(c) PROVE Sends /\ link' = link
    <2> DEFINE m == [kind |-> "user_leave_external", scene |-> SceneOf[c], seat |-> mSeatNumber[c]]
    <2>1. mSeatNumber[c] \in Seat \cup {0} /\ {} \in SUBSET Seat /\ "initial" \in States
      BY SeatNumbers DEF States, Roster
    <2>2. m \in Said(SceneOf[c])
      BY <1>1, <2>1, MessageKinds
    <2>3. \E q \in {<< >>, <<m>>} : SendToCenter(SceneOf[c], q)
      BY <1>3 DEF Disconnect
    <2>4. << >> \in Seq(Said(SceneOf[c])) /\ <<m>> \in Seq(Said(SceneOf[c]))
      BY <2>2, OneMessage
    <2> HIDE DEF m
    <2> QED
      BY <1>1, <1>3, <2>3, <2>4 DEF Sends, Disconnect
  <1>4. ASSUME NEW c \in Client, TellSeatNumber(c) PROVE Sends /\ link' = link
    <2> DEFINE s == SceneOf[c]
               q == StateMessages(s, c, "initial")' \o ListMessages(s)' \o <<Request(s)>>
    <2>1. \E r \in {<< >>, q} : SendToCenter(s, r)
      BY <1>4 DEF TellSeatNumber
    <2>2. "initial" \in States
      BY DEF States
    <2>3. mSeatNumber'[c] # 0
      BY <1>4, Clients DEF TellSeatNumber, Roster, PlayerType
    <2>4. StateMessages(s, c, "initial")' \in Seq(Said(s)) /\ ListMessages(s)' \in Seq(Said(s))
      BY <1>1, <2>2, <2>3, SentNext DEF StatesSent, ListsSent
    <2>5. q \in Seq(Said(s))
      BY <1>1, <1>2, <2>4, ConcatProperties
    <2> HIDE DEF q
    <2> QED
      BY <1>1, <1>2, <1>4, <2>1, <2>5 DEF Sends, TellSeatNumber
  <1>5. ASSUME NEW c \in Client, TellUserProfile(c) PROVE Sends /\ link' = link
    <2> DEFINE s == SceneOf[c]
               p == GetFreePlayer(s)
    <2>1. \/ p # NoClient /\ SendToCenter(s, StateMessages(s, p, "entering"))
          \/ \E r \in Present(s) : SendToCenter(s, StateMessages(s, r, "entering"))
          \/ UNCHANGED <<toCenter, missed, asked>>
      BY <1>5 DEF TellUserProfile
    <2>2. p # NoClient => p \in Present(s)
      BY <1>1, FreePlayer DEF Roster
    <2>3. Present(s) \subseteq Client
      BY <1>1, PresentClients DEF Roster
    <2>4. \A r \in Client : StateMessages(s, r, "entering") \in Seq(Said(s))
      BY <1>1, SentNow DEF StatesSent, States
    <2> HIDE DEF p
    <2> QED
      BY <1>1, <1>5, <2>1, <2>2, <2>3, <2>4 DEF Sends, TellUserProfile
  <1>6. ASSUME NEW c \in Client, NEW x \in {"present_flowers", "stop_present_flowers"},
               PresentFlowers(c, x)
        PROVE  Sends /\ link' = link
    <2>1. StateMessages(SceneOf[c], c, x) \in Seq(Said(SceneOf[c]))
      BY <1>1, SentNow DEF StatesSent, States
    <2> QED
      BY <1>1, <1>6, <2>1 DEF Sends, PresentFlowers
  <1>7. ASSUME NEW c \in Client, SeenExternal(c) PROVE Sends /\ link' = link
    <2> DEFINE s == SceneOf[c]
    <2>1. ListMessages(s) \o <<Request(s)>> \in Seq(Said(s))
      BY <1>1, <1>2, SentNow, ConcatProperties DEF ListsSent
    <2> QED
      BY <1>1, <1>7, <2>1 DEF Sends, SeenExternal
  <1>8. ASSUME NEW s \in Scene, HandleCenterMessage(s) PROVE Sends /\ link' = link
    <2>1. ListMessages(s) \in Seq(Said(s))
      BY SentNow DEF ListsSent
    <2>2. \/ SendToCenter(s, ListMessages(s))
          \/ UNCHANGED <<toCenter, missed, asked>>
      BY <1>8 DEF HandleCenterMessage, HandleRequest, PassOn
    <2> QED
      BY <1>8, <2>1, <2>2 DEF Sends, HandleCenterMessage
  <1>9. ASSUME NEW c \in Client, NEW cmd \in Command, GlobalCommand(c, cmd)
        PROVE  Sends /\ link' = link
    BY <1>9 DEF Sends, GlobalCommand
  <1>10. ASSUME NEW c \in Client, Connect(c) \/ TellUserType(c) \/ TellReady(c)
         PROVE  Sends /\ link' = link
    BY <1>10 DEF Sends, Connect, TellUserType, TellReady, linkVars
  <1> QED
    BY <1>3, <1>4, <1>5, <1>6, <1>7, <1>8, <1>9, <1>10 DEF SceneNext

-----------------------------------------------------------------------------
(* The links to the center. *)

Notice(s) == [kind : {"connect", "disconnect"}, scene : {s}]

\* What scene s, or the end of its link, puts into the queue to the center.
Outgoing(s) == Said(s) \cup Commanded(s) \cup Notice(s)

\* What the center passes on to scene s.
Incoming(s) ==
    {m \in Message : \E t \in Scene : m \in Commanded(t) \/ (t # s /\ m \in Said(t))}

\* A scene that is not connected yet has sent nothing; only a link that is down
\* has its end announced; and a link that is up is known to the center or its
\* beginning is the next message the center handles.
OutInv(s) ==
    /\ toCenter[s] \in Seq(Outgoing(s))
    /\ link[s] = "connecting" => toCenter[s] = << >> /\ s \notin centerUsers
    /\ link[s] # "down" => \A k \in DOMAIN toCenter[s] : toCenter[s][k].kind # "disconnect"
    /\ link[s] = "up" /\ s \notin centerUsers =>
         toCenter[s] # << >> /\ toCenter[s][1].kind = "connect"

LinkInv ==
    /\ link \in [Scene -> {"connecting", "up", "down"}]
    /\ toCenter \in [Scene -> Seq(Message)]
    /\ fromCenter \in [Scene -> Seq(Message)]
    /\ user_visible_flag \in [Scene -> BOOLEAN]
    /\ centerUsers \subseteq Scene
    /\ \A s \in Scene : OutInv(s)
    /\ \A s \in Scene : fromCenter[s] \in Seq(Incoming(s))

LEMMA MessageSets ==
    ASSUME NEW s \in Scene
    PROVE  /\ Outgoing(s) \subseteq Message /\ Incoming(s) \subseteq Message
           /\ Seq(Outgoing(s)) \subseteq Seq(Message) /\ Seq(Incoming(s)) \subseteq Seq(Message)
  <1>1. \A t \in Scene : Said(t) \subseteq Message
    BY DEF Said
  <1>2. \A t \in Scene : Commanded(t) \subseteq Message /\ Notice(t) \subseteq Message
    BY DEF Commanded, Notice, Message
  <1>3. Outgoing(s) \subseteq Message
    BY <1>1, <1>2 DEF Outgoing
  <1>4. Incoming(s) \subseteq Message
    BY DEF Incoming
  <1> QED
    BY <1>3, <1>4, SeqMonotonic

\* The kinds of a scene's messages, and what each has.
LEMMA Kinds ==
    ASSUME NEW s \in Scene
    PROVE  /\ \A m \in Said(s) :
                m.scene = s /\ m.kind \notin {"connect", "disconnect", "command"}
           /\ \A m \in Commanded(s) :
                m.scene = s /\ m.kind = "command" /\ m.command \in Command
           /\ \A m \in Notice(s) : m.scene = s /\ m.kind \in {"connect", "disconnect"}
  <1>1. \A m \in Said(s) : m.scene = s /\ m.kind \notin {"connect", "disconnect", "command"}
    BY DEF Said
  <1>2. \A m \in Commanded(s) : m.scene = s /\ m.kind = "command" /\ m.command \in Command
    BY DEF Commanded
  <1>3. \A m \in Notice(s) : m.scene = s /\ m.kind \in {"connect", "disconnect"}
    BY DEF Notice
  <1> QED
    BY <1>1, <1>2, <1>3

LEMMA LinkInit == TheatreInit => LinkInv
  <1> SUFFICES ASSUME TheatreInit PROVE LinkInv
    OBVIOUS
  <1>1. \A S : << >> \in Seq(S)
    OBVIOUS
  <1>2. \A s \in Scene : /\ toCenter[s] = << >> /\ fromCenter[s] = << >>
                         /\ link[s] = "connecting" /\ s \notin centerUsers
    BY DEF TheatreInit, Init
  <1>3. \A s \in Scene : OutInv(s)
    <2>1. \A k \in DOMAIN << >> : FALSE
      OBVIOUS
    <2>2. \A s \in Scene : << >> \in Seq(Outgoing(s))
      BY <1>1
    <2> QED
      BY <1>2, <2>1, <2>2 DEF OutInv
  <1>4. /\ link \in [Scene -> {"connecting", "up", "down"}]
        /\ toCenter \in [Scene -> Seq(Message)] /\ fromCenter \in [Scene -> Seq(Message)]
        /\ user_visible_flag \in [Scene -> BOOLEAN] /\ centerUsers \subseteq Scene
    BY <1>1 DEF TheatreInit, Init
  <1> QED
    BY <1>1, <1>2, <1>3, <1>4 DEF LinkInv

\* A queue with further messages of its scene.
LEMMA Sent ==
    ASSUME NEW S, NEW q \in Seq(S), NEW r \in Seq(S)
    PROVE  /\ q \o r \in Seq(S)
           /\ q # << >> => q \o r # << >> /\ (q \o r)[1] = q[1]
           /\ \A k \in DOMAIN (q \o r) :
                \/ k \in DOMAIN q /\ (q \o r)[k] = q[k]
                \/ \E j \in DOMAIN r : (q \o r)[k] = r[j]
  <1>1. /\ q \o r \in Seq(S) /\ Len(q \o r) = Len(q) + Len(r)
        /\ \A k \in 1 .. Len(q) + Len(r) :
             (q \o r)[k] = IF k <= Len(q) THEN q[k] ELSE r[k - Len(q)]
    BY ConcatProperties
  <1>2. /\ Len(q) \in Nat /\ Len(r) \in Nat /\ DOMAIN q = 1 .. Len(q) /\ DOMAIN r = 1 .. Len(r)
        /\ DOMAIN (q \o r) = 1 .. Len(q) + Len(r)
    BY <1>1, LenProperties
  <1>3. ASSUME q # << >> PROVE q \o r # << >> /\ (q \o r)[1] = q[1]
    <2>1. Len(q) # 0
      BY <1>3, EmptySeq
    <2>2. 1 \in 1 .. Len(q) + Len(r) /\ 1 <= Len(q)
      BY <1>2, <2>1
    <2> QED
      BY <1>1, <1>2, <2>2, EmptySeq
  <1>4. ASSUME NEW k \in 1 .. Len(q) + Len(r)
        PROVE  \/ k \in DOMAIN q /\ (q \o r)[k] = q[k]
               \/ \E j \in DOMAIN r : (q \o r)[k] = r[j]
    <2>1. CASE k <= Len(q)
      BY <1>1, <1>2, <2>1
    <2>2. CASE ~(k <= Len(q))
      <3>1. k - Len(q) \in DOMAIN r /\ (q \o r)[k] = r[k - Len(q)]
        BY <1>1, <1>2, <2>2
      <3> QED
        BY <3>1
    <2> QED
      BY <2>1, <2>2
  <1> QED
    BY <1>1, <1>2, <1>3, <1>4

LEMMA OutSend ==
    ASSUME LinkInv, UNCHANGED <<link, centerUsers>>,
           NEW s \in Scene, NEW q \in Seq(Said(s) \cup Commanded(s)), SendToCenter(s, q)
    PROVE  toCenter' \in [Scene -> Seq(Message)] /\ \A t \in Scene : OutInv(t)'
  <1>1. toCenter \in [Scene -> Seq(Message)] /\ \A t \in Scene : OutInv(t)
    BY DEF LinkInv
  <1>2. \A t \in Scene : toCenter'[t] = toCenter[t] => OutInv(t)'
    BY <1>1 DEF OutInv
  <1>3. CASE link[s] # "up"
    <2>1. toCenter' = toCenter
      BY <1>3 DEF SendToCenter
    <2> QED
      BY <1>1, <1>2, <2>1
  <1>4. CASE link[s] = "up"
    <2> DEFINE r == toCenter[s] \o q
    <2>1. toCenter' = [toCenter EXCEPT ![s] = r]
      BY <1>4 DEF SendToCenter
    <2>2. toCenter[s] \in Seq(Outgoing(s)) /\ q \in Seq(Outgoing(s))
      BY <1>1, SeqMonotonic DEF OutInv, Outgoing
    <2>3. /\ r \in Seq(Outgoing(s))
          /\ toCenter[s] # << >> => r # << >> /\ r[1] = toCenter[s][1]
          /\ \A k \in DOMAIN r : \/ k \in DOMAIN toCenter[s] /\ r[k] = toCenter[s][k]
                                 \/ \E j \in DOMAIN q : r[k] = q[j]
      BY <2>2, Sent
    <2> HIDE DEF r
    <2>4. r \in Seq(Message)
      BY <2>3, MessageSets
    <2>5. toCenter' \in [Scene -> Seq(Message)] /\ toCenter'[s] = r
          /\ \A t \in Scene : t # s => toCenter'[t] = toCenter[t]
      BY <1>1, <2>1, <2>4
    <2>6. \A j \in DOMAIN q : q[j].kind # "disconnect"
      <3>1. \A j \in DOMAIN q : q[j] \in Said(s) \cup Commanded(s)
        BY ElementOfSeq, LenProperties
      <3> QED
        BY <3>1, Kinds
    <2>7. \A k \in DOMAIN r : r[k].kind # "disconnect"
      BY <1>1, <1>4, <2>3, <2>6 DEF OutInv
    <2>8. s \notin centerUsers => r # << >> /\ r[1].kind = "connect"
      BY <1>1, <1>4, <2>3 DEF OutInv
    <2>9. link'[s] = "up" /\ centerUsers' = centerUsers /\ Outgoing(s)' = Outgoing(s)
      BY <1>4 DEF Outgoing
    <2>10. OutInv(s)'
      BY <2>3, <2>5, <2>7, <2>8, <2>9 DEF OutInv
    <2> QED
      BY <1>2, <2>5, <2>10
  <1> QED
    BY <1>3, <1>4

\* The first message leaves a queue.
LEMMA Taken ==
    ASSUME NEW S, NEW q \in Seq(S), q # << >>
    PROVE  /\ Head(q) \in S /\ Head(q) = q[1] /\ Tail(q) \in Seq(S)
           /\ \A k \in DOMAIN Tail(q) : k + 1 \in DOMAIN q /\ Tail(q)[k] = q[k + 1]
           /\ 1 \in DOMAIN q
  <1>1. Head(q) \in S /\ Tail(q) \in Seq(S) /\ Len(Tail(q)) = Len(q) - 1
        /\ \A i \in 1 .. Len(Tail(q)) : Tail(q)[i] = q[i + 1]
    BY HeadTailProperties
  <1>2. Len(q) \in Nat \ {0} /\ DOMAIN q = 1 .. Len(q) /\ DOMAIN Tail(q) = 1 .. Len(Tail(q))
    BY <1>1, EmptySeq, LenProperties
  <1>3. Head(q) = q[1]
    BY <1>2
  <1>4. \A k \in 1 .. Len(q) - 1 : k + 1 \in 1 .. Len(q)
    BY <1>2
  <1> QED
    BY <1>1, <1>2, <1>3, <1>4

\* What is left of a queue that is cut.
LEMMA Cut ==
    ASSUME NEW S, NEW q \in Seq(S), NEW k \in 0 .. Len(q)
    PROVE  /\ SubSeq(q, 1, k) \in Seq(S)
           /\ Len(SubSeq(q, 1, k)) = k
           /\ \A i \in DOMAIN SubSeq(q, 1, k) : i \in DOMAIN q /\ SubSeq(q, 1, k)[i] = q[i]
  <1>1. Len(q) \in Nat /\ DOMAIN q = 1 .. Len(q) /\ \A i \in 1 .. Len(q) : q[i] \in S
    BY LenProperties, ElementOfSeq
  <1>2. 1 \in Int /\ k \in Int /\ \A i \in 1 .. k : q[i] \in S /\ i \in DOMAIN q
    BY <1>1
  <1>3. /\ SubSeq(q, 1, k) \in Seq(S)
        /\ Len(SubSeq(q, 1, k)) = IF 1 <= k THEN k - 1 + 1 ELSE 0
        /\ \A i \in 1 .. k - 1 + 1 : SubSeq(q, 1, k)[i] = q[1 + i - 1]
    BY <1>2, SubSeqProperties
  <1>4. Len(SubSeq(q, 1, k)) = k
    BY <1>1, <1>3
  <1>5. DOMAIN SubSeq(q, 1, k) = 1 .. k
    BY <1>3, <1>4, LenProperties
  <1>6. \A i \in 1 .. k : i \in 1 .. k - 1 + 1 /\ 1 + i - 1 = i
    BY <1>1
  <1> QED
    BY <1>2, <1>3, <1>4, <1>5, <1>6

LEMMA LinkConnected == ASSUME LinkInv, NEW s \in Scene, CenterConnected(s) PROVE LinkInv'
  <1> DEFINE m == [kind |-> "connect", scene |-> s]
  <1>1. /\ link[s] = "connecting" /\ link' = [link EXCEPT ![s] = "up"]
        /\ toCenter' = [toCenter EXCEPT ![s] = <<m>>]
        /\ UNCHANGED <<fromCenter, centerUsers, user_visible_flag>>
    BY DEF CenterConnected
  <1>2. m \in Outgoing(s)
    BY DEF Outgoing, Notice
  <1>3. <<m>> \in Seq(Outgoing(s)) /\ <<m>> \in Seq(Message)
    BY <1>2, OneMessage, MessageSets
  <1>4. /\ toCenter' \in [Scene -> Seq(Message)] /\ link' \in [Scene -> {"connecting", "up", "down"}]
        /\ toCenter'[s] = <<m>> /\ link'[s] = "up"
        /\ \A t \in Scene : t # s => toCenter'[t] = toCenter[t] /\ link'[t] = link[t]
    BY <1>1, <1>3 DEF LinkInv
  <1>5. <<m>> # << >> /\ \A k \in DOMAIN <<m>> : <<m>>[k].kind = "connect"
    OBVIOUS
  <1>6. <<m>>[1].kind = "connect"
    OBVIOUS
  <1> HIDE DEF m
  <1>7. OutInv(s)'
    BY <1>3, <1>4, <1>5, <1>6 DEF OutInv
  <1>8. \A t \in Scene : t # s => OutInv(t)'
    BY <1>1, <1>4 DEF OutInv, LinkInv
  <1> QED
    BY <1>1, <1>4, <1>7, <1>8 DEF LinkInv

LEMMA LinkLost == ASSUME LinkInv, NEW s \in Scene, CenterLost(s) PROVE LinkInv'
  <1> DEFINE m == [kind |-> "disconnect", scene |-> s]
  <1>1. PICK k \in 0 .. Len(toCenter[s]) :
            toCenter' = [toCenter EXCEPT ![s] =
                (IF k = 0 /\ s \notin centerUsers THEN SubSeq(@, 1, 1) ELSE SubSeq(@, 1, k)) \o <<m>>]
    BY DEF CenterLost
  <1>2. PICK n \in 0 .. Len(fromCenter[s]) :
            fromCenter' = [fromCenter EXCEPT ![s] = SubSeq(@, 1, n)]
    BY DEF CenterLost
  <1>3. /\ link[s] = "up" /\ link' = [link EXCEPT ![s] = "down"]
        /\ UNCHANGED <<centerUsers, user_visible_flag>>
    BY DEF CenterLost
  <1>4. /\ toCenter \in [Scene -> Seq(Message)] /\ toCenter[s] \in Seq(Outgoing(s))
        /\ fromCenter \in [Scene -> Seq(Message)] /\ fromCenter[s] \in Seq(Incoming(s))
        /\ s \notin centerUsers => toCenter[s] # << >>
    BY <1>3 DEF LinkInv, OutInv
  <1>5. Len(toCenter[s]) \in Nat /\ (s \notin centerUsers => Len(toCenter[s]) # 0)
    BY <1>4, LenProperties, EmptySeq
  <1>6. PICK i \in 0 .. Len(toCenter[s]) :
            toCenter' = [toCenter EXCEPT ![s] = SubSeq(toCenter[s], 1, i) \o <<m>>]
    <2>1. CASE k = 0 /\ s \notin centerUsers
      <3>1. 1 \in 0 .. Len(toCenter[s])
        BY <1>5, <2>1
      <3> QED
        BY <1>1, <2>1, <3>1
    <2>2. CASE ~(k = 0 /\ s \notin centerUsers)
      BY <1>1, <2>2
    <2> QED
      BY <2>1, <2>2
  <1>7. m \in Outgoing(s)
    BY DEF Outgoing, Notice
  <1> DEFINE q == SubSeq(toCenter[s], 1, i) \o <<m>>
  <1>8. q \in Seq(Outgoing(s))
    <2>1. SubSeq(toCenter[s], 1, i) \in Seq(Outgoing(s)) /\ <<m>> \in Seq(Outgoing(s))
      BY <1>4, <1>7, Cut, OneMessage
    <2> QED
      BY <2>1, ConcatProperties
  <1>9. SubSeq(fromCenter[s], 1, n) \in Seq(Incoming(s))
    BY <1>4, Cut
  <1>10. q \in Seq(Message) /\ SubSeq(fromCenter[s], 1, n) \in Seq(Message)
    BY <1>8, <1>9, MessageSets
  <1>11. toCenter' = [toCenter EXCEPT ![s] = q]
    BY <1>6
  <1> HIDE DEF m, q
  <1>12. /\ toCenter' \in [Scene -> Seq(Message)] /\ toCenter'[s] = q
         /\ fromCenter' \in [Scene -> Seq(Message)] /\ fromCenter'[s] = SubSeq(fromCenter[s], 1, n)
         /\ link' \in [Scene -> {"connecting", "up", "down"}] /\ link'[s] = "down"
         /\ \A t \in Scene : t # s => /\ toCenter'[t] = toCenter[t] /\ link'[t] = link[t]
                                      /\ fromCenter'[t] = fromCenter[t]
    BY <1>2, <1>3, <1>4, <1>10, <1>11 DEF LinkInv
  <1>13. OutInv(s)'
    BY <1>8, <1>12 DEF OutInv
  <1>14. \A t \in Scene : t # s => OutInv(t)'
    BY <1>3, <1>12 DEF OutInv, LinkInv
  <1>15. \A t \in Scene : fromCenter'[t] \in Seq(Incoming(t))
    BY <1>9, <1>12 DEF LinkInv
  <1> QED
    BY <1>3, <1>12, <1>13, <1>14, <1>15 DEF LinkInv

\* The center passes a message to the links of some users that are up.
LEMMA Forwarded ==
    ASSUME LinkInv, NEW U \in SUBSET Scene, NEW m, \A s \in U : m \in Incoming(s), Forward(U, m)
    PROVE  /\ fromCenter' \in [Scene -> Seq(Message)]
           /\ \A s \in Scene : fromCenter'[s] \in Seq(Incoming(s))
           /\ \A s \in Scene : fromCenter'[s] = IF s \in U /\ link[s] = "up"
                                                THEN Append(fromCenter[s], m) ELSE fromCenter[s]
  <1>1. fromCenter' = [s \in Scene |-> IF s \in U /\ link[s] = "up"
                                       THEN Append(fromCenter[s], m) ELSE fromCenter[s]]
    BY DEF Forward
  <1>2. ASSUME NEW s \in Scene PROVE fromCenter'[s] \in Seq(Incoming(s)) /\ fromCenter'[s] \in Seq(Message)
    <2>1. fromCenter[s] \in Seq(Incoming(s))
      BY DEF LinkInv
    <2>2. s \in U => Append(fromCenter[s], m) \in Seq(Incoming(s))
      BY <2>1, AppendProperties
    <2>3. fromCenter'[s] \in Seq(Incoming(s))
      BY <1>1, <2>1, <2>2
    <2> QED
      BY <2>3, MessageSets
  <1> QED
    BY <1>1, <1>2

LEMMA LinkHandle == ASSUME LinkInv, NEW s \in Scene, CenterHandle(s) PROVE LinkInv'
  <1> DEFINE m == Head(toCenter[s])
  <1>1. /\ toCenter[s] # << >> /\ toCenter' = [toCenter EXCEPT ![s] = Tail(toCenter[s])]
        /\ UNCHANGED <<link, user_visible_flag>>
    BY DEF CenterHandle
  <1>2. toCenter \in [Scene -> Seq(Message)] /\ toCenter[s] \in Seq(Outgoing(s)) /\ OutInv(s)
    BY DEF LinkInv, OutInv
  <1>3. /\ m \in Outgoing(s) /\ m = toCenter[s][1] /\ Tail(toCenter[s]) \in Seq(Outgoing(s))
        /\ \A k \in DOMAIN Tail(toCenter[s]) :
             k + 1 \in DOMAIN toCenter[s] /\ Tail(toCenter[s])[k] = toCenter[s][k + 1]
        /\ 1 \in DOMAIN toCenter[s]
    BY <1>1, <1>2, Taken
  <1>4. Tail(toCenter[s]) \in Seq(Message)
    BY <1>3, MessageSets
  <1>5. /\ toCenter' \in [Scene -> Seq(Message)] /\ toCenter'[s] = Tail(toCenter[s])
        /\ \A t \in Scene : t # s => toCenter'[t] = toCenter[t]
    BY <1>1, <1>2, <1>4
  <1>6. \/ m.kind = "connect" /\ centerUsers' = centerUsers \cup {s} /\ UNCHANGED fromCenter
        \/ m.kind = "disconnect" /\ centerUsers' = centerUsers \ {s} /\ UNCHANGED fromCenter
        \/ m.kind = "command" /\ Forward(centerUsers, m) /\ UNCHANGED centerUsers
        \/ /\ m.kind \notin {"connect", "disconnect", "command"}
           /\ Forward(centerUsers \ {s}, m) /\ UNCHANGED centerUsers
    BY DEF CenterHandle, ForwardCommand, ForwardMsg
  <1> HIDE DEF m
  <1>7. centerUsers' \subseteq Scene
        /\ \A t \in Scene : t # s => (t \in centerUsers' <=> t \in centerUsers)
    BY <1>6 DEF LinkInv
  <1>8. \A t \in Scene : t # s => OutInv(t)'
    BY <1>1, <1>5, <1>7 DEF OutInv, LinkInv
  <1>9. OutInv(s)'
    <2>1. \A k \in DOMAIN toCenter'[s] : \E j \in DOMAIN toCenter[s] : toCenter'[s][k] = toCenter[s][j]
      BY <1>3, <1>5
    <2>2. link[s] # "connecting"
      BY <1>1, <1>2 DEF OutInv
    <2>3. link[s] = "up" => s \in centerUsers'
      BY <1>2, <1>3, <1>6 DEF OutInv
    <2>4. link[s] # "down" => \A k \in DOMAIN toCenter'[s] : toCenter'[s][k].kind # "disconnect"
      BY <1>2, <2>1 DEF OutInv
    <2> QED
      BY <1>1, <1>3, <1>5, <2>2, <2>3, <2>4 DEF OutInv
  <1>10. /\ fromCenter' \in [Scene -> Seq(Message)]
         /\ \A t \in Scene : fromCenter'[t] \in Seq(Incoming(t))
    <2>1. CASE UNCHANGED fromCenter
      BY <2>1 DEF LinkInv
    <2>2. CASE m.kind = "command" /\ Forward(centerUsers, m)
      <3>1. m \in Commanded(s)
        BY <1>3, <2>2, Kinds DEF Outgoing
      <3>2. \A t \in centerUsers : m \in Incoming(t)
        BY <1>3, <3>1, MessageSets DEF Incoming
      <3> QED
        BY <2>2, <3>2, Forwarded DEF LinkInv
    <2>3. CASE m.kind \notin {"connect", "disconnect", "command"} /\ Forward(centerUsers \ {s}, m)
      <3>1. m \in Said(s)
        BY <1>3, <2>3, Kinds DEF Outgoing
      <3>2. \A t \in centerUsers \ {s} : m \in Incoming(t)
        BY <1>3, <3>1, MessageSets DEF Incoming
      <3> QED
        BY <2>3, <3>2, Forwarded DEF LinkInv
    <2> QED
      BY <1>6, <2>1, <2>2, <2>3
  <1> QED
    BY <1>1, <1>5, <1>7, <1>8, <1>9, <1>10 DEF LinkInv

\* The main loops of the scenes.
LEMMA LinkScene ==
    ASSUME LinkInv, Roster, Roster', SceneNext, UNCHANGED centerUsers
    PROVE  LinkInv'
  <1>1. Sends /\ link' = link
    BY SceneSends
  <1>2. toCenter' \in [Scene -> Seq(Message)] /\ \A t \in Scene : OutInv(t)'
    <2>1. CASE UNCHANGED toCenter
      BY <1>1, <2>1 DEF LinkInv, OutInv
    <2>2. ASSUME NEW s \in Scene, NEW q \in Seq(Said(s)), SendToCenter(s, q)
          PROVE  toCenter' \in [Scene -> Seq(Message)] /\ \A t \in Scene : OutInv(t)'
      <3>1. q \in Seq(Said(s) \cup Commanded(s))
        BY SeqMonotonic
      <3> QED
        BY <1>1, <2>2, <3>1, OutSend
    <2>3. ASSUME NEW c \in Client, NEW cmd \in Command, GlobalCommand(c, cmd)
          PROVE  toCenter' \in [Scene -> Seq(Message)] /\ \A t \in Scene : OutInv(t)'
      <3> DEFINE m == [kind |-> "command", scene |-> SceneOf[c], command |-> cmd]
      <3>1. SendToCenter(SceneOf[c], <<m>>)
        BY <2>3 DEF GlobalCommand
      <3>2. m \in Said(SceneOf[c]) \cup Commanded(SceneOf[c])
        BY DEF Commanded
      <3>3. <<m>> \in Seq(Said(SceneOf[c]) \cup Commanded(SceneOf[c])) /\ SceneOf[c] \in Scene
        BY <3>2, OneMessage, Clients
      <3> HIDE DEF m
      <3> QED
        BY <1>1, <3>1, <3>3, OutSend
    <2> QED
      BY <1>1, <2>1, <2>2, <2>3 DEF Sends
  <1>3. /\ fromCenter' \in [Scene -> Seq(Message)]
        /\ \A t \in Scene : fromCenter'[t] \in Seq(Incoming(t))
    <2>1. CASE UNCHANGED fromCenter
      BY <2>1 DEF LinkInv
    <2>2. ASSUME NEW s \in Scene, HandleCenterMessage(s)
          PROVE  /\ fromCenter' \in [Scene -> Seq(Message)]
                 /\ \A t \in Scene : fromCenter'[t] \in Seq(Incoming(t))
      <3>1. fromCenter[s] # << >> /\ fromCenter' = [fromCenter EXCEPT ![s] = Tail(fromCenter[s])]
        BY <2>2 DEF HandleCenterMessage
      <3>2. Tail(fromCenter[s]) \in Seq(Incoming(s))
        BY <3>1, Taken DEF LinkInv
      <3>3. Tail(fromCenter[s]) \in Seq(Message)
        BY <3>2, MessageSets
      <3> QED
        BY <3>1, <3>2, <3>3 DEF LinkInv
    <2> QED
      BY <2>1, <2>2 DEF SceneNext, Connect, Disconnect, TellUserType, TellSeatNumber,
         TellUserProfile, TellReady, PresentFlowers, GlobalCommand, SeenExternal, linkVars
  <1>4. user_visible_flag' \in [Scene -> BOOLEAN]
    BY DEF SceneNext, Connect, Disconnect, TellUserType, TellSeatNumber, TellUserProfile,
       TellReady, PresentFlowers, GlobalCommand, SeenExternal, HandleCenterMessage,
       HandleRequest, PassOn, LinkInv
  <1> QED
    BY <1>1, <1>2, <1>3, <1>4 DEF LinkInv

LEMMA LinkNext == Roster /\ Roster' /\ LinkInv /\ [TheatreNext]_theatreVars => LinkInv'
  <1> SUFFICES ASSUME Roster, Roster', LinkInv, [TheatreNext]_theatreVars PROVE LinkInv'
    OBVIOUS
  <1>1. CASE UNCHANGED theatreVars
    BY <1>1 DEF theatreVars, sceneVars, linkVars, LinkInv, OutInv
  <1> QED
    BY <1>1, LinkScene, LinkConnected, LinkLost, LinkHandle DEF TheatreNext

LEMMA TheatreLinks == TheatreSpec => []LinkInv
  BY LinkInit, LinkNext, TheatreRoster, PTL DEF TheatreSpec

-----------------------------------------------------------------------------
(* What the clients are told. *)

\* A player given away, with the seat it had.
Given == [player : Client, seat : Seat \cup {0}]

View == [seats : SUBSET Seat, external : [Scene -> SUBSET Seat],
         commands : Seq(Command), given : Seq(Given)]

ToldType == told \in [Client -> View]

\* What a message of another scene makes of the seats shown there.
Shown(S, m) ==
    CASE m.kind = "client_list_external" -> S \cup m.seats
      [] m.kind = "user_leave_external"  -> S \ {m.seat}
      [] m.kind = "upd_user_state" /\ m.state = "initial" -> S \cup {m.seat}
      [] OTHER -> S

LEMMA NothingShown ==
    /\ Nothing \in View
    /\ Nothing.seats = {} /\ Nothing.commands = << >> /\ Nothing.given = << >>
    /\ \A s \in Scene : Nothing.external[s] = {}
  BY DEF Nothing, View

LEMMA ViewFields ==
    ASSUME NEW v \in View
    PROVE  /\ v.seats \subseteq Seat /\ v.external \in [Scene -> SUBSET Seat]
           /\ v.commands \in Seq(Command) /\ v.given \in Seq(Given)
  BY DEF View

LEMMA ViewSeats ==
    ASSUME NEW v \in View, NEW S \in SUBSET Seat
    PROVE  LET w == [v EXCEPT !.seats = S] IN
           /\ w \in View /\ w.seats = S
           /\ w.external = v.external /\ w.commands = v.commands /\ w.given = v.given
  BY DEF View

LEMMA ViewExternal ==
    ASSUME NEW v \in View, NEW s \in Scene, NEW S \in SUBSET Seat
    PROVE  LET w == [v EXCEPT !.external[s] = S] IN
           /\ w \in View
           /\ w.external = [v.external EXCEPT ![s] = S]
           /\ w.seats = v.seats /\ w.commands = v.commands /\ w.given = v.given
  BY DEF View

LEMMA ViewCommands ==
    ASSUME NEW v \in View, NEW q \in Seq(Command)
    PROVE  LET w == [v EXCEPT !.commands = q] IN
           /\ w \in View /\ w.commands = q
           /\ w.seats = v.seats /\ w.external = v.external /\ w.given = v.given
  BY DEF View

LEMMA ViewGiven ==
    ASSUME NEW v \in View, NEW q \in Seq(Given)
    PROVE  LET w == [v EXCEPT !.given = q] IN
           /\ w \in View /\ w.given = q
           /\ w.seats = v.seats /\ w.external = v.external /\ w.commands = v.commands
  BY DEF View

\* A client's picture but for the seats of its own scene.
SameElse(v, w) == v.external = w.external /\ v.commands = w.commands /\ v.given = w.given

LEMMA ShowSeatFacts ==
    ASSUME ToldType, NEW s \in Scene, NEW n \in Seat
    PROVE  /\ ShowSeat(s, n) \in [Client -> View]
           /\ \A c \in Client :
                /\ SameElse(ShowSeat(s, n)[c], told[c])
                /\ ShowSeat(s, n)[c].seats = IF c \in Present(s) THEN told[c].seats \cup {n}
                                             ELSE told[c].seats
  <1>1. ASSUME NEW c \in Client
        PROVE  /\ ShowSeat(s, n)[c] \in View /\ SameElse(ShowSeat(s, n)[c], told[c])
               /\ ShowSeat(s, n)[c].seats = IF c \in Present(s) THEN told[c].seats \cup {n}
                                            ELSE told[c].seats
    <2> DEFINE v == told[c]
               w == [v EXCEPT !.seats = v.seats \cup {n}]
    <2>1. v \in View
      BY DEF ToldType
    <2>2. v.seats \cup {n} \in SUBSET Seat
      BY <2>1, ViewFields
    <2>3. /\ w \in View /\ w.seats = v.seats \cup {n}
          /\ w.external = v.external /\ w.commands = v.commands /\ w.given = v.given
      BY <2>1, <2>2, ViewSeats
    <2>4. ShowSeat(s, n)[c] = IF c \in Present(s) THEN w ELSE v
      BY DEF ShowSeat
    <2> HIDE DEF w
    <2> QED
      BY <2>1, <2>3, <2>4 DEF SameElse
  <1>2. ShowSeat(s, n) = [c \in Client |-> ShowSeat(s, n)[c]]
    BY DEF ShowSeat
  <1> QED
    BY <1>1, <1>2

LEMMA HideSeatFacts ==
    ASSUME ToldType, NEW s \in Scene, NEW n
    PROVE  /\ HideSeat(s, n) \in [Client -> View]
           /\ \A c \in Client :
                /\ SameElse(HideSeat(s, n)[c], told[c])
                /\ HideSeat(s, n)[c].seats = IF c \in Present(s) THEN told[c].seats \ {n}
                                             ELSE told[c].seats
  <1>1. ASSUME NEW c \in Client
        PROVE  /\ HideSeat(s, n)[c] \in View /\ SameElse(HideSeat(s, n)[c], told[c])
               /\ HideSeat(s, n)[c].seats = IF c \in Present(s) THEN told[c].seats \ {n}
                                            ELSE told[c].seats
    <2> DEFINE v == told[c]
               w == [v EXCEPT !.seats = v.seats \ {n}]
    <2>1. v \in View
      BY DEF ToldType
    <2>2. v.seats \ {n} \in SUBSET Seat
      BY <2>1, ViewFields
    <2>3. /\ w \in View /\ w.seats = v.seats \ {n}
          /\ w.external = v.external /\ w.commands = v.commands /\ w.given = v.given
      BY <2>1, <2>2, ViewSeats
    <2>4. HideSeat(s, n)[c] = IF c \in Present(s) THEN w ELSE v
      BY DEF HideSeat
    <2> HIDE DEF w
    <2> QED
      BY <2>1, <2>3, <2>4 DEF SameElse
  <1>2. HideSeat(s, n) = [c \in Client |-> HideSeat(s, n)[c]]
    BY DEF HideSeat
  <1> QED
    BY <1>1, <1>2

LEMMA ShowCommandFacts ==
    ASSUME ToldType, NEW s \in Scene, NEW cmd \in Command
    PROVE  /\ ShowCommand(s, cmd) \in [Client -> View]
           /\ \A c \in Client : LET w == ShowCommand(s, cmd)[c] IN
                /\ w.seats = told[c].seats /\ w.external = told[c].external
                /\ w.given = told[c].given
                /\ \/ w.commands = told[c].commands
                   \/ c \in Present(s) /\ w.commands = Append(told[c].commands, cmd)
  <1>1. ASSUME NEW c \in Client
        PROVE  /\ ShowCommand(s, cmd)[c] \in View
               /\ LET w == ShowCommand(s, cmd)[c] IN
                    /\ w.seats = told[c].seats /\ w.external = told[c].external
                    /\ w.given = told[c].given
                    /\ \/ w.commands = told[c].commands
                       \/ c \in Present(s) /\ w.commands = Append(told[c].commands, cmd)
    <2> DEFINE v == told[c]
               w == [v EXCEPT !.commands = Append(v.commands, cmd)]
    <2>1. v \in View
      BY DEF ToldType
    <2>2. Append(v.commands, cmd) \in Seq(Command)
      BY <2>1, ViewFields, AppendProperties
    <2>3. /\ w \in View /\ w.commands = Append(v.commands, cmd)
          /\ w.seats = v.seats /\ w.external = v.external /\ w.given = v.given
      BY <2>1, <2>2, ViewCommands
    <2>4. \/ ShowCommand(s, cmd)[c] = w /\ c \in Present(s)
          \/ ShowCommand(s, cmd)[c] = v
      BY DEF ShowCommand
    <2> HIDE DEF w
    <2> QED
      BY <2>1, <2>3, <2>4
  <1>2. ShowCommand(s, cmd) = [c \in Client |-> ShowCommand(s, cmd)[c]]
    BY DEF ShowCommand
  <1> QED
    BY <1>1, <1>2

\* w is what the clients of s show once the seats of t are changed by f.
ExternalShown(w, s, t, f) ==
    /\ w \in [Client -> View]
    /\ \A c \in Client :
         /\ w[c].seats = told[c].seats /\ w[c].commands = told[c].commands
         /\ w[c].given = told[c].given
         /\ \A u \in Scene :
              w[c].external[u] = IF c \in Present(s) /\ u = t THEN f[told[c].external[u]]
                                 ELSE told[c].external[u]

LEMMA ShowExternalFacts ==
    ASSUME ToldType, NEW s \in Scene, NEW t \in Scene, NEW f \in [SUBSET Seat -> SUBSET Seat]
    PROVE  ExternalShown(ShowExternal(s, t, f), s, t, f)
  <1>1. ASSUME NEW c \in Client
        PROVE  /\ ShowExternal(s, t, f)[c] \in View
               /\ LET w == ShowExternal(s, t, f)[c] IN
                    /\ w.seats = told[c].seats /\ w.commands = told[c].commands
                    /\ w.given = told[c].given
                    /\ \A u \in Scene :
                         w.external[u] = IF c \in Present(s) /\ u = t THEN f[told[c].external[u]]
                                         ELSE told[c].external[u]
    <2> DEFINE v == told[c]
               S == f[v.external[t]]
               w == [v EXCEPT !.external[t] = S]
    <2>1. v \in View
      BY DEF ToldType
    <2>2. v.external \in [Scene -> SUBSET Seat]
      BY <2>1, ViewFields
    <2>3. S \in SUBSET Seat
      BY <2>2
    <2>4. ShowExternal(s, t, f)[c] = IF c \in Present(s) THEN w ELSE v
      BY DEF ShowExternal
    <2> HIDE DEF v
    <2>5. /\ w \in View /\ w.external = [v.external EXCEPT ![t] = S]
          /\ w.seats = v.seats /\ w.commands = v.commands /\ w.given = v.given
      <3> HIDE DEF S
      <3> QED
        BY <2>1, <2>3, ViewExternal
    <2> HIDE DEF w
    <2>6. \A u \in Scene : w.external[u] = IF u = t THEN f[v.external[u]] ELSE v.external[u]
      BY <2>2, <2>5
    <2>7. /\ ShowExternal(s, t, f)[c] \in View
          /\ LET x == ShowExternal(s, t, f)[c] IN
               /\ x.seats = v.seats /\ x.commands = v.commands /\ x.given = v.given
               /\ \A u \in Scene :
                    x.external[u] = IF c \in Present(s) /\ u = t THEN f[v.external[u]]
                                    ELSE v.external[u]
      BY <2>1, <2>4, <2>5, <2>6
    <2> QED
      BY <2>7 DEF v
  <1>2. ShowExternal(s, t, f) = [c \in Client |-> ShowExternal(s, t, f)[c]]
    BY DEF ShowExternal
  <1> QED
    BY <1>1, <1>2 DEF ExternalShown

\* A message of the center is shown to the clients of the scene that gets it.
LEMMA ToldPassOn ==
    ASSUME ToldType, NEW s \in Scene, NEW m \in Incoming(s), PassOn(s, m),
           m.kind # "req_usr_list"
    PROVE  /\ ToldType'
           /\ \A c \in Client :
                /\ told'[c].seats = told[c].seats /\ told'[c].given = told[c].given
                /\ \/ told'[c].commands = told[c].commands
                   \/ /\ m.kind = "command" /\ c \in Present(s)
                      /\ told'[c].commands = Append(told[c].commands, m.command)
                /\ \A t \in Scene :
                     told'[c].external[t] =
                        IF c \in Present(s) /\ t = m.scene THEN Shown(told[c].external[t], m)
                        ELSE told[c].external[t]
  <1> DEFINE Effect(w) ==
        \A c \in Client :
            /\ w[c].seats = told[c].seats /\ w[c].given = told[c].given
            /\ \/ w[c].commands = told[c].commands
               \/ /\ m.kind = "command" /\ c \in Present(s)
                  /\ w[c].commands = Append(told[c].commands, m.command)
            /\ \A t \in Scene :
                 w[c].external[t] =
                    IF c \in Present(s) /\ t = m.scene THEN Shown(told[c].external[t], m)
                    ELSE told[c].external[t]
  <1>1. PICK t \in Scene : m \in Commanded(t) \/ (t # s /\ m \in Said(t))
    BY DEF Incoming
  <1>2. m.scene = t /\ t \in Scene
    BY <1>1, Kinds
  <1>3. ASSUME NEW f \in [SUBSET Seat -> SUBSET Seat], m.kind # "command",
               \A S \in SUBSET Seat : f[S] = Shown(S, m), told' = ShowExternal(s, m.scene, f)
        PROVE  ToldType' /\ Effect(told')
    <2>1. \A c \in Client, u \in Scene : told[c].external[u] \in SUBSET Seat
      <3>1. \A c \in Client : told[c] \in View
        BY DEF ToldType
      <3>2. \A c \in Client : told[c].external \in [Scene -> SUBSET Seat]
        BY <3>1, ViewFields
      <3> QED
        BY <3>2
    <2>2. ExternalShown(told', s, t, f)
      BY <1>2, <1>3, ShowExternalFacts
    <2>3. ASSUME NEW c \in Client, NEW u \in Scene
          PROVE  told'[c].external[u] =
                    IF c \in Present(s) /\ u = m.scene THEN Shown(told[c].external[u], m)
                    ELSE told[c].external[u]
      <3>1. f[told[c].external[u]] = Shown(told[c].external[u], m)
        BY <1>3, <2>1
      <3> QED
        BY <1>2, <2>2, <3>1 DEF ExternalShown
    <2>4. Effect(told')
      BY <2>2, <2>3 DEF ExternalShown
    <2> QED
      BY <2>2, <2>4 DEF ToldType, ExternalShown
  <1>4. CASE m.kind = "command"
    <2>1. m \in Commanded(t)
      BY <1>1, <1>4, Kinds
    <2>2. m.command \in Command
      BY <2>1, Kinds
    <2>3. told' = ShowCommand(s, m.command)
      BY <1>4 DEF PassOn
    <2>4. \A S : Shown(S, m) = S
      BY <1>4 DEF Shown
    <2> QED
      BY <1>4, <2>2, <2>3, <2>4, ShowCommandFacts DEF ToldType
  <1>5. CASE m.kind # "command"
    <2>1. m \in Said(t)
      BY <1>1, <1>5, Kinds
    <2>2. m.kind \in {"client_list_external", "user_leave_external", "upd_user_state"}
      BY <2>1 DEF Said
    <2>3. CASE m.kind = "client_list_external"
      <3>1. m.seats \in SUBSET Seat
        BY <2>1, <2>3 DEF Said, Message
      <3>2. told' = ShowExternal(s, m.scene, [S \in SUBSET Seat |-> S \cup m.seats])
        BY <2>3 DEF PassOn
      <3>3. [S \in SUBSET Seat |-> S \cup m.seats] \in [SUBSET Seat -> SUBSET Seat]
        BY <3>1
      <3>4. \A S \in SUBSET Seat : Shown(S, m) = S \cup m.seats
        BY <2>3 DEF Shown
      <3> QED
        BY <1>3, <1>5, <3>2, <3>3, <3>4
    <2>4. CASE m.kind = "user_leave_external"
      <3>1. told' = ShowExternal(s, m.scene, [S \in SUBSET Seat |-> S \ {m.seat}])
        BY <2>4 DEF PassOn
      <3>2. [S \in SUBSET Seat |-> S \ {m.seat}] \in [SUBSET Seat -> SUBSET Seat]
        OBVIOUS
      <3>3. \A S \in SUBSET Seat : Shown(S, m) = S \ {m.seat}
        BY <2>4 DEF Shown
      <3> QED
        BY <1>3, <1>5, <3>1, <3>2, <3>3
    <2>5. CASE m.kind = "upd_user_state" /\ m.state = "initial"
      <3>1. m.seat \in Seat
        BY <2>1, <2>5 DEF Said, Message
      <3>2. told' = ShowExternal(s, m.scene, [S \in SUBSET Seat |-> S \cup {m.seat}])
        BY <2>5 DEF PassOn
      <3>3. [S \in SUBSET Seat |-> S \cup {m.seat}] \in [SUBSET Seat -> SUBSET Seat]
        BY <3>1
      <3>4. \A S \in SUBSET Seat : Shown(S, m) = S \cup {m.seat}
        BY <2>5 DEF Shown
      <3> QED
        BY <1>3, <1>5, <3>2, <3>3, <3>4
    <2>6. CASE m.kind = "upd_user_state" /\ m.state # "initial"
      <3>1. told' = told
        BY <2>6 DEF PassOn
      <3>2. \A S : Shown(S, m) = S
        BY <2>6 DEF Shown
      <3> QED
        BY <3>1, <3>2 DEF ToldType
    <2> QED
      BY <2>2, <2>3, <2>4, <2>5, <2>6
  <1> QED
    BY <1>4, <1>5

\* The first message of the center is one it may pass on.
LEMMA HeadIncoming ==
    ASSUME LinkInv, NEW s \in Scene, fromCenter[s] # << >>
    PROVE  Head(fromCenter[s]) \in Incoming(s)
  BY Taken DEF LinkInv

LEMMA ToldConnect ==
    ASSUME ToldType, Roster, NEW c \in Client, Connect(c)
    PROVE  /\ ToldType'
           /\ told'[c].seats = ClientList(SceneOf[c])
           /\ told'[c].commands = << >> /\ told'[c].given = << >>
           /\ \A s \in Scene : told'[c].external[s] = {}
           /\ \A d \in Client : d # c => told'[d] = told[d]
  <1> DEFINE w == [Nothing EXCEPT !.seats = ClientList(SceneOf[c])]
  <1>1. told' = [told EXCEPT ![c] = w]
    BY DEF Connect
  <1>2. ClientList(SceneOf[c]) \in SUBSET Seat
    BY ListedSeats, Clients
  <1>3. /\ w \in View /\ w.seats = ClientList(SceneOf[c])
        /\ w.external = Nothing.external /\ w.commands = << >> /\ w.given = << >>
    BY <1>2, NothingShown, ViewSeats
  <1> HIDE DEF w
  <1>4. told' \in [Client -> View] /\ told'[c] = w /\ \A d \in Client : d # c => told'[d] = told[d]
    BY <1>1, <1>3 DEF ToldType
  <1> QED
    BY <1>3, <1>4, NothingShown DEF ToldType

LEMMA ToldDisconnect ==
    ASSUME ToldType, NEW c \in Client, Disconnect(c)
    PROVE  /\ ToldType'
           /\ told'[c] = Nothing
           /\ \A d \in Client : d # c =>
                /\ SameElse(told'[d], told[d])
                /\ told'[d].seats = IF d \in Present(SceneOf[c])
                                    THEN told[d].seats \ {mSeatNumber[c]} ELSE told[d].seats
  <1> DEFINE h == HideSeat(SceneOf[c], mSeatNumber[c])
  <1>1. told' = [h EXCEPT ![c] = Nothing]
    BY DEF Disconnect
  <1>2. /\ h \in [Client -> View]
        /\ \A d \in Client :
             /\ SameElse(h[d], told[d])
             /\ h[d].seats = IF d \in Present(SceneOf[c])
                             THEN told[d].seats \ {mSeatNumber[c]} ELSE told[d].seats
    BY HideSeatFacts, Clients
  <1> HIDE DEF h
  <1>3. told' \in [Client -> View] /\ told'[c] = Nothing
        /\ \A d \in Client : d # c => told'[d] = h[d]
    BY <1>1, <1>2, NothingShown
  <1> QED
    BY <1>2, <1>3 DEF ToldType

LEMMA ToldProfile ==
    ASSUME ToldType, Roster, NEW c \in Client, TellUserProfile(c)
    PROVE  LET p == GetFreePlayer(SceneOf[c]) IN
           /\ ToldType'
           /\ \/ told' = told /\ p = NoClient /\ bBoundUser' = bBoundUser
              \/ /\ p # NoClient /\ p \in Present(SceneOf[c]) /\ p \in Client
                 /\ bBoundUser' = [bBoundUser EXCEPT ![p] = TRUE]
                 /\ [player |-> p, seat |-> mSeatNumber[p]] \in Given
                 /\ told'[c].given =
                        Append(told[c].given, [player |-> p, seat |-> mSeatNumber[p]])
                 /\ told'[c].seats = told[c].seats /\ told'[c].external = told[c].external
                 /\ told'[c].commands = told[c].commands
                 /\ \A d \in Client : d # c => told'[d] = told[d]
  <1> DEFINE p == GetFreePlayer(SceneOf[c])
             g == [player |-> p, seat |-> mSeatNumber[p]]
             q == Append(told[c].given, g)
             w == [told[c] EXCEPT !.given = q]
  <1>1. CASE told' = told /\ p = NoClient /\ bBoundUser' = bBoundUser
    BY <1>1 DEF ToldType
  <1>2. CASE /\ p # NoClient /\ bBoundUser' = [bBoundUser EXCEPT ![p] = TRUE]
             /\ told' = [told EXCEPT ![c].given = Append(@, g)]
    <2>1. SceneOf[c] \in Scene
      BY Clients
    <2>2. p \in Present(SceneOf[c]) /\ p \in Client
      BY <1>2, <2>1, FreePlayer, PresentClients DEF Roster
    <2>3. g \in Given
      BY <2>2, SeatNumbers DEF Roster, Given
    <2>4. told[c] \in View
      BY DEF ToldType
    <2>5. told' = [told EXCEPT ![c] = w]
      BY <1>2, <2>4 DEF ToldType, View
    <2> HIDE DEF p
    <2>6. q \in Seq(Given)
      BY <2>3, <2>4, ViewFields, AppendProperties
    <2>7. /\ w \in View /\ w.given = q
          /\ w.seats = told[c].seats /\ w.external = told[c].external
          /\ w.commands = told[c].commands
      BY <2>4, <2>6, ViewGiven
    <2> HIDE DEF w
    <2>8. told' \in [Client -> View] /\ told'[c] = w
          /\ \A d \in Client : d # c => told'[d] = told[d]
      BY <2>5, <2>7 DEF ToldType
    <2> QED
      BY <1>2, <2>2, <2>3, <2>7, <2>8 DEF p, ToldType
  <1> QED
    BY <1>1, <1>2 DEF TellUserProfile

\* The steps that tell no client anything.
LEMMA NothingTold ==
    ASSUME [TheatreNext]_theatreVars
    PROVE  \/ told' = told
           \/ \E c \in Client : \/ Connect(c) \/ Disconnect(c) \/ TellSeatNumber(c)
                                \/ TellUserProfile(c) \/ TellReady(c)
           \/ \E s \in Scene : HandleCenterMessage(s)
  BY DEF TheatreNext, SceneNext, theatreVars, sceneVars, clientVars, TellUserType,
         PresentFlowers, GlobalCommand, SeenExternal, CenterConnected, CenterLost, CenterHandle

LEMMA ToldNext ==
    Roster /\ LinkInv /\ ToldType /\ [TheatreNext]_theatreVars => ToldType'
  <1> SUFFICES ASSUME Roster, LinkInv, ToldType, [TheatreNext]_theatreVars PROVE ToldType'
    OBVIOUS
  <1>1. CASE told' = told
    BY <1>1 DEF ToldType
  <1>2. ASSUME NEW c \in Client, TellSeatNumber(c) \/ TellReady(c) PROVE ToldType'
    <2>1. SeatOf[c] \in Seat /\ SceneOf[c] \in Scene
      BY Clients
    <2>2. told' = ShowSeat(SceneOf[c], SeatOf[c]) \/ told' = told
      BY <1>2 DEF TellSeatNumber, TellReady
    <2> QED
      BY <2>1, <2>2, ShowSeatFacts DEF ToldType
  <1>3. ASSUME NEW s \in Scene, HandleCenterMessage(s) PROVE ToldType'
    <2> DEFINE m == Head(fromCenter[s])
    <2>1. m \in Incoming(s)
      BY <1>3, HeadIncoming DEF HandleCenterMessage
    <2>2. HandleRequest(s) \/ (m.kind # "req_usr_list" /\ PassOn(s, m))
      BY <1>3 DEF HandleCenterMessage
    <2>3. HandleRequest(s) => told' = told
      BY DEF HandleRequest
    <2> HIDE DEF m
    <2> QED
      BY <2>1, <2>2, <2>3, ToldPassOn DEF ToldType
  <1> QED
    BY <1>1, <1>2, <1>3, NothingTold, ToldConnect, ToldDisconnect, ToldProfile

LEMMA TheatreTold == TheatreSpec => []ToldType
  <1>1. TheatreInit => ToldType
    BY NothingShown DEF TheatreInit, Init, ToldType
  <1> QED
    BY <1>1, ToldNext, TheatreRoster, TheatreLinks, PTL DEF TheatreSpec

\* Every variable keeps its type, whoever comes and goes and whichever links
\* break; each player has the type and the seat of its own client.
THEOREM TheatreTyped == TheatreSpec => []TheatreTypeOK
  <1>1. Roster /\ LinkInv /\ ToldType => TheatreTypeOK
    BY DEF Roster, PlayerType, LinkInv, ToldType, View, Given, TheatreTypeOK
  <1> QED
    BY <1>1, TheatreRoster, TheatreLinks, TheatreTold, PTL

-----------------------------------------------------------------------------
(* The seats a scene shows. *)

\* A client list has the seats that were told by the clients who are there.
ListOfSeats ==
    \A s \in Scene : \A n :
        n \in ClientList(s) <=> n # 0 /\ \E c \in Present(s) : mSeatNumber[c] = n

LEMMA ListNow == Roster => ListOfSeats
  <1> SUFFICES ASSUME Roster, NEW s \in Scene, NEW n
               PROVE  n \in ClientList(s) <=> n # 0 /\ \E c \in Present(s) : mSeatNumber[c] = n
    BY DEF ListOfSeats
  <1>1. \A c \in Present(s) : /\ mSeatNumber[c] > 0 <=> mSeatNumber[c] # 0
                              /\ mSeatNumber[c] # 0 => mUserType[c] = "VIP"
    BY SeatNumbers, PresentClients DEF Roster, RosterInv, PlayerType
  <1> QED
    BY <1>1 DEF ClientList

LEMMA ListNext == Roster' => ListOfSeats'
  BY ListNow, PTL

LEMMA LocalKept ==
    ASSUME Roster, Roster', LocalViews, UNCHANGED <<players, mSeatNumber>>,
           \A c \in Client : told'[c].seats = told[c].seats
    PROVE  LocalViews'
  <1>1. \A s \in Scene : Present(s)' = Present(s) /\ Present(s) \subseteq Client
    BY PresentClients DEF Present, Roster
  <1>2. \A s \in Scene : ClientList(s)' = ClientList(s)
    BY <1>1, ListNow, ListNext DEF ListOfSeats
  <1> QED
    BY <1>1, <1>2 DEF LocalViews

LEMMA LocalConnect ==
    ASSUME Roster, Roster', ToldType, LocalViews, NEW c \in Client, Connect(c)
    PROVE  LocalViews'
  <1>1. \A s \in Scene :
            Present(s)' = IF s = SceneOf[c] THEN Present(s) \cup {c} ELSE Present(s)
    BY PresentConnect
  <1>2. c \notin Present(SceneOf[c]) /\ mSeatNumber[c] = 0 /\ mSeatNumber' = mSeatNumber
    BY PresentConnect DEF Connect, Roster, RosterInv
  <1>3. \A s \in Scene : ClientList(s)' = ClientList(s)
    BY <1>1, <1>2, ListNow, ListNext DEF ListOfSeats
  <1>4. told'[c].seats = ClientList(SceneOf[c])
    BY ToldConnect
  <1>5. \A d \in Client : d # c => told'[d] = told[d]
    BY ToldConnect
  <1>6. \A s \in Scene : Present(s) \subseteq Client /\ (c \in Present(s) => s = SceneOf[c])
    BY PresentClients DEF Roster, RosterInv
  <1> QED
    BY <1>1, <1>3, <1>4, <1>5, <1>6 DEF LocalViews

LEMMA LocalDisconnect ==
    ASSUME Roster, Roster', ToldType, LocalViews, NEW c \in Client, Disconnect(c)
    PROVE  LocalViews'
  <1> DEFINE t == SceneOf[c]
  <1>1. DeletePlayer(c)
    BY DEF Disconnect
  <1>2. c \in Present(t) /\ \A s \in Scene :
            Present(s)' = IF s = t THEN Present(s) \ {c} ELSE Present(s)
    BY <1>1, PresentDelete
  <1>3. \A d \in Client : d # c => mSeatNumber'[d] = mSeatNumber[d]
    BY <1>1 DEF DeletePlayer, Roster, PlayerType
  <1>4. \A s \in Scene : /\ Present(s) \subseteq Client
                         /\ \A d \in Present(s) : SceneOf[d] = s
    BY PresentClients DEF Roster, RosterInv
  <1>5. \A d \in Present(t) : d # c /\ mSeatNumber[d] # 0 => mSeatNumber[d] # mSeatNumber[c]
    <2>1. t \in Scene
      BY Clients
    <2>2. \A d \in Present(t) : SeatOf[d] = SeatOf[c] => d = c
      BY <1>2, <2>1 DEF Roster, RosterInv
    <2>3. \A d \in Client : mSeatNumber[d] \in {0, SeatOf[d]} /\ SeatOf[d] # 0
      BY Clients DEF Roster, PlayerType
    <2>4. Present(t) \subseteq Client
      BY <1>4, <2>1
    <2> QED
      BY <2>2, <2>3, <2>4
  <1>6. \A d \in Client : d # c =>
            told'[d].seats = IF d \in Present(t) THEN told[d].seats \ {mSeatNumber[c]}
                             ELSE told[d].seats
    BY ToldDisconnect
  <1>7. t \in Scene
    BY Clients
  <1> HIDE DEF t
  <1>8. ClientList(t)' = ClientList(t) \ {mSeatNumber[c]}
    <2>1. ASSUME NEW n PROVE n \in ClientList(t)' <=> n \in ClientList(t) /\ n # mSeatNumber[c]
      <3>1. n \in ClientList(t) <=> n # 0 /\ \E d \in Present(t) : mSeatNumber[d] = n
        BY <1>7, ListNow DEF ListOfSeats
      <3>2. n \in ClientList(t)' <=> n # 0 /\ \E d \in Present(t)' : mSeatNumber'[d] = n
        BY <1>7, ListNext DEF ListOfSeats
      <3>3. Present(t)' = Present(t) \ {c}
        BY <1>2, <1>7
      <3>4. \A d \in Present(t) : d # c => mSeatNumber'[d] = mSeatNumber[d]
        BY <1>3, <1>4, <1>7
      <3>5. \A d \in Present(t) : d # c /\ mSeatNumber[d] # 0 => mSeatNumber[d] # mSeatNumber[c]
        BY <1>5
      <3> QED
        BY <3>1, <3>2, <3>3, <3>4, <3>5
    <2> QED
      BY <2>1
  <1>9. ASSUME NEW s \in Scene, s # t PROVE ClientList(s)' = ClientList(s)
    <2>1. ASSUME NEW n PROVE n \in ClientList(s)' <=> n \in ClientList(s)
      <3>1. n \in ClientList(s) <=> n # 0 /\ \E d \in Present(s) : mSeatNumber[d] = n
        BY ListNow DEF ListOfSeats
      <3>2. n \in ClientList(s)' <=> n # 0 /\ \E d \in Present(s)' : mSeatNumber'[d] = n
        BY ListNext DEF ListOfSeats
      <3>3. Present(s)' = Present(s)
        BY <1>2, <1>9
      <3>4. \A d \in Present(s) : mSeatNumber'[d] = mSeatNumber[d]
        BY <1>2, <1>3, <1>4, <1>7, <1>9
      <3> QED
        BY <3>1, <3>2, <3>3, <3>4
    <2> QED
      BY <2>1
  <1>10. ASSUME NEW s \in Scene, NEW d \in Present(s)' PROVE told'[d].seats = ClientList(s)'
    <2>1. d \in Present(s) /\ d \in Client /\ d # c /\ SceneOf[d] = s
      BY <1>2, <1>4, <1>7
    <2>2. told[d].seats = ClientList(s)
      BY <2>1 DEF LocalViews
    <2>3. d \in Present(t) <=> s = t
      BY <1>4, <1>7, <2>1
    <2> QED
      BY <1>6, <1>8, <1>9, <2>1, <2>2, <2>3
  <1> QED
    BY <1>10 DEF LocalViews

LEMMA LocalSeat ==
    ASSUME Roster, Roster', ToldType, LocalViews, NEW c \in Client, TellSeatNumber(c)
    PROVE  LocalViews'
  <1> DEFINE t == SceneOf[c]
             n == SeatOf[c]
  <1>1. /\ c \in Present(t) /\ mSeatNumber[c] = 0 /\ players' = players
        /\ mSeatNumber' = [mSeatNumber EXCEPT ![c] = n] /\ told' = ShowSeat(t, n)
    BY DEF TellSeatNumber
  <1>2. t \in Scene /\ n \in Seat /\ n # 0
    BY Clients
  <1>3. \A s \in Scene : /\ Present(s)' = Present(s) /\ Present(s) \subseteq Client
                         /\ \A d \in Present(s) : SceneOf[d] = s
    BY <1>1, PresentClients DEF Present, Roster, RosterInv
  <1>4. \A d \in Client : told'[d].seats = IF d \in Present(t) THEN told[d].seats \cup {n}
                                           ELSE told[d].seats
    <2>1. told' = ShowSeat(t, n) /\ t \in Scene /\ n \in Seat
      BY <1>1, <1>2
    <2> HIDE DEF t, n
    <2> QED
      BY <2>1, ShowSeatFacts
  <1>5. mSeatNumber'[c] = n /\ \A d \in Client : d # c => mSeatNumber'[d] = mSeatNumber[d]
    BY <1>1 DEF Roster, PlayerType
  <1> HIDE DEF n
  <1>6. ASSUME NEW s \in Scene
        PROVE  ClientList(s)' = IF s = t THEN ClientList(s) \cup {n} ELSE ClientList(s)
    <2>1. ASSUME NEW i
          PROVE  i \in ClientList(s)' <=> i \in ClientList(s) \/ (s = t /\ i = n)
      <3>1. i \in ClientList(s) <=> i # 0 /\ \E d \in Present(s) : mSeatNumber[d] = i
        BY ListNow DEF ListOfSeats
      <3>2. i \in ClientList(s)' <=> i # 0 /\ \E d \in Present(s) : mSeatNumber'[d] = i
        BY <1>3, ListNext DEF ListOfSeats
      <3>3. c \in Present(s) <=> s = t
        BY <1>1, <1>3
      <3>4. \A d \in Present(s) : d # c => mSeatNumber'[d] = mSeatNumber[d]
        BY <1>3, <1>5
      <3> HIDE DEF t
      <3> QED
        BY <1>1, <1>2, <1>5, <3>1, <3>2, <3>3, <3>4
    <2> QED
      BY <2>1
  <1>7. ASSUME NEW s \in Scene, NEW d \in Present(s) PROVE told'[d].seats = ClientList(s)'
    <2>1. d \in Client /\ SceneOf[d] = s /\ told[d].seats = ClientList(s)
      BY <1>3 DEF LocalViews
    <2>2. d \in Present(t) <=> s = t
      BY <1>2, <1>3, <2>1
    <2> QED
      BY <1>4, <1>6, <2>1, <2>2
  <1> QED
    BY <1>3, <1>7 DEF LocalViews

\* The profile of the player in the client's seat names a seat that is shown.
LEMMA LocalReady ==
    ASSUME Roster, Roster', ToldType, LocalViews, NEW c \in Client, TellReady(c)
    PROVE  LocalViews'
  <1> DEFINE t == SceneOf[c]
             n == SeatOf[c]
             p == FindPlayerBySeatNumber(t, n)
  <1>1. t \in Scene /\ n \in Seat /\ n # 0
    BY Clients
  <1>2. UNCHANGED <<players, mSeatNumber>>
    BY DEF TellReady, playerVars
  <1>3. CASE told' = told
    BY <1>2, <1>3, LocalKept
  <1>4. CASE p # NoClient /\ told' = ShowSeat(t, n)
    <2>1. p \in Present(t) /\ mSeatNumber[p] = n
      BY <1>1, <1>4, FirstOfFacts DEF FindPlayerBySeatNumber, Roster
    <2>2. n \in ClientList(t)
      BY <1>1, <2>1, ListNow DEF ListOfSeats
    <2>3. ASSUME NEW d \in Client PROVE told'[d].seats = told[d].seats
      <3>1. told'[d].seats = IF d \in Present(t) THEN told[d].seats \cup {n} ELSE told[d].seats
        BY <1>1, <1>4, ShowSeatFacts
      <3>2. d \in Present(t) => told[d].seats = ClientList(t)
        BY <1>1 DEF LocalViews
      <3> QED
        BY <2>2, <3>1, <3>2
    <2> QED
      BY <1>2, <2>3, LocalKept
  <1> QED
    BY <1>3, <1>4 DEF TellReady

LEMMA LocalNext ==
    Roster /\ Roster' /\ LinkInv /\ ToldType /\ LocalViews /\ [TheatreNext]_theatreVars => LocalViews'
  <1> SUFFICES ASSUME Roster, Roster', LinkInv, ToldType, LocalViews, [TheatreNext]_theatreVars
               PROVE  LocalViews'
    OBVIOUS
  <1>1. ASSUME NEW c \in Client, TellUserType(c) PROVE LocalViews'
    BY <1>1, LocalKept DEF TellUserType, clientVars
  <1>2. ASSUME NEW c \in Client, TellUserProfile(c) PROVE LocalViews'
    <2>1. UNCHANGED <<players, mSeatNumber>>
      BY <1>2 DEF TellUserProfile
    <2>2. \A d \in Client : told'[d].seats = told[d].seats
      BY <1>2, ToldProfile
    <2> QED
      BY <2>1, <2>2, LocalKept
  <1>3. ASSUME NEW s \in Scene, HandleCenterMessage(s) PROVE LocalViews'
    <2> DEFINE m == Head(fromCenter[s])
    <2>1. UNCHANGED <<players, mSeatNumber>> /\ fromCenter[s] # << >>
      BY <1>3 DEF HandleCenterMessage, playerVars
    <2>2. m \in Incoming(s)
      BY <2>1, HeadIncoming
    <2>3. told' = told \/ (m.kind # "req_usr_list" /\ PassOn(s, m))
      BY <1>3 DEF HandleCenterMessage, HandleRequest
    <2> HIDE DEF m
    <2>4. \A c \in Client : told'[c].seats = told[c].seats
      BY <2>2, <2>3, ToldPassOn
    <2> QED
      BY <2>1, <2>4, LocalKept
  <1>4. CASE UNCHANGED <<players, mSeatNumber, told>>
    BY <1>4, LocalKept
  <1>5. \/ UNCHANGED <<players, mSeatNumber, told>>
        \/ \E c \in Client : \/ Connect(c) \/ Disconnect(c) \/ TellUserType(c) \/ TellSeatNumber(c)
                             \/ TellUserProfile(c) \/ TellReady(c)
        \/ \E s \in Scene : HandleCenterMessage(s)
    BY DEF TheatreNext, SceneNext, theatreVars, sceneVars, playerVars, clientVars,
           PresentFlowers, GlobalCommand, SeenExternal, CenterConnected, CenterLost, CenterHandle
  <1> QED
    BY <1>1, <1>2, <1>3, <1>4, <1>5, LocalConnect, LocalDisconnect, LocalSeat, LocalReady

\* However clients come, tell their seats and go, each client of a scene shows
\* exactly the seats taken there.
THEOREM LocalViewsAgree == TheatreSpec => []LocalViews
  <1>1. TheatreInit => LocalViews
    <2> SUFFICES ASSUME TheatreInit PROVE LocalViews
      OBVIOUS
    <2>1. \A s \in Scene : players[s] = << >>
      BY DEF TheatreInit, Init
    <2>2. \A s \in Scene : Present(s) = {}
      BY <2>1 DEF Present
    <2> QED
      BY <2>2 DEF LocalViews
  <1> QED
    BY <1>1, LocalNext, TheatreRoster, TheatreLinks, TheatreTold, PTL DEF TheatreSpec

-----------------------------------------------------------------------------
(* The seats that are given to capsule clients. *)

\* A player that cannot be given away any more: its client has come, and has gone
\* or is bound.
Bound(p) == "connect" \in said[p] /\ (p \in Present(SceneOf[p]) => bBoundUser[p])

\* The players given away are bound or gone; their seats were their own.
GivenInv ==
    \A c \in Client : \A i \in DOMAIN told[c].given :
        LET g == told[c].given[i] IN
        Bound(g.player) /\ (g.seat # 0 => g.seat = SeatOf[g.player])

\* No player is given away twice.
PlayerGivenOnce ==
    \A c, d \in Client : \A i \in DOMAIN told[c].given : \A j \in DOMAIN told[d].given :
        told[c].given[i].player = told[d].given[j].player => c = d /\ i = j

LEMMA GivenTyped ==
    ASSUME ToldType, NEW c \in Client, NEW i \in DOMAIN told[c].given
    PROVE  told[c].given[i] \in Given
  <1>1. told[c].given \in Seq(Given)
    BY ViewFields DEF ToldType
  <1> QED
    BY <1>1, ElementOfSeq, LenProperties

\* Players that are there at the same time are different chairs.
LEMMA SeatsDiffer == Roster /\ GivenInv /\ PlayerGivenOnce => SeatGivenOnce
  <1> SUFFICES ASSUME Roster, GivenInv, PlayerGivenOnce,
                      NEW c \in Client, NEW d \in Client,
                      NEW i \in DOMAIN told[c].given, NEW j \in DOMAIN told[d].given,
                      NEW g, NEW h, g = told[c].given[i], h = told[d].given[j],
                      \/ g.player = h.player
                      \/ /\ \E s \in Scene : {g.player, h.player} \subseteq Present(s)
                         /\ g.seat = h.seat /\ g.seat # 0
               PROVE  c = d /\ i = j
    BY DEF SeatGivenOnce
  <1>1. CASE g.player = h.player
    BY <1>1 DEF PlayerGivenOnce
  <1>2. ASSUME NEW s \in Scene, {g.player, h.player} \subseteq Present(s),
               g.seat = h.seat, g.seat # 0
        PROVE  g.player = h.player
    <2>1. SeatOf[g.player] = SeatOf[h.player]
      BY <1>2 DEF GivenInv
    <2> QED
      BY <1>2, <2>1 DEF Roster, RosterInv
  <1> QED
    BY <1>1, <1>2

\* A bound player stays bound until it goes, and does not come back.
LEMMA BoundKept ==
    ASSUME Roster, [TheatreNext]_theatreVars, NEW p \in Client, Bound(p)
    PROVE  Bound(p)'
  <1>1. CASE UNCHANGED <<playerVars, said>>
    BY <1>1 DEF playerVars, Bound, Present
  <1>2. ASSUME NEW c \in Client, Connect(c) PROVE Bound(p)'
    <2>1. p # c
      BY <1>2 DEF Connect, Bound
    <2>2. p \in Present(SceneOf[p])' => p \in Present(SceneOf[p])
      BY <1>2, <2>1, PresentConnect, Clients
    <2>3. said'[p] = said[p] /\ bBoundUser' = bBoundUser
      BY <1>2, <2>1 DEF Connect, Roster, PlayerType
    <2> QED
      BY <2>2, <2>3 DEF Bound
  <1>3. ASSUME NEW c \in Client, Disconnect(c) PROVE Bound(p)'
    <2>1. DeletePlayer(c) /\ said' = said
      BY <1>3 DEF Disconnect
    <2>2. p \in Present(SceneOf[p])' => p \in Present(SceneOf[p]) /\ p # c
      BY <2>1, PresentDelete, Clients
    <2>3. p # c => bBoundUser'[p] = bBoundUser[p]
      BY <2>1 DEF DeletePlayer, Roster, PlayerType
    <2> QED
      BY <2>1, <2>2, <2>3 DEF Bound
  <1>4. ASSUME NEW c \in Client, TellUserType(c) \/ TellSeatNumber(c) PROVE Bound(p)'
    BY <1>4 DEF TellUserType, TellSeatNumber, clientVars, Bound, Present
  <1>5. ASSUME NEW c \in Client, TellUserProfile(c) PROVE Bound(p)'
    <2>1. players' = players /\ said' = [said EXCEPT ![c] = said[c] \cup {"profile"}]
      BY <1>5 DEF TellUserProfile
    <2>2. \/ bBoundUser' = [bBoundUser EXCEPT ![GetFreePlayer(SceneOf[c])] = TRUE]
          \/ bBoundUser' = bBoundUser
      BY <1>5 DEF TellUserProfile
    <2>3. bBoundUser[p] => bBoundUser'[p]
      BY <2>2 DEF Roster, PlayerType
    <2>4. "connect" \in said'[p]
      BY <2>1 DEF Bound, Roster, PlayerType
    <2> QED
      BY <2>1, <2>3, <2>4 DEF Bound, Present
  <1> QED
    BY <1>1, <1>2, <1>3, <1>4, <1>5, OtherPlayers

LEMMA GivenKept ==
    ASSUME Roster, ToldType, [TheatreNext]_theatreVars, GivenInv, PlayerGivenOnce,
           \A c \in Client : told'[c].given = told[c].given \/ told'[c].given = << >>
    PROVE  GivenInv' /\ PlayerGivenOnce'
  <1>1. ASSUME NEW c \in Client, NEW i \in DOMAIN told'[c].given
        PROVE  i \in DOMAIN told[c].given /\ told'[c].given[i] = told[c].given[i]
    <2>1. DOMAIN << >> = {}
      OBVIOUS
    <2> QED
      BY <2>1
  <1>2. GivenInv'
    <2> SUFFICES ASSUME NEW c \in Client, NEW i \in DOMAIN told'[c].given,
                        NEW g, g = told'[c].given[i]
                 PROVE  Bound(g.player)' /\ (g.seat # 0 => g.seat = SeatOf[g.player])
      BY DEF GivenInv
    <2>1. i \in DOMAIN told[c].given /\ g = told[c].given[i]
      BY <1>1
    <2>2. Bound(g.player) /\ (g.seat # 0 => g.seat = SeatOf[g.player])
      BY <2>1 DEF GivenInv
    <2>3. g.player \in Client
      BY <2>1, GivenTyped DEF Given
    <2> QED
      BY <2>2, <2>3, BoundKept
  <1>3. PlayerGivenOnce'
    BY <1>1 DEF PlayerGivenOnce
  <1> QED
    BY <1>2, <1>3

\* A free player has been given to nobody.
LEMMA GivenProfile ==
    ASSUME Roster, ToldType, [TheatreNext]_theatreVars, GivenInv, PlayerGivenOnce,
           NEW c \in Client, TellUserProfile(c)
    PROVE  GivenInv' /\ PlayerGivenOnce'
  <1> DEFINE q == told[c].given
  <1>1. CASE told' = told
    BY <1>1, GivenKept
  <1>2. ASSUME NEW p \in Client, NEW g \in Given, p = GetFreePlayer(SceneOf[c]), p # NoClient,
               p \in Present(SceneOf[c]), g.player = p, g.seat = mSeatNumber[p],
               bBoundUser' = [bBoundUser EXCEPT ![p] = TRUE],
               told'[c].given = Append(q, g),
               \A d \in Client : d # c => told'[d] = told[d]
        PROVE  GivenInv' /\ PlayerGivenOnce'
    <2>1. ~bBoundUser[p] /\ SceneOf[p] = SceneOf[c] /\ "connect" \in said[p]
      BY <1>2, FreePlayer, Clients DEF Roster, RosterInv
    <2>2. g.seat # 0 => g.seat = SeatOf[p]
      BY <1>2, SeatNumbers DEF Roster
    <2>3. ~Bound(p)
      BY <1>2, <2>1 DEF Bound
    <2>4. Bound(p)'
      <3>1. bBoundUser'[p]
        BY <1>2 DEF Roster, PlayerType
      <3>2. "connect" \in said'[p]
        BY <1>2, <2>1 DEF TellUserProfile, Roster, PlayerType
      <3> QED
        BY <3>1, <3>2 DEF Bound
    <2>5. q \in Seq(Given)
      BY ViewFields DEF ToldType
    <2>6. /\ Len(q) \in Nat /\ DOMAIN q = 1 .. Len(q)
          /\ DOMAIN Append(q, g) = 1 .. Len(q) + 1
          /\ Append(q, g)[Len(q) + 1] = g
          /\ \A i \in 1 .. Len(q) : Append(q, g)[i] = q[i]
      BY <2>5, AppendProperties, LenProperties
    <2> HIDE DEF q
    <2>7. ASSUME NEW d \in Client, NEW i \in DOMAIN told'[d].given
          PROVE  \/ /\ i \in DOMAIN told[d].given /\ told'[d].given[i] = told[d].given[i]
                 \/ d = c /\ i = Len(q) + 1 /\ told'[d].given[i] = g
      <3>1. CASE d = c
        <4>1. told'[d].given = Append(q, g)
          BY <1>2, <3>1
        <4>2. told[d].given = q
          BY <3>1 DEF q
        <4>3. i \in 1 .. Len(q) \/ i = Len(q) + 1
          BY <2>6, <4>1
        <4> QED
          BY <2>6, <3>1, <4>1, <4>2, <4>3
      <3>2. CASE d # c
        BY <1>2, <3>2
      <3> QED
        BY <3>1, <3>2
    <2>8. ASSUME NEW d \in Client, NEW i \in DOMAIN told[d].given
          PROVE  told[d].given[i].player # p
      BY <2>3 DEF GivenInv
    <2>9. GivenInv'
      <3> SUFFICES ASSUME NEW d \in Client, NEW i \in DOMAIN told'[d].given,
                          NEW h, h = told'[d].given[i]
                   PROVE  Bound(h.player)' /\ (h.seat # 0 => h.seat = SeatOf[h.player])
        BY DEF GivenInv
      <3>1. CASE i \in DOMAIN told[d].given /\ told'[d].given[i] = told[d].given[i]
        <4>1. Bound(h.player) /\ (h.seat # 0 => h.seat = SeatOf[h.player])
          BY <3>1 DEF GivenInv
        <4>2. h.player \in Client
          BY <3>1, GivenTyped DEF Given
        <4> QED
          BY <4>1, <4>2, BoundKept
      <3>2. CASE told'[d].given[i] = g
        BY <1>2, <2>2, <2>4, <3>2
      <3> QED
        BY <2>7, <3>1, <3>2
    <2>10. PlayerGivenOnce'
      <3> SUFFICES ASSUME NEW d \in Client, NEW e \in Client, NEW i \in DOMAIN told'[d].given,
                          NEW j \in DOMAIN told'[e].given,
                          told'[d].given[i].player = told'[e].given[j].player
                   PROVE  d = e /\ i = j
        BY DEF PlayerGivenOnce
      <3>1. CASE i \in DOMAIN told[d].given /\ told'[d].given[i] = told[d].given[i]
        <4>1. CASE j \in DOMAIN told[e].given /\ told'[e].given[j] = told[e].given[j]
          <5>1. told[d].given[i].player = told[e].given[j].player
            BY <3>1, <4>1
          <5> QED
            BY <3>1, <4>1, <5>1 DEF PlayerGivenOnce
        <4>2. CASE told'[e].given[j] = g
          BY <1>2, <2>8, <3>1, <4>2
        <4> QED
          BY <2>7, <4>1, <4>2
      <3>2. CASE d = c /\ i = Len(q) + 1 /\ told'[d].given[i] = g
        <4>1. CASE j \in DOMAIN told[e].given /\ told'[e].given[j] = told[e].given[j]
          BY <1>2, <2>8, <3>2, <4>1
        <4>2. CASE e = c /\ j = Len(q) + 1
          BY <3>2, <4>2
        <4> QED
          BY <2>7, <4>1, <4>2
      <3> QED
        BY <2>7, <3>1, <3>2
    <2> QED
      BY <2>9, <2>10
  <1> QED
    BY <1>1, <1>2, ToldProfile

LEMMA GivenNext ==
    /\ Roster /\ Roster' /\ LinkInv /\ ToldType
    /\ GivenInv /\ PlayerGivenOnce /\ [TheatreNext]_theatreVars
    => GivenInv' /\ PlayerGivenOnce'
  <1> SUFFICES ASSUME Roster, Roster', LinkInv, ToldType, GivenInv, PlayerGivenOnce,
                      [TheatreNext]_theatreVars
               PROVE  GivenInv' /\ PlayerGivenOnce'
    OBVIOUS
  <1>1. ASSUME NEW c \in Client, Connect(c) PROVE GivenInv' /\ PlayerGivenOnce'
    <2>1. told'[c].given = << >> /\ \A d \in Client : d # c => told'[d] = told[d]
      BY <1>1, ToldConnect
    <2> QED
      BY <2>1, GivenKept
  <1>2. ASSUME NEW c \in Client, Disconnect(c) PROVE GivenInv' /\ PlayerGivenOnce'
    <2>1. told'[c].given = << >> /\ \A d \in Client : d # c => told'[d].given = told[d].given
      BY <1>2, ToldDisconnect, NothingShown DEF SameElse
    <2> QED
      BY <2>1, GivenKept
  <1>3. ASSUME NEW c \in Client, TellSeatNumber(c) \/ TellReady(c)
        PROVE  GivenInv' /\ PlayerGivenOnce'
    <2>1. told' = ShowSeat(SceneOf[c], SeatOf[c]) \/ told' = told
      BY <1>3 DEF TellSeatNumber, TellReady
    <2>2. SceneOf[c] \in Scene /\ SeatOf[c] \in Seat
      BY Clients
    <2>3. ASSUME NEW d \in Client PROVE told'[d].given = told[d].given
      <3>1. SameElse(ShowSeat(SceneOf[c], SeatOf[c])[d], told[d])
        BY <2>2, ShowSeatFacts
      <3> QED
        BY <2>1, <3>1 DEF SameElse
    <2> QED
      BY <2>3, GivenKept
  <1>4. ASSUME NEW s \in Scene, HandleCenterMessage(s) PROVE GivenInv' /\ PlayerGivenOnce'
    <2> DEFINE m == Head(fromCenter[s])
    <2>1. fromCenter[s] # << >>
      BY <1>4 DEF HandleCenterMessage
    <2>2. m \in Incoming(s)
      BY <2>1, HeadIncoming
    <2>3. told' = told \/ (m.kind # "req_usr_list" /\ PassOn(s, m))
      BY <1>4 DEF HandleCenterMessage, HandleRequest
    <2> HIDE DEF m
    <2>4. \A c \in Client : told'[c].given = told[c].given
      BY <2>2, <2>3, ToldPassOn
    <2> QED
      BY <2>4, GivenKept
  <1>5. CASE told' = told
    BY <1>5, GivenKept
  <1> QED
    BY <1>1, <1>2, <1>3, <1>4, <1>5, NothingTold, GivenProfile

\* No player is given away twice, and no two players that are in a scene at the
\* same time with the same seat, however chairs come, sit down, leave and come back.
THEOREM SeatsAreGivenOnce == TheatreSpec => []SeatGivenOnce
  <1>1. TheatreInit => GivenInv /\ PlayerGivenOnce
    <2> SUFFICES ASSUME TheatreInit PROVE GivenInv /\ PlayerGivenOnce
      OBVIOUS
    <2>1. DOMAIN << >> = {} /\ \A c \in Client : told[c].given = << >>
      BY NothingShown DEF TheatreInit, Init
    <2> QED
      BY <2>1 DEF GivenInv, PlayerGivenOnce
  <1>2. TheatreSpec => [](GivenInv /\ PlayerGivenOnce)
    BY <1>1, GivenNext, TheatreRoster, TheatreLinks, TheatreTold, PTL DEF TheatreSpec
  <1> QED
    BY <1>2, SeatsDiffer, TheatreRoster, PTL

-----------------------------------------------------------------------------
(* Commands on their way. *)

\* The k-th message of a queue is the command x.
At(q, k, x) == k \in DOMAIN q /\ q[k].kind = "command" /\ q[k].command = x

\* The commands of r are among those of q, in their places or one place further on.
PartOf(r, q) ==
    \E d \in {0, 1} : \A k \in Nat : \A x \in Command : At(r, k, x) => At(q, k + d, x)

LEMMA PartSame == ASSUME NEW q PROVE PartOf(q, q)
  <1>1. \A k \in Nat : \A x \in Command : At(q, k, x) => At(q, k + 0, x)
    OBVIOUS
  <1> QED
    BY <1>1 DEF PartOf

LEMMA PartTail == ASSUME NEW S, NEW q \in Seq(S), q # << >> PROVE PartOf(Tail(q), q)
  <1>1. \A k \in Nat : \A x \in Command : At(Tail(q), k, x) => At(q, k + 1, x)
    BY Taken DEF At
  <1> QED
    BY <1>1 DEF PartOf

\* A queue that is cut, and perhaps ends with something else than a command.
LEMMA PartCut ==
    ASSUME NEW S, NEW q \in Seq(S), NEW i \in 0 .. Len(q), NEW m \in S, m.kind # "command"
    PROVE  PartOf(SubSeq(q, 1, i), q) /\ PartOf(SubSeq(q, 1, i) \o <<m>>, q)
  <1> DEFINE r == SubSeq(q, 1, i)
  <1>1. r \in Seq(S) /\ \A k \in DOMAIN r : k \in DOMAIN q /\ r[k] = q[k]
    BY Cut
  <1>2. <<m>> \in Seq(S) /\ \A j \in DOMAIN <<m>> : <<m>>[j] = m
    OBVIOUS
  <1> HIDE DEF r
  <1>3. \A k \in DOMAIN (r \o <<m>>) : \/ k \in DOMAIN r /\ (r \o <<m>>)[k] = r[k]
                                      \/ (r \o <<m>>)[k] = m
    BY <1>1, <1>2, Sent
  <1>4. \A k \in Nat : \A x \in Command : At(r, k, x) => At(q, k + 0, x)
    BY <1>1 DEF At
  <1>5. \A k \in Nat : \A x \in Command : At(r \o <<m>>, k, x) => At(q, k + 0, x)
    BY <1>1, <1>3 DEF At
  <1> QED
    BY <1>4, <1>5 DEF PartOf, r

LEMMA PartSent ==
    ASSUME NEW S, NEW q \in Seq(S), NEW r \in Seq(S), \A j \in DOMAIN r : r[j].kind # "command"
    PROVE  PartOf(q \o r, q)
  <1>1. \A k \in DOMAIN (q \o r) : \/ k \in DOMAIN q /\ (q \o r)[k] = q[k]
                                  \/ \E j \in DOMAIN r : (q \o r)[k] = r[j]
    BY Sent
  <1>2. \A k \in Nat : \A x \in Command : At(q \o r, k, x) => At(q, k + 0, x)
    BY <1>1 DEF At
  <1> QED
    BY <1>2 DEF PartOf

LEMMA AtAppend ==
    ASSUME NEW S, NEW q \in Seq(S), NEW m \in S, NEW k \in Nat, NEW x
    PROVE  /\ At(Append(q, m), k, x) <=>
                At(q, k, x) \/ (k = Len(q) + 1 /\ m.kind = "command" /\ m.command = x)
           /\ At(q, k, x) => k <= Len(q)
           /\ Len(q) \in Nat
  <1> DEFINE r == Append(q, m)
             n == Len(q)
  <1>1. /\ n \in Nat /\ DOMAIN q = 1 .. n /\ DOMAIN r = 1 .. n + 1
        /\ r[n + 1] = m /\ \A i \in 1 .. n : r[i] = q[i]
    BY AppendProperties, LenProperties
  <1> HIDE DEF r, n
  <1>2. CASE k \in 1 .. n
    BY <1>1, <1>2 DEF At, r, n
  <1>3. CASE k = n + 1
    BY <1>1, <1>3 DEF At, r, n
  <1>4. CASE ~(k \in 1 .. n) /\ k # n + 1
    BY <1>1, <1>4 DEF At, r, n
  <1> QED
    BY <1>2, <1>3, <1>4

\* Commands in a queue of the center are commands.
LEMMA AtTyped ==
    ASSUME LinkInv, NEW s \in Scene, NEW k \in Nat
    PROVE  /\ toCenter[s][k].kind = "command" /\ k \in DOMAIN toCenter[s]
                => toCenter[s][k].command \in Command
           /\ fromCenter[s][k].kind = "command" /\ k \in DOMAIN fromCenter[s]
                => fromCenter[s][k].command \in Command
  <1>1. toCenter[s] \in Seq(Outgoing(s)) /\ fromCenter[s] \in Seq(Incoming(s))
    BY DEF LinkInv, OutInv
  <1>2. /\ k \in DOMAIN toCenter[s] => toCenter[s][k] \in Outgoing(s)
        /\ k \in DOMAIN fromCenter[s] => fromCenter[s][k] \in Incoming(s)
    BY <1>1, ElementOfSeq, LenProperties
  <1>3. \A m \in Outgoing(s) : m.kind = "command" => m.command \in Command
    BY Kinds DEF Outgoing
  <1>4. \A m \in Incoming(s) : m.kind = "command" => m.command \in Command
    BY Kinds DEF Incoming
  <1> QED
    BY <1>2, <1>3, <1>4

\* Of what goes to the center, only a new command is a command that was not there.
LEMMA CommandsOut ==
    ASSUME Roster, Roster', LinkInv, [TheatreNext]_theatreVars
    PROVE  \/ \A s \in Scene : PartOf(toCenter'[s], toCenter[s])
           \/ \E c \in Client : \E x \in Command : GlobalCommand(c, x)
  <1>1. toCenter \in [Scene -> Seq(Message)] /\ \A s \in Scene : toCenter[s] \in Seq(Outgoing(s))
    BY DEF LinkInv, OutInv
  <1>2. ASSUME NEW s \in Scene, NEW r, toCenter' = [toCenter EXCEPT ![s] = r],
               PartOf(r, toCenter[s])
        PROVE  \A t \in Scene : PartOf(toCenter'[t], toCenter[t])
    <2>1. \A t \in Scene : toCenter'[t] = IF t = s THEN r ELSE toCenter[t]
      BY <1>1, <1>2
    <2> QED
      BY <1>2, <2>1, PartSame
  <1>3. ASSUME toCenter' = toCenter PROVE \A t \in Scene : PartOf(toCenter'[t], toCenter[t])
    BY <1>3, PartSame
  <1>4. ASSUME NEW s \in Scene, NEW q \in Seq(Said(s)), SendToCenter(s, q)
        PROVE  \A t \in Scene : PartOf(toCenter'[t], toCenter[t])
    <2>1. toCenter' = toCenter \/ toCenter' = [toCenter EXCEPT ![s] = toCenter[s] \o q]
      BY <1>4 DEF SendToCenter
    <2>2. \A j \in DOMAIN q : q[j] \in Said(s)
      BY ElementOfSeq, LenProperties
    <2>3. \A j \in DOMAIN q : q[j].kind # "command"
      BY <2>2, Kinds
    <2>4. q \in Seq(Outgoing(s))
      BY SeqMonotonic DEF Outgoing
    <2>5. PartOf(toCenter[s] \o q, toCenter[s])
      BY <1>1, <2>3, <2>4, PartSent
    <2>6. CASE toCenter' = [toCenter EXCEPT ![s] = toCenter[s] \o q]
      BY <1>2, <2>5, <2>6
    <2> QED
      BY <1>3, <2>1, <2>6
  <1>5. ASSUME NEW s \in Scene, CenterConnected(s)
        PROVE  \A t \in Scene : PartOf(toCenter'[t], toCenter[t])
    <2> DEFINE m == [kind |-> "connect", scene |-> s]
    <2>1. toCenter' = [toCenter EXCEPT ![s] = <<m>>]
      BY <1>5 DEF CenterConnected
    <2>2. \A k \in DOMAIN <<m>> : <<m>>[k].kind # "command"
      OBVIOUS
    <2>3. \A k \in Nat : \A x \in Command : At(<<m>>, k, x) => At(toCenter[s], k + 0, x)
      BY <2>2 DEF At
    <2>4. PartOf(<<m>>, toCenter[s])
      BY <2>3 DEF PartOf
    <2> HIDE DEF m
    <2> QED
      BY <1>2, <2>1, <2>4
  <1>6. ASSUME NEW s \in Scene, CenterLost(s)
        PROVE  \A t \in Scene : PartOf(toCenter'[t], toCenter[t])
    <2> DEFINE m == [kind |-> "disconnect", scene |-> s]
    <2>1. PICK k \in 0 .. Len(toCenter[s]) :
            toCenter' = [toCenter EXCEPT ![s] =
                (IF k = 0 /\ s \notin centerUsers THEN SubSeq(@, 1, 1) ELSE SubSeq(@, 1, k)) \o <<m>>]
      BY <1>6 DEF CenterLost
    <2>2. s \notin centerUsers => toCenter[s] # << >>
      BY <1>6 DEF CenterLost, LinkInv, OutInv
    <2>3. Len(toCenter[s]) \in Nat /\ (s \notin centerUsers => Len(toCenter[s]) # 0)
      BY <1>1, <2>2, LenProperties, EmptySeq
    <2>4. PICK i \in 0 .. Len(toCenter[s]) :
            toCenter' = [toCenter EXCEPT ![s] = SubSeq(toCenter[s], 1, i) \o <<m>>]
      <3>1. CASE k = 0 /\ s \notin centerUsers
        <4>1. 1 \in 0 .. Len(toCenter[s])
          BY <2>3, <3>1
        <4> QED
          BY <2>1, <3>1, <4>1
      <3>2. CASE ~(k = 0 /\ s \notin centerUsers)
        BY <2>1, <3>2
      <3> QED
        BY <3>1, <3>2
    <2>5. m \in Outgoing(s) /\ m.kind # "command"
      BY DEF Outgoing, Notice
    <2> HIDE DEF m
    <2>6. PartOf(SubSeq(toCenter[s], 1, i) \o <<m>>, toCenter[s])
      BY <1>1, <2>5, PartCut
    <2> QED
      BY <1>2, <2>4, <2>6
  <1>7. ASSUME NEW s \in Scene, CenterHandle(s)
        PROVE  \A t \in Scene : PartOf(toCenter'[t], toCenter[t])
    <2>1. toCenter[s] # << >> /\ toCenter' = [toCenter EXCEPT ![s] = Tail(toCenter[s])]
      BY <1>7 DEF CenterHandle
    <2>2. PartOf(Tail(toCenter[s]), toCenter[s])
      BY <1>1, <2>1, PartTail
    <2> QED
      BY <1>2, <2>1, <2>2
  <1>8. CASE SceneNext
    <2>1. Sends
      BY <1>8, SceneSends
    <2> QED
      BY <1>3, <1>4, <2>1 DEF Sends
  <1>9. UNCHANGED theatreVars => toCenter' = toCenter
    BY DEF theatreVars, sceneVars, linkVars
  <1> QED
    BY <1>3, <1>5, <1>6, <1>7, <1>8, <1>9 DEF TheatreNext

\* Only the center adds commands to what the scenes get.
LEMMA CommandsIn ==
    ASSUME LinkInv, [TheatreNext]_theatreVars, \A s \in Scene : ~CenterHandle(s)
    PROVE  \A s \in Scene : PartOf(fromCenter'[s], fromCenter[s])
  <1>1. /\ fromCenter \in [Scene -> Seq(Message)]
        /\ \A s \in Scene : fromCenter[s] \in Seq(Incoming(s))
    BY DEF LinkInv
  <1>2. ASSUME NEW s \in Scene, NEW r, fromCenter' = [fromCenter EXCEPT ![s] = r],
               PartOf(r, fromCenter[s])
        PROVE  \A t \in Scene : PartOf(fromCenter'[t], fromCenter[t])
    <2>1. \A t \in Scene : fromCenter'[t] = IF t = s THEN r ELSE fromCenter[t]
      BY <1>1, <1>2
    <2> QED
      BY <1>2, <2>1, PartSame
  <1>3. CASE UNCHANGED fromCenter
    BY <1>3, PartSame
  <1>4. ASSUME NEW s \in Scene, HandleCenterMessage(s)
        PROVE  \A t \in Scene : PartOf(fromCenter'[t], fromCenter[t])
    <2>1. fromCenter[s] # << >> /\ fromCenter' = [fromCenter EXCEPT ![s] = Tail(fromCenter[s])]
      BY <1>4 DEF HandleCenterMessage
    <2>2. PartOf(Tail(fromCenter[s]), fromCenter[s])
      BY <1>1, <2>1, PartTail
    <2> QED
      BY <1>2, <2>1, <2>2
  <1>5. ASSUME NEW s \in Scene, CenterLost(s)
        PROVE  \A t \in Scene : PartOf(fromCenter'[t], fromCenter[t])
    <2>1. PICK i \in 0 .. Len(fromCenter[s]) :
            fromCenter' = [fromCenter EXCEPT ![s] = SubSeq(fromCenter[s], 1, i)]
      BY <1>5 DEF CenterLost
    <2> DEFINE m == [kind |-> "disconnect", scene |-> s]
    <2>2. m \in Message /\ m.kind # "command" /\ fromCenter[s] \in Seq(Message)
      BY <1>1 DEF Message
    <2> HIDE DEF m
    <2>3. PartOf(SubSeq(fromCenter[s], 1, i), fromCenter[s])
      BY <2>2, PartCut
    <2> QED
      BY <1>2, <2>1, <2>3
  <1>6. \/ UNCHANGED fromCenter
        \/ \E s \in Scene : HandleCenterMessage(s) \/ CenterLost(s)
    BY DEF TheatreNext, SceneNext, theatreVars, sceneVars, linkVars, Connect, Disconnect,
           TellUserType, TellSeatNumber, TellUserProfile, TellReady, PresentFlowers,
           GlobalCommand, SeenExternal, CenterConnected
  <1> QED
    BY <1>3, <1>4, <1>5, <1>6

\* What a step makes of the commands that clients have got.
ToldSame ==
    \A c \in Client : told'[c].commands = told[c].commands \/ told'[c].commands = << >>

ToldNew(s, x) ==
    /\ At(fromCenter[s], 1, x)
    /\ fromCenter' = [fromCenter EXCEPT ![s] = Tail(fromCenter[s])]
    /\ \A c \in Client :
        \/ told'[c].commands = told[c].commands
        \/ SceneOf[c] = s /\ told'[c].commands = Append(told[c].commands, x)

LEMMA CommandsTold ==
    ASSUME Roster, LinkInv, ToldType, [TheatreNext]_theatreVars
    PROVE  \/ ToldSame
           \/ \E s \in Scene : \E x \in Command : HandleCenterMessage(s) /\ ToldNew(s, x)
  <1>1. CASE told' = told
    BY <1>1 DEF ToldSame
  <1>2. ASSUME NEW c \in Client, Connect(c) PROVE ToldSame
    <2>1. told'[c].commands = << >> /\ \A d \in Client : d # c => told'[d] = told[d]
      BY <1>2, ToldConnect
    <2> QED
      BY <2>1 DEF ToldSame
  <1>3. ASSUME NEW c \in Client, Disconnect(c) PROVE ToldSame
    <2>1. told'[c].commands = << >> /\ \A d \in Client : d # c => told'[d].commands = told[d].commands
      BY <1>3, ToldDisconnect, NothingShown DEF SameElse
    <2> QED
      BY <2>1 DEF ToldSame
  <1>4. ASSUME NEW c \in Client, TellSeatNumber(c) \/ TellReady(c) PROVE ToldSame
    <2>1. told' = ShowSeat(SceneOf[c], SeatOf[c]) \/ told' = told
      BY <1>4 DEF TellSeatNumber, TellReady
    <2>2. SceneOf[c] \in Scene /\ SeatOf[c] \in Seat
      BY Clients
    <2>3. ASSUME NEW d \in Client PROVE told'[d].commands = told[d].commands
      <3>1. SameElse(ShowSeat(SceneOf[c], SeatOf[c])[d], told[d])
        BY <2>2, ShowSeatFacts
      <3> QED
        BY <2>1, <3>1 DEF SameElse
    <2> QED
      BY <2>3 DEF ToldSame
  <1>5. ASSUME NEW c \in Client, TellUserProfile(c) PROVE ToldSame
    BY <1>5, ToldProfile DEF ToldSame
  <1>6. ASSUME NEW s \in Scene, HandleCenterMessage(s)
        PROVE  ToldSame \/ \E x \in Command : ToldNew(s, x)
    <2> DEFINE m == Head(fromCenter[s])
    <2>1. /\ fromCenter[s] # << >>
          /\ fromCenter' = [fromCenter EXCEPT ![s] = Tail(fromCenter[s])]
      BY <1>6 DEF HandleCenterMessage
    <2>2. m \in Incoming(s)
      BY <2>1, HeadIncoming
    <2>3. told' = told \/ (m.kind # "req_usr_list" /\ PassOn(s, m))
      BY <1>6 DEF HandleCenterMessage, HandleRequest
    <2>4. m = fromCenter[s][1] /\ 1 \in DOMAIN fromCenter[s]
      BY <2>1, Taken DEF LinkInv
    <2>5. m.kind = "command" => m.command \in Command
      BY <2>4, AtTyped
    <2> HIDE DEF m
    <2>6. \A c \in Client : \/ told'[c].commands = told[c].commands
                            \/ /\ m.kind = "command" /\ c \in Present(s)
                               /\ told'[c].commands = Append(told[c].commands, m.command)
      BY <2>2, <2>3, ToldPassOn
    <2>7. \A c \in Client : c \in Present(s) => SceneOf[c] = s
      BY DEF Roster, RosterInv
    <2>8. CASE m.kind = "command"
      <3>1. At(fromCenter[s], 1, m.command)
        BY <2>4, <2>8 DEF At
      <3>2. ToldNew(s, m.command)
        BY <2>1, <2>6, <2>7, <3>1 DEF ToldNew
      <3> QED
        BY <2>5, <2>8, <3>2
    <2>9. CASE m.kind # "command"
      BY <2>6, <2>9 DEF ToldSame
    <2> QED
      BY <2>8, <2>9
  <1> QED
    BY <1>1, <1>2, <1>3, <1>4, <1>5, <1>6, NothingTold

-----------------------------------------------------------------------------
(* The one order of the commands. *)

\* The command x has still to be handled by the center; it has been handled.
Waiting(x) == \E s \in Scene : \E k \in Nat : At(toCenter[s], k, x)

Passed(x) ==
    \/ \E s \in Scene : \E k \in Nat : At(fromCenter[s], k, x)
    \/ \E c \in Client : \E i \in DOMAIN told[c].commands : told[c].commands[i] = x

\* A command is given once, is on its way to the center once, and reaches nobody
\* before the center has handled it.
FreshInv ==
    /\ \A x \in Command : Waiting(x) \/ Passed(x) => x \in issued
    /\ \A x \in Command : ~(Waiting(x) /\ Passed(x))
    /\ \A x \in Command : \A s, t \in Scene : \A j, k \in Nat :
         At(toCenter[s], j, x) /\ At(toCenter[t], k, x) => s = t /\ j = k

LEMMA PassedKept ==
    ASSUME Roster, LinkInv, ToldType, [TheatreNext]_theatreVars,
           \A s \in Scene : ~CenterHandle(s), NEW x \in Command, Passed(x)'
    PROVE  Passed(x)
  <1>1. CASE \E s \in Scene : \E k \in Nat : At(fromCenter'[s], k, x)
    <2>1. PICK s \in Scene, k \in Nat : At(fromCenter'[s], k, x)
      BY <1>1
    <2>2. PICK d \in {0, 1} : At(fromCenter[s], k + d, x)
      BY <2>1, CommandsIn DEF PartOf
    <2> QED
      BY <2>2 DEF Passed
  <1>2. ASSUME NEW c \in Client, NEW i \in DOMAIN told'[c].commands, told'[c].commands[i] = x
        PROVE  Passed(x)
    <2>1. CASE told'[c].commands = told[c].commands
      BY <1>2, <2>1 DEF Passed
    <2>2. CASE told'[c].commands = << >>
      BY <1>2, <2>2
    <2>3. ASSUME NEW s \in Scene, NEW y \in Command, At(fromCenter[s], 1, y),
                 told'[c].commands = Append(told[c].commands, y)
          PROVE  Passed(x)
      <3>1. told[c] \in View
        BY DEF ToldType
      <3>2. told[c].commands \in Seq(Command)
        BY <3>1, ViewFields
      <3>3. \/ i \in DOMAIN told[c].commands /\ x = told[c].commands[i]
            \/ x = y
        BY <1>2, <2>3, <3>2, AppendProperties, LenProperties
      <3> QED
        BY <2>3, <3>3 DEF Passed
    <2> QED
      BY <2>1, <2>2, <2>3, CommandsTold DEF ToldSame, ToldNew
  <1> QED
    BY <1>1, <1>2 DEF Passed

LEMMA OnceKept ==
    ASSUME FreshInv, \A s \in Scene : PartOf(toCenter'[s], toCenter[s]),
           NEW x \in Command, NEW s \in Scene, NEW t \in Scene, NEW j \in Nat, NEW k \in Nat,
           At(toCenter'[s], j, x), At(toCenter'[t], k, x)
    PROVE  s = t /\ j = k
  <1>1. PICK d \in {0, 1} : \A i \in Nat : \A y \in Command :
            At(toCenter'[s], i, y) => At(toCenter[s], i + d, y)
    BY DEF PartOf
  <1>2. PICK e \in {0, 1} : \A i \in Nat : \A y \in Command :
            At(toCenter'[t], i, y) => At(toCenter[t], i + e, y)
    BY DEF PartOf
  <1>3. At(toCenter[s], j + d, x) /\ At(toCenter[t], k + e, x)
    BY <1>1, <1>2
  <1>4. s = t
    BY <1>3 DEF FreshInv
  <1>5. At(toCenter[s], k + d, x)
    BY <1>1, <1>4
  <1>6. j + d \in Nat /\ k + d \in Nat
    OBVIOUS
  <1>7. j + d = k + d
    BY <1>3, <1>5, <1>6 DEF FreshInv
  <1> QED
    BY <1>4, <1>7

LEMMA FreshKept ==
    ASSUME FreshInv, \A s \in Scene : PartOf(toCenter'[s], toCenter[s]), issued \subseteq issued',
           \A x \in Command : Passed(x)' => Passed(x)
    PROVE  FreshInv'
  <1>1. \A x \in Command : Waiting(x)' => Waiting(x)
    <2> SUFFICES ASSUME NEW x \in Command, NEW s \in Scene, NEW k \in Nat, At(toCenter'[s], k, x)
                 PROVE  Waiting(x)
      BY DEF Waiting
    <2>1. PICK d \in {0, 1} : At(toCenter[s], k + d, x)
      BY DEF PartOf
    <2> QED
      BY <2>1 DEF Waiting
  <1>2. \A x \in Command : \A s, t \in Scene : \A j, k \in Nat :
          At(toCenter'[s], j, x) /\ At(toCenter'[t], k, x) => s = t /\ j = k
    BY OnceKept
  <1>3. /\ \A x \in Command : Waiting(x)' \/ Passed(x)' => x \in issued'
        /\ \A x \in Command : ~(Waiting(x)' /\ Passed(x)')
    BY <1>1 DEF FreshInv
  <1> QED
    BY <1>2, <1>3 DEF FreshInv

\* A new command is the last of its queue.
LEMMA FreshGiven ==
    ASSUME LinkInv, FreshInv, NEW c \in Client, NEW x \in Command, GlobalCommand(c, x),
           \A y \in Command : Passed(y)' => Passed(y)
    PROVE  FreshInv'
  <1> DEFINE t == SceneOf[c]
             m == [kind |-> "command", scene |-> t, command |-> x]
             q == toCenter[t]
  <1>1. x \notin issued /\ issued' = issued \cup {x} /\ SendToCenter(t, <<m>>) /\ t \in Scene
    BY Clients DEF GlobalCommand
  <1>2. CASE toCenter' = toCenter
    BY <1>1, <1>2, PartSame, FreshKept
  <1>3. CASE toCenter' = [toCenter EXCEPT ![t] = q \o <<m>>]
    <2>1. q \in Seq(Message) /\ m \in Message /\ toCenter \in [Scene -> Seq(Message)]
      BY <1>1 DEF LinkInv, Message
    <2>2. q \o <<m>> = Append(q, m)
      BY <2>1, AppendIsConcat
    <2>3. m.kind = "command" /\ m.command = x
      OBVIOUS
    <2> HIDE DEF m
    <2>4. toCenter'[t] = Append(q, m) /\ \A s \in Scene : s # t => toCenter'[s] = toCenter[s]
      BY <1>1, <1>3, <2>1, <2>2
    <2> HIDE DEF t
    <2>5. ASSUME NEW s \in Scene, NEW k \in Nat, NEW y \in Command, At(toCenter'[s], k, y)
          PROVE  \/ At(toCenter[s], k, y)
                 \/ s = t /\ k = Len(q) + 1 /\ y = x
      <3>1. CASE s # t
        BY <2>4, <2>5, <3>1
      <3>2. CASE s = t
        <4>1. At(Append(q, m), k, y) /\ q = toCenter[s]
          BY <2>4, <2>5, <3>2 DEF t
        <4> HIDE DEF q
        <4>2. At(q, k, y) \/ (k = Len(q) + 1 /\ m.command = y)
          BY <2>1, <4>1, AtAppend
        <4> QED
          BY <2>3, <3>2, <4>1, <4>2
      <3> QED
        BY <3>1, <3>2
    <2>6. ~Waiting(x) /\ ~Passed(x)
      BY <1>1 DEF FreshInv
    <2>7. \A s \in Scene : \A k \in Nat : ~At(toCenter[s], k, x)
      BY <2>6 DEF Waiting
    <2>8. \A y \in Command : Waiting(y)' => Waiting(y) \/ y = x
      BY <2>5 DEF Waiting
    <2>9. /\ \A y \in Command : Waiting(y)' \/ Passed(y)' => y \in issued'
          /\ \A y \in Command : ~(Waiting(y)' /\ Passed(y)')
      BY <1>1, <2>6, <2>8 DEF FreshInv
    <2>10. ASSUME NEW y \in Command, NEW s \in Scene, NEW u \in Scene, NEW j \in Nat, NEW k \in Nat,
                  At(toCenter'[s], j, y), At(toCenter'[u], k, y)
           PROVE  s = u /\ j = k
      <3>1. CASE y = x
        BY <2>5, <2>7, <2>10, <3>1
      <3>2. CASE y # x
        <4>1. At(toCenter[s], j, y) /\ At(toCenter[u], k, y)
          BY <2>5, <2>10, <3>2
        <4> QED
          BY <4>1 DEF FreshInv
      <3> QED
        BY <3>1, <3>2
    <2> QED
      BY <2>9, <2>10 DEF FreshInv
  <1> QED
    BY <1>1, <1>2, <1>3 DEF SendToCenter

\* What the center's handling of a command does: the command is sent to scenes
\* that had not had it and is not on its way any more.
Handled(x) ==
    /\ Waiting(x) /\ ~Waiting(x)' /\ told' = told /\ issued' = issued
    /\ \A s \in Scene : \A k \in Nat : \A y \in Command :
         At(fromCenter'[s], k, y) =>
            \/ At(fromCenter[s], k, y)
            \/ y = x /\ k = Len(fromCenter[s]) + 1

LEMMA CenterHandles ==
    ASSUME LinkInv, FreshInv, NEW s \in Scene, CenterHandle(s)
    PROVE  \/ \A t \in Scene : PartOf(fromCenter'[t], fromCenter[t])
           \/ \E x \in Command : Handled(x)
  <1> DEFINE m == Head(toCenter[s])
  <1>1. /\ toCenter[s] # << >> /\ toCenter' = [toCenter EXCEPT ![s] = Tail(toCenter[s])]
        /\ told' = told /\ issued' = issued
    BY DEF CenterHandle, clientVars
  <1>2. \/ m.kind \in {"connect", "disconnect"} /\ UNCHANGED fromCenter
        \/ m.kind = "command" /\ Forward(centerUsers, m)
        \/ m.kind # "command" /\ Forward(centerUsers \ {s}, m)
    BY DEF CenterHandle, ForwardCommand, ForwardMsg
  <1>3. /\ toCenter \in [Scene -> Seq(Message)] /\ fromCenter \in [Scene -> Seq(Message)]
        /\ centerUsers \in SUBSET Scene
    BY DEF LinkInv
  <1>4. /\ m \in Message /\ m = toCenter[s][1] /\ 1 \in DOMAIN toCenter[s]
        /\ \A k \in DOMAIN Tail(toCenter[s]) :
             k + 1 \in DOMAIN toCenter[s] /\ Tail(toCenter[s])[k] = toCenter[s][k + 1]
    BY <1>1, <1>3, Taken
  <1> HIDE DEF m
  <1>5. ASSUME NEW U \in SUBSET Scene, Forward(U, m), NEW t \in Scene, NEW k \in Nat,
               NEW y \in Command, At(fromCenter'[t], k, y)
        PROVE  \/ At(fromCenter[t], k, y)
               \/ k = Len(fromCenter[t]) + 1 /\ m.kind = "command" /\ m.command = y
    <2>1. fromCenter'[t] = Append(fromCenter[t], m) \/ fromCenter'[t] = fromCenter[t]
      BY <1>5 DEF Forward
    <2>2. fromCenter[t] \in Seq(Message)
      BY <1>3
    <2>3. CASE fromCenter'[t] = Append(fromCenter[t], m)
      <3>1. At(Append(fromCenter[t], m), k, y)
        BY <1>5, <2>3
      <3> QED
        BY <1>4, <2>2, <3>1, AtAppend
    <2> QED
      BY <1>5, <2>1, <2>3
  <1>6. CASE UNCHANGED fromCenter
    BY <1>6, PartSame
  <1>7. CASE m.kind # "command" /\ Forward(centerUsers \ {s}, m)
    <2>1. centerUsers \ {s} \in SUBSET Scene
      BY <1>3
    <2>2. \A t \in Scene : \A k \in Nat : \A y \in Command :
            At(fromCenter'[t], k, y) => At(fromCenter[t], k, y)
      BY <1>5, <1>7, <2>1
    <2>3. \A t \in Scene : \A k \in Nat : \A y \in Command :
            At(fromCenter'[t], k, y) => At(fromCenter[t], k + 0, y)
      BY <2>2
    <2> QED
      BY <2>3 DEF PartOf
  <1>8. CASE m.kind = "command" /\ Forward(centerUsers, m)
    <2> DEFINE x == m.command
    <2>1. x \in Command /\ At(toCenter[s], 1, x)
      BY <1>4, <1>8, AtTyped DEF At
    <2>2. Waiting(x)
      BY <2>1 DEF Waiting
    <2>3. ASSUME NEW t \in Scene, NEW k \in Nat, At(toCenter'[t], k, m.command) PROVE FALSE
      <3>1. CASE t = s
        <4>1. toCenter'[t] = Tail(toCenter[s])
          BY <1>1, <1>3, <3>1
        <4>2. k \in DOMAIN Tail(toCenter[s])
          BY <2>3, <4>1 DEF At
        <4>3. k # 0
          <5>1. Tail(toCenter[s]) \in Seq(Message)
            BY <1>1, <1>3, Taken
          <5> QED
            BY <4>2, <5>1, LenProperties
        <4>4. At(toCenter[s], k + 1, x)
          BY <1>4, <2>3, <4>1, <4>2 DEF At
        <4>5. k + 1 \in Nat /\ k + 1 # 1
          BY <4>3
        <4> HIDE DEF x
        <4> QED
          BY <2>1, <4>4, <4>5 DEF FreshInv
      <3>2. CASE t # s
        <4>1. At(toCenter[t], k, x)
          BY <1>1, <1>3, <2>3, <3>2
        <4> HIDE DEF x
        <4> QED
          BY <2>1, <3>2, <4>1 DEF FreshInv
      <3> QED
        BY <3>1, <3>2
    <2>4. ASSUME NEW y, y = x PROVE Handled(y)
      <3>1. ~Waiting(y)'
        BY <2>3, <2>4 DEF Waiting
      <3>2. \A t \in Scene : \A k \in Nat : \A z \in Command :
               At(fromCenter'[t], k, z) =>
                  \/ At(fromCenter[t], k, z)
                  \/ z = y /\ k = Len(fromCenter[t]) + 1
        BY <1>3, <1>5, <1>8, <2>4
      <3>3. Waiting(y)
        BY <2>2, <2>4
      <3> QED
        BY <1>1, <3>1, <3>2, <3>3 DEF Handled
    <2> HIDE DEF x
    <2> QED
      BY <2>1, <2>4
  <1> QED
    BY <1>2, <1>6, <1>7, <1>8

LEMMA FreshNext ==
    Roster /\ Roster' /\ LinkInv /\ ToldType /\ FreshInv /\ [TheatreNext]_theatreVars => FreshInv'
  <1> SUFFICES ASSUME Roster, Roster', LinkInv, ToldType, FreshInv, [TheatreNext]_theatreVars
               PROVE  FreshInv'
    OBVIOUS
  <1>1. issued \subseteq issued'
    BY DEF TheatreNext, SceneNext, theatreVars, sceneVars, clientVars, Connect, Disconnect,
           TellUserType, TellSeatNumber, TellUserProfile, TellReady, PresentFlowers,
           GlobalCommand, SeenExternal, HandleCenterMessage, CenterConnected, CenterLost,
           CenterHandle
  <1>2. ASSUME NEW c \in Client, NEW x \in Command, GlobalCommand(c, x) PROVE FreshInv'
    <2>1. told' = told /\ fromCenter' = fromCenter
      BY <1>2 DEF GlobalCommand
    <2>2. \A y \in Command : Passed(y)' => Passed(y)
      BY <2>1 DEF Passed
    <2> QED
      BY <1>2, <2>2, FreshGiven
  <1>3. CASE \A s \in Scene : PartOf(toCenter'[s], toCenter[s])
    <2>1. CASE \A s \in Scene : ~CenterHandle(s)
      BY <1>1, <1>3, <2>1, PassedKept, FreshKept
    <2>2. ASSUME NEW s \in Scene, CenterHandle(s),
                 \A t \in Scene : PartOf(fromCenter'[t], fromCenter[t])
          PROVE  FreshInv'
      <3>1. told' = told
        BY <2>2 DEF CenterHandle, clientVars
      <3>2. ASSUME NEW y \in Command, Passed(y)' PROVE Passed(y)
        <4>1. CASE \E t \in Scene : \E k \in Nat : At(fromCenter'[t], k, y)
          <5>1. PICK t \in Scene, k \in Nat : At(fromCenter'[t], k, y)
            BY <4>1
          <5>2. PICK d \in {0, 1} : At(fromCenter[t], k + d, y)
            BY <2>2, <5>1 DEF PartOf
          <5> QED
            BY <5>2 DEF Passed
        <4> QED
          BY <3>1, <3>2, <4>1 DEF Passed
      <3> QED
        BY <1>1, <1>3, <3>2, FreshKept
    <2>3. ASSUME NEW x \in Command, Handled(x) PROVE FreshInv'
      <3>1. ASSUME NEW y \in Command, Passed(y)' PROVE Passed(y) \/ y = x
        BY <2>3, <3>1 DEF Passed, Handled
      <3>2. ASSUME NEW y \in Command, Waiting(y)' PROVE Waiting(y) /\ y # x
        <4>1. PICK t \in Scene, k \in Nat : At(toCenter'[t], k, y)
          BY <3>2 DEF Waiting
        <4>2. PICK d \in {0, 1} : At(toCenter[t], k + d, y)
          BY <1>3, <4>1 DEF PartOf
        <4> QED
          BY <2>3, <3>2, <4>2 DEF Waiting, Handled
      <3>3. x \in issued /\ issued' = issued
        BY <2>3 DEF FreshInv, Handled
      <3>4. /\ \A y \in Command : Waiting(y)' \/ Passed(y)' => y \in issued'
            /\ \A y \in Command : ~(Waiting(y)' /\ Passed(y)')
        BY <3>1, <3>2, <3>3 DEF FreshInv
      <3>5. ASSUME NEW y \in Command, NEW s \in Scene, NEW t \in Scene, NEW j \in Nat,
                   NEW k \in Nat, At(toCenter'[s], j, y), At(toCenter'[t], k, y)
            PROVE  s = t /\ j = k
        BY <1>3, <3>5, OnceKept
      <3> QED
        BY <3>4, <3>5 DEF FreshInv
    <2> QED
      BY <2>1, <2>2, <2>3, CenterHandles
  <1> QED
    BY <1>2, <1>3, CommandsOut

LEMMA TheatreFresh == TheatreSpec => []FreshInv
  <1>1. TheatreInit => FreshInv
    <2> SUFFICES ASSUME TheatreInit PROVE FreshInv
      OBVIOUS
    <2>1. DOMAIN << >> = {}
      OBVIOUS
    <2>2. \A s \in Scene : toCenter[s] = << >> /\ fromCenter[s] = << >>
      BY DEF TheatreInit, Init
    <2>3. \A c \in Client : told[c].commands = << >>
      BY NothingShown DEF TheatreInit, Init
    <2>4. \A s \in Scene : \A k \in Nat : \A x \in Command :
            ~At(toCenter[s], k, x) /\ ~At(fromCenter[s], k, x)
      BY <2>1, <2>2 DEF At
    <2>5. \A x \in Command : ~Waiting(x) /\ ~Passed(x)
      BY <2>1, <2>3, <2>4 DEF Waiting, Passed
    <2> QED
      BY <2>4, <2>5 DEF FreshInv
  <1> QED
    BY <1>1, FreshNext, TheatreRoster, TheatreLinks, TheatreTold, PTL DEF TheatreSpec

\* The commands that clients have got and those still to come to their scenes go
\* up in rank: the order in which the center has handled them.
Ordered(rank) ==
    /\ \A c \in Client : \A i, j \in DOMAIN told[c].commands :
         i < j => rank[told[c].commands[i]] < rank[told[c].commands[j]]
    /\ \A s \in Scene : \A i, j \in Nat : \A x, y \in Command :
         i < j /\ At(fromCenter[s], i, x) /\ At(fromCenter[s], j, y) => rank[x] < rank[y]
    /\ \A c \in Client : \A i \in DOMAIN told[c].commands : \A j \in Nat : \A y \in Command :
         At(fromCenter[SceneOf[c]], j, y) => rank[told[c].commands[i]] < rank[y]

RankInv == \E n \in Nat : \E rank \in [Command -> 0 .. n] : Ordered(rank)

LEMMA CommandsTyped ==
    ASSUME ToldType, NEW c \in Client
    PROVE  /\ told[c].commands \in Seq(Command)
           /\ Len(told[c].commands) \in Nat
           /\ DOMAIN told[c].commands = 1 .. Len(told[c].commands)
           /\ \A i \in DOMAIN told[c].commands : told[c].commands[i] \in Command
  <1>1. told[c] \in View
    BY DEF ToldType
  <1>2. told[c].commands \in Seq(Command)
    BY <1>1, ViewFields
  <1> QED
    BY <1>2, LenProperties, ElementOfSeq

\* Ranks put commands into one order.
LEMMA RankedCommands ==
    ASSUME ToldType, RankInv
    PROVE  CommandsInOneOrder
  <1>1. PICK n \in Nat : \E rank \in [Command -> 0 .. n] : Ordered(rank)
    BY DEF RankInv
  <1>2. PICK rank \in [Command -> 0 .. n] : Ordered(rank)
    BY <1>1
  <1> SUFFICES ASSUME NEW c \in Client, NEW d \in Client,
                      NEW i \in DOMAIN told[c].commands, NEW j \in DOMAIN told[c].commands,
                      NEW k \in DOMAIN told[d].commands, NEW l \in DOMAIN told[d].commands,
                      i < j, told[c].commands[i] = told[d].commands[k],
                      told[c].commands[j] = told[d].commands[l]
               PROVE  k < l
    BY DEF CommandsInOneOrder
  <1> DEFINE a == rank[told[d].commands[k]]
             b == rank[told[d].commands[l]]
  <1>3. k \in Nat /\ l \in Nat /\ a \in Nat /\ b \in Nat
    <2>1. told[d].commands[k] \in Command /\ told[d].commands[l] \in Command
      BY CommandsTyped
    <2>2. k \in Nat /\ l \in Nat
      <3>1. Len(told[d].commands) \in Nat /\ DOMAIN told[d].commands = 1 .. Len(told[d].commands)
        BY CommandsTyped
      <3> QED
        BY <3>1
    <2> QED
      BY <2>1, <2>2
  <1>4. rank[told[c].commands[i]] < rank[told[c].commands[j]]
    BY <1>2 DEF Ordered
  <1>5. a < b
    BY <1>4
  <1>6. l < k => b < a
    BY <1>2 DEF Ordered
  <1>7. l = k => b = a
    OBVIOUS
  <1> HIDE DEF a, b
  <1> QED
    BY <1>3, <1>5, <1>6, <1>7

LEMMA OrderedKept ==
    ASSUME NEW n \in Nat, NEW rank \in [Command -> 0 .. n], Ordered(rank), ToldSame,
           \A s \in Scene : PartOf(fromCenter'[s], fromCenter[s])
    PROVE  Ordered(rank)'
  <1>1. ASSUME NEW c \in Client, NEW i \in DOMAIN told'[c].commands
        PROVE  told'[c].commands = told[c].commands
    <2>1. DOMAIN << >> = {}
      OBVIOUS
    <2> QED
      BY <2>1 DEF ToldSame
  <1>2. ASSUME NEW c \in Client, NEW i \in DOMAIN told'[c].commands,
               NEW j \in DOMAIN told'[c].commands, i < j
        PROVE  rank[told'[c].commands[i]] < rank[told'[c].commands[j]]
    BY <1>1, <1>2 DEF Ordered
  <1>3. ASSUME NEW s \in Scene, NEW i \in Nat, NEW j \in Nat, NEW x \in Command, NEW y \in Command,
               i < j, At(fromCenter'[s], i, x), At(fromCenter'[s], j, y)
        PROVE  rank[x] < rank[y]
    <2>1. PICK d \in {0, 1} : \A k \in Nat : \A z \in Command :
            At(fromCenter'[s], k, z) => At(fromCenter[s], k + d, z)
      BY DEF PartOf
    <2>2. At(fromCenter[s], i + d, x) /\ At(fromCenter[s], j + d, y)
      BY <1>3, <2>1
    <2>3. i + d \in Nat /\ j + d \in Nat /\ i + d < j + d
      BY <1>3
    <2> QED
      BY <2>2, <2>3 DEF Ordered
  <1>4. ASSUME NEW c \in Client, NEW i \in DOMAIN told'[c].commands, NEW j \in Nat,
               NEW y \in Command, At(fromCenter'[SceneOf[c]], j, y)
        PROVE  rank[told'[c].commands[i]] < rank[y]
    <2>1. SceneOf[c] \in Scene
      BY Clients
    <2>2. PICK d \in {0, 1} : At(fromCenter[SceneOf[c]], j + d, y)
      BY <1>4, <2>1 DEF PartOf
    <2>3. j + d \in Nat
      OBVIOUS
    <2> QED
      BY <1>1, <2>2, <2>3 DEF Ordered
  <1> QED
    BY <1>2, <1>3, <1>4 DEF Ordered

\* A command that is shown was the next to come, and has the highest rank shown.
LEMMA OrderedTold ==
    ASSUME LinkInv, ToldType, NEW n \in Nat, NEW rank \in [Command -> 0 .. n], Ordered(rank),
           NEW s \in Scene, NEW x \in Command, ToldNew(s, x), fromCenter[s] # << >>
    PROVE  Ordered(rank)'
  <1>1. fromCenter \in [Scene -> Seq(Message)] /\ fromCenter' = [fromCenter EXCEPT ![s] = Tail(fromCenter[s])]
        /\ At(fromCenter[s], 1, x)
    BY DEF LinkInv, ToldNew
  <1>2. \A k \in DOMAIN Tail(fromCenter[s]) :
            k + 1 \in DOMAIN fromCenter[s] /\ Tail(fromCenter[s])[k] = fromCenter[s][k + 1]
    BY <1>1, Taken
  <1>3. DOMAIN Tail(fromCenter[s]) \subseteq Nat \ {0}
    <2>1. Tail(fromCenter[s]) \in Seq(Message)
      BY <1>1, Taken
    <2> QED
      BY <2>1, LenProperties
  <1>4. ASSUME NEW t \in Scene, NEW k \in Nat, NEW y \in Command, At(fromCenter'[t], k, y)
        PROVE  IF t = s THEN k # 0 /\ At(fromCenter[s], k + 1, y) ELSE At(fromCenter[t], k, y)
    <2>1. CASE t = s
      <3>1. At(Tail(fromCenter[s]), k, y)
        BY <1>1, <1>4, <2>1
      <3> QED
        BY <1>2, <1>3, <2>1, <3>1 DEF At
    <2>2. CASE t # s
      BY <1>1, <1>4, <2>2
    <2> QED
      BY <2>1, <2>2
  <1>5. ASSUME NEW y \in Command, NEW k \in Nat, At(fromCenter'[s], k, y)
        PROVE  rank[x] < rank[y]
    <2>1. k # 0 /\ At(fromCenter[s], k + 1, y)
      BY <1>4, <1>5
    <2>2. 1 \in Nat /\ k + 1 \in Nat /\ 1 < k + 1
      BY <2>1
    <2> QED
      BY <1>1, <2>1, <2>2 DEF Ordered
  <1>6. ASSUME NEW c \in Client, NEW i \in DOMAIN told'[c].commands
        PROVE  \/ i \in DOMAIN told[c].commands /\ told'[c].commands[i] = told[c].commands[i]
               \/ /\ SceneOf[c] = s /\ told'[c].commands[i] = x
                  /\ \A j \in DOMAIN told'[c].commands : j # i => j < i /\ j \in DOMAIN told[c].commands
    <2> DEFINE q == told[c].commands
               m == Len(q)
    <2>1. q \in Seq(Command) /\ m \in Nat /\ DOMAIN q = 1 .. m
      BY CommandsTyped
    <2>2. CASE told'[c].commands = q
      BY <1>6, <2>2
    <2>3. CASE SceneOf[c] = s /\ told'[c].commands = Append(q, x)
      <3>1. /\ DOMAIN Append(q, x) = 1 .. m + 1 /\ Append(q, x)[m + 1] = x
            /\ \A j \in 1 .. m : Append(q, x)[j] = q[j]
        BY <2>1, AppendProperties, LenProperties
      <3> HIDE DEF q, m
      <3>2. i \in 1 .. m \/ i = m + 1
        BY <1>6, <2>1, <2>3, <3>1
      <3>3. \A j \in 1 .. m + 1 : j # m + 1 => j < m + 1 /\ j \in 1 .. m
        BY <2>1
      <3>4. CASE i \in 1 .. m
        <4>1. i \in DOMAIN q /\ told'[c].commands[i] = q[i]
          BY <2>1, <2>3, <3>1, <3>4
        <4> QED
          BY <4>1 DEF q
      <3>5. CASE i = m + 1
        <4>1. /\ told'[c].commands[i] = x
              /\ \A j \in DOMAIN told'[c].commands : j # i => j < i /\ j \in DOMAIN q
          BY <2>1, <2>3, <3>1, <3>3, <3>5
        <4> QED
          BY <2>3, <4>1 DEF q
      <3> QED
        BY <3>2, <3>4, <3>5
    <2> QED
      BY <2>2, <2>3 DEF ToldNew
  <1>7. ASSUME NEW c \in Client, SceneOf[c] = s, NEW j \in DOMAIN told[c].commands
        PROVE  rank[told[c].commands[j]] < rank[x]
    <2>1. At(fromCenter[SceneOf[c]], 1, x) /\ 1 \in Nat
      BY <1>1, <1>7
    <2> QED
      BY <2>1 DEF Ordered
  <1>8. ASSUME NEW c \in Client, NEW i \in DOMAIN told'[c].commands
        PROVE  i \in Nat
    <2>1. CASE told'[c].commands = told[c].commands
      BY <1>8, <2>1, CommandsTyped
    <2>2. CASE told'[c].commands = Append(told[c].commands, x)
      <3>1. told'[c].commands \in Seq(Command)
        BY <2>2, CommandsTyped, AppendProperties
      <3> QED
        BY <1>8, <3>1, LenProperties
    <2> QED
      BY <2>1, <2>2 DEF ToldNew
  <1>9. ASSUME NEW c \in Client, NEW i \in DOMAIN told'[c].commands,
               NEW j \in DOMAIN told'[c].commands, i < j
        PROVE  rank[told'[c].commands[i]] < rank[told'[c].commands[j]]
    <2>1. i \in Nat /\ j \in Nat /\ i # j /\ ~(j < i)
      BY <1>8, <1>9
    <2>2. i \in DOMAIN told[c].commands /\ told'[c].commands[i] = told[c].commands[i]
      BY <1>6, <2>1
    <2>3. CASE j \in DOMAIN told[c].commands /\ told'[c].commands[j] = told[c].commands[j]
      BY <1>9, <2>2, <2>3 DEF Ordered
    <2>4. CASE SceneOf[c] = s /\ told'[c].commands[j] = x
      BY <1>7, <2>2, <2>4
    <2> QED
      BY <1>6, <2>3, <2>4
  <1>10. ASSUME NEW t \in Scene, NEW i \in Nat, NEW j \in Nat, NEW y \in Command, NEW z \in Command,
                i < j, At(fromCenter'[t], i, y), At(fromCenter'[t], j, z)
         PROVE  rank[y] < rank[z]
    <2>1. CASE t = s
      <3>1. At(fromCenter[s], i + 1, y) /\ At(fromCenter[s], j + 1, z)
        BY <1>4, <1>10, <2>1
      <3>2. i + 1 \in Nat /\ j + 1 \in Nat /\ i + 1 < j + 1
        BY <1>10
      <3> QED
        BY <3>1, <3>2 DEF Ordered
    <2>2. CASE t # s
      <3>1. At(fromCenter[t], i, y) /\ At(fromCenter[t], j, z)
        BY <1>4, <1>10, <2>2
      <3> QED
        BY <1>10, <3>1 DEF Ordered
    <2> QED
      BY <2>1, <2>2
  <1>11. ASSUME NEW c \in Client, NEW i \in DOMAIN told'[c].commands, NEW j \in Nat,
                NEW y \in Command, At(fromCenter'[SceneOf[c]], j, y)
         PROVE  rank[told'[c].commands[i]] < rank[y]
    <2> DEFINE t == SceneOf[c]
    <2>1. t \in Scene
      BY Clients
    <2>2. CASE i \in DOMAIN told[c].commands /\ told'[c].commands[i] = told[c].commands[i]
      <3>1. CASE t = s
        <4>1. j + 1 \in Nat /\ At(fromCenter[t], j + 1, y)
          BY <1>4, <1>11, <2>1, <3>1
        <4> QED
          BY <2>2, <4>1 DEF Ordered
      <3>2. CASE t # s
        <4>1. At(fromCenter[t], j, y)
          BY <1>4, <1>11, <2>1, <3>2
        <4> QED
          BY <2>2, <4>1 DEF Ordered
      <3> QED
        BY <3>1, <3>2
    <2>3. CASE t = s /\ told'[c].commands[i] = x
      BY <1>5, <1>11, <2>3
    <2> QED
      BY <1>6, <2>2, <2>3
  <1> QED
    BY <1>9, <1>10, <1>11 DEF Ordered

\* A command the center has handled gets a rank above all others.
LEMMA OrderedHandled ==
    ASSUME LinkInv, ToldType, FreshInv, NEW n \in Nat, NEW rank \in [Command -> 0 .. n],
           Ordered(rank), NEW x \in Command, Handled(x)
    PROVE  RankInv'
  <1> DEFINE above == [rank EXCEPT ![x] = n + 1]
  <1>1. /\ above \in [Command -> 0 .. n + 1] /\ n + 1 \in Nat /\ above[x] = n + 1
        /\ \A y \in Command : y # x => above[y] = rank[y] /\ above[y] < above[x]
    OBVIOUS
  <1>2. ~Passed(x) /\ told' = told
    BY DEF FreshInv, Handled
  <1>3. \A c \in Client : \A i \in DOMAIN told[c].commands :
            told[c].commands[i] \in Command /\ told[c].commands[i] # x
    BY <1>2, CommandsTyped DEF Passed
  <1>4. \A s \in Scene : \A k \in Nat : ~At(fromCenter[s], k, x)
    BY <1>2 DEF Passed
  <1> HIDE DEF above
  <1>5. ASSUME NEW s \in Scene, NEW k \in Nat, NEW y \in Command, At(fromCenter'[s], k, y)
        PROVE  \/ At(fromCenter[s], k, y) /\ y # x
               \/ y = x /\ k = Len(fromCenter[s]) + 1
    BY <1>4, <1>5 DEF Handled
  <1>6. ASSUME NEW s \in Scene, NEW j \in Nat, NEW y \in Command, At(fromCenter[s], j, y)
        PROVE  j < Len(fromCenter[s]) + 1
    <2>1. fromCenter[s] \in Seq(Message)
      BY DEF LinkInv
    <2>2. Len(fromCenter[s]) \in Nat /\ DOMAIN fromCenter[s] = 1 .. Len(fromCenter[s])
      BY <2>1, LenProperties
    <2> QED
      BY <1>6, <2>2 DEF At
  <1>7. ASSUME NEW c \in Client, NEW i \in DOMAIN told'[c].commands,
               NEW j \in DOMAIN told'[c].commands, i < j
        PROVE  above[told'[c].commands[i]] < above[told'[c].commands[j]]
    <2>1. rank[told[c].commands[i]] < rank[told[c].commands[j]]
      BY <1>2, <1>7 DEF Ordered
    <2>2. /\ above[told[c].commands[i]] = rank[told[c].commands[i]]
          /\ above[told[c].commands[j]] = rank[told[c].commands[j]]
      BY <1>1, <1>2, <1>3, <1>7
    <2> QED
      BY <1>2, <2>1, <2>2
  <1>8. ASSUME NEW s \in Scene, NEW i \in Nat, NEW j \in Nat, NEW y \in Command, NEW z \in Command,
               i < j, At(fromCenter'[s], i, y), At(fromCenter'[s], j, z)
        PROVE  above[y] < above[z]
    <2>1. CASE z # x
      <3>1. At(fromCenter[s], j, z)
        BY <1>5, <1>8, <2>1
      <3>2. At(fromCenter[s], i, y) /\ y # x
        <4>1. i # Len(fromCenter[s]) + 1
          BY <1>8, <1>6, <3>1
        <4> QED
          BY <1>5, <1>8, <4>1
      <3>3. rank[y] < rank[z]
        BY <1>8, <3>1, <3>2 DEF Ordered
      <3> QED
        BY <1>1, <2>1, <3>2, <3>3
    <2>2. CASE z = x
      <3>1. y # x
        <4>1. j = Len(fromCenter[s]) + 1
          BY <1>5, <1>8, <2>2
        <4> QED
          BY <1>5, <1>8, <4>1
      <3> QED
        BY <1>1, <2>2, <3>1
    <2> QED
      BY <2>1, <2>2
  <1>9. ASSUME NEW c \in Client, NEW i \in DOMAIN told'[c].commands, NEW j \in Nat,
               NEW y \in Command, At(fromCenter'[SceneOf[c]], j, y)
        PROVE  above[told'[c].commands[i]] < above[y]
    <2>1. SceneOf[c] \in Scene
      BY Clients
    <2>2. told[c].commands[i] \in Command /\ told[c].commands[i] # x
      BY <1>2, <1>3, <1>9
    <2>3. CASE y # x
      <3>1. At(fromCenter[SceneOf[c]], j, y)
        BY <1>5, <1>9, <2>1, <2>3
      <3>2. rank[told[c].commands[i]] < rank[y]
        BY <1>2, <1>9, <3>1 DEF Ordered
      <3> QED
        BY <1>1, <1>2, <2>2, <2>3, <3>2
    <2>4. CASE y = x
      BY <1>1, <1>2, <2>2, <2>4
    <2> QED
      BY <2>3, <2>4
  <1>10. Ordered(above)'
    BY <1>7, <1>8, <1>9 DEF Ordered
  <1> QED
    BY <1>1, <1>10 DEF RankInv

LEMMA RankNext ==
    Roster /\ LinkInv /\ ToldType /\ FreshInv /\ RankInv /\ [TheatreNext]_theatreVars => RankInv'
  <1> SUFFICES ASSUME Roster, LinkInv, ToldType, FreshInv, RankInv, [TheatreNext]_theatreVars
               PROVE  RankInv'
    OBVIOUS
  <1>1. PICK n \in Nat : \E rank \in [Command -> 0 .. n] : Ordered(rank)
    BY DEF RankInv
  <1>2. PICK rank \in [Command -> 0 .. n] : Ordered(rank)
    BY <1>1
  <1>3. Ordered(rank)' => RankInv'
    BY DEF RankInv
  <1>4. ASSUME NEW s \in Scene, CenterHandle(s) PROVE RankInv'
    <2>1. ToldSame
      BY <1>4 DEF CenterHandle, clientVars, ToldSame
    <2>2. CASE \A t \in Scene : PartOf(fromCenter'[t], fromCenter[t])
      BY <1>2, <1>3, <2>1, <2>2, OrderedKept
    <2>3. ASSUME NEW x \in Command, Handled(x) PROVE RankInv'
      BY <1>2, <2>3, OrderedHandled
    <2> QED
      BY <1>4, <2>2, <2>3, CenterHandles
  <1>5. CASE \A s \in Scene : ~CenterHandle(s)
    <2>1. CASE ToldSame
      BY <1>2, <1>3, <1>5, <2>1, CommandsIn, OrderedKept
    <2>2. ASSUME NEW s \in Scene, NEW x \in Command, HandleCenterMessage(s), ToldNew(s, x)
          PROVE  RankInv'
      <3>1. fromCenter[s] # << >>
        BY <2>2 DEF HandleCenterMessage
      <3> QED
        BY <1>2, <1>3, <2>2, <3>1, OrderedTold
    <2> QED
      BY <2>1, <2>2, CommandsTold
  <1> QED
    BY <1>4, <1>5

\* Whatever is lost and whoever comes late, no two clients get two commands in
\* different orders.
THEOREM CommandsKeepOneOrder == TheatreSpec => []CommandsInOneOrder
  <1>1. TheatreInit => RankInv
    <2> SUFFICES ASSUME TheatreInit PROVE RankInv
      OBVIOUS
    <2>1. DOMAIN << >> = {} /\ \A s \in Scene : fromCenter[s] = << >>
      BY DEF TheatreInit, Init
    <2>2. \A c \in Client : told[c].commands = << >>
      BY NothingShown DEF TheatreInit, Init
    <2>3. \A s \in Scene : \A k \in Nat : \A x \in Command : ~At(fromCenter[s], k, x)
      BY <2>1 DEF At
    <2> DEFINE none == [x \in Command |-> 0]
    <2>4. none \in [Command -> 0 .. 0] /\ 0 \in Nat
      OBVIOUS
    <2> HIDE DEF none
    <2>5. Ordered(none)
      BY <2>1, <2>2, <2>3, Clients DEF Ordered
    <2> QED
      BY <2>4, <2>5 DEF RankInv
  <1> QED
    BY <1>1, RankNext, RankedCommands, TheatreRoster, TheatreLinks, TheatreTold, TheatreFresh,
       PTL DEF TheatreSpec

-----------------------------------------------------------------------------
(* What the clients of one scene are shown of another.  The invariant follows  *)
(* a seat from its own scene over the center to the clients elsewhere: a seat  *)
(* taken is shown or under way to be (CoverInv), a seat left is not shown or   *)
(* its leave message is under way, behind all that shows it (StaleInv), and of *)
(* a seat taken again the last that is under way is that it is (RenewedInv,    *)
(* ReturnInv).                                                                 *)

\* Message m tells of the players of scene s; of seat n in particular.
News(m, s) ==
    /\ m.scene = s
    /\ \/ m.kind \in {"client_list_external", "user_leave_external"}
       \/ m.kind = "upd_user_state" /\ m.state = "initial"

Lists(m, s) == m.kind = "client_list_external" /\ m.scene = s

Adds(m, s, n) ==
    /\ m.scene = s
    /\ \/ m.kind = "client_list_external" /\ n \in m.seats
       \/ m.kind = "upd_user_state" /\ m.state = "initial" /\ m.seat = n

Leaves(m, s, n) == m.kind = "user_leave_external" /\ m.scene = s /\ m.seat = n

Asks(m, s) == m.kind = "req_usr_list" /\ m.scene = s

Added(q, s, n) == \E m \in Members(q) : Adds(m, s, n)
Left(q, s, n) == \E m \in Members(q) : Leaves(m, s, n)
Requested(q, s) == \E m \in Members(q) : Asks(m, s)

\* Who adds the seat n is followed by who takes it away.
Ended(q, s, n) ==
    \A k \in DOMAIN q : Adds(q[k], s, n) => \E l \in DOMAIN q : k < l /\ Leaves(q[l], s, n)

\* A list without the seat n, or a message that it is left.
Omits(m, s, n) == (Lists(m, s) /\ n \notin m.seats) \/ Leaves(m, s, n)

\* Behind such a message there is one that adds the seat.
Renewed(q, s, n) ==
    \A k \in DOMAIN q : Omits(q[k], s, n) => \E l \in DOMAIN q : k < l /\ Adds(q[l], s, n)

GhostType ==
    /\ missed \in [Scene -> BOOLEAN]
    /\ asked \subseteq Client
    /\ \A c \in asked : "connect" \in said[c] /\ link[SceneOf[c]] # "connecting"

\* A scene that is not visible, or was never connected, is unknown to others.
UnseenInv ==
    \A s \in Scene :
        ~user_visible_flag[s] \/ link[s] = "connecting" =>
            /\ \A m \in Members(toCenter[s]) : ~News(m, s)
            /\ \A t \in Scene : \A m \in Members(fromCenter[t]) : ~News(m, s)
            /\ \A c \in Client : told[c].external[s] = {}

\* A scene the center does not know yet knows nothing of others.
UnheardInv ==
    \A t \in Scene :
        link[t] # "down" /\ t \notin centerUsers =>
            /\ fromCenter[t] = << >>
            /\ \A c \in Present(t) : \A s \in Scene : told[c].external[s] = {}

\* No seat is shown, or about to be, without its leave message behind it, unless
\* it is taken.
StaleInv ==
    \A s \in Scene : \A n :
        link[s] = "up" /\ n \notin ClientList(s) =>
            /\ Ended(toCenter[s], s, n)
            /\ \A t \in Scene :
                 t # s /\ link[t] = "up" /\ ~Left(toCenter[s], s, n) =>
                    /\ Ended(fromCenter[t], s, n)
                    /\ \/ Left(fromCenter[t], s, n)
                       \/ \A c \in Present(t) : n \notin told[c].external[s]

\* Behind every list and every leave message on its way to the center there is
\* what was added since.
RenewedInv ==
    \A s \in Scene : \A n \in ClientList(s) :
        link[s] = "up" => Renewed(toCenter[s], s, n)

\* Behind those on their way to another scene, too, if it is not still on its way
\* to the center: a seat whose chair has left and come back.
ReturnInv ==
    \A s, t \in Scene : \A n \in ClientList(s) :
        /\ s # t /\ link[s] = "up" /\ link[t] = "up"
        /\ ~Added(toCenter[s], s, n)
        => Renewed(fromCenter[t], s, n)

\* Of a visible scene that has missed nothing, the center has still to get all
\* that is to be known, until it knows the scene.
OwedInv ==
    \A s \in Scene : user_visible_flag[s] /\ ~missed[s] =>
        /\ link[s] # "connecting"
        /\ link[s] = "up" /\ s \notin centerUsers =>
             \A n \in ClientList(s) : Added(toCenter[s], s, n)

\* A seat taken is shown to the clients who were there when their scene asked, or
\* will be: by a message under way, or in answer to a request under way.
Covered(c, t, s, n) ==
    \/ n \in told[c].external[s]
    \/ Added(fromCenter[t], s, n) \/ Added(toCenter[s], s, n)
    \/ Requested(fromCenter[s], t) \/ Requested(toCenter[t], t)

CoverInv ==
    \A s, t \in Scene :
        /\ s # t /\ link[s] = "up" /\ link[t] = "up"
        /\ user_visible_flag[s] /\ ~missed[s]
        => \A c \in Present(t) \cap asked : \A n \in ClientList(s) : Covered(c, t, s, n)

LEMMA MembersConcat ==
    ASSUME NEW S, NEW q \in Seq(S), NEW r \in Seq(S)
    PROVE  Members(q \o r) = Members(q) \cup Members(r)
  <1>1. /\ Len(q \o r) = Len(q) + Len(r) /\ q \o r \in Seq(S)
        /\ \A k \in 1 .. Len(q) + Len(r) :
             (q \o r)[k] = IF k <= Len(q) THEN q[k] ELSE r[k - Len(q)]
    BY ConcatProperties
  <1>2. /\ Len(q) \in Nat /\ Len(r) \in Nat /\ DOMAIN q = 1 .. Len(q) /\ DOMAIN r = 1 .. Len(r)
        /\ DOMAIN (q \o r) = 1 .. Len(q) + Len(r)
    BY <1>1, LenProperties
  <1>3. Members(q \o r) \subseteq Members(q) \cup Members(r)
    BY Sent DEF Members
  <1>4. \A k \in DOMAIN q : k \in DOMAIN (q \o r) /\ (q \o r)[k] = q[k]
    BY <1>1, <1>2
  <1>5. \A k \in DOMAIN r : k + Len(q) \in DOMAIN (q \o r) /\ (q \o r)[k + Len(q)] = r[k]
    BY <1>1, <1>2
  <1>6. Members(q) \subseteq Members(q \o r)
    <2> SUFFICES ASSUME NEW k \in DOMAIN q PROVE q[k] \in Members(q \o r)
      BY DEF Members
    <2> QED
      BY <1>4 DEF Members
  <1>7. Members(r) \subseteq Members(q \o r)
    <2> SUFFICES ASSUME NEW k \in DOMAIN r PROVE r[k] \in Members(q \o r)
      BY DEF Members
    <2> QED
      BY <1>5 DEF Members
  <1> QED
    BY <1>3, <1>6, <1>7

\* Where the messages of two queues are, once one is behind the other.
LEMMA Behind ==
    ASSUME NEW S, NEW q \in Seq(S), NEW r \in Seq(S)
    PROVE  /\ \A k \in DOMAIN q : k \in DOMAIN (q \o r) /\ (q \o r)[k] = q[k]
           /\ \A m \in Members(r) : \E l \in DOMAIN (q \o r) :
                (q \o r)[l] = m /\ \A k \in DOMAIN q : k < l
           /\ \A k \in DOMAIN (q \o r) : \/ k \in DOMAIN q /\ (q \o r)[k] = q[k]
                                         \/ (q \o r)[k] \in Members(r)
  <1>1. /\ Len(q \o r) = Len(q) + Len(r) /\ q \o r \in Seq(S)
        /\ \A k \in 1 .. Len(q) + Len(r) :
             (q \o r)[k] = IF k <= Len(q) THEN q[k] ELSE r[k - Len(q)]
    BY ConcatProperties
  <1>2. /\ Len(q) \in Nat /\ Len(r) \in Nat /\ DOMAIN q = 1 .. Len(q) /\ DOMAIN r = 1 .. Len(r)
        /\ DOMAIN (q \o r) = 1 .. Len(q) + Len(r)
    BY <1>1, LenProperties
  <1>3. \A k \in DOMAIN q : k \in DOMAIN (q \o r) /\ (q \o r)[k] = q[k]
    BY <1>1, <1>2
  <1>4. ASSUME NEW m \in Members(r)
        PROVE  \E l \in DOMAIN (q \o r) : (q \o r)[l] = m /\ \A k \in DOMAIN q : k < l
    <2>1. PICK j \in DOMAIN r : r[j] = m
      BY DEF Members
    <2>2. j + Len(q) \in DOMAIN (q \o r) /\ (q \o r)[j + Len(q)] = m
          /\ \A k \in DOMAIN q : k < j + Len(q)
      BY <1>1, <1>2, <2>1
    <2> QED
      BY <2>2
  <1>5. \A k \in DOMAIN (q \o r) : \/ k \in DOMAIN q /\ (q \o r)[k] = q[k]
                                   \/ (q \o r)[k] \in Members(r)
    BY Sent DEF Members
  <1> QED
    BY <1>3, <1>4, <1>5

LEMMA EndedConcat ==
    ASSUME NEW S, NEW q \in Seq(S), NEW r \in Seq(S), NEW s, NEW n,
           ~Added(r, s, n), Ended(q, s, n) \/ Left(r, s, n)
    PROVE  Ended(q \o r, s, n)
  <1> DEFINE p == q \o r
  <1>1. /\ \A k \in DOMAIN q : k \in DOMAIN p /\ p[k] = q[k]
        /\ \A m \in Members(r) : \E l \in DOMAIN p : p[l] = m /\ \A k \in DOMAIN q : k < l
        /\ \A k \in DOMAIN p : (k \in DOMAIN q /\ p[k] = q[k]) \/ p[k] \in Members(r)
    BY Behind
  <1> HIDE DEF p
  <1>2. ASSUME NEW k \in DOMAIN p, Adds(p[k], s, n)
        PROVE  \E l \in DOMAIN p : k < l /\ Leaves(p[l], s, n)
    <2>1. k \in DOMAIN q /\ p[k] = q[k]
      BY <1>1, <1>2 DEF Added
    <2>2. CASE Ended(q, s, n)
      BY <1>1, <1>2, <2>1, <2>2 DEF Ended
    <2>3. CASE Left(r, s, n)
      BY <1>1, <2>1, <2>3 DEF Left
    <2> QED
      BY <2>2, <2>3
  <1>3. Ended(p, s, n)
    BY <1>2 DEF Ended
  <1> QED
    BY <1>3 DEF p

LEMMA RenewedConcat ==
    ASSUME NEW S, NEW q \in Seq(S), NEW r \in Seq(S), NEW s, NEW n,
           \A m \in Members(r) : ~Omits(m, s, n),
           Renewed(q, s, n) \/ Added(r, s, n)
    PROVE  Renewed(q \o r, s, n)
  <1> DEFINE p == q \o r
  <1>1. /\ \A k \in DOMAIN q : k \in DOMAIN p /\ p[k] = q[k]
        /\ \A m \in Members(r) : \E l \in DOMAIN p : p[l] = m /\ \A k \in DOMAIN q : k < l
        /\ \A k \in DOMAIN p : (k \in DOMAIN q /\ p[k] = q[k]) \/ p[k] \in Members(r)
    BY Behind
  <1> HIDE DEF p
  <1>2. ASSUME NEW k \in DOMAIN p, Omits(p[k], s, n)
        PROVE  \E l \in DOMAIN p : k < l /\ Adds(p[l], s, n)
    <2>1. k \in DOMAIN q /\ p[k] = q[k]
      BY <1>1, <1>2
    <2>2. CASE Renewed(q, s, n)
      BY <1>1, <1>2, <2>1, <2>2 DEF Renewed
    <2>3. CASE Added(r, s, n)
      BY <1>1, <2>1, <2>3 DEF Added
    <2> QED
      BY <2>2, <2>3
  <1>3. Renewed(p, s, n)
    BY <1>2 DEF Renewed
  <1> QED
    BY <1>3 DEF p

LEMMA OneMember ==
    ASSUME NEW S, NEW q \in Seq(S), NEW m \in S
    PROVE  Append(q, m) = q \o <<m>> /\ Members(<<m>>) = {m} /\ <<m>> \in Seq(S)
  <1>1. DOMAIN <<m>> = {1} /\ <<m>>[1] = m
    OBVIOUS
  <1>2. Members(<<m>>) = {m}
    BY <1>1 DEF Members
  <1> QED
    BY <1>2, AppendIsConcat, OneMessage

\* What the first message of a queue leaves behind.
LEMMA FirstTaken ==
    ASSUME NEW S, NEW q \in Seq(S), q # << >>
    PROVE  /\ Members(q) = {Head(q)} \cup Members(Tail(q))
           /\ \A s, n :
                /\ Ended(q, s, n) =>
                     Ended(Tail(q), s, n) /\ (Adds(Head(q), s, n) => Left(Tail(q), s, n))
                /\ Renewed(q, s, n) =>
                     Renewed(Tail(q), s, n) /\ (Omits(Head(q), s, n) => Added(Tail(q), s, n))
  <1> DEFINE h == Head(q)
             r == Tail(q)
  <1>1. /\ r \in Seq(S) /\ Len(r) = Len(q) - 1 /\ h = q[1]
        /\ \A k \in 1 .. Len(r) : r[k] = q[k + 1]
    BY HeadTailProperties, Taken
  <1>2. /\ Len(q) \in Nat \ {0} /\ DOMAIN q = 1 .. Len(q) /\ DOMAIN r = 1 .. Len(q) - 1
    BY <1>1, EmptySeq, LenProperties
  <1> HIDE DEF h, r
  <1>3. /\ \A k \in DOMAIN r : k + 1 \in DOMAIN q /\ q[k + 1] = r[k] /\ 1 < k + 1 /\ k \in Nat
        /\ \A k \in DOMAIN q : k \in Nat /\ (k # 1 => k - 1 \in DOMAIN r /\ q[k] = r[k - 1])
        /\ 1 \in DOMAIN q /\ q[1] = h
    BY <1>1, <1>2
  <1>4. Members(q) = {h} \cup Members(r)
    BY <1>3 DEF Members
  <1>5. ASSUME NEW s, NEW n, Ended(q, s, n)
        PROVE  Ended(r, s, n) /\ (Adds(h, s, n) => Left(r, s, n))
    <2>1. ASSUME NEW k \in DOMAIN r, Adds(r[k], s, n)
          PROVE  \E l \in DOMAIN r : k < l /\ Leaves(r[l], s, n)
      <3>1. PICK l \in DOMAIN q : k + 1 < l /\ Leaves(q[l], s, n)
        BY <1>3, <1>5, <2>1 DEF Ended
      <3>2. l # 1 /\ k < l - 1
        BY <1>3, <3>1
      <3> QED
        BY <1>3, <3>1, <3>2
    <2>2. ASSUME Adds(h, s, n) PROVE Left(r, s, n)
      <3>1. PICK l \in DOMAIN q : 1 < l /\ Leaves(q[l], s, n)
        BY <1>3, <1>5, <2>2 DEF Ended
      <3>2. l - 1 \in DOMAIN r /\ q[l] = r[l - 1]
        BY <1>3, <3>1
      <3>3. r[l - 1] \in Members(r)
        BY <3>2 DEF Members
      <3> QED
        BY <3>1, <3>2, <3>3 DEF Left
    <2> QED
      BY <2>1, <2>2 DEF Ended
  <1>6. ASSUME NEW s, NEW n, Renewed(q, s, n)
        PROVE  Renewed(r, s, n) /\ (Omits(h, s, n) => Added(r, s, n))
    <2>1. ASSUME NEW k \in DOMAIN r, Omits(r[k], s, n)
          PROVE  \E l \in DOMAIN r : k < l /\ Adds(r[l], s, n)
      <3>1. PICK l \in DOMAIN q : k + 1 < l /\ Adds(q[l], s, n)
        BY <1>3, <1>6, <2>1 DEF Renewed
      <3>2. l # 1 /\ k < l - 1
        BY <1>3, <3>1
      <3> QED
        BY <1>3, <3>1, <3>2
    <2>2. ASSUME Omits(h, s, n) PROVE Added(r, s, n)
      <3>1. PICK l \in DOMAIN q : 1 < l /\ Adds(q[l], s, n)
        BY <1>3, <1>6, <2>2 DEF Renewed
      <3>2. l - 1 \in DOMAIN r /\ q[l] = r[l - 1]
        BY <1>3, <3>1
      <3>3. r[l - 1] \in Members(r)
        BY <3>2 DEF Members
      <3> QED
        BY <3>1, <3>2, <3>3 DEF Added
    <2> QED
      BY <2>1, <2>2 DEF Renewed
  <1> QED
    BY <1>4, <1>5, <1>6 DEF h, r

LEMMA NewsFacts ==
    /\ \A m, s, n : Adds(m, s, n) => News(m, s) /\ ~Leaves(m, s, n) /\ ~Asks(m, s)
    /\ \A m, s, n : Adds(m, s, n) => ~Omits(m, s, n)
    /\ \A m, s, n : Lists(m, s) \/ Leaves(m, s, n) \/ Omits(m, s, n) => News(m, s)
    /\ \A m, s, t, n : Asks(m, t) => ~Adds(m, s, n) /\ ~Leaves(m, s, n) /\ ~News(m, s)
    /\ \A m, s, t, n : Leaves(m, t, n) => ~Asks(m, s)
    /\ \A m, s, n : m.kind = "req_usr_list" => ~Adds(m, s, n) /\ ~Leaves(m, s, n) /\ ~News(m, s)
    /\ \A m, s, n : m.kind \in {"connect", "disconnect", "command"} =>
         ~Adds(m, s, n) /\ ~Leaves(m, s, n) /\ ~Asks(m, s) /\ ~News(m, s) /\ ~Lists(m, s)
  BY DEF Adds, News, Leaves, Asks, Lists, Omits

LEMMA ConcatFacts ==
    ASSUME NEW S, NEW q \in Seq(S), NEW r \in Seq(S)
    PROVE  /\ \A s, n : Left(q \o r, s, n) <=> Left(q, s, n) \/ Left(r, s, n)
           /\ \A s, n : Added(q \o r, s, n) <=> Added(q, s, n) \/ Added(r, s, n)
           /\ \A s : Requested(q \o r, s) <=> Requested(q, s) \/ Requested(r, s)
  BY MembersConcat DEF Left, Added, Requested

LEMMA HeadFacts ==
    ASSUME NEW S, NEW q \in Seq(S), q # << >>
    PROVE  /\ \A s, n : Left(q, s, n) <=> Leaves(Head(q), s, n) \/ Left(Tail(q), s, n)
           /\ \A s, n : Added(q, s, n) <=> Adds(Head(q), s, n) \/ Added(Tail(q), s, n)
           /\ \A s : Requested(q, s) <=> Asks(Head(q), s) \/ Requested(Tail(q), s)
  <1>1. Members(q) = {Head(q)} \cup Members(Tail(q))
    BY FirstTaken
  <1> QED
    BY <1>1 DEF Left, Added, Requested

LEMMA NothingSaid ==
    ASSUME NEW s, NEW n
    PROVE  /\ Members(<< >>) = {}
           /\ ~Left(<< >>, s, n) /\ ~Added(<< >>, s, n) /\ ~Requested(<< >>, s)
           /\ Ended(<< >>, s, n) /\ Renewed(<< >>, s, n)
  BY DEF Members, Left, Added, Requested, Ended, Renewed

\* A queue without news of a scene.
LEMMA NoNews ==
    ASSUME NEW q, NEW s, \A m \in Members(q) : ~News(m, s)
    PROVE  \A n : ~Added(q, s, n) /\ Ended(q, s, n) /\ Renewed(q, s, n)
  <1>1. \A k \in DOMAIN q : ~News(q[k], s)
    BY DEF Members
  <1> QED
    BY <1>1, NewsFacts DEF Added, Ended, Renewed

-----------------------------------------------------------------------------
(* A turn of the main loop of scene s that sends r and passes nothing on. *)

TurnLinks(s, r) ==
    /\ UNCHANGED <<link, centerUsers>>
    /\ missed' \in [Scene -> BOOLEAN]
    /\ \A t \in Scene : toCenter'[t] = IF t = s /\ link[s] = "up" THEN toCenter[s] \o r
                                       ELSE toCenter[t]
    /\ \A t \in Scene : missed'[t] <=> missed[t] \/ (t = s /\ link[s] # "up" /\ r # << >>)
    /\ \A t \in Scene : t # s => fromCenter'[t] = fromCenter[t]
    /\ \/ fromCenter'[s] = fromCenter[s]
       \/ /\ fromCenter[s] # << >> /\ Head(fromCenter[s]).kind = "req_usr_list"
          /\ fromCenter'[s] = Tail(fromCenter[s])
          /\ \A n \in ClientList(s)' : Added(r, s, n)

TurnSays(s, r) ==
    /\ \A t \in Scene : user_visible_flag[t] => user_visible_flag'[t]
    /\ \A t \in Scene : t # s => user_visible_flag'[t] = user_visible_flag[t]
                                 /\ ClientList(t)' = ClientList(t)
    /\ \A m \in Members(r) : News(m, s) => user_visible_flag'[s]
    /\ \A m \in Members(r) : Lists(m, s) => m.seats = ClientList(s)'
    /\ \A n : Added(r, s, n) => n \in ClientList(s)'
    /\ \A n \in ClientList(s)' : ~Left(r, s, n)
    /\ user_visible_flag'[s] =>
         \A n \in ClientList(s)' : (user_visible_flag[s] /\ n \in ClientList(s)) \/ Added(r, s, n)
    /\ user_visible_flag[s] => \A n \in ClientList(s) \ ClientList(s)' : Left(r, s, n)
    /\ user_visible_flag'[s] /\ ~user_visible_flag[s] => r # << >> \/ fromCenter[s] # << >>

TurnShows(s, r) ==
    /\ \A c \in Client : \A t \in Scene : told'[c].external[t] \in {told[c].external[t], {}}
    /\ \A t \in Scene : t # s => Present(t)' = Present(t)
    /\ \A t \in Scene : \A c \in Present(t)' :
         \/ c \in Present(t) /\ \A u \in Scene : told'[c].external[u] = told[c].external[u]
         \/ c \notin asked' /\ \A u \in Scene : told'[c].external[u] = {}
    /\ asked \subseteq asked'
    /\ \A c \in asked' \ asked : c \in Present(s) /\ link[s] = "up" /\ Requested(r, s)
    /\ \A c \in Client : "connect" \in said[c] => "connect" \in said'[c]

Turn(s, r) ==
    /\ r \in Seq(Outgoing(s))
    /\ TurnLinks(s, r) /\ TurnSays(s, r) /\ TurnShows(s, r)

\* What a turn leaves in the queues.
LEMMA TurnQueues ==
    ASSUME LinkInv, NEW s \in Scene, NEW r, Turn(s, r)
    PROVE  /\ \A t \in Scene : \A u, n :
                /\ Left(toCenter'[t], u, n) <=>
                     Left(toCenter[t], u, n) \/ (t = s /\ link[s] = "up" /\ Left(r, u, n))
                /\ Added(toCenter'[t], u, n) <=>
                     Added(toCenter[t], u, n) \/ (t = s /\ link[s] = "up" /\ Added(r, u, n))
                /\ Requested(toCenter'[t], u) <=>
                     Requested(toCenter[t], u) \/ (t = s /\ link[s] = "up" /\ Requested(r, u))
           /\ \A t \in Scene : \A u, n :
                /\ Left(fromCenter'[t], u, n) <=> Left(fromCenter[t], u, n)
                /\ Added(fromCenter'[t], u, n) <=> Added(fromCenter[t], u, n)
                /\ Ended(fromCenter[t], u, n) => Ended(fromCenter'[t], u, n)
                /\ Renewed(fromCenter[t], u, n) => Renewed(fromCenter'[t], u, n)
                /\ Requested(fromCenter'[t], u) => Requested(fromCenter[t], u)
                /\ Requested(fromCenter[t], u) =>
                     \/ Requested(fromCenter'[t], u)
                     \/ t = s /\ \A i \in ClientList(s)' : Added(r, s, i)
           /\ \A t \in Scene : Members(fromCenter'[t]) \subseteq Members(fromCenter[t])
  <1>1. toCenter[s] \in Seq(Outgoing(s)) /\ r \in Seq(Outgoing(s))
    BY DEF LinkInv, OutInv, Turn
  <1>2. \A t \in Scene : t # s \/ link[s] # "up" => toCenter'[t] = toCenter[t]
    BY DEF Turn, TurnLinks
  <1>3. link[s] = "up" => toCenter'[s] = toCenter[s] \o r
    BY DEF Turn, TurnLinks
  <1>4. /\ \A u, n : Left(toCenter[s] \o r, u, n) <=> Left(toCenter[s], u, n) \/ Left(r, u, n)
        /\ \A u, n : Added(toCenter[s] \o r, u, n) <=> Added(toCenter[s], u, n) \/ Added(r, u, n)
        /\ \A u : Requested(toCenter[s] \o r, u) <=> Requested(toCenter[s], u) \/ Requested(r, u)
    BY <1>1, ConcatFacts
  <1>5. ASSUME NEW t \in Scene, NEW u, NEW n
        PROVE  /\ Left(toCenter'[t], u, n) <=>
                     Left(toCenter[t], u, n) \/ (t = s /\ link[s] = "up" /\ Left(r, u, n))
               /\ Added(toCenter'[t], u, n) <=>
                     Added(toCenter[t], u, n) \/ (t = s /\ link[s] = "up" /\ Added(r, u, n))
               /\ Requested(toCenter'[t], u) <=>
                     Requested(toCenter[t], u) \/ (t = s /\ link[s] = "up" /\ Requested(r, u))
    <2>1. CASE t # s \/ link[s] # "up"
      BY <1>2, <2>1
    <2>2. CASE t = s /\ link[s] = "up"
      BY <1>3, <1>4, <2>2
    <2> QED
      BY <2>1, <2>2
  <1>6. ASSUME NEW t \in Scene, fromCenter'[t] # fromCenter[t]
        PROVE  /\ t = s /\ fromCenter[t] \in Seq(Incoming(t)) /\ fromCenter[t] # << >>
               /\ Head(fromCenter[t]).kind = "req_usr_list" /\ fromCenter'[t] = Tail(fromCenter[t])
               /\ \A n \in ClientList(s)' : Added(r, s, n)
    BY <1>6 DEF Turn, TurnLinks, LinkInv
  <1>7. ASSUME NEW t \in Scene, NEW u, NEW n
        PROVE  /\ Left(fromCenter'[t], u, n) <=> Left(fromCenter[t], u, n)
               /\ Added(fromCenter'[t], u, n) <=> Added(fromCenter[t], u, n)
               /\ Ended(fromCenter[t], u, n) => Ended(fromCenter'[t], u, n)
               /\ Renewed(fromCenter[t], u, n) => Renewed(fromCenter'[t], u, n)
               /\ Requested(fromCenter'[t], u) => Requested(fromCenter[t], u)
               /\ Requested(fromCenter[t], u) =>
                     \/ Requested(fromCenter'[t], u)
                     \/ t = s /\ \A i \in ClientList(s)' : Added(r, s, i)
               /\ Members(fromCenter'[t]) \subseteq Members(fromCenter[t])
    <2>1. CASE fromCenter'[t] = fromCenter[t]
      BY <2>1
    <2>2. CASE fromCenter'[t] # fromCenter[t]
      <3> DEFINE q == fromCenter[t]
      <3>1. /\ Left(q, u, n) <=> Leaves(Head(q), u, n) \/ Left(Tail(q), u, n)
            /\ Added(q, u, n) <=> Adds(Head(q), u, n) \/ Added(Tail(q), u, n)
            /\ Requested(q, u) <=> Asks(Head(q), u) \/ Requested(Tail(q), u)
        BY <1>6, <2>2, HeadFacts
      <3>2. /\ Members(Tail(q)) \subseteq Members(q)
            /\ Ended(q, u, n) => Ended(Tail(q), u, n)
            /\ Renewed(q, u, n) => Renewed(Tail(q), u, n)
        BY <1>6, <2>2, FirstTaken
      <3>3. ~Adds(Head(q), u, n) /\ ~Leaves(Head(q), u, n)
        BY <1>6, <2>2, NewsFacts
      <3> QED
        BY <1>6, <2>2, <3>1, <3>2, <3>3
    <2> QED
      BY <2>1, <2>2
  <1> QED
    BY <1>5, <1>7

LEMMA AskedTurn ==
    ASSUME Roster, GhostType, NEW s \in Scene, NEW r, Turn(s, r)
    PROVE  GhostType'
  <1>1. missed' \in [Scene -> BOOLEAN] /\ link' = link
    BY DEF Turn, TurnLinks
  <1>2. ASSUME NEW c \in asked'
        PROVE  c \in Client /\ "connect" \in said[c] /\ link[SceneOf[c]] # "connecting"
    <2>1. CASE c \in asked
      BY <2>1 DEF GhostType
    <2>2. CASE c \notin asked
      <3>1. c \in Present(s) /\ link[s] = "up"
        BY <1>2, <2>2 DEF Turn, TurnShows
      <3> QED
        BY <3>1, PresentClients DEF Roster, RosterInv
    <2> QED
      BY <2>1, <2>2
  <1>3. \A c \in Client : "connect" \in said[c] => "connect" \in said'[c]
    BY DEF Turn, TurnShows
  <1> QED
    BY <1>1, <1>2, <1>3 DEF GhostType

LEMMA UnseenTurn ==
    ASSUME LinkInv, UnseenInv, NEW s \in Scene, NEW r, Turn(s, r)
    PROVE  UnseenInv'
  <1> SUFFICES ASSUME NEW u \in Scene, ~user_visible_flag'[u] \/ link'[u] = "connecting"
               PROVE  /\ \A m \in Members(toCenter'[u]) : ~News(m, u)
                      /\ \A t \in Scene : \A m \in Members(fromCenter'[t]) : ~News(m, u)
                      /\ \A c \in Client : told'[c].external[u] = {}
    BY DEF UnseenInv
  <1>1. link' = link /\ (user_visible_flag[u] => user_visible_flag'[u])
    BY DEF Turn, TurnLinks, TurnSays
  <1>2. /\ \A m \in Members(toCenter[u]) : ~News(m, u)
        /\ \A t \in Scene : \A m \in Members(fromCenter[t]) : ~News(m, u)
        /\ \A c \in Client : told[c].external[u] = {}
    BY <1>1 DEF UnseenInv
  <1>3. \A t \in Scene : Members(fromCenter'[t]) \subseteq Members(fromCenter[t])
    BY TurnQueues
  <1>4. \A c \in Client : told'[c].external[u] \in {told[c].external[u], {}}
    BY DEF Turn, TurnShows
  <1>5. \A m \in Members(toCenter'[u]) : ~News(m, u)
    <2>1. CASE u # s \/ link[s] # "up"
      <3>1. toCenter'[u] = toCenter[u]
        BY <2>1 DEF Turn, TurnLinks
      <3> QED
        BY <1>2, <3>1
    <2>2. CASE u = s /\ link[s] = "up"
      <3>1. toCenter'[s] = toCenter[s] \o r
        BY <2>2 DEF Turn, TurnLinks
      <3>2. toCenter[s] \in Seq(Outgoing(s)) /\ r \in Seq(Outgoing(s))
        BY DEF LinkInv, OutInv, Turn
      <3>3. Members(toCenter'[s]) = Members(toCenter[s]) \cup Members(r)
        BY <3>1, <3>2, MembersConcat
      <3>4. \A m \in Members(r) : ~News(m, s)
        BY <1>1, <2>2 DEF Turn, TurnSays
      <3> QED
        BY <1>2, <2>2, <3>3, <3>4
    <2> QED
      BY <2>1, <2>2
  <1> QED
    BY <1>2, <1>3, <1>4, <1>5

LEMMA UnheardTurn ==
    ASSUME UnheardInv, NEW s \in Scene, NEW r, Turn(s, r)
    PROVE  UnheardInv'
  <1> SUFFICES ASSUME NEW t \in Scene, link'[t] # "down", t \notin centerUsers'
               PROVE  /\ fromCenter'[t] = << >>
                      /\ \A c \in Present(t)' : \A u \in Scene : told'[c].external[u] = {}
    BY DEF UnheardInv
  <1>1. link' = link /\ centerUsers' = centerUsers
    BY DEF Turn, TurnLinks
  <1>2. fromCenter[t] = << >> /\ \A c \in Present(t) : \A u \in Scene : told[c].external[u] = {}
    BY <1>1 DEF UnheardInv
  <1>3. fromCenter'[t] = fromCenter[t]
    BY <1>2 DEF Turn, TurnLinks
  <1>4. \A c \in Present(t)' :
            \/ c \in Present(t) /\ \A u \in Scene : told'[c].external[u] = told[c].external[u]
            \/ \A u \in Scene : told'[c].external[u] = {}
    BY DEF Turn, TurnShows
  <1> QED
    BY <1>2, <1>3, <1>4

LEMMA StaleTurn ==
    ASSUME Roster, LinkInv, UnseenInv, StaleInv, NEW s \in Scene, NEW r, Turn(s, r)
    PROVE  StaleInv'
  <1> SUFFICES ASSUME NEW u \in Scene, NEW n, link'[u] = "up", n \notin ClientList(u)'
               PROVE  /\ Ended(toCenter'[u], u, n)
                      /\ \A t \in Scene :
                           t # u /\ link'[t] = "up" /\ ~Left(toCenter'[u], u, n) =>
                             /\ Ended(fromCenter'[t], u, n)
                             /\ \/ Left(fromCenter'[t], u, n)
                                \/ \A c \in Present(t)' : n \notin told'[c].external[u]
    BY DEF StaleInv
  <1>1. link' = link
    BY DEF Turn, TurnLinks
  <1>2. \A t \in Scene : \A c \in Present(t)' :
            \/ c \in Present(t) /\ told'[c].external[u] = told[c].external[u]
            \/ told'[c].external[u] = {}
    BY DEF Turn, TurnShows
  <1>3. \A t \in Scene : (\A c \in Present(t) : n \notin told[c].external[u])
                          => \A c \in Present(t)' : n \notin told'[c].external[u]
    BY <1>2
  <1>4. \A t \in Scene : /\ Left(fromCenter[t], u, n) => Left(fromCenter'[t], u, n)
                         /\ Ended(fromCenter[t], u, n) => Ended(fromCenter'[t], u, n)
    BY TurnQueues
  <1>5. Left(toCenter[u], u, n) => Left(toCenter'[u], u, n)
    BY TurnQueues
  <1>6. CASE n \notin ClientList(u)
    <2>1. /\ Ended(toCenter[u], u, n)
          /\ \A t \in Scene :
               t # u /\ link[t] = "up" /\ ~Left(toCenter[u], u, n) =>
                 /\ Ended(fromCenter[t], u, n)
                 /\ \/ Left(fromCenter[t], u, n)
                    \/ \A c \in Present(t) : n \notin told[c].external[u]
      BY <1>1, <1>6 DEF StaleInv
    <2>2. Ended(toCenter'[u], u, n)
      <3>1. CASE u # s
        BY <2>1, <3>1 DEF Turn, TurnLinks
      <3>2. CASE u = s
        <4>1. toCenter'[s] = toCenter[s] \o r
          BY <1>1, <3>2 DEF Turn, TurnLinks
        <4>2. toCenter[s] \in Seq(Outgoing(s)) /\ r \in Seq(Outgoing(s))
          BY DEF LinkInv, OutInv, Turn
        <4>3. ~Added(r, s, n)
          BY <3>2 DEF Turn, TurnSays
        <4>4. Ended(toCenter[s] \o r, s, n)
          BY <2>1, <3>2, <4>2, <4>3, EndedConcat
        <4> QED
          BY <3>2, <4>1, <4>4
      <3> QED
        BY <3>1, <3>2
    <2> QED
      BY <1>1, <1>3, <1>4, <1>5, <2>1, <2>2
  <1>7. CASE n \in ClientList(u)
    <2>1. u = s
      BY <1>7 DEF Turn, TurnSays
    <2>2. toCenter'[s] = toCenter[s] \o r
      BY <1>1, <2>1 DEF Turn, TurnLinks
    <2>3. toCenter[s] \in Seq(Outgoing(s)) /\ r \in Seq(Outgoing(s))
      BY DEF LinkInv, OutInv, Turn
    <2>4. ~Added(r, s, n)
      BY <2>1 DEF Turn, TurnSays
    <2>5. CASE user_visible_flag[s]
      <3>1. Left(r, s, n)
        BY <1>7, <2>1, <2>5 DEF Turn, TurnSays
      <3>2. Ended(toCenter[s] \o r, s, n)
        BY <2>3, <2>4, <3>1, EndedConcat
      <3>3. Left(toCenter'[s], s, n)
        BY <1>1, <2>1, <3>1, TurnQueues
      <3> QED
        BY <2>1, <2>2, <3>2, <3>3
    <2>6. CASE ~user_visible_flag[s]
      <3>1. /\ \A m \in Members(toCenter[s]) : ~News(m, s)
            /\ \A t \in Scene : \A m \in Members(fromCenter[t]) : ~News(m, s)
            /\ \A c \in Client : told[c].external[s] = {}
        BY <2>6 DEF UnseenInv
      <3>2. Ended(toCenter[s], s, n) /\ \A t \in Scene : Ended(fromCenter[t], s, n)
        BY <3>1, NoNews
      <3>3. Ended(toCenter[s] \o r, s, n)
        BY <2>3, <2>4, <3>2, EndedConcat
      <3>4. \A t \in Scene : \A c \in Present(t) : n \notin told[c].external[s]
        BY <3>1, PresentClients DEF Roster
      <3> QED
        BY <1>3, <1>4, <2>1, <2>2, <3>2, <3>3, <3>4
    <2> QED
      BY <2>5, <2>6
  <1> QED
    BY <1>6, <1>7

LEMMA RenewedTurn ==
    ASSUME LinkInv, UnseenInv, RenewedInv, NEW s \in Scene, NEW r, Turn(s, r)
    PROVE  RenewedInv'
  <1> SUFFICES ASSUME NEW u \in Scene, NEW n \in ClientList(u)', link'[u] = "up"
               PROVE  Renewed(toCenter'[u], u, n)
    BY DEF RenewedInv
  <1>1. link' = link
    BY DEF Turn, TurnLinks
  <1>2. CASE u # s
    <2>1. toCenter'[u] = toCenter[u] /\ n \in ClientList(u)
      BY <1>2 DEF Turn, TurnLinks, TurnSays
    <2> QED
      BY <1>1, <2>1 DEF RenewedInv
  <1>3. CASE u = s
    <2>1. toCenter'[s] = toCenter[s] \o r
      BY <1>1, <1>3 DEF Turn, TurnLinks
    <2>2. toCenter[s] \in Seq(Outgoing(s)) /\ r \in Seq(Outgoing(s))
      BY DEF LinkInv, OutInv, Turn
    <2>3. \A m \in Members(r) : ~Omits(m, s, n)
      BY <1>3 DEF Turn, TurnSays, Omits, Left
    <2>4. Renewed(toCenter[s], s, n) \/ Added(r, s, n)
      <3>1. CASE user_visible_flag'[s]
        <4>1. n \in ClientList(s) \/ Added(r, s, n)
          BY <1>3, <3>1 DEF Turn, TurnSays
        <4> QED
          BY <1>1, <1>3, <4>1 DEF RenewedInv
      <3>2. CASE ~user_visible_flag'[s]
        <4>1. ~user_visible_flag[s]
          BY <3>2 DEF Turn, TurnSays
        <4>2. \A m \in Members(toCenter[s]) : ~News(m, s)
          BY <4>1 DEF UnseenInv
        <4> QED
          BY <4>2, NoNews
      <3> QED
        BY <3>1, <3>2
    <2>5. Renewed(toCenter[s] \o r, s, n)
      BY <2>2, <2>3, <2>4, RenewedConcat
    <2> QED
      BY <1>3, <2>1, <2>5
  <1> QED
    BY <1>2, <1>3

LEMMA ReturnTurn ==
    ASSUME LinkInv, UnseenInv, ReturnInv, NEW s \in Scene, NEW r, Turn(s, r)
    PROVE  ReturnInv'
  <1> SUFFICES ASSUME NEW u \in Scene, NEW t \in Scene, NEW n \in ClientList(u)', u # t,
                      link'[u] = "up", link'[t] = "up", ~Added(toCenter'[u], u, n)
               PROVE  Renewed(fromCenter'[t], u, n)
    BY DEF ReturnInv
  <1>1. link' = link
    BY DEF Turn, TurnLinks
  <1>2. ~Added(toCenter[u], u, n) /\ ~(u = s /\ Added(r, u, n))
    BY <1>1, TurnQueues
  <1>3. Renewed(fromCenter[t], u, n)
    <2>1. CASE n \in ClientList(u)
      BY <1>1, <1>2, <2>1 DEF ReturnInv
    <2>2. CASE n \notin ClientList(u)
      <3>1. u = s /\ ~user_visible_flag'[s]
        BY <1>2, <2>2 DEF Turn, TurnSays
      <3>2. ~user_visible_flag[s]
        BY <3>1 DEF Turn, TurnSays
      <3>3. \A m \in Members(fromCenter[t]) : ~News(m, s)
        BY <3>2 DEF UnseenInv
      <3> QED
        BY <3>1, <3>3, NoNews
    <2> QED
      BY <2>1, <2>2
  <1> QED
    BY <1>3, TurnQueues

LEMMA OwedTurn ==
    ASSUME LinkInv, UnheardInv, OwedInv, NEW s \in Scene, NEW r, Turn(s, r)
    PROVE  OwedInv'
  <1> SUFFICES ASSUME NEW u \in Scene, user_visible_flag'[u], ~missed'[u]
               PROVE  /\ link'[u] # "connecting"
                      /\ link'[u] = "up" /\ u \notin centerUsers' =>
                           \A n \in ClientList(u)' : Added(toCenter'[u], u, n)
    BY DEF OwedInv
  <1>1. link' = link /\ centerUsers' = centerUsers
    BY DEF Turn, TurnLinks
  <1>2. ~missed[u] /\ (u = s => link[s] = "up" \/ r = << >>)
    BY DEF Turn, TurnLinks
  <1>3. \A n : Added(toCenter'[u], u, n) <=>
                 Added(toCenter[u], u, n) \/ (u = s /\ link[s] = "up" /\ Added(r, u, n))
    BY TurnQueues
  <1>4. CASE u # s
    <2>1. user_visible_flag[u] /\ ClientList(u)' = ClientList(u)
      BY <1>4 DEF Turn, TurnSays
    <2> QED
      BY <1>1, <1>2, <1>3, <2>1 DEF OwedInv
  <1>5. CASE u = s /\ user_visible_flag[s]
    <2>1. \A n \in ClientList(s)' : n \in ClientList(s) \/ Added(r, s, n)
      BY <1>5 DEF Turn, TurnSays
    <2> QED
      BY <1>1, <1>2, <1>3, <1>5, <2>1 DEF OwedInv
  <1>6. CASE u = s /\ ~user_visible_flag[s]
    <2>1. \A n \in ClientList(s)' : Added(r, s, n)
      BY <1>6 DEF Turn, TurnSays
    <2>2. r # << >> \/ fromCenter[s] # << >>
      BY <1>6 DEF Turn, TurnSays
    <2>3. link[s] = "connecting" => fromCenter[s] = << >>
      BY DEF UnheardInv, LinkInv, OutInv
    <2>4. link[s] # "connecting"
      BY <1>2, <1>6, <2>2, <2>3
    <2> QED
      BY <1>1, <1>3, <1>6, <2>1, <2>4
  <1> QED
    BY <1>4, <1>5, <1>6

LEMMA CoverTurn ==
    ASSUME Roster, Roster', LinkInv, CoverInv, NEW s \in Scene, NEW r, Turn(s, r)
    PROVE  CoverInv'
  <1> SUFFICES ASSUME NEW u \in Scene, NEW t \in Scene, u # t, link'[u] = "up", link'[t] = "up",
                      user_visible_flag'[u], ~missed'[u],
                      NEW c, c \in Present(t)', c \in asked', NEW n \in ClientList(u)'
               PROVE  Covered(c, t, u, n)'
    BY DEF CoverInv
  <1>1. link' = link /\ ~missed[u]
    BY DEF Turn, TurnLinks
  <1>2. c \in Present(t) /\ \A v \in Scene : told'[c].external[v] = told[c].external[v]
    BY DEF Turn, TurnShows
  <1>3. CASE c \notin asked
    <2>1. c \in Present(s) /\ Requested(r, s)
      BY <1>3 DEF Turn, TurnShows
    <2>2. t = s
      BY <1>2, <2>1 DEF Roster, RosterInv
    <2>3. Requested(toCenter'[t], t)
      BY <1>1, <2>1, <2>2, TurnQueues
    <2> QED
      BY <2>3 DEF Covered
  <1>4. CASE c \in asked
    <2>1. CASE u = s /\ Added(r, s, n)
      <3>1. Added(toCenter'[u], u, n)
        BY <1>1, <2>1, TurnQueues
      <3> QED
        BY <3>1 DEF Covered
    <2>2. CASE user_visible_flag[u] /\ n \in ClientList(u)
      <3>1. Covered(c, t, u, n)
        BY <1>1, <1>2, <1>4, <2>2 DEF CoverInv
      <3>2. \/ n \in told'[c].external[u]
            \/ Added(fromCenter'[t], u, n) \/ Added(toCenter'[u], u, n)
            \/ Requested(fromCenter[u], t) \/ Requested(toCenter'[t], t)
        BY <1>2, <3>1, TurnQueues DEF Covered
      <3>3. Requested(fromCenter[u], t) =>
                Requested(fromCenter'[u], t) \/ (u = s /\ \A i \in ClientList(s)' : Added(r, s, i))
        BY TurnQueues
      <3>4. u = s /\ Added(r, s, n) => Added(toCenter'[u], u, n)
        BY <1>1, TurnQueues
      <3> QED
        BY <3>2, <3>3, <3>4 DEF Covered
    <2>3. (u = s /\ Added(r, s, n)) \/ (user_visible_flag[u] /\ n \in ClientList(u))
      BY DEF Turn, TurnSays
    <2> QED
      BY <2>1, <2>2, <2>3
  <1> QED
    BY <1>3, <1>4

-----------------------------------------------------------------------------
(* A message passed on, and the steps of the center. *)

ShownInv ==
    /\ GhostType /\ UnseenInv /\ UnheardInv
    /\ StaleInv /\ RenewedInv /\ ReturnInv /\ OwedInv /\ CoverInv

\* A message that is passed on shows the clients of scene s what it tells.
Passes(s) ==
    LET m == Head(fromCenter[s]) IN
    /\ fromCenter[s] # << >> /\ m.kind # "req_usr_list"
    /\ fromCenter'[s] = Tail(fromCenter[s])
    /\ \A t \in Scene : t # s => fromCenter'[t] = fromCenter[t]
    /\ UNCHANGED <<link, centerUsers, toCenter, missed, asked, user_visible_flag, said>>
    /\ \A t \in Scene : Present(t)' = Present(t) /\ ClientList(t)' = ClientList(t)
    /\ \A c \in Client : \A t \in Scene :
         /\ c \notin Present(s) => told'[c].external[t] = told[c].external[t]
         /\ c \in Present(s) => \A n :
              n \in told'[c].external[t] <=>
                Adds(m, t, n) \/ (n \in told[c].external[t] /\ ~Leaves(m, t, n))

LEMMA PassesOn ==
    ASSUME Roster, Roster', LinkInv, ToldType, NEW s \in Scene, HandleCenterMessage(s),
           UNCHANGED centerUsers, Head(fromCenter[s]).kind # "req_usr_list"
    PROVE  Passes(s)
  <1> DEFINE m == Head(fromCenter[s])
  <1>1. /\ fromCenter[s] # << >> /\ PassOn(s, m)
        /\ fromCenter' = [fromCenter EXCEPT ![s] = Tail(fromCenter[s])]
        /\ UNCHANGED <<players, mUserType, mSeatNumber, said, link>>
    BY DEF HandleCenterMessage, playerVars
  <1>2. m \in Incoming(s)
    BY <1>1, HeadIncoming
  <1>3. UNCHANGED <<toCenter, missed, asked, user_visible_flag>>
    BY <1>1 DEF PassOn
  <1> HIDE DEF m
  <1>4. ASSUME NEW c \in Client, NEW t \in Scene
        PROVE  told'[c].external[t] =
                   IF c \in Present(s) /\ t = m.scene THEN Shown(told[c].external[t], m)
                   ELSE told[c].external[t]
    <2>1. m.kind # "req_usr_list"
      BY DEF m
    <2> QED
      BY <1>1, <1>2, <2>1, ToldPassOn
  <1>5. ASSUME NEW S, NEW t, NEW n
        PROVE  t = m.scene =>
                   (n \in Shown(S, m) <=> Adds(m, t, n) \/ (n \in S /\ ~Leaves(m, t, n)))
    <2>1. CASE m.kind = "client_list_external"
      BY <2>1 DEF Shown, Adds, Leaves
    <2>2. CASE m.kind = "user_leave_external"
      BY <2>2 DEF Shown, Adds, Leaves
    <2>3. CASE m.kind = "upd_user_state" /\ m.state = "initial"
      BY <2>3 DEF Shown, Adds, Leaves
    <2>4. CASE m.kind \notin {"client_list_external", "user_leave_external"}
               /\ ~(m.kind = "upd_user_state" /\ m.state = "initial")
      BY <2>4 DEF Shown, Adds, Leaves
    <2> QED
      BY <2>1, <2>2, <2>3, <2>4
  <1>6. \A t, n : t # m.scene => ~Adds(m, t, n) /\ ~Leaves(m, t, n)
    BY DEF Adds, Leaves
  <1>7. ASSUME NEW c \in Client, NEW t \in Scene
        PROVE  /\ c \notin Present(s) => told'[c].external[t] = told[c].external[t]
               /\ c \in Present(s) => \A n :
                    n \in told'[c].external[t] <=>
                      Adds(m, t, n) \/ (n \in told[c].external[t] /\ ~Leaves(m, t, n))
    BY <1>4, <1>5, <1>6
  <1>8. \A t : Present(t)' = Present(t)
    BY <1>1 DEF Present
  <1>9. \A t \in Scene : ClientList(t)' = ClientList(t)
    BY <1>1, <1>8 DEF ClientList
  <1>10. fromCenter'[s] = Tail(fromCenter[s]) /\ \A t \in Scene : t # s => fromCenter'[t] = fromCenter[t]
    BY <1>1 DEF LinkInv
  <1>11. m = Head(fromCenter[s]) /\ m.kind # "req_usr_list"
    BY DEF m
  <1> QED
    BY <1>1, <1>3, <1>7, <1>8, <1>9, <1>10, <1>11 DEF Passes

LEMMA ShownPasses ==
    ASSUME Roster, LinkInv, ShownInv, NEW s \in Scene, Passes(s)
    PROVE  ShownInv'
  <1> DEFINE m == Head(fromCenter[s])
  <1>1. /\ UNCHANGED <<link, centerUsers, toCenter, missed, asked, user_visible_flag, said>>
        /\ \A t \in Scene : Present(t)' = Present(t) /\ ClientList(t)' = ClientList(t)
    BY DEF Passes
  <1>2. /\ fromCenter[s] \in Seq(Incoming(s)) /\ fromCenter[s] # << >>
        /\ fromCenter'[s] = Tail(fromCenter[s])
        /\ \A t \in Scene : t # s => fromCenter'[t] = fromCenter[t]
    BY DEF Passes, LinkInv
  <1>3. /\ Members(fromCenter[s]) = {m} \cup Members(fromCenter'[s])
        /\ \A u, n : /\ Ended(fromCenter[s], u, n) => Ended(fromCenter'[s], u, n)
                     /\ Ended(fromCenter[s], u, n) /\ Adds(m, u, n) => Left(fromCenter'[s], u, n)
                     /\ Renewed(fromCenter[s], u, n) => Renewed(fromCenter'[s], u, n)
                     /\ Renewed(fromCenter[s], u, n) /\ Leaves(m, u, n) =>
                            Added(fromCenter'[s], u, n)
    BY <1>2, FirstTaken DEF Omits
  <1>4. \A u, n : /\ Left(fromCenter[s], u, n) <=> Leaves(m, u, n) \/ Left(fromCenter'[s], u, n)
                  /\ Added(fromCenter[s], u, n) <=> Adds(m, u, n) \/ Added(fromCenter'[s], u, n)
    BY <1>2, HeadFacts
  <1>5. \A u : Requested(fromCenter[s], u) => Requested(fromCenter'[s], u)
    <2>1. \A u : ~Asks(m, u)
      BY DEF Passes, Asks
    <2> QED
      BY <1>2, <2>1, HeadFacts
  <1>6. \A t \in Scene : Members(fromCenter'[t]) \subseteq Members(fromCenter[t])
    BY <1>2, <1>3
  <1>7. /\ \A c \in Client : c \notin Present(s) =>
             \A t \in Scene : told'[c].external[t] = told[c].external[t]
        /\ \A c \in Client : c \in Present(s) => \A t \in Scene : \A n :
             n \in told'[c].external[t] <=>
               Adds(m, t, n) \/ (n \in told[c].external[t] /\ ~Leaves(m, t, n))
    BY DEF Passes
  <1>8. m \in Members(fromCenter[s])
    BY <1>3
  <1>9. \A t \in Scene : Present(t) \subseteq Client /\ (t # s => Present(t) \cap Present(s) = {})
    BY PresentClients DEF Roster, RosterInv
  <1> HIDE DEF m
  <1>10. GhostType' /\ RenewedInv' /\ OwedInv'
    BY <1>1 DEF ShownInv, GhostType, RenewedInv, OwedInv
  <1>11. ReturnInv'
    <2>1. \A t \in Scene : \A u, n : Renewed(fromCenter[t], u, n) => Renewed(fromCenter'[t], u, n)
      BY <1>2, <1>3
    <2> QED
      BY <1>1, <2>1 DEF ShownInv, ReturnInv
  <1>12. UnseenInv'
    <2> SUFFICES ASSUME NEW u \in Scene, ~user_visible_flag'[u] \/ link'[u] = "connecting"
                 PROVE  /\ \A q \in Members(toCenter'[u]) : ~News(q, u)
                        /\ \A t \in Scene : \A q \in Members(fromCenter'[t]) : ~News(q, u)
                        /\ \A c \in Client : told'[c].external[u] = {}
      BY DEF UnseenInv
    <2>1. /\ \A q \in Members(toCenter[u]) : ~News(q, u)
          /\ \A t \in Scene : \A q \in Members(fromCenter[t]) : ~News(q, u)
          /\ \A c \in Client : told[c].external[u] = {}
      BY <1>1 DEF ShownInv, UnseenInv
    <2>2. \A n : ~Adds(m, u, n)
      BY <1>8, <2>1, NewsFacts
    <2>3. \A c \in Client : told'[c].external[u] = {}
      <3> TAKE c \in Client
      <3>1. CASE c \notin Present(s)
        BY <1>7, <2>1, <3>1
      <3>2. CASE c \in Present(s)
        <4>1. \A n : n \notin told'[c].external[u]
          BY <1>7, <2>1, <2>2, <3>2
        <4> QED
          BY <4>1
      <3> QED
        BY <3>1, <3>2
    <2> QED
      BY <1>1, <1>6, <2>1, <2>3
  <1>13. UnheardInv'
    <2> SUFFICES ASSUME NEW t \in Scene, link'[t] # "down", t \notin centerUsers'
                 PROVE  /\ fromCenter'[t] = << >>
                        /\ \A c \in Present(t)' : \A u \in Scene : told'[c].external[u] = {}
      BY DEF UnheardInv
    <2>1. /\ fromCenter[t] = << >>
          /\ \A c \in Present(t) : \A u \in Scene : told[c].external[u] = {}
      BY <1>1 DEF ShownInv, UnheardInv
    <2>2. t # s
      BY <1>2, <2>1
    <2> QED
      BY <1>1, <1>2, <1>7, <1>9, <2>1, <2>2
  <1>14. StaleInv'
    <2> SUFFICES ASSUME NEW u \in Scene, NEW n, link[u] = "up", n \notin ClientList(u)
                 PROVE  /\ Ended(toCenter[u], u, n)
                        /\ \A t \in Scene :
                             t # u /\ link[t] = "up" /\ ~Left(toCenter[u], u, n) =>
                               /\ Ended(fromCenter'[t], u, n)
                               /\ \/ Left(fromCenter'[t], u, n)
                                  \/ \A c \in Present(t) : n \notin told'[c].external[u]
      BY <1>1 DEF StaleInv
    <2>1. /\ Ended(toCenter[u], u, n)
          /\ \A t \in Scene :
               t # u /\ link[t] = "up" /\ ~Left(toCenter[u], u, n) =>
                 /\ Ended(fromCenter[t], u, n)
                 /\ \/ Left(fromCenter[t], u, n)
                    \/ \A c \in Present(t) : n \notin told[c].external[u]
      BY DEF ShownInv, StaleInv
    <2>2. ASSUME NEW t \in Scene, Ended(fromCenter[t], u, n),
                 \/ Left(fromCenter[t], u, n)
                 \/ \A c \in Present(t) : n \notin told[c].external[u]
          PROVE  /\ Ended(fromCenter'[t], u, n)
                 /\ \/ Left(fromCenter'[t], u, n)
                    \/ \A c \in Present(t) : n \notin told'[c].external[u]
      <3>1. CASE t # s
        BY <1>2, <1>7, <1>9, <2>2, <3>1
      <3>2. CASE t = s
        <4>1. Ended(fromCenter'[s], u, n)
          BY <1>3, <2>2, <3>2
        <4>2. SUFFICES ASSUME ~Left(fromCenter'[s], u, n), NEW c \in Present(s)
                       PROVE  n \notin told'[c].external[u]
          BY <3>2, <4>1
        <4>3. c \in Client /\ ~Adds(m, u, n)
          BY <1>3, <1>9, <2>2, <3>2, <4>2
        <4>4. n \notin told[c].external[u] \/ Leaves(m, u, n)
          BY <1>4, <2>2, <3>2, <4>2
        <4> QED
          BY <1>7, <4>3, <4>4
      <3> QED
        BY <3>1, <3>2
    <2> QED
      BY <2>1, <2>2
  <1>15. CoverInv'
    <2> SUFFICES ASSUME NEW u \in Scene, NEW t \in Scene, u # t, link[u] = "up", link[t] = "up",
                        user_visible_flag[u], ~missed[u],
                        NEW c \in Present(t) \cap asked, NEW n \in ClientList(u)
                 PROVE  Covered(c, t, u, n)'
      BY <1>1 DEF CoverInv
    <2>1. Covered(c, t, u, n)
      BY DEF ShownInv, CoverInv
    <2>2. c \in Client /\ n # 0
      BY <1>9, ListNow DEF ListOfSeats
    <2>3. \A v \in Scene : Requested(fromCenter[v], t) => Requested(fromCenter'[v], t)
      BY <1>2, <1>5
    <2>4. CASE t # s
      <3>1. told'[c].external[u] = told[c].external[u]
        BY <1>7, <1>9, <2>2, <2>4
      <3> QED
        BY <1>1, <1>2, <2>1, <2>3, <2>4, <3>1 DEF Covered
    <2>5. CASE t = s
      <3>1. n \in told'[c].external[u] <=>
                Adds(m, u, n) \/ (n \in told[c].external[u] /\ ~Leaves(m, u, n))
        BY <1>7, <2>2, <2>5
      <3>2. CASE Leaves(m, u, n) /\ ~Added(toCenter[u], u, n)
        <4>1. Renewed(fromCenter[s], u, n)
          BY <2>5, <3>2 DEF ShownInv, ReturnInv
        <4>2. Added(fromCenter'[s], u, n)
          BY <1>3, <3>2, <4>1
        <4> QED
          BY <2>5, <4>2 DEF Covered
      <3>3. CASE Added(toCenter[u], u, n)
        BY <1>1, <3>3 DEF Covered
      <3>4. CASE ~Leaves(m, u, n)
        BY <1>1, <1>4, <2>1, <2>3, <2>5, <3>1, <3>4 DEF Covered
      <3> QED
        BY <3>2, <3>3, <3>4
    <2> QED
      BY <2>4, <2>5
  <1> QED
    BY <1>10, <1>11, <1>12, <1>13, <1>14, <1>15 DEF ShownInv

\* Steps that leave the scenes' players and what their clients show alone.
Still == UNCHANGED <<players, mUserType, mSeatNumber, said, told, user_visible_flag, asked>>

LEMMA StillFacts ==
    ASSUME Still
    PROVE  /\ UNCHANGED <<said, told, user_visible_flag, asked>>
           /\ \A t : Present(t)' = Present(t)
           /\ \A t : ClientList(t)' = ClientList(t)
  <1>1. \A t : Present(t)' = Present(t)
    BY DEF Still, Present
  <1>2. \A t : ClientList(t)' = ClientList(t)
    BY <1>1 DEF Still, ClientList
  <1> QED
    BY <1>1, <1>2 DEF Still

LEMMA ShownConnected ==
    ASSUME Roster, LinkInv, ShownInv, NEW s \in Scene, CenterConnected(s)
    PROVE  ShownInv'
  <1> DEFINE m == [kind |-> "connect", scene |-> s]
  <1>1. /\ link[s] = "connecting" /\ link' = [link EXCEPT ![s] = "up"]
        /\ toCenter' = [toCenter EXCEPT ![s] = <<m>>]
        /\ UNCHANGED <<fromCenter, missed, centerUsers>> /\ Still
    BY DEF CenterConnected, Still, playerVars, clientVars
  <1>2. /\ UNCHANGED <<said, told, user_visible_flag, asked>>
        /\ \A t : Present(t)' = Present(t)
        /\ \A t : ClientList(t)' = ClientList(t)
    BY <1>1, StillFacts
  <1>3. /\ link'[s] = "up" /\ toCenter'[s] = <<m>>
        /\ \A t \in Scene : t # s => link'[t] = link[t] /\ toCenter'[t] = toCenter[t]
    BY <1>1 DEF LinkInv
  <1>4. Members(<<m>>) = {m}
    BY OneMember, EmptySeq
  <1>5. m.kind = "connect"
    OBVIOUS
  <1> HIDE DEF m
  <1>6. \A q \in Members(<<m>>) : q.kind \in {"connect", "disconnect", "command"}
    BY <1>4, <1>5
  <1>7. \A u, n : /\ ~Left(<<m>>, u, n) /\ ~Added(<<m>>, u, n)
                  /\ Ended(<<m>>, u, n) /\ Renewed(<<m>>, u, n)
    <2>1. \A u, n : \A q \in Members(<<m>>) : ~Leaves(q, u, n) /\ ~News(q, u)
      BY <1>6, NewsFacts
    <2> QED
      BY <2>1, NoNews DEF Left
  <1>8. s \notin centerUsers /\ fromCenter[s] = << >>
        /\ \A c \in Present(s) : \A u \in Scene : told[c].external[u] = {}
    BY <1>1 DEF ShownInv, UnheardInv, LinkInv, OutInv
  <1>9. /\ \A t \in Scene : \A q \in Members(fromCenter[t]) : ~News(q, s)
        /\ \A c \in Client : told[c].external[s] = {}
    BY <1>1 DEF ShownInv, UnseenInv
  <1>10. \A t \in Scene : Present(t) \subseteq Client /\ \A c \in Present(t) : SceneOf[c] = t
    BY PresentClients DEF Roster, RosterInv
  <1>11. GhostType'
    BY <1>1, <1>2, <1>3, Clients DEF ShownInv, GhostType
  <1>12. ReturnInv'
    <2> SUFFICES ASSUME NEW u \in Scene, NEW t \in Scene, NEW n \in ClientList(u), u # t,
                        link'[u] = "up", link'[t] = "up", ~Added(toCenter'[u], u, n)
                 PROVE  Renewed(fromCenter[t], u, n)
      BY <1>1, <1>2 DEF ReturnInv
    <2>1. CASE u = s
      BY <1>9, <2>1, NoNews
    <2>2. CASE t = s
      BY <1>8, <2>2, NothingSaid
    <2>3. CASE u # s /\ t # s
      BY <1>3, <2>3 DEF ShownInv, ReturnInv
    <2> QED
      BY <2>1, <2>2, <2>3
  <1>13. UnseenInv'
    <2>1. \A u : \A q \in Members(<<m>>) : ~News(q, u)
      BY <1>6, NewsFacts
    <2> SUFFICES ASSUME NEW u \in Scene, ~user_visible_flag[u] \/ link'[u] = "connecting"
                 PROVE  /\ \A q \in Members(toCenter'[u]) : ~News(q, u)
                        /\ \A t \in Scene : \A q \in Members(fromCenter[t]) : ~News(q, u)
                        /\ \A c \in Client : told[c].external[u] = {}
      BY <1>1, <1>2 DEF UnseenInv
    <2>2. ~user_visible_flag[u] \/ link[u] = "connecting"
      BY <1>1, <1>3
    <2> QED
      BY <1>3, <2>1, <2>2 DEF ShownInv, UnseenInv
  <1>14. UnheardInv'
    <2>1. \A t \in Scene : link'[t] # "down" => link[t] # "down"
      BY <1>1, <1>3
    <2> QED
      BY <1>1, <1>2, <2>1 DEF ShownInv, UnheardInv
  <1>15. StaleInv'
    <2> SUFFICES ASSUME NEW u \in Scene, NEW n, link'[u] = "up", n \notin ClientList(u)
                 PROVE  /\ Ended(toCenter'[u], u, n)
                        /\ \A t \in Scene :
                             t # u /\ link'[t] = "up" /\ ~Left(toCenter'[u], u, n) =>
                               /\ Ended(fromCenter[t], u, n)
                               /\ \/ Left(fromCenter[t], u, n)
                                  \/ \A c \in Present(t) : n \notin told[c].external[u]
      BY <1>1, <1>2 DEF StaleInv
    <2>1. CASE u = s
      <3>1. \A t \in Scene : Ended(fromCenter[t], s, n)
        BY <1>9, NoNews
      <3> QED
        BY <1>3, <1>7, <1>9, <1>10, <2>1, <3>1
    <2>2. CASE u # s
      <3>1. link[u] = "up" /\ toCenter'[u] = toCenter[u]
        BY <1>3, <2>2
      <3>2. /\ Ended(toCenter[u], u, n)
            /\ \A t \in Scene :
                 t # u /\ link[t] = "up" /\ ~Left(toCenter[u], u, n) =>
                   /\ Ended(fromCenter[t], u, n)
                   /\ \/ Left(fromCenter[t], u, n)
                      \/ \A c \in Present(t) : n \notin told[c].external[u]
        BY <3>1 DEF ShownInv, StaleInv
      <3>3. Ended(fromCenter[s], u, n) /\ \A c \in Present(s) : n \notin told[c].external[u]
        BY <1>8, NothingSaid
      <3> QED
        BY <1>3, <3>1, <3>2, <3>3
    <2> QED
      BY <2>1, <2>2
  <1>16. RenewedInv'
    <2> SUFFICES ASSUME NEW u \in Scene, NEW n \in ClientList(u), link'[u] = "up"
                 PROVE  Renewed(toCenter'[u], u, n)
      BY <1>2 DEF RenewedInv
    <2> QED
      BY <1>3, <1>7 DEF ShownInv, RenewedInv
  <1>17. user_visible_flag[s] => missed[s]
    BY <1>1 DEF ShownInv, OwedInv
  <1>18. OwedInv'
    <2> SUFFICES ASSUME NEW u \in Scene, user_visible_flag[u], ~missed[u]
                 PROVE  /\ link'[u] # "connecting"
                        /\ link'[u] = "up" /\ u \notin centerUsers =>
                             \A n \in ClientList(u) : Added(toCenter'[u], u, n)
      BY <1>1, <1>2 DEF OwedInv
    <2> QED
      BY <1>3, <1>17 DEF ShownInv, OwedInv
  <1>19. CoverInv'
    <2> SUFFICES ASSUME NEW u \in Scene, NEW t \in Scene, u # t, link'[u] = "up", link'[t] = "up",
                        user_visible_flag[u], ~missed[u],
                        NEW c \in Present(t) \cap asked, NEW n \in ClientList(u)
                 PROVE  Covered(c, t, u, n)'
      BY <1>1, <1>2 DEF CoverInv
    <2>1. u # s /\ t # s
      BY <1>1, <1>10, <1>17 DEF ShownInv, GhostType
    <2>2. Covered(c, t, u, n)
      BY <1>3, <2>1 DEF ShownInv, CoverInv
    <2> QED
      BY <1>1, <1>2, <1>3, <2>1, <2>2 DEF Covered
  <1> QED
    BY <1>11, <1>12, <1>13, <1>14, <1>15, <1>16, <1>18, <1>19 DEF ShownInv

LEMMA MembersWith ==
    ASSUME NEW S, NEW q \in Seq(S), NEW m \in S
    PROVE  Members(q \o <<m>>) = Members(q) \cup {m}
  <1>1. Members(<<m>>) = {m} /\ <<m>> \in Seq(S)
    BY OneMember
  <1>2. Members(q \o <<m>>) = Members(q) \cup Members(<<m>>)
    <2> DEFINE r == <<m>>
    <2>1. r \in Seq(S)
      BY <1>1
    <2> HIDE DEF r
    <2>2. Members(q \o r) = Members(q) \cup Members(r)
      BY <2>1, MembersConcat
    <2> QED
      BY <2>2 DEF r
  <1> QED
    BY <1>1, <1>2

LEMMA ShownLost ==
    ASSUME LinkInv, ShownInv, NEW s \in Scene, CenterLost(s)
    PROVE  ShownInv'
  <1> DEFINE m == [kind |-> "disconnect", scene |-> s]
  <1>1. PICK k \in 0 .. Len(toCenter[s]) :
            toCenter' = [toCenter EXCEPT ![s] =
                (IF k = 0 /\ s \notin centerUsers THEN SubSeq(@, 1, 1) ELSE SubSeq(@, 1, k)) \o <<m>>]
    BY DEF CenterLost
  <1>2. PICK n \in 0 .. Len(fromCenter[s]) :
            fromCenter' = [fromCenter EXCEPT ![s] = SubSeq(@, 1, n)]
    BY DEF CenterLost
  <1>3. /\ link[s] = "up" /\ link' = [link EXCEPT ![s] = "down"]
        /\ UNCHANGED <<missed, centerUsers>> /\ Still
    BY DEF CenterLost, Still, playerVars, clientVars
  <1>4. /\ UNCHANGED <<said, told, user_visible_flag, asked>>
        /\ \A t : Present(t)' = Present(t)
        /\ \A t : ClientList(t)' = ClientList(t)
    BY <1>3, StillFacts
  <1>5. /\ link'[s] = "down"
        /\ \A t \in Scene : t # s => /\ link'[t] = link[t] /\ toCenter'[t] = toCenter[t]
                                     /\ fromCenter'[t] = fromCenter[t]
    BY <1>1, <1>2, <1>3 DEF LinkInv
  <1>6. /\ toCenter[s] \in Seq(Outgoing(s)) /\ fromCenter[s] \in Seq(Incoming(s))
        /\ s \notin centerUsers => toCenter[s] # << >>
    BY <1>3 DEF LinkInv, OutInv
  <1>7. Members(fromCenter'[s]) \subseteq Members(fromCenter[s])
    <2>1. fromCenter'[s] = SubSeq(fromCenter[s], 1, n)
      BY <1>2 DEF LinkInv
    <2> QED
      BY <1>6, <2>1, Cut DEF Members
  <1>8. Members(toCenter'[s]) \subseteq Members(toCenter[s]) \cup {m}
    <2>1. Len(toCenter[s]) \in Nat /\ (s \notin centerUsers => Len(toCenter[s]) # 0)
      BY <1>6, LenProperties, EmptySeq
    <2>2. PICK i \in 0 .. Len(toCenter[s]) : toCenter'[s] = SubSeq(toCenter[s], 1, i) \o <<m>>
      <3>1. CASE k = 0 /\ s \notin centerUsers
        <4>1. 1 \in 0 .. Len(toCenter[s])
          BY <2>1, <3>1
        <4> QED
          BY <1>1, <3>1, <4>1 DEF LinkInv
      <3>2. CASE ~(k = 0 /\ s \notin centerUsers)
        BY <1>1, <3>2 DEF LinkInv
      <3> QED
        BY <3>1, <3>2
    <2>3. m \in Outgoing(s)
      BY DEF Outgoing, Notice
    <2> HIDE DEF m
    <2> DEFINE q == SubSeq(toCenter[s], 1, i)
    <2>4. q \in Seq(Outgoing(s)) /\ Members(q) \subseteq Members(toCenter[s])
      BY <1>6, Cut DEF Members
    <2>5. toCenter'[s] = q \o <<m>>
      BY <2>2
    <2> HIDE DEF q
    <2>6. Members(q \o <<m>>) = Members(q) \cup {m}
      BY <2>3, <2>4, MembersWith
    <2> QED
      BY <2>4, <2>5, <2>6
  <1>9. \A u, i : ~News(m, u) /\ ~Leaves(m, u, i)
    <2>1. m.kind \in {"connect", "disconnect", "command"}
      OBVIOUS
    <2> QED
      BY <2>1, NewsFacts
  <1> HIDE DEF m
  <1>10. GhostType'
    BY <1>3, <1>4, <1>5, Clients DEF ShownInv, GhostType
  <1>11. ReturnInv'
    <2> SUFFICES ASSUME NEW u \in Scene, NEW t \in Scene, NEW i \in ClientList(u), u # t,
                        link'[u] = "up", link'[t] = "up", ~Added(toCenter'[u], u, i)
                 PROVE  Renewed(fromCenter'[t], u, i)
      BY <1>4 DEF ReturnInv
    <2>1. u # s /\ t # s
      BY <1>5
    <2> QED
      BY <1>5, <2>1 DEF ShownInv, ReturnInv
  <1>12. UnseenInv'
    <2> SUFFICES ASSUME NEW u \in Scene, ~user_visible_flag[u] \/ link'[u] = "connecting"
                 PROVE  /\ \A q \in Members(toCenter'[u]) : ~News(q, u)
                        /\ \A t \in Scene : \A q \in Members(fromCenter'[t]) : ~News(q, u)
                        /\ \A c \in Client : told[c].external[u] = {}
      BY <1>4 DEF UnseenInv
    <2>1. ~user_visible_flag[u] \/ link[u] = "connecting"
      BY <1>3, <1>5
    <2>2. /\ \A q \in Members(toCenter[u]) : ~News(q, u)
          /\ \A t \in Scene : \A q \in Members(fromCenter[t]) : ~News(q, u)
          /\ \A c \in Client : told[c].external[u] = {}
      BY <2>1 DEF ShownInv, UnseenInv
    <2> QED
      BY <1>5, <1>7, <1>8, <1>9, <2>2
  <1>13. UnheardInv'
    <2> SUFFICES ASSUME NEW t \in Scene, link'[t] # "down", t \notin centerUsers
                 PROVE  /\ fromCenter'[t] = << >>
                        /\ \A c \in Present(t) : \A u \in Scene : told[c].external[u] = {}
      BY <1>3, <1>4 DEF UnheardInv
    <2>1. t # s
      BY <1>5
    <2> QED
      BY <1>5, <2>1 DEF ShownInv, UnheardInv
  <1>14. StaleInv'
    <2> SUFFICES ASSUME NEW u \in Scene, NEW i, link'[u] = "up", i \notin ClientList(u)
                 PROVE  /\ Ended(toCenter'[u], u, i)
                        /\ \A t \in Scene :
                             t # u /\ link'[t] = "up" /\ ~Left(toCenter'[u], u, i) =>
                               /\ Ended(fromCenter'[t], u, i)
                               /\ \/ Left(fromCenter'[t], u, i)
                                  \/ \A c \in Present(t) : i \notin told[c].external[u]
      BY <1>4 DEF StaleInv
    <2>1. u # s /\ \A t \in Scene : link'[t] = "up" => t # s
      BY <1>5
    <2> QED
      BY <1>5, <2>1 DEF ShownInv, StaleInv
  <1>15. RenewedInv'
    <2> SUFFICES ASSUME NEW u \in Scene, NEW i \in ClientList(u), link'[u] = "up"
                 PROVE  Renewed(toCenter'[u], u, i)
      BY <1>4 DEF RenewedInv
    <2> QED
      BY <1>5 DEF ShownInv, RenewedInv
  <1>16. OwedInv'
    <2> SUFFICES ASSUME NEW u \in Scene, user_visible_flag[u], ~missed[u]
                 PROVE  /\ link'[u] # "connecting"
                        /\ link'[u] = "up" /\ u \notin centerUsers =>
                             \A i \in ClientList(u) : Added(toCenter'[u], u, i)
      BY <1>3, <1>4 DEF OwedInv
    <2> QED
      BY <1>5 DEF ShownInv, OwedInv
  <1>17. CoverInv'
    <2> SUFFICES ASSUME NEW u \in Scene, NEW t \in Scene, u # t, link'[u] = "up", link'[t] = "up",
                        user_visible_flag[u], ~missed[u],
                        NEW c \in Present(t) \cap asked, NEW i \in ClientList(u)
                 PROVE  Covered(c, t, u, i)'
      BY <1>3, <1>4 DEF CoverInv
    <2>1. u # s /\ t # s
      BY <1>5
    <2>2. Covered(c, t, u, i)
      BY <1>5, <2>1 DEF ShownInv, CoverInv
    <2> QED
      BY <1>3, <1>4, <1>5, <2>1, <2>2 DEF Covered
  <1> QED
    BY <1>10, <1>11, <1>12, <1>13, <1>14, <1>15, <1>16, <1>17 DEF ShownInv

\* The center takes the first message of scene s, and passes it on to U.
Handles(s, U) ==
    LET m == Head(toCenter[s]) IN
    /\ toCenter[s] # << >> /\ m.scene = s
    /\ toCenter'[s] = Tail(toCenter[s])
    /\ \A t \in Scene : t # s => toCenter'[t] = toCenter[t] /\ missed'[t] = missed[t]
    /\ link' = link /\ missed' \in [Scene -> BOOLEAN] /\ Still
    /\ link[s] # "connecting"
    /\ U \subseteq centerUsers
    /\ \A t \in Scene : fromCenter'[t] = IF t \in U /\ link[t] = "up"
                                         THEN Append(fromCenter[t], m) ELSE fromCenter[t]
    /\ \A t \in Scene : link[t] # "down" /\ t \notin centerUsers' => t \notin centerUsers
    /\ link[s] = "up" => s \in centerUsers'
    /\ \/ m.kind \in {"connect", "disconnect", "command"} /\ missed' = missed
       \/ /\ U = centerUsers \ {s}
          /\ missed'[s] <=> centerUsers # Scene \/ (missed[s] /\ m.kind # "client_list_external")

LEMMA CenterPasses ==
    ASSUME LinkInv, GhostType, NEW s \in Scene, CenterHandle(s)
    PROVE  \E U \in SUBSET Scene : Handles(s, U)
  <1> DEFINE m == Head(toCenter[s])
  <1>1. /\ toCenter[s] # << >> /\ toCenter' = [toCenter EXCEPT ![s] = Tail(toCenter[s])]
        /\ link' = link /\ Still
    BY DEF CenterHandle, Still, playerVars, clientVars
  <1>2. toCenter \in [Scene -> Seq(Message)] /\ toCenter[s] \in Seq(Outgoing(s)) /\ OutInv(s)
        /\ centerUsers \subseteq Scene /\ missed \in [Scene -> BOOLEAN]
    BY DEF LinkInv, OutInv, GhostType
  <1>3. m \in Outgoing(s) /\ m = toCenter[s][1] /\ 1 \in DOMAIN toCenter[s]
    BY <1>1, <1>2, Taken
  <1>4. m.scene = s
    BY <1>3, Kinds DEF Outgoing
  <1>5. toCenter'[s] = Tail(toCenter[s]) /\ \A t \in Scene : t # s => toCenter'[t] = toCenter[t]
    BY <1>1, <1>2
  <1>6. \/ /\ m.kind = "connect" /\ centerUsers' = centerUsers \cup {s}
           /\ UNCHANGED <<fromCenter, missed>>
        \/ /\ m.kind = "disconnect" /\ centerUsers' = centerUsers \ {s}
           /\ UNCHANGED <<fromCenter, missed>>
        \/ /\ m.kind = "command" /\ Forward(centerUsers, m)
           /\ UNCHANGED <<centerUsers, missed>>
        \/ /\ m.kind \notin {"connect", "disconnect", "command"}
           /\ Forward(centerUsers \ {s}, m) /\ UNCHANGED centerUsers
           /\ missed' = [missed EXCEPT ![s] =
                           centerUsers # Scene \/ (@ /\ m.kind # "client_list_external")]
    BY DEF CenterHandle, ForwardCommand, ForwardMsg
  <1>7. \A U : Forward(U, m) =>
            \A t \in Scene : fromCenter'[t] = IF t \in U /\ link[t] = "up"
                                              THEN Append(fromCenter[t], m) ELSE fromCenter[t]
    BY DEF Forward
  <1>8. link[s] # "connecting" /\ (m.kind = "disconnect" => link[s] = "down")
        /\ (link[s] = "up" /\ s \notin centerUsers => m.kind = "connect")
    BY <1>1, <1>2, <1>3 DEF OutInv
  <1> HIDE DEF m
  <1> DEFINE Sound(U) ==
        /\ \A t \in Scene : t # s => missed'[t] = missed[t]
        /\ missed' \in [Scene -> BOOLEAN]
        /\ U \subseteq centerUsers
        /\ \A t \in Scene : fromCenter'[t] = IF t \in U /\ link[t] = "up"
                                             THEN Append(fromCenter[t], m) ELSE fromCenter[t]
        /\ \A t \in Scene : link[t] # "down" /\ t \notin centerUsers' => t \notin centerUsers
        /\ link[s] = "up" => s \in centerUsers'
        /\ \/ m.kind \in {"connect", "disconnect", "command"} /\ missed' = missed
           \/ /\ U = centerUsers \ {s}
              /\ missed'[s] <=> centerUsers # Scene \/ (missed[s] /\ m.kind # "client_list_external")
  <1>9. CASE m.kind = "connect" /\ centerUsers' = centerUsers \cup {s} /\ UNCHANGED <<fromCenter, missed>>
    <2>1. Sound({})
      BY <1>2, <1>9
    <2>2. Handles(s, {})
      BY <1>1, <1>4, <1>5, <1>8, <2>1 DEF Handles, m
    <2>3. {} \in SUBSET Scene
      OBVIOUS
    <2> QED
      BY <2>2, <2>3
  <1>10. CASE m.kind = "disconnect" /\ centerUsers' = centerUsers \ {s} /\ UNCHANGED <<fromCenter, missed>>
    <2>1. Sound({})
      BY <1>2, <1>8, <1>10
    <2>2. Handles(s, {})
      BY <1>1, <1>4, <1>5, <1>8, <2>1 DEF Handles, m
    <2>3. {} \in SUBSET Scene
      OBVIOUS
    <2> QED
      BY <2>2, <2>3
  <1>11. CASE m.kind = "command" /\ Forward(centerUsers, m) /\ UNCHANGED <<centerUsers, missed>>
    <2>1. Sound(centerUsers)
      BY <1>2, <1>7, <1>8, <1>11
    <2> QED
      BY <1>1, <1>2, <1>4, <1>5, <1>8, <2>1 DEF Handles, m
  <1>12. CASE /\ m.kind \notin {"connect", "disconnect", "command"}
              /\ Forward(centerUsers \ {s}, m) /\ UNCHANGED centerUsers
              /\ missed' = [missed EXCEPT ![s] =
                              centerUsers # Scene \/ (@ /\ m.kind # "client_list_external")]
    <2> DEFINE b == centerUsers # Scene \/ (missed[s] /\ m.kind # "client_list_external")
    <2>1. missed' = [missed EXCEPT ![s] = b] /\ b \in BOOLEAN
      BY <1>2, <1>12
    <2>2. missed'[s] = b /\ missed' \in [Scene -> BOOLEAN]
          /\ \A t \in Scene : t # s => missed'[t] = missed[t]
      <3> HIDE DEF b
      <3> QED
        BY <1>2, <2>1
    <2>3. \A t \in Scene :
            fromCenter'[t] = IF t \in centerUsers \ {s} /\ link[t] = "up"
                             THEN Append(fromCenter[t], m) ELSE fromCenter[t]
      BY <1>7, <1>12
    <2>4. Sound(centerUsers \ {s})
      BY <1>8, <1>12, <2>2, <2>3
    <2> QED
      BY <1>1, <1>2, <1>4, <1>5, <1>8, <2>4 DEF Handles, m
  <1> QED
    BY <1>6, <1>9, <1>10, <1>11, <1>12

\* What is in the queues once a message has been passed on.
LEMMA HandledQueues ==
    ASSUME LinkInv, NEW s \in Scene, NEW U, Handles(s, U)
    PROVE  LET m == Head(toCenter[s]) IN
           /\ \A u, n : Left(toCenter[s], u, n) <=> Leaves(m, u, n) \/ Left(toCenter'[s], u, n)
           /\ \A u, n : Added(toCenter[s], u, n) <=> Adds(m, u, n) \/ Added(toCenter'[s], u, n)
           /\ \A u : Requested(toCenter[s], u) <=> Asks(m, u) \/ Requested(toCenter'[s], u)
           /\ Members(toCenter[s]) = {m} \cup Members(toCenter'[s])
           /\ \A u, n :
                /\ Ended(toCenter[s], u, n) =>
                     Ended(toCenter'[s], u, n) /\ (Adds(m, u, n) => Left(toCenter'[s], u, n))
                /\ Renewed(toCenter[s], u, n) =>
                     Renewed(toCenter'[s], u, n) /\ (Omits(m, u, n) => Added(toCenter'[s], u, n))
           /\ \A t \in Scene : LET gets == t \in U /\ link[t] = "up" IN
                /\ ~gets => fromCenter'[t] = fromCenter[t]
                /\ Members(fromCenter'[t]) \subseteq Members(fromCenter[t]) \cup {m}
                /\ \A u, n :
                     /\ Left(fromCenter'[t], u, n) <=>
                          Left(fromCenter[t], u, n) \/ (gets /\ Leaves(m, u, n))
                     /\ Added(fromCenter'[t], u, n) <=>
                          Added(fromCenter[t], u, n) \/ (gets /\ Adds(m, u, n))
                     /\ Ended(fromCenter[t], u, n) /\ ~Adds(m, u, n) => Ended(fromCenter'[t], u, n)
                     /\ gets /\ Leaves(m, u, n) => Ended(fromCenter'[t], u, n)
                     /\ Renewed(fromCenter[t], u, n) /\ ~Omits(m, u, n) =>
                          Renewed(fromCenter'[t], u, n)
                     /\ gets /\ Adds(m, u, n) => Renewed(fromCenter'[t], u, n)
                /\ \A u : Requested(fromCenter'[t], u) <=>
                            Requested(fromCenter[t], u) \/ (gets /\ Asks(m, u))
  <1> DEFINE m == Head(toCenter[s])
  <1>1. toCenter[s] \in Seq(Message) /\ toCenter[s] # << >> /\ toCenter'[s] = Tail(toCenter[s])
    BY DEF Handles, LinkInv
  <1>2. m \in Message
    BY <1>1, Taken
  <1>3. \A t \in Scene : /\ fromCenter[t] \in Seq(Message)
                         /\ fromCenter'[t] = IF t \in U /\ link[t] = "up"
                                             THEN Append(fromCenter[t], m) ELSE fromCenter[t]
    BY DEF Handles, LinkInv
  <1>4. /\ \A u, n : Left(toCenter[s], u, n) <=> Leaves(m, u, n) \/ Left(toCenter'[s], u, n)
        /\ \A u, n : Added(toCenter[s], u, n) <=> Adds(m, u, n) \/ Added(toCenter'[s], u, n)
        /\ \A u : Requested(toCenter[s], u) <=> Asks(m, u) \/ Requested(toCenter'[s], u)
    BY <1>1, HeadFacts
  <1>5. /\ Members(toCenter[s]) = {m} \cup Members(toCenter'[s])
        /\ \A u, n :
             /\ Ended(toCenter[s], u, n) =>
                  Ended(toCenter'[s], u, n) /\ (Adds(m, u, n) => Left(toCenter'[s], u, n))
             /\ Renewed(toCenter[s], u, n) =>
                  Renewed(toCenter'[s], u, n) /\ (Omits(m, u, n) => Added(toCenter'[s], u, n))
    BY <1>1, FirstTaken
  <1> HIDE DEF m
  <1> DEFINE Passed_on(q, r) ==
        /\ Members(r) \subseteq Members(q) \cup {m}
        /\ \A u, n : /\ Left(r, u, n) <=> Left(q, u, n) \/ Leaves(m, u, n)
                     /\ Added(r, u, n) <=> Added(q, u, n) \/ Adds(m, u, n)
                     /\ Ended(q, u, n) /\ ~Adds(m, u, n) => Ended(r, u, n)
                     /\ Leaves(m, u, n) => Ended(r, u, n)
                     /\ Renewed(q, u, n) /\ ~Omits(m, u, n) => Renewed(r, u, n)
                     /\ Adds(m, u, n) => Renewed(r, u, n)
        /\ \A u : Requested(r, u) <=> Requested(q, u) \/ Asks(m, u)
  <1>6. ASSUME NEW q \in Seq(Message) PROVE Passed_on(q, Append(q, m))
    <2>1. Append(q, m) = q \o <<m>> /\ Members(<<m>>) = {m} /\ <<m>> \in Seq(Message)
      BY <1>2, OneMember
    <2>2. /\ \A u, n : Left(<<m>>, u, n) <=> Leaves(m, u, n)
          /\ \A u, n : Added(<<m>>, u, n) <=> Adds(m, u, n)
          /\ \A u : Requested(<<m>>, u) <=> Asks(m, u)
      BY <2>1 DEF Left, Added, Requested
    <2>3. Members(q \o <<m>>) = Members(q) \cup Members(<<m>>)
      BY <2>1, MembersConcat
    <2>4. /\ \A u, n : Left(q \o <<m>>, u, n) <=> Left(q, u, n) \/ Left(<<m>>, u, n)
          /\ \A u, n : Added(q \o <<m>>, u, n) <=> Added(q, u, n) \/ Added(<<m>>, u, n)
          /\ \A u : Requested(q \o <<m>>, u) <=> Requested(q, u) \/ Requested(<<m>>, u)
      BY <2>1, ConcatFacts
    <2>5. ASSUME NEW u, NEW n, ~Adds(m, u, n), Ended(q, u, n) \/ Leaves(m, u, n)
          PROVE  Ended(q \o <<m>>, u, n)
      BY <2>1, <2>2, <2>5, EndedConcat
    <2>6. \A u, n : (Leaves(m, u, n) => ~Adds(m, u, n)) /\ (Adds(m, u, n) => ~Omits(m, u, n))
      BY NewsFacts
    <2>7. ASSUME NEW u, NEW n, ~Omits(m, u, n), Renewed(q, u, n) \/ Adds(m, u, n)
          PROVE  Renewed(q \o <<m>>, u, n)
      BY <2>1, <2>2, <2>7, RenewedConcat
    <2> QED
      BY <2>1, <2>2, <2>3, <2>4, <2>5, <2>6, <2>7
  <1>7. ASSUME NEW t \in Scene
        PROVE  LET gets == t \in U /\ link[t] = "up" IN
                /\ ~gets => fromCenter'[t] = fromCenter[t]
                /\ Members(fromCenter'[t]) \subseteq Members(fromCenter[t]) \cup {m}
                /\ \A u, n :
                     /\ Left(fromCenter'[t], u, n) <=>
                          Left(fromCenter[t], u, n) \/ (gets /\ Leaves(m, u, n))
                     /\ Added(fromCenter'[t], u, n) <=>
                          Added(fromCenter[t], u, n) \/ (gets /\ Adds(m, u, n))
                     /\ Ended(fromCenter[t], u, n) /\ ~Adds(m, u, n) => Ended(fromCenter'[t], u, n)
                     /\ gets /\ Leaves(m, u, n) => Ended(fromCenter'[t], u, n)
                     /\ Renewed(fromCenter[t], u, n) /\ ~Omits(m, u, n) =>
                          Renewed(fromCenter'[t], u, n)
                     /\ gets /\ Adds(m, u, n) => Renewed(fromCenter'[t], u, n)
                /\ \A u : Requested(fromCenter'[t], u) <=>
                            Requested(fromCenter[t], u) \/ (gets /\ Asks(m, u))
    <2>1. CASE ~(t \in U /\ link[t] = "up")
      BY <1>3, <2>1
    <2>2. CASE t \in U /\ link[t] = "up"
      <3>1. fromCenter'[t] = Append(fromCenter[t], m)
        BY <1>3, <2>2
      <3>2. Passed_on(fromCenter[t], fromCenter'[t])
        BY <1>3, <1>6, <3>1
      <3> QED
        BY <2>2, <3>2
    <2> QED
      BY <2>1, <2>2
  <1> QED
    BY <1>4, <1>5, <1>7 DEF m

LEMMA ShownHandled ==
    ASSUME LinkInv, ShownInv, NEW s \in Scene, NEW U, Handles(s, U)
    PROVE  ShownInv'
  <1> DEFINE m == Head(toCenter[s])
             gets(t) == t \in U /\ link[t] = "up"
  <1>1. /\ m.scene = s /\ link' = link /\ link[s] # "connecting" /\ U \subseteq centerUsers
        /\ missed' \in [Scene -> BOOLEAN]
        /\ \A t \in Scene : link[t] # "down" /\ t \notin centerUsers' => t \notin centerUsers
        /\ link[s] = "up" => s \in centerUsers'
        /\ \A t \in Scene : t # s => toCenter'[t] = toCenter[t] /\ missed'[t] = missed[t]
    BY DEF Handles
  <1>2. \/ m.kind \in {"connect", "disconnect", "command"} /\ missed' = missed
        \/ /\ U = centerUsers \ {s}
           /\ missed'[s] <=> centerUsers # Scene \/ (missed[s] /\ m.kind # "client_list_external")
    BY DEF Handles
  <1>3. /\ UNCHANGED <<said, told, user_visible_flag, asked>>
        /\ \A t : Present(t)' = Present(t)
        /\ \A t : ClientList(t)' = ClientList(t)
    BY StillFacts DEF Handles
  <1>4. /\ \A u, n : Left(toCenter[s], u, n) <=> Leaves(m, u, n) \/ Left(toCenter'[s], u, n)
        /\ \A u, n : Added(toCenter[s], u, n) <=> Adds(m, u, n) \/ Added(toCenter'[s], u, n)
        /\ \A u : Requested(toCenter[s], u) <=> Asks(m, u) \/ Requested(toCenter'[s], u)
        /\ Members(toCenter[s]) = {m} \cup Members(toCenter'[s])
        /\ \A u, n :
             /\ Ended(toCenter[s], u, n) =>
                  Ended(toCenter'[s], u, n) /\ (Adds(m, u, n) => Left(toCenter'[s], u, n))
             /\ Renewed(toCenter[s], u, n) =>
                  Renewed(toCenter'[s], u, n) /\ (Omits(m, u, n) => Added(toCenter'[s], u, n))
    BY HandledQueues
  <1>5. \A t \in Scene :
            /\ ~gets(t) => fromCenter'[t] = fromCenter[t]
            /\ Members(fromCenter'[t]) \subseteq Members(fromCenter[t]) \cup {m}
    BY HandledQueues
  <1>6. \A t \in Scene : \A u, n :
            /\ Left(fromCenter'[t], u, n) <=> Left(fromCenter[t], u, n) \/ (gets(t) /\ Leaves(m, u, n))
            /\ Added(fromCenter'[t], u, n) <=> Added(fromCenter[t], u, n) \/ (gets(t) /\ Adds(m, u, n))
            /\ Ended(fromCenter[t], u, n) /\ ~Adds(m, u, n) => Ended(fromCenter'[t], u, n)
            /\ gets(t) /\ Leaves(m, u, n) => Ended(fromCenter'[t], u, n)
            /\ Renewed(fromCenter[t], u, n) /\ ~Omits(m, u, n) => Renewed(fromCenter'[t], u, n)
            /\ gets(t) /\ Adds(m, u, n) => Renewed(fromCenter'[t], u, n)
    BY HandledQueues
  <1>7. \A t \in Scene : \A u :
            Requested(fromCenter'[t], u) <=> Requested(fromCenter[t], u) \/ (gets(t) /\ Asks(m, u))
    BY HandledQueues
  <1>8. \A u : u # s => /\ \A n : ~Adds(m, u, n) /\ ~Leaves(m, u, n) /\ ~Omits(m, u, n)
                        /\ ~News(m, u) /\ ~Asks(m, u)
    BY <1>1 DEF Adds, Leaves, News, Asks, Omits, Lists
  <1>9. /\ \A u, n : Leaves(m, u, n) => ~Adds(m, u, n)
                                        /\ m.kind \notin {"connect", "disconnect", "command"}
        /\ \A u : Asks(m, u) => m.kind \notin {"connect", "disconnect", "command"}
        /\ \A u, n : m.kind \in {"connect", "disconnect", "command"} => ~Adds(m, u, n)
    BY NewsFacts
  <1>10. m.kind = "client_list_external" => Lists(m, s)
    BY <1>1 DEF Lists
  <1>11. \A n : Lists(m, s) => Adds(m, s, n) \/ Omits(m, s, n)
    BY DEF Lists, Adds, Omits
  <1> HIDE DEF m
  <1>12. GhostType'
    BY <1>1, <1>3 DEF ShownInv, GhostType
  <1>13. ReturnInv'
    <2> SUFFICES ASSUME NEW u \in Scene, NEW t \in Scene, NEW n \in ClientList(u), u # t,
                        link[u] = "up", link[t] = "up", ~Added(toCenter'[u], u, n)
                 PROVE  Renewed(fromCenter'[t], u, n)
      BY <1>1, <1>3 DEF ReturnInv
    <2>1. ~Omits(m, u, n)
      <3>1. Renewed(toCenter[u], u, n)
        BY DEF ShownInv, RenewedInv
      <3> QED
        BY <1>4, <1>8, <3>1
    <2>2. CASE ~Adds(m, u, n)
      <3>1. ~Added(toCenter[u], u, n)
        BY <1>1, <1>4, <2>2
      <3>2. Renewed(fromCenter[t], u, n)
        BY <3>1 DEF ShownInv, ReturnInv
      <3> QED
        BY <1>6, <2>1, <3>2
    <2>3. CASE Adds(m, u, n) /\ t \in centerUsers
      <3>1. u = s
        BY <1>8, <2>3
      <3>2. gets(t)
        BY <1>2, <1>9, <2>3, <3>1
      <3> QED
        BY <1>6, <2>3, <3>2
    <2>4. CASE t \notin centerUsers
      <3>1. fromCenter[t] = << >>
        BY <2>4 DEF ShownInv, UnheardInv
      <3>2. fromCenter'[t] = << >>
        BY <1>1, <1>5, <2>4, <3>1
      <3> QED
        BY <3>2, NothingSaid
    <2> QED
      BY <2>2, <2>3, <2>4
  <1>14. UnseenInv'
    <2> SUFFICES ASSUME NEW u \in Scene, ~user_visible_flag[u] \/ link[u] = "connecting"
                 PROVE  /\ \A q \in Members(toCenter'[u]) : ~News(q, u)
                        /\ \A t \in Scene : \A q \in Members(fromCenter'[t]) : ~News(q, u)
                        /\ \A c \in Client : told[c].external[u] = {}
      BY <1>1, <1>3 DEF UnseenInv
    <2>1. /\ \A q \in Members(toCenter[u]) : ~News(q, u)
          /\ \A t \in Scene : \A q \in Members(fromCenter[t]) : ~News(q, u)
          /\ \A c \in Client : told[c].external[u] = {}
      BY DEF ShownInv, UnseenInv
    <2>2. Members(toCenter'[u]) \subseteq Members(toCenter[u]) /\ ~News(m, u)
      BY <1>1, <1>4, <1>8, <2>1
    <2> QED
      BY <1>5, <2>1, <2>2
  <1>15. UnheardInv'
    <2> SUFFICES ASSUME NEW t \in Scene, link[t] # "down", t \notin centerUsers'
                 PROVE  /\ fromCenter'[t] = << >>
                        /\ \A c \in Present(t) : \A u \in Scene : told[c].external[u] = {}
      BY <1>1, <1>3 DEF UnheardInv
    <2>1. t \notin centerUsers
      BY <1>1
    <2> QED
      BY <1>1, <1>5, <2>1 DEF ShownInv, UnheardInv
  <1>16. StaleInv'
    <2> SUFFICES ASSUME NEW u \in Scene, NEW n, link[u] = "up", n \notin ClientList(u)
                 PROVE  /\ Ended(toCenter'[u], u, n)
                        /\ \A t \in Scene :
                             t # u /\ link[t] = "up" /\ ~Left(toCenter'[u], u, n) =>
                               /\ Ended(fromCenter'[t], u, n)
                               /\ \/ Left(fromCenter'[t], u, n)
                                  \/ \A c \in Present(t) : n \notin told[c].external[u]
      BY <1>1, <1>3 DEF StaleInv
    <2>1. /\ Ended(toCenter[u], u, n)
          /\ \A t \in Scene :
               t # u /\ link[t] = "up" /\ ~Left(toCenter[u], u, n) =>
                 /\ Ended(fromCenter[t], u, n)
                 /\ \/ Left(fromCenter[t], u, n)
                    \/ \A c \in Present(t) : n \notin told[c].external[u]
      BY DEF ShownInv, StaleInv
    <2>2. Ended(toCenter'[u], u, n) /\ (~Left(toCenter'[u], u, n) => ~Adds(m, u, n))
      BY <1>1, <1>4, <1>8, <2>1
    <2>3. ASSUME NEW t \in Scene, t # u, link[t] = "up", ~Left(toCenter'[u], u, n)
          PROVE  /\ Ended(fromCenter'[t], u, n)
                 /\ \/ Left(fromCenter'[t], u, n)
                    \/ \A c \in Present(t) : n \notin told[c].external[u]
      <3>1. CASE ~Leaves(m, u, n)
        <4>1. ~Left(toCenter[u], u, n)
          BY <1>1, <1>4, <2>3, <3>1
        <4> QED
          BY <1>6, <2>1, <2>2, <2>3, <4>1
      <3>2. CASE Leaves(m, u, n) /\ t \in centerUsers
        <4>1. u = s /\ gets(t)
          BY <1>2, <1>8, <1>9, <2>3, <3>2
        <4> QED
          BY <1>6, <3>2, <4>1
      <3>3. CASE t \notin centerUsers
        <4>1. /\ fromCenter[t] = << >>
              /\ \A c \in Present(t) : \A v \in Scene : told[c].external[v] = {}
          BY <2>3, <3>3 DEF ShownInv, UnheardInv
        <4>2. fromCenter'[t] = << >>
          BY <1>1, <1>5, <3>3, <4>1
        <4> QED
          BY <4>1, <4>2, NothingSaid
      <3> QED
        BY <3>1, <3>2, <3>3
    <2> QED
      BY <2>2, <2>3
  <1>17. RenewedInv'
    <2> SUFFICES ASSUME NEW u \in Scene, NEW n \in ClientList(u), link[u] = "up"
                 PROVE  Renewed(toCenter'[u], u, n)
      BY <1>1, <1>3 DEF RenewedInv
    <2>1. Renewed(toCenter[u], u, n)
      BY DEF ShownInv, RenewedInv
    <2> QED
      BY <1>1, <1>4, <2>1
  <1>18. OwedInv'
    <2> SUFFICES ASSUME NEW u \in Scene, user_visible_flag[u], ~missed'[u]
                 PROVE  /\ link[u] # "connecting"
                        /\ link[u] = "up" /\ u \notin centerUsers' =>
                             \A n \in ClientList(u) : Added(toCenter'[u], u, n)
      BY <1>1, <1>3 DEF OwedInv
    <2>1. CASE u = s
      BY <1>1, <2>1
    <2>2. CASE u # s
      <3>1. ~missed[u] /\ toCenter'[u] = toCenter[u]
        BY <1>1, <2>2
      <3>2. /\ link[u] # "connecting"
            /\ link[u] = "up" /\ u \notin centerUsers =>
                 \A n \in ClientList(u) : Added(toCenter[u], u, n)
        BY <3>1 DEF ShownInv, OwedInv
      <3> QED
        BY <1>1, <3>1, <3>2
    <2> QED
      BY <2>1, <2>2
  <1>19. CoverInv'
    <2> SUFFICES ASSUME NEW u \in Scene, NEW t \in Scene, u # t, link[u] = "up", link[t] = "up",
                        user_visible_flag[u], ~missed'[u],
                        NEW c \in Present(t) \cap asked, NEW n \in ClientList(u)
                 PROVE  \/ n \in told[c].external[u]
                        \/ Added(fromCenter'[t], u, n) \/ Added(toCenter'[u], u, n)
                        \/ Requested(fromCenter'[u], t) \/ Requested(toCenter'[t], t)
      BY <1>1, <1>3 DEF CoverInv, Covered
    <2>1. ~missed[u] =>
            \/ n \in told[c].external[u]
            \/ Added(fromCenter[t], u, n) \/ Added(toCenter[u], u, n)
            \/ Requested(fromCenter[u], t) \/ Requested(toCenter[t], t)
      BY DEF ShownInv, CoverInv, Covered
    <2>2. /\ Added(fromCenter[t], u, n) => Added(fromCenter'[t], u, n)
          /\ Requested(fromCenter[u], t) => Requested(fromCenter'[u], t)
      BY <1>6, <1>7
    <2>3. CASE u # s /\ t # s
      BY <1>1, <2>1, <2>2, <2>3
    <2>4. CASE u # s /\ t = s
      <3>1. ~missed[u] /\ toCenter'[u] = toCenter[u]
        BY <1>1, <2>4
      <3>2. ASSUME Asks(m, s) PROVE Requested(fromCenter'[u], t) \/ Added(toCenter'[u], u, n)
        <4>1. CASE u \in centerUsers
          <5>1. gets(u)
            BY <1>2, <1>9, <2>4, <3>2, <4>1
          <5> QED
            BY <1>7, <2>4, <3>2, <5>1
        <4>2. CASE u \notin centerUsers
          BY <3>1, <4>2 DEF ShownInv, OwedInv
        <4> QED
          BY <4>1, <4>2
      <3>3. Requested(toCenter[t], t) => Asks(m, s) \/ Requested(toCenter'[t], t)
        BY <1>4, <2>4
      <3> QED
        BY <2>1, <2>2, <3>1, <3>2, <3>3
    <2>5. CASE u = s
      <3>1. toCenter'[t] = toCenter[t]
        BY <1>1, <2>5
      <3>2. Added(toCenter[u], u, n) => Adds(m, u, n) \/ Added(toCenter'[u], u, n)
        BY <1>4, <2>5
      <3>3. CASE m.kind \in {"connect", "disconnect", "command"} /\ missed' = missed
        BY <1>9, <2>1, <2>2, <3>1, <3>2, <3>3
      <3>4. CASE /\ U = centerUsers \ {s}
                 /\ missed'[s] <=> centerUsers # Scene \/ (missed[s] /\ m.kind # "client_list_external")
        <4>1. gets(t) /\ (~missed[u] \/ Lists(m, u))
          BY <1>10, <2>5, <3>4
        <4>2. Adds(m, u, n) => Added(fromCenter'[t], u, n)
          BY <1>6, <4>1
        <4>3. CASE ~missed[u]
          BY <2>1, <2>2, <3>1, <3>2, <4>2, <4>3
        <4>4. CASE Lists(m, u)
          <5>1. Renewed(toCenter[u], u, n)
            BY DEF ShownInv, RenewedInv
          <5> QED
            BY <1>4, <1>11, <2>5, <4>2, <4>4, <5>1
        <4> QED
          BY <4>1, <4>3, <4>4
      <3> QED
        BY <1>2, <3>3, <3>4
    <2> QED
      BY <2>3, <2>4, <2>5
  <1> QED
    BY <1>12, <1>13, <1>14, <1>15, <1>16, <1>17, <1>18, <1>19 DEF ShownInv

\* Message m says nothing but that the seats S of scene s are taken, and says it
\* only if v holds.
Tells(m, s, v, S) ==
    /\ News(m, s) => v
    /\ Lists(m, s) => m.seats = S
    /\ \A n : /\ Adds(m, s, n) => n \in S
              /\ ~Leaves(m, s, n)

ListsTell ==
    \A s \in Scene :
        /\ \A m \in Members(ListMessages(s)) : Tells(m, s, TRUE, ClientList(s))
        /\ \A n \in ClientList(s) : Added(ListMessages(s), s, n)

LEMMA ListsTellNow == ListsTell
  <1> SUFFICES ASSUME NEW s \in Scene
               PROVE  /\ \A m \in Members(ListMessages(s)) : Tells(m, s, TRUE, ClientList(s))
                      /\ \A n \in ClientList(s) : Added(ListMessages(s), s, n)
    BY DEF ListsTell
  <1> DEFINE m == [kind |-> "client_list_external", scene |-> s, seats |-> ClientList(s)]
  <1>1. Tells(m, s, TRUE, ClientList(s)) /\ \A n \in ClientList(s) : Adds(m, s, n)
    BY DEF Tells, Lists, Adds, Leaves
  <1>2. ClientList(s) = {} => ListMessages(s) = << >>
    BY DEF ListMessages
  <1>3. ClientList(s) # {} => ListMessages(s) = <<m>>
    BY DEF ListMessages
  <1> HIDE DEF m
  <1>4. Members(<<m>>) = {m} /\ Members(<< >>) = {}
    BY OneMember, EmptySeq, NothingSaid
  <1> QED
    BY <1>1, <1>2, <1>3, <1>4 DEF Added

LEMMA ListsTellNext == ListsTell'
  BY ListsTellNow, PTL

StatesTell ==
    \A s \in Scene : \A c \in Client : \A x :
        (x = "initial" => mSeatNumber[c] \in ClientList(s)) =>
            \A m \in Members(StateMessages(s, c, x)) :
                Tells(m, s, user_visible_flag[s], ClientList(s))

LEMMA StatesTellNow == StatesTell
  <1> SUFFICES ASSUME NEW s \in Scene, NEW c \in Client, NEW x,
                      x = "initial" => mSeatNumber[c] \in ClientList(s),
                      NEW h \in Members(StateMessages(s, c, x))
               PROVE  Tells(h, s, user_visible_flag[s], ClientList(s))
    BY DEF StatesTell
  <1> DEFINE m == [kind |-> "upd_user_state", scene |-> s, seat |-> mSeatNumber[c], state |-> x]
  <1>1. m.scene = s /\ m.kind = "upd_user_state" /\ m.seat = mSeatNumber[c] /\ m.state = x
    OBVIOUS
  <1>2. StateMessages(s, c, x) = << >> \/ (StateMessages(s, c, x) = <<m>> /\ user_visible_flag[s])
    BY DEF StateMessages
  <1> HIDE DEF m
  <1>3. Members(<<m>>) = {m} /\ Members(<< >>) = {}
    BY OneMember, EmptySeq, NothingSaid
  <1>4. h = m /\ user_visible_flag[s]
    BY <1>2, <1>3
  <1> QED
    BY <1>1, <1>4 DEF Tells, News, Lists, Adds, Leaves

LEMMA StatesTellNext == StatesTell'
  BY StatesTellNow, PTL

LEMMA RequestTells ==
    ASSUME NEW s \in Scene, NEW v, NEW S
    PROVE  /\ Tells(Request(s), s, v, S)
           /\ Members(<<Request(s)>>) = {Request(s)}
           /\ Asks(Request(s), s)
           /\ <<Request(s)>> \in Seq(Outgoing(s)) /\ <<Request(s)>> # << >>
  <1>1. Request(s).kind = "req_usr_list" /\ Request(s).scene = s
    BY DEF Request
  <1>2. Tells(Request(s), s, v, S) /\ Asks(Request(s), s)
    BY <1>1, NewsFacts DEF Tells, Asks, Lists
  <1>3. Request(s) \in Outgoing(s)
    <2>1. {} \in SUBSET Seat /\ 0 \in Seat \cup {0} /\ "initial" \in States
      BY DEF States
    <2> QED
      BY <2>1, MessageKinds DEF Outgoing
  <1>4. <<Request(s)>> # << >>
    OBVIOUS
  <1> QED
    BY <1>2, <1>3, <1>4, OneMember, OneMessage, EmptySeq

-----------------------------------------------------------------------------
(* A step of a scene is such a turn. *)

\* What the turn does to the links.
LEMMA TurnSent ==
    ASSUME LinkInv, GhostType, NEW s \in Scene, NEW r \in Seq(Outgoing(s)),
           UNCHANGED <<link, centerUsers>>,
           SendToCenter(s, r) \/ (r = << >> /\ UNCHANGED <<toCenter, missed>>)
    PROVE  /\ missed' \in [Scene -> BOOLEAN]
           /\ \A t \in Scene : toCenter'[t] = IF t = s /\ link[s] = "up" THEN toCenter[s] \o r
                                              ELSE toCenter[t]
           /\ \A t \in Scene : missed'[t] <=> missed[t] \/ (t = s /\ link[s] # "up" /\ r # << >>)
  <1>1. missed \in [Scene -> BOOLEAN] /\ toCenter \in [Scene -> Seq(Message)]
    BY DEF GhostType, LinkInv
  <1>2. CASE SendToCenter(s, r)
    <2> DEFINE b == missed[s] \/ (link[s] # "up" /\ r # << >>)
    <2>1. b \in BOOLEAN
      BY <1>1
    <2>2. missed' = [missed EXCEPT ![s] = b]
      BY <1>2 DEF SendToCenter
    <2>3. toCenter' = IF link[s] = "up" THEN [toCenter EXCEPT ![s] = toCenter[s] \o r] ELSE toCenter
      BY <1>2 DEF SendToCenter
    <2>4. /\ missed' \in [Scene -> BOOLEAN] /\ missed'[s] = b
          /\ \A t \in Scene : t # s => missed'[t] = missed[t]
      <3> HIDE DEF b
      <3> QED
        BY <1>1, <2>1, <2>2
    <2>5. \A t \in Scene : toCenter'[t] = IF t = s /\ link[s] = "up" THEN toCenter[s] \o r
                                          ELSE toCenter[t]
      BY <1>1, <2>3
    <2> QED
      BY <2>4, <2>5
  <1>3. CASE r = << >> /\ UNCHANGED <<toCenter, missed>>
    <2>1. toCenter[s] \o << >> = toCenter[s]
      BY <1>1, ConcatEmptySeq
    <2> QED
      BY <1>1, <1>3, <2>1
  <1> QED
    BY <1>2, <1>3

\* Who has asked once r is sent.
LEMMA TurnAsked ==
    ASSUME NEW s \in Scene, NEW r \in Seq(Outgoing(s)),
           SendToCenter(s, r) \/ asked' = asked
    PROVE  /\ asked \subseteq asked'
           /\ \A c \in asked' \ asked : c \in Present(s) /\ link[s] = "up" /\ Requested(r, s)
  <1>1. CASE asked' = asked
    BY <1>1
  <1>2. CASE SendToCenter(s, r) /\ asked' # asked
    <2>1. /\ link[s] = "up" /\ asked' = asked \cup {c \in Present(s) : mSeatNumber'[c] > 0}
          /\ \E k \in DOMAIN r : r[k] = Request(s)
      BY <1>2 DEF SendToCenter
    <2>2. Request(s) \in Members(r)
      BY <2>1 DEF Members
    <2>3. Requested(r, s)
      BY <2>2, RequestTells DEF Requested
    <2> QED
      BY <2>1, <2>3
  <1> QED
    BY <1>1, <1>2

\* What the turn says when it is no leave message.
LEMMA TurnTells ==
    ASSUME LinkInv, NEW s \in Scene, NEW r,
           \A t \in Scene : t # s => user_visible_flag'[t] = user_visible_flag[t]
                                     /\ ClientList(t)' = ClientList(t),
           user_visible_flag[s] => user_visible_flag'[s],
           \A m \in Members(r) : Tells(m, s, user_visible_flag'[s], ClientList(s)'),
           ClientList(s) \subseteq ClientList(s)',
           \/ user_visible_flag'[s] => user_visible_flag[s] /\ ClientList(s)' = ClientList(s)
           \/ /\ \A n \in ClientList(s)' : Added(r, s, n)
              /\ r # << >> \/ fromCenter[s] # << >>
    PROVE  TurnSays(s, r)
  <1>1. \A n : (Added(r, s, n) => n \in ClientList(s)') /\ ~Left(r, s, n)
    BY DEF Tells, Added, Left
  <1>2. \A m \in Members(r) : /\ News(m, s) => user_visible_flag'[s]
                              /\ Lists(m, s) => m.seats = ClientList(s)'
    BY DEF Tells
  <1>3. \A t \in Scene : user_visible_flag[t] => user_visible_flag'[t]
    OBVIOUS
  <1>4. user_visible_flag'[s] =>
            \A n \in ClientList(s)' : (user_visible_flag[s] /\ n \in ClientList(s)) \/ Added(r, s, n)
    OBVIOUS
  <1>5. user_visible_flag'[s] /\ ~user_visible_flag[s] => r # << >> \/ fromCenter[s] # << >>
    OBVIOUS
  <1> QED
    BY <1>1, <1>2, <1>3, <1>4, <1>5 DEF TurnSays

\* What the clients show when none comes or goes.
LEMMA TurnKeeps ==
    ASSUME NEW s \in Scene, NEW r \in Seq(Outgoing(s)), Roster, players' = players,
           \A c \in Client : "connect" \in said[c] => "connect" \in said'[c],
           \A c \in Client : \A t \in Scene : told'[c].external[t] = told[c].external[t],
           SendToCenter(s, r) \/ asked' = asked
    PROVE  TurnShows(s, r)
  <1>1. \A t : Present(t)' = Present(t)
    BY DEF Present
  <1>2. \A t \in Scene : Present(t) \subseteq Client
    BY PresentClients DEF Roster
  <1>3. /\ asked \subseteq asked'
        /\ \A c \in asked' \ asked : c \in Present(s) /\ link[s] = "up" /\ Requested(r, s)
    BY TurnAsked
  <1>4. \A t \in Scene : \A c \in Present(t)' :
            c \in Present(t) /\ \A u \in Scene : told'[c].external[u] = told[c].external[u]
    BY <1>1, <1>2
  <1> QED
    BY <1>1, <1>3, <1>4 DEF TurnShows

\* The lists of the scenes where no seat is told or left.
LEMMA ListsKept ==
    ASSUME Roster, Roster', UNCHANGED <<players, mSeatNumber>>
    PROVE  \A s \in Scene : ClientList(s)' = ClientList(s)
  <1>1. \A s \in Scene : Present(s)' = Present(s)
    BY DEF Present
  <1> QED
    BY <1>1, ListNow, ListNext DEF ListOfSeats

LEMMA PlainTurn ==
    ASSUME Roster, Roster', LinkInv, GhostType, NEW s \in Scene, NEW r \in Seq(Outgoing(s)),
           UNCHANGED <<players, mSeatNumber, user_visible_flag, link, centerUsers, fromCenter>>,
           \A c \in Client : "connect" \in said[c] => "connect" \in said'[c],
           \A c \in Client : \A t \in Scene : told'[c].external[t] = told[c].external[t],
           SendToCenter(s, r) \/ (r = << >> /\ UNCHANGED <<toCenter, missed, asked>>),
           \A m \in Members(r) : Tells(m, s, user_visible_flag[s], ClientList(s))
    PROVE  Turn(s, r)
  <1>1. \A t \in Scene : ClientList(t)' = ClientList(t)
    BY ListsKept
  <1>2. TurnLinks(s, r)
    BY TurnSent DEF TurnLinks
  <1>3. TurnSays(s, r)
    BY <1>1, TurnTells
  <1>4. TurnShows(s, r)
    BY TurnKeeps
  <1> QED
    BY <1>2, <1>3, <1>4 DEF Turn

LEMMA SaidGoesOut ==
    ASSUME NEW s \in Scene
    PROVE  /\ Seq(Said(s)) \subseteq Seq(Outgoing(s)) /\ << >> \in Seq(Outgoing(s))
           /\ Members(<< >>) = {}
  <1>1. Said(s) \subseteq Outgoing(s)
    BY DEF Outgoing
  <1> QED
    BY <1>1, SeqMonotonic, EmptySeq, NothingSaid

\* Several steps that change no seat and tell no client of another scene.
LEMMA TurnPlain ==
    ASSUME Roster, Roster', LinkInv, GhostType, ToldType, NEW c \in Client, centerUsers' = centerUsers,
           \/ TellUserType(c) \/ TellReady(c) \/ TellUserProfile(c)
           \/ \E x \in {"present_flowers", "stop_present_flowers"} : PresentFlowers(c, x)
           \/ \E cmd \in Command : GlobalCommand(c, cmd)
    PROVE  \E r : Turn(SceneOf[c], r)
  <1> DEFINE s == SceneOf[c]
  <1>1. s \in Scene
    BY Clients
  <1>2. /\ Seq(Said(s)) \subseteq Seq(Outgoing(s)) /\ << >> \in Seq(Outgoing(s))
        /\ Members(<< >>) = {}
    BY <1>1, SaidGoesOut
  <1>3. ASSUME NEW d \in Client, NEW x \in {"entering", "present_flowers", "stop_present_flowers"}
        PROVE  /\ StateMessages(s, d, x) \in Seq(Outgoing(s))
               /\ \A m \in Members(StateMessages(s, d, x)) :
                    Tells(m, s, user_visible_flag[s], ClientList(s))
    <2>1. StateMessages(s, d, x) \in Seq(Said(s))
      BY <1>1, SentNow DEF StatesSent, States
    <2>2. \A m \in Members(StateMessages(s, d, x)) :
            Tells(m, s, user_visible_flag[s], ClientList(s))
      BY <1>1, StatesTellNow DEF StatesTell
    <2> QED
      BY <1>2, <2>1, <2>2
  <1> HIDE DEF s
  <1>4. ASSUME NEW r \in Seq(Outgoing(s)),
               UNCHANGED <<players, mSeatNumber, user_visible_flag, link, fromCenter>>,
               \A d \in Client : "connect" \in said[d] => "connect" \in said'[d],
               \A d \in Client : \A t \in Scene : told'[d].external[t] = told[d].external[t],
               SendToCenter(s, r) \/ (r = << >> /\ UNCHANGED <<toCenter, missed, asked>>),
               \A m \in Members(r) : Tells(m, s, user_visible_flag[s], ClientList(s))
        PROVE  \E q : Turn(s, q)
    BY <1>1, <1>4, PlainTurn
  <1>5. CASE TellUserType(c)
    <2>1. /\ UNCHANGED <<players, mSeatNumber, user_visible_flag, link, fromCenter, said, told>>
          /\ UNCHANGED <<toCenter, missed, asked>>
      BY <1>5 DEF TellUserType, clientVars, linkVars
    <2> QED
      BY <1>2, <1>4, <2>1 DEF s
  <1>6. CASE TellReady(c)
    <2>1. /\ UNCHANGED <<players, mSeatNumber, user_visible_flag, link, fromCenter, said>>
          /\ UNCHANGED <<toCenter, missed, asked>>
          /\ told' = told \/ told' = ShowSeat(s, SeatOf[c])
      BY <1>6 DEF TellReady, playerVars, linkVars, s
    <2>2. \A d \in Client : \A t \in Scene : told'[d].external[t] = told[d].external[t]
      <3>1. CASE told' = told
        BY <3>1
      <3>2. CASE told' = ShowSeat(s, SeatOf[c])
        <4>1. SeatOf[c] \in Seat
          BY Clients
        <4>2. \A d \in Client : SameElse(told'[d], told[d])
          BY <1>1, <3>2, <4>1, ShowSeatFacts
        <4> QED
          BY <4>2 DEF SameElse
      <3> QED
        BY <2>1, <3>1, <3>2
    <2> QED
      BY <1>2, <1>4, <2>1, <2>2 DEF s
  <1>7. CASE TellUserProfile(c)
    <2> DEFINE p == GetFreePlayer(s)
    <2>1. /\ UNCHANGED <<players, mSeatNumber, user_visible_flag, link, fromCenter>>
          /\ said' = [said EXCEPT ![c] = @ \cup {"profile"}]
          /\ \/ p # NoClient /\ SendToCenter(s, StateMessages(s, p, "entering"))
             \/ \E r \in Present(s) : SendToCenter(s, StateMessages(s, r, "entering"))
             \/ UNCHANGED <<toCenter, missed, asked>>
      BY <1>7 DEF TellUserProfile, s
    <2>2. (p # NoClient => p \in Present(s)) /\ Present(s) \subseteq Client
      BY <1>1, FreePlayer, PresentClients DEF Roster
    <2>3. \A d \in Client : \A t \in Scene : told'[d].external[t] = told[d].external[t]
      BY <1>7, ToldProfile
    <2>4. \A d \in Client : "connect" \in said[d] => "connect" \in said'[d]
      BY <2>1 DEF Roster, PlayerType
    <2> HIDE DEF p
    <2>5. \/ \E d \in Client : SendToCenter(s, StateMessages(s, d, "entering"))
          \/ UNCHANGED <<toCenter, missed, asked>>
      BY <2>1, <2>2
    <2>6. ASSUME NEW d \in Client, SendToCenter(s, StateMessages(s, d, "entering"))
          PROVE  \E q : Turn(s, q)
      BY <1>3, <1>4, <2>1, <2>3, <2>4, <2>6
    <2>7. CASE UNCHANGED <<toCenter, missed, asked>>
      BY <1>2, <1>4, <2>1, <2>3, <2>4, <2>7 DEF s
    <2> QED
      BY <2>5, <2>6, <2>7 DEF s
  <1>8. ASSUME NEW x \in {"present_flowers", "stop_present_flowers"}, PresentFlowers(c, x)
        PROVE  \E q : Turn(s, q)
    <2>1. /\ UNCHANGED <<players, mSeatNumber, user_visible_flag, link, fromCenter, said, told>>
          /\ SendToCenter(s, StateMessages(s, c, x))
      BY <1>8 DEF PresentFlowers, playerVars, clientVars, s
    <2> QED
      BY <1>3, <1>4, <2>1
  <1>9. ASSUME NEW cmd \in Command, GlobalCommand(c, cmd) PROVE \E q : Turn(s, q)
    <2> DEFINE m == [kind |-> "command", scene |-> s, command |-> cmd]
    <2>1. /\ UNCHANGED <<players, mSeatNumber, user_visible_flag, link, fromCenter, said, told>>
          /\ SendToCenter(s, <<m>>)
      BY <1>9 DEF GlobalCommand, playerVars, s
    <2>2. m \in Outgoing(s) /\ m.kind = "command"
      BY DEF Outgoing, Commanded
    <2> HIDE DEF m
    <2>3. Members(<<m>>) = {m} /\ <<m>> \in Seq(Outgoing(s))
      BY <2>2, OneMember, EmptySeq
    <2>4. Tells(m, s, user_visible_flag[s], ClientList(s))
      BY <2>2, NewsFacts DEF Tells
    <2> QED
      BY <1>4, <2>1, <2>3, <2>4
  <1> QED
    BY <1>5, <1>6, <1>7, <1>8, <1>9 DEF s

LEMMA TurnConnect ==
    ASSUME Roster, Roster', LinkInv, GhostType, ToldType, NEW c \in Client, centerUsers' = centerUsers,
           Connect(c)
    PROVE  Turn(SceneOf[c], << >>)
  <1> DEFINE s == SceneOf[c]
  <1>1. s \in Scene
    BY Clients
  <1>2. << >> \in Seq(Outgoing(s)) /\ Members(<< >>) = {}
    BY <1>1, SaidGoesOut
  <1>3. /\ UNCHANGED <<mSeatNumber, user_visible_flag, link, toCenter, fromCenter, missed, asked>>
        /\ "connect" \notin said[c] /\ said' = [said EXCEPT ![c] = {"connect"}]
    BY DEF Connect, linkVars
  <1>4. /\ c \notin Present(s)
        /\ \A t \in Scene : Present(t)' = IF t = s THEN Present(t) \cup {c} ELSE Present(t)
    BY PresentConnect
  <1>5. mSeatNumber[c] = 0
    BY <1>4 DEF Roster, RosterInv
  <1>6. \A t \in Scene : ClientList(t)' = ClientList(t)
    <2> SUFFICES ASSUME NEW t \in Scene, NEW n
                 PROVE  n \in ClientList(t)' <=> n \in ClientList(t)
      OBVIOUS
    <2>1. n \in ClientList(t) <=> n # 0 /\ \E d \in Present(t) : mSeatNumber[d] = n
      BY ListNow DEF ListOfSeats
    <2>2. n \in ClientList(t)' <=> n # 0 /\ \E d \in Present(t)' : mSeatNumber'[d] = n
      BY ListNext DEF ListOfSeats
    <2> QED
      BY <1>3, <1>4, <1>5, <2>1, <2>2
  <1>7. /\ \A t \in Scene : told'[c].external[t] = {}
        /\ \A d \in Client : d # c => told'[d] = told[d]
    BY ToldConnect
  <1>8. \A d \in Client : d # c => said'[d] = said[d]
    BY <1>3 DEF Roster, PlayerType
  <1>9. \A t \in Scene : Present(t) \subseteq Client
    BY PresentClients DEF Roster
  <1>10. c \notin asked
    BY <1>3 DEF GhostType
  <1> HIDE DEF s
  <1>11. TurnLinks(s, << >>)
    BY <1>1, <1>2, <1>3, TurnSent DEF TurnLinks
  <1>12. TurnSays(s, << >>)
    BY <1>1, <1>2, <1>3, <1>6, TurnTells
  <1>13. TurnShows(s, << >>)
    <2>1. ASSUME NEW t \in Scene, NEW d \in Present(t)'
          PROVE  \/ d \in Present(t) /\ \A u \in Scene : told'[d].external[u] = told[d].external[u]
                 \/ d \notin asked' /\ \A u \in Scene : told'[d].external[u] = {}
      <3>1. CASE d = c
        BY <1>3, <1>7, <1>10, <3>1
      <3>2. CASE d # c
        <4>1. d \in Present(t) /\ d \in Client
          BY <1>4, <1>9, <2>1, <3>2
        <4> QED
          BY <1>7, <3>2, <4>1
      <3> QED
        BY <3>1, <3>2
    <2>2. \A d \in Client : \A t \in Scene : told'[d].external[t] \in {told[d].external[t], {}}
      BY <1>7
    <2>3. \A d \in Client : "connect" \in said[d] => "connect" \in said'[d]
      BY <1>3, <1>8
    <2> QED
      BY <1>3, <1>4, <2>1, <2>2, <2>3 DEF TurnShows
  <1> QED
    BY <1>2, <1>11, <1>12, <1>13 DEF Turn, s

LEMMA TurnDisconnect ==
    ASSUME Roster, Roster', LinkInv, GhostType, ToldType, NEW c \in Client, centerUsers' = centerUsers,
           Disconnect(c)
    PROVE  \E r : Turn(SceneOf[c], r)
  <1> DEFINE s == SceneOf[c]
             m == [kind |-> "user_leave_external", scene |-> s, seat |-> mSeatNumber[c]]
             r == IF user_visible_flag[s] THEN <<m>> ELSE << >>
  <1>1. s \in Scene
    BY Clients
  <1>2. << >> \in Seq(Outgoing(s)) /\ Members(<< >>) = {} /\ Seq(Said(s)) \subseteq Seq(Outgoing(s))
    BY <1>1, SaidGoesOut
  <1>3. /\ UNCHANGED <<user_visible_flag, link, fromCenter, said>>
        /\ SendToCenter(s, r) /\ DeletePlayer(c)
    BY DEF Disconnect
  <1>4. /\ c \in Present(s)
        /\ \A t \in Scene : Present(t)' = IF t = s THEN Present(t) \ {c} ELSE Present(t)
    BY <1>3, PresentDelete
  <1>5. \A d \in Client : d # c => mSeatNumber'[d] = mSeatNumber[d]
    BY <1>3 DEF DeletePlayer, Roster, PlayerType
  <1>6. \A t \in Scene : /\ Present(t) \subseteq Client
                         /\ \A d \in Present(t) : SceneOf[d] = t /\ "connect" \in said[d]
    BY PresentClients DEF Roster, RosterInv
  <1>7. mSeatNumber[c] \in Seat \cup {0} /\ mSeatNumber[c] \in {0, SeatOf[c]}
    BY SeatNumbers DEF Roster, PlayerType
  <1>8. m \in Said(s)
    <2>1. {} \in SUBSET Seat /\ "initial" \in States
      BY DEF States
    <2> QED
      BY <1>1, <1>7, <2>1, MessageKinds
  <1>9. m.kind = "user_leave_external" /\ m.scene = s /\ m.seat = mSeatNumber[c]
    OBVIOUS
  <1>10. /\ told'[c] = Nothing
         /\ \A d \in Client : d # c => SameElse(told'[d], told[d])
    BY ToldDisconnect
  <1> HIDE DEF m
  <1>11. /\ Members(<<m>>) = {m} /\ <<m>> \in Seq(Said(s)) /\ <<m>> \in Seq(Outgoing(s))
    BY <1>2, <1>8, OneMember, EmptySeq
  <1>12. /\ r \in Seq(Outgoing(s))
         /\ \A h \in Members(r) : h = m /\ user_visible_flag[s]
         /\ user_visible_flag[s] => m \in Members(r)
    BY <1>2, <1>11
  <1> HIDE DEF r
  <1>13. \A n : Leaves(m, s, n) <=> n = mSeatNumber[c]
    BY <1>9 DEF Leaves
  <1>14. ~Lists(m, s) /\ \A n : ~Adds(m, s, n)
    BY <1>9 DEF Lists, Adds
  <1>15. \A d \in Present(s) : d # c => SeatOf[d] # SeatOf[c]
    BY <1>1, <1>4 DEF Roster, RosterInv
  <1>16. \A n \in ClientList(s)' : ~Left(r, s, n)
    <2> SUFFICES ASSUME NEW n \in ClientList(s)', n = mSeatNumber[c] PROVE FALSE
      BY <1>12, <1>13 DEF Left
    <2>1. PICK d \in Present(s)' : n # 0 /\ mSeatNumber'[d] = n
      BY <1>1, ListNext DEF ListOfSeats
    <2>2. d \in Present(s) /\ d # c /\ d \in Client
      BY <1>1, <1>4, <1>6, <2>1
    <2>3. SeatOf[d] = n /\ SeatOf[c] = n
      BY <1>5, <1>7, <2>1, <2>2, SeatNumbers DEF Roster, PlayerType
    <2> QED
      BY <1>15, <2>2, <2>3
  <1>17. \A t \in Scene : t # s => c \notin Present(t)
    BY <1>6 DEF s
  <1> HIDE DEF s
  <1>18. \A t \in Scene : t # s => ClientList(t)' = ClientList(t)
    <2> SUFFICES ASSUME NEW t \in Scene, t # s, NEW n
                 PROVE  n \in ClientList(t)' <=> n \in ClientList(t)
      OBVIOUS
    <2>1. n \in ClientList(t) <=> n # 0 /\ \E d \in Present(t) : mSeatNumber[d] = n
      BY ListNow DEF ListOfSeats
    <2>2. n \in ClientList(t)' <=> n # 0 /\ \E d \in Present(t)' : mSeatNumber'[d] = n
      BY ListNext DEF ListOfSeats
    <2>3. Present(t)' = Present(t) /\ \A d \in Present(t) : mSeatNumber'[d] = mSeatNumber[d]
      BY <1>4, <1>5, <1>6, <1>17
    <2> QED
      BY <2>1, <2>2, <2>3
  <1>19. \A n : /\ n \in ClientList(s)' => n \in ClientList(s)
                /\ n \in ClientList(s) /\ n # mSeatNumber[c] => n \in ClientList(s)'
    <2> TAKE n
    <2>1. n \in ClientList(s) <=> n # 0 /\ \E d \in Present(s) : mSeatNumber[d] = n
      BY <1>1, ListNow DEF ListOfSeats
    <2>2. n \in ClientList(s)' <=> n # 0 /\ \E d \in Present(s)' : mSeatNumber'[d] = n
      BY <1>1, ListNext DEF ListOfSeats
    <2>3. Present(s)' = Present(s) \ {c}
          /\ \A d \in Present(s) : d # c => mSeatNumber'[d] = mSeatNumber[d]
      BY <1>1, <1>4, <1>5, <1>6
    <2> QED
      BY <2>1, <2>2, <2>3
  <1>20. TurnLinks(s, r)
    BY <1>1, <1>3, <1>12, TurnSent DEF TurnLinks
  <1>21. TurnSays(s, r)
    <2>1. \A h \in Members(r) : user_visible_flag[s] /\ ~Lists(h, s)
      BY <1>12, <1>14
    <2>2. \A n : ~Added(r, s, n)
      BY <1>12, <1>14 DEF Added
    <2>3. user_visible_flag[s] => \A n \in ClientList(s) \ ClientList(s)' : Left(r, s, n)
      BY <1>12, <1>13, <1>19 DEF Left
    <2> QED
      BY <1>3, <1>16, <1>18, <1>19, <2>1, <2>2, <2>3 DEF TurnSays
  <1>22. TurnShows(s, r)
    <2>1. \A t \in Scene : Present(t)' \subseteq Present(t) /\ c \notin Present(t)'
      BY <1>4, <1>17
    <2>2. \A d \in Client : d # c => \A t \in Scene : told'[d].external[t] = told[d].external[t]
      BY <1>10 DEF SameElse
    <2>3. \A d \in Client : \A t \in Scene : told'[d].external[t] \in {told[d].external[t], {}}
      BY <1>10, <2>2, NothingShown
    <2>4. /\ asked \subseteq asked'
          /\ \A d \in asked' \ asked : d \in Present(s) /\ link[s] = "up" /\ Requested(r, s)
      BY <1>1, <1>3, <1>12, TurnAsked
    <2>5. \A t \in Scene : \A d \in Present(t)' :
            d \in Present(t) /\ \A u \in Scene : told'[d].external[u] = told[d].external[u]
      BY <1>6, <2>1, <2>2
    <2> QED
      BY <1>3, <1>4, <2>3, <2>4, <2>5 DEF TurnShows
  <1> QED
    BY <1>12, <1>20, <1>21, <1>22 DEF Turn, s

LEMMA ThreeParts ==
    ASSUME NEW S, NEW a \in Seq(S), NEW b \in Seq(S), NEW d \in Seq(S)
    PROVE  /\ a \o b \o d \in Seq(S)
           /\ Members(a \o b \o d) = Members(a) \cup Members(b) \cup Members(d)
  <1> DEFINE q == a \o b
  <1>1. q \in Seq(S) /\ Members(q) = Members(a) \cup Members(b)
    BY ConcatProperties, MembersConcat
  <1> HIDE DEF q
  <1>2. q \o d \in Seq(S) /\ Members(q \o d) = Members(q) \cup Members(d)
    BY <1>1, ConcatProperties, MembersConcat
  <1>3. a \o b \o d = q \o d
    BY DEF q
  <1> QED
    BY <1>1, <1>2, <1>3

LEMMA TurnSeat ==
    ASSUME Roster, Roster', LinkInv, GhostType, ToldType, NEW c \in Client, centerUsers' = centerUsers,
           TellSeatNumber(c)
    PROVE  \E r : Turn(SceneOf[c], r)
  <1> DEFINE s == SceneOf[c]
             n == SeatOf[c]
             q == StateMessages(s, c, "initial")' \o ListMessages(s)' \o <<Request(s)>>
             r == IF user_visible_flag[s] THEN q ELSE << >>
  <1>1. s \in Scene /\ n \in Seat /\ n # 0
    BY Clients
  <1>2. << >> \in Seq(Outgoing(s)) /\ Members(<< >>) = {} /\ Seq(Said(s)) \subseteq Seq(Outgoing(s))
    BY <1>1, SaidGoesOut
  <1>3. /\ UNCHANGED <<players, user_visible_flag, link, fromCenter, said>>
        /\ c \in Present(s) /\ mSeatNumber' = [mSeatNumber EXCEPT ![c] = n]
        /\ told' = ShowSeat(s, n)
        /\ SendToCenter(s, r)
    BY DEF TellSeatNumber
  <1>4. /\ mSeatNumber'[c] = n /\ mSeatNumber[c] = 0
        /\ \A d \in Client : d # c => mSeatNumber'[d] = mSeatNumber[d]
    BY <1>3 DEF TellSeatNumber, Roster, PlayerType
  <1>5. \A t \in Scene : /\ Present(t)' = Present(t) /\ Present(t) \subseteq Client
                         /\ \A d \in Present(t) : SceneOf[d] = t
    BY <1>3, PresentClients DEF Present, Roster, RosterInv
  <1>6. \A t \in Scene : t # s => c \notin Present(t)
    BY <1>5
  <1>7. ASSUME NEW t \in Scene, NEW i
        PROVE  i \in ClientList(t)' <=> i \in ClientList(t) \/ (t = s /\ i = n)
    <2>1. i \in ClientList(t) <=> i # 0 /\ \E d \in Present(t) : mSeatNumber[d] = i
      BY ListNow DEF ListOfSeats
    <2>2. i \in ClientList(t)' <=> i # 0 /\ \E d \in Present(t) : mSeatNumber'[d] = i
      BY <1>5, ListNext DEF ListOfSeats
    <2>3. c \in Present(t) <=> t = s
      BY <1>3, <1>6
    <2>4. \A d \in Present(t) : d # c => mSeatNumber'[d] = mSeatNumber[d]
      BY <1>4, <1>5
    <2> HIDE DEF s, n, r
    <2> QED
      BY <1>1, <1>4, <2>1, <2>2, <2>3, <2>4
  <1>8. StateMessages(s, c, "initial")' \in Seq(Said(s)) /\ ListMessages(s)' \in Seq(Said(s))
    BY <1>1, <1>4, SentNext DEF StatesSent, ListsSent, States
  <1>9. \A m \in Members(StateMessages(s, c, "initial")') :
            Tells(m, s, user_visible_flag'[s], ClientList(s)')
    BY <1>1, <1>4, <1>7, StatesTellNext DEF StatesTell
  <1>10. /\ \A m \in Members(ListMessages(s)') : Tells(m, s, TRUE, ClientList(s)')
         /\ \A i \in ClientList(s)' : Added(ListMessages(s)', s, i)
    BY <1>1, ListsTellNext DEF ListsTell
  <1> DEFINE a == StateMessages(s, c, "initial")'
             b == ListMessages(s)'
             d == <<Request(s)>>
  <1>11. a \in Seq(Outgoing(s)) /\ b \in Seq(Outgoing(s)) /\ d \in Seq(Outgoing(s))
    BY <1>1, <1>2, <1>8, RequestTells
  <1>12. Members(d) = {Request(s)} /\ Tells(Request(s), s, TRUE, ClientList(s)')
    BY <1>1, RequestTells
  <1>13. q = a \o b \o d
    OBVIOUS
  <1> HIDE DEF a, b, d, q
  <1>14. q \in Seq(Outgoing(s)) /\ Members(q) = Members(a) \cup Members(b) \cup Members(d)
    BY <1>11, <1>13, ThreeParts
  <1>15. user_visible_flag[s] =>
            \A m \in Members(q) : Tells(m, s, user_visible_flag'[s], ClientList(s)')
    <2>1. ASSUME user_visible_flag[s], NEW m \in Members(q)
          PROVE  Tells(m, s, user_visible_flag'[s], ClientList(s)')
      <3>1. user_visible_flag'[s]
        BY <1>3, <2>1
      <3>2. m \in Members(a) \/ m \in Members(b) \/ m = Request(s)
        BY <1>12, <1>14, <2>1
      <3>3. Tells(m, s, user_visible_flag'[s], ClientList(s)') \/ Tells(m, s, TRUE, ClientList(s)')
        BY <1>9, <1>10, <1>12, <3>2 DEF a, b
      <3> QED
        BY <3>1, <3>3 DEF Tells
    <2> QED
      BY <2>1
  <1>16. \A i \in ClientList(s)' : Added(q, s, i)
    BY <1>10, <1>14 DEF Added, b
  <1>17. q # << >>
    <2>1. Request(s) \in Members(q)
      BY <1>12, <1>14
    <2> QED
      BY <1>2, <2>1
  <1>18. /\ r \in Seq(Outgoing(s))
         /\ \A m \in Members(r) : Tells(m, s, user_visible_flag'[s], ClientList(s)')
         /\ user_visible_flag[s] => r # << >> /\ \A i \in ClientList(s)' : Added(r, s, i)
    BY <1>2, <1>14, <1>15, <1>16, <1>17
  <1> HIDE DEF r
  <1>19. \A e \in Client : \A t \in Scene : told'[e].external[t] = told[e].external[t]
    <2>1. \A e \in Client : SameElse(told'[e], told[e])
      BY <1>1, <1>3, ShowSeatFacts
    <2> QED
      BY <2>1 DEF SameElse
  <1> HIDE DEF s, n
  <1>20. TurnLinks(s, r)
    BY <1>1, <1>3, <1>18, TurnSent DEF TurnLinks
  <1>21. TurnSays(s, r)
    <2>1. ClientList(s) \subseteq ClientList(s)' /\ \A t \in Scene : t # s => ClientList(t)' = ClientList(t)
      BY <1>1, <1>7
    <2>2. CASE user_visible_flag[s]
      BY <1>1, <1>3, <1>18, <2>1, <2>2, TurnTells
    <2>3. CASE ~user_visible_flag[s]
      BY <1>1, <1>3, <1>18, <2>1, <2>3, TurnTells
    <2> QED
      BY <2>2, <2>3
  <1>22. TurnShows(s, r)
    BY <1>1, <1>3, <1>18, <1>19, TurnKeeps
  <1> QED
    BY <1>18, <1>20, <1>21, <1>22 DEF Turn, s

LEMMA TurnSeen ==
    ASSUME Roster, Roster', LinkInv, GhostType, NEW c \in Client, centerUsers' = centerUsers,
           SeenExternal(c)
    PROVE  \E r : Turn(SceneOf[c], r)
  <1> DEFINE s == SceneOf[c]
             b == ListMessages(s)
             d == <<Request(s)>>
             r == b \o d
  <1>1. s \in Scene
    BY Clients
  <1>2. /\ UNCHANGED <<players, mSeatNumber, link, fromCenter, said, told>>
        /\ user_visible_flag' = [user_visible_flag EXCEPT ![s] = TRUE]
        /\ SendToCenter(s, r)
    BY DEF SeenExternal, playerVars
  <1>3. user_visible_flag'[s] /\ \A t \in Scene : t # s => user_visible_flag'[t] = user_visible_flag[t]
    BY <1>1, <1>2 DEF LinkInv
  <1>4. \A t \in Scene : ClientList(t)' = ClientList(t)
    BY <1>2, ListsKept
  <1>5. b \in Seq(Outgoing(s)) /\ d \in Seq(Outgoing(s))
    BY <1>1, SentNow, SaidGoesOut, RequestTells DEF ListsSent
  <1>6. /\ \A m \in Members(b) : Tells(m, s, TRUE, ClientList(s))
        /\ \A i \in ClientList(s) : Added(b, s, i)
    BY <1>1, ListsTellNow DEF ListsTell
  <1>7. Members(d) = {Request(s)} /\ Tells(Request(s), s, TRUE, ClientList(s))
    BY <1>1, RequestTells
  <1> HIDE DEF b, d, s
  <1>8. r \in Seq(Outgoing(s)) /\ Members(r) = Members(b) \cup Members(d)
    BY <1>5, ConcatProperties, MembersConcat
  <1> HIDE DEF r
  <1>9. r # << >>
    <2>1. Request(s) \in Members(r)
      BY <1>7, <1>8
    <2> QED
      BY <1>1, <2>1, SaidGoesOut
  <1>10. \A m \in Members(r) : Tells(m, s, user_visible_flag'[s], ClientList(s)')
    <2>1. \A m \in Members(r) : Tells(m, s, TRUE, ClientList(s))
      BY <1>6, <1>7, <1>8
    <2> QED
      BY <1>1, <1>3, <1>4, <2>1 DEF Tells
  <1>11. \A i \in ClientList(s)' : Added(r, s, i)
    BY <1>1, <1>4, <1>6, <1>8 DEF Added
  <1>12. TurnLinks(s, r)
    BY <1>1, <1>2, <1>8, TurnSent DEF TurnLinks
  <1>13. TurnSays(s, r)
    BY <1>1, <1>3, <1>4, <1>9, <1>10, <1>11, TurnTells
  <1>14. TurnShows(s, r)
    BY <1>1, <1>2, <1>8, TurnKeeps
  <1> QED
    BY <1>8, <1>12, <1>13, <1>14 DEF Turn, s

LEMMA TurnRequest ==
    ASSUME Roster, Roster', LinkInv, GhostType, NEW s \in Scene, centerUsers' = centerUsers,
           HandleCenterMessage(s), Head(fromCenter[s]).kind = "req_usr_list"
    PROVE  \E r : Turn(s, r)
  <1> DEFINE r == ListMessages(s)
  <1>1. /\ UNCHANGED <<players, mSeatNumber, link, said, told>>
        /\ fromCenter[s] # << >>
        /\ fromCenter' = [fromCenter EXCEPT ![s] = Tail(fromCenter[s])]
        /\ user_visible_flag' = [user_visible_flag EXCEPT ![s] = TRUE]
        /\ SendToCenter(s, r)
    BY DEF HandleCenterMessage, HandleRequest, playerVars
  <1>2. user_visible_flag'[s] /\ \A t \in Scene : t # s => user_visible_flag'[t] = user_visible_flag[t]
    BY <1>1 DEF LinkInv
  <1>3. /\ fromCenter'[s] = Tail(fromCenter[s])
        /\ \A t \in Scene : t # s => fromCenter'[t] = fromCenter[t]
    BY <1>1 DEF LinkInv
  <1>4. \A t \in Scene : ClientList(t)' = ClientList(t)
    BY <1>1, ListsKept
  <1>5. r \in Seq(Outgoing(s))
    BY SentNow, SaidGoesOut DEF ListsSent
  <1>6. /\ \A m \in Members(r) : Tells(m, s, TRUE, ClientList(s))
        /\ \A i \in ClientList(s) : Added(r, s, i)
    BY ListsTellNow DEF ListsTell
  <1> HIDE DEF r
  <1>7. \A m \in Members(r) : Tells(m, s, user_visible_flag'[s], ClientList(s)')
    BY <1>2, <1>4, <1>6 DEF Tells
  <1>8. \A i \in ClientList(s)' : Added(r, s, i)
    BY <1>4, <1>6
  <1>9. TurnLinks(s, r)
    BY <1>1, <1>3, <1>5, <1>8, TurnSent DEF TurnLinks
  <1>10. TurnSays(s, r)
    BY <1>1, <1>2, <1>4, <1>7, <1>8, TurnTells
  <1>11. TurnShows(s, r)
    BY <1>1, <1>5, TurnKeeps
  <1> QED
    BY <1>5, <1>9, <1>10, <1>11 DEF Turn

\* Every step of a scene is a turn that sends what it says, or passes on what
\* others say.
LEMMA SceneTurns ==
    ASSUME Roster, Roster', LinkInv, GhostType, ToldType, SceneNext, centerUsers' = centerUsers
    PROVE  \E s \in Scene : Passes(s) \/ \E r : Turn(s, r)
  <1>1. \A c \in Client : SceneOf[c] \in Scene
    BY Clients
  <1>2. ASSUME NEW s \in Scene, HandleCenterMessage(s) PROVE Passes(s) \/ \E r : Turn(s, r)
    BY <1>2, TurnRequest, PassesOn
  <1>3. ASSUME NEW c \in Client,
               \/ TellUserType(c) \/ TellReady(c) \/ TellUserProfile(c)
               \/ \E x \in {"present_flowers", "stop_present_flowers"} : PresentFlowers(c, x)
               \/ \E cmd \in Command : GlobalCommand(c, cmd)
        PROVE  \E r : Turn(SceneOf[c], r)
    BY <1>3, TurnPlain
  <1>4. ASSUME NEW c \in Client, Connect(c) \/ Disconnect(c) \/ TellSeatNumber(c) \/ SeenExternal(c)
        PROVE  \E r : Turn(SceneOf[c], r)
    BY <1>4, TurnConnect, TurnDisconnect, TurnSeat, TurnSeen
  <1> QED
    BY <1>1, <1>2, <1>3, <1>4 DEF SceneNext

LEMMA ShownTurn ==
    ASSUME Roster, Roster', LinkInv, ShownInv, NEW s \in Scene, NEW r, Turn(s, r)
    PROVE  ShownInv'
  <1>1. /\ GhostType /\ UnseenInv /\ UnheardInv
        /\ StaleInv /\ RenewedInv /\ ReturnInv /\ OwedInv /\ CoverInv
    BY DEF ShownInv
  <1>2. GhostType' /\ UnseenInv' /\ UnheardInv'
    BY <1>1, AskedTurn, UnseenTurn, UnheardTurn
  <1>3. StaleInv' /\ RenewedInv' /\ ReturnInv' /\ OwedInv' /\ CoverInv'
    BY <1>1, StaleTurn, RenewedTurn, ReturnTurn, OwedTurn, CoverTurn
  <1> QED
    BY <1>2, <1>3 DEF ShownInv

LEMMA ShownStutter == ShownInv /\ UNCHANGED theatreVars => ShownInv'
  <1> SUFFICES ASSUME ShownInv, UNCHANGED theatreVars PROVE ShownInv'
    OBVIOUS
  <1>1. Still /\ UNCHANGED <<link, toCenter, fromCenter, missed, centerUsers>>
    BY DEF theatreVars, sceneVars, playerVars, clientVars, linkVars, Still
  <1>2. /\ UNCHANGED <<said, told, user_visible_flag, asked>>
        /\ \A t : Present(t)' = Present(t)
        /\ \A t : ClientList(t)' = ClientList(t)
    BY <1>1, StillFacts
  <1>3. GhostType' /\ UnseenInv' /\ UnheardInv'
    BY <1>1, <1>2 DEF ShownInv, GhostType, UnseenInv, UnheardInv
  <1>4. StaleInv' /\ RenewedInv' /\ ReturnInv' /\ OwedInv'
    BY <1>1, <1>2 DEF ShownInv, StaleInv, RenewedInv, ReturnInv, OwedInv
  <1>5. CoverInv'
    BY <1>1, <1>2 DEF ShownInv, CoverInv, Covered
  <1> QED
    BY <1>3, <1>4, <1>5 DEF ShownInv

LEMMA ShownNext ==
    Roster /\ Roster' /\ LinkInv /\ ToldType /\ ShownInv /\ [TheatreNext]_theatreVars => ShownInv'
  <1> SUFFICES ASSUME Roster, Roster', LinkInv, ToldType, ShownInv, [TheatreNext]_theatreVars
               PROVE  ShownInv'
    OBVIOUS
  <1>1. GhostType
    BY DEF ShownInv
  <1>2. CASE SceneNext /\ UNCHANGED centerUsers
    <2>1. PICK s \in Scene : Passes(s) \/ \E r : Turn(s, r)
      BY <1>1, <1>2, SceneTurns
    <2> QED
      BY <2>1, ShownPasses, ShownTurn
  <1>3. ASSUME NEW s \in Scene, CenterHandle(s) PROVE ShownInv'
    BY <1>1, <1>3, CenterPasses, ShownHandled
  <1> QED
    BY <1>2, <1>3, ShownConnected, ShownLost, ShownStutter DEF TheatreNext

LEMMA ShownInit == TheatreInit => ShownInv
  <1> SUFFICES ASSUME TheatreInit PROVE ShownInv
    OBVIOUS
  <1>1. \A s \in Scene : /\ players[s] = << >> /\ ~user_visible_flag[s] /\ link[s] = "connecting"
                         /\ toCenter[s] = << >> /\ fromCenter[s] = << >>
    BY DEF TheatreInit, Init
  <1>2. missed \in [Scene -> BOOLEAN] /\ asked = {}
    BY DEF TheatreInit, Init
  <1>3. \A c \in Client : \A s \in Scene : told[c].external[s] = {}
    BY NothingShown DEF TheatreInit, Init
  <1>4. \A s \in Scene : Present(s) = {}
    BY <1>1 DEF Present
  <1>5. \A s \in Scene : ClientList(s) = {}
    BY <1>4 DEF ClientList
  <1>6. GhostType
    BY <1>2 DEF GhostType
  <1>7. ReturnInv
    BY <1>5 DEF ReturnInv
  <1>8. UnseenInv
    BY <1>1, <1>3, NothingSaid DEF UnseenInv
  <1>9. UnheardInv
    BY <1>1, <1>4 DEF UnheardInv
  <1>10. StaleInv /\ OwedInv /\ CoverInv
    BY <1>1, <1>2 DEF StaleInv, OwedInv, CoverInv
  <1>11. RenewedInv
    BY <1>5 DEF RenewedInv
  <1> QED
    BY <1>6, <1>7, <1>8, <1>9, <1>10, <1>11 DEF ShownInv

LEMMA TheatreShown == TheatreSpec => []ShownInv
  BY ShownInit, ShownNext, TheatreRoster, TheatreLinks, TheatreTold, PTL DEF TheatreSpec

\* Whatever the order in which scenes connect, become visible, are left by the
\* center, and in which clients come, sit down and go: once the messages between
\* the servers are handled, the clients that were seated when their scene asked
\* for lists show exactly the seats taken in each other connected scene.
THEOREM ExternalViewsAgree == TheatreSpec => []ExternalViews
  <1>1. ShownInv => ExternalViews
    <2> SUFFICES ASSUME ShownInv, NEW s \in Scene, NEW t \in Scene, s # t, Quiet,
                        link[s] = "up", user_visible_flag[s], ~missed[s],
                        link[t] = "up", user_visible_flag[t], ~missed[t],
                        NEW c \in Present(s) \cap asked
                 PROVE  told[c].external[t] = ClientList(t)
      BY DEF ExternalViews
    <2> SUFFICES ASSUME NEW n PROVE n \in told[c].external[t] <=> n \in ClientList(t)
      OBVIOUS
    <2>1. \A u \in Scene : toCenter[u] = << >> /\ fromCenter[u] = << >>
      BY DEF Quiet
    <2>2. ASSUME n \in ClientList(t) PROVE n \in told[c].external[t]
      <3>1. Covered(c, s, t, n)
        BY <2>2 DEF ShownInv, CoverInv
      <3> QED
        BY <2>1, <3>1, NothingSaid DEF Covered
    <2>3. ASSUME n \notin ClientList(t) PROVE n \notin told[c].external[t]
      <3>1. ~Left(toCenter[t], t, n) /\ ~Left(fromCenter[s], t, n)
        BY <2>1, NothingSaid
      <3> QED
        BY <2>3, <3>1 DEF ShownInv, StaleInv
    <2> QED
      BY <2>2, <2>3
  <1> QED
    BY <1>1, TheatreShown, PTL
=============================================================================
