--------------------------- MODULE FlvRelayProofs ---------------------------
(* What holds of the distribution of the video stream for every set of users *)
(* and of types of headers. *)
EXTENDS FlvRelay, SequenceTheorems, TLAPS

-----------------------------------------------------------------------------
(* Lists. *)

ListedIn(q) == {q[k] : k \in DOMAIN q}

LEMMA ListedAppend ==
    ASSUME NEW q \in Seq(User), NEW u \in User
    PROVE  /\ Append(q, u) \in Seq(User)
           /\ Len(Append(q, u)) = Len(q) + 1
           /\ ListedIn(Append(q, u)) = ListedIn(q) \cup {u}
  <1> DEFINE s == Append(q, u)
  <1>1. s \in Seq(User) /\ Len(s) = Len(q) + 1
    BY AppendProperties
  <1>2. /\ Len(q) \in Nat /\ DOMAIN q = 1 .. Len(q) /\ DOMAIN s = 1 .. Len(q) + 1
        /\ \A i \in 1 .. Len(q) : s[i] = q[i]
        /\ s[Len(q) + 1] = u
    BY <1>1, AppendProperties, LenProperties
  <1> HIDE DEF s
  <1>3. DOMAIN s = DOMAIN q \cup {Len(q) + 1}
    BY <1>2
  <1>4. ListedIn(s) = ListedIn(q) \cup {u}
    BY <1>2, <1>3 DEF ListedIn
  <1> QED
    BY <1>1, <1>4 DEF s

\* Erase takes the k-th element out of a list and keeps the order of the others.
LEMMA EraseFacts ==
    ASSUME NEW q \in Seq(User), NEW k \in 1 .. Len(q)
    PROVE  /\ Erase(q, k) \in Seq(User)
           /\ Len(Erase(q, k)) = Len(q) - 1
           /\ \A i \in 1 .. Len(q) - 1 :
                Erase(q, k)[i] = IF i < k THEN q[i] ELSE q[i + 1]
  <1> DEFINE a == SubSeq(q, 1, k - 1)
             b == SubSeq(q, k + 1, Len(q))
  <1>1. PICK n \in Nat : n = Len(q) /\ k \in 1 .. n /\ \A i \in 1 .. n : q[i] \in User
    BY LenProperties, ElementOfSeq
  <1>2. a \in Seq(User) /\ Len(a) = k - 1 /\ \A i \in 1 .. k - 1 : a[i] = q[i]
    <2>1. \A i \in 1 .. k - 1 : q[i] \in User
      BY <1>1
    <2>2. /\ a \in Seq(User) /\ Len(a) = IF 1 <= k - 1 THEN k - 1 - 1 + 1 ELSE 0
          /\ \A i \in 1 .. k - 1 - 1 + 1 : a[i] = q[1 + i - 1]
      BY <1>1, <2>1, SubSeqProperties
    <2>3. k - 1 \in Nat /\ k - 1 - 1 + 1 = k - 1
      BY <1>1
    <2>4. \A i \in 1 .. k - 1 : 1 + i - 1 = i
      OBVIOUS
    <2> HIDE DEF a
    <2> QED
      BY <2>2, <2>3, <2>4
  <1>3. b \in Seq(User) /\ Len(b) = n - k /\ \A i \in 1 .. n - k : b[i] = q[k + i]
    <2>1. \A i \in k + 1 .. n : q[i] \in User
      BY <1>1
    <2>2. /\ b \in Seq(User) /\ Len(b) = IF k + 1 <= n THEN n - (k + 1) + 1 ELSE 0
          /\ \A i \in 1 .. n - (k + 1) + 1 : b[i] = q[k + 1 + i - 1]
      BY <1>1, <2>1, SubSeqProperties
    <2>3. n - k \in Nat /\ n - (k + 1) + 1 = n - k
      BY <1>1
    <2>4. \A i \in 1 .. n - k : k + 1 + i - 1 = k + i
      BY <1>1
    <2> HIDE DEF b
    <2> QED
      BY <1>1, <2>2, <2>3, <2>4
  <1> HIDE DEF a, b
  <1>4. Erase(q, k) = a \o b
    BY DEF Erase, a, b
  <1>5. /\ a \o b \in Seq(User) /\ Len(a \o b) = Len(a) + Len(b)
        /\ \A i \in 1 .. Len(a) + Len(b) :
            (a \o b)[i] = IF i <= Len(a) THEN a[i] ELSE b[i - Len(a)]
    BY <1>2, <1>3, ConcatProperties
  <1> DEFINE r == a \o b
  <1>6. r \in Seq(User) /\ Len(r) = n - 1
    BY <1>1, <1>2, <1>3, <1>5
  <1>7. \A i \in 1 .. n - 1 : r[i] = IF i <= k - 1 THEN a[i] ELSE b[i - (k - 1)]
    BY <1>1, <1>2, <1>3, <1>5
  <1> HIDE DEF r
  <1>8. \A i \in 1 .. n - 1 : r[i] = IF i < k THEN q[i] ELSE q[i + 1]
    <2> SUFFICES ASSUME NEW i \in 1 .. n - 1 PROVE r[i] = IF i < k THEN q[i] ELSE q[i + 1]
      OBVIOUS
    <2>1. CASE i < k
      <3>1. i \in 1 .. k - 1 /\ i <= k - 1
        BY <1>1, <2>1
      <3> QED
        BY <1>2, <1>7, <2>1, <3>1
    <2>2. CASE ~(i < k)
      <3>1. i - (k - 1) \in 1 .. n - k /\ k + (i - (k - 1)) = i + 1 /\ ~(i <= k - 1)
        BY <1>1, <2>2
      <3>2. b[i - (k - 1)] = q[k + (i - (k - 1))]
        BY <1>3, <3>1
      <3> QED
        BY <1>7, <2>2, <3>1, <3>2
    <2> QED
      BY <2>1, <2>2
  <1> QED
    BY <1>1, <1>4, <1>6, <1>8 DEF r

\* It lists all others still.
LEMMA ListedErase ==
    ASSUME NEW q \in Seq(User), NEW k \in 1 .. Len(q)
    PROVE  /\ ListedIn(q) \ {q[k]} \subseteq ListedIn(Erase(q, k))
           /\ ListedIn(Erase(q, k)) \subseteq ListedIn(q)
  <1> DEFINE r == Erase(q, k)
  <1>1. PICK n \in Nat : n = Len(q) /\ DOMAIN q = 1 .. n /\ k \in 1 .. n
    BY LenProperties
  <1>2. r \in Seq(User) /\ Len(r) = n - 1
        /\ \A i \in 1 .. n - 1 : r[i] = IF i < k THEN q[i] ELSE q[i + 1]
    BY <1>1, EraseFacts
  <1> HIDE DEF r
  <1>3. DOMAIN r = 1 .. n - 1
    BY <1>2, LenProperties
  <1>4. \A i \in 1 .. n - 1 : \E j \in 1 .. n : r[i] = q[j]
    <2> SUFFICES ASSUME NEW i \in 1 .. n - 1 PROVE \E j \in 1 .. n : r[i] = q[j]
      OBVIOUS
    <2>1. i \in 1 .. n /\ i + 1 \in 1 .. n
      BY <1>1
    <2> QED
      BY <1>2, <2>1
  <1>5. \A j \in 1 .. n : j # k => \E i \in 1 .. n - 1 : r[i] = q[j]
    <2> SUFFICES ASSUME NEW j \in 1 .. n, j # k PROVE \E i \in 1 .. n - 1 : r[i] = q[j]
      OBVIOUS
    <2>1. CASE j < k
      <3>1. j \in 1 .. n - 1
        BY <1>1, <2>1
      <3> QED
        BY <1>2, <2>1, <3>1
    <2>2. CASE j > k
      <3>1. j - 1 \in 1 .. n - 1 /\ ~(j - 1 < k) /\ (j - 1) + 1 = j
        BY <1>1, <2>2
      <3>2. r[j - 1] = q[(j - 1) + 1]
        BY <1>2, <3>1
      <3> QED
        BY <3>1, <3>2
    <2> QED
      BY <1>1, <2>1, <2>2
  <1>6. ListedIn(r) \subseteq ListedIn(q)
    <2> SUFFICES ASSUME NEW u \in ListedIn(r) PROVE u \in ListedIn(q)
      OBVIOUS
    <2>1. PICK i \in 1 .. n - 1 : r[i] = u
      BY <1>3 DEF ListedIn
    <2>2. PICK j \in 1 .. n : r[i] = q[j]
      BY <1>4
    <2> QED
      BY <1>1, <2>1, <2>2 DEF ListedIn
  <1>7. ListedIn(q) \ {q[k]} \subseteq ListedIn(r)
    <2> SUFFICES ASSUME NEW u \in ListedIn(q), u # q[k] PROVE u \in ListedIn(r)
      OBVIOUS
    <2>1. PICK j \in 1 .. n : q[j] = u
      BY <1>1 DEF ListedIn
    <2>2. PICK i \in 1 .. n - 1 : r[i] = q[j]
      BY <1>5, <2>1
    <2> QED
      BY <1>3, <2>1, <2>2 DEF ListedIn
  <1> QED
    BY <1>6, <1>7 DEF r

-----------------------------------------------------------------------------
(* Types. *)

\* Frames go to users of the list only, and a link that is lost stays lost.
ListType ==
    /\ users \in Seq(User) /\ position \in 0 .. Len(users) + 1
    /\ valid \subseteq Listed /\ gone \subseteq User /\ valid \cap gone = {}
    /\ framed \subseteq Listed \cup gone

FlagType ==
    /\ mIsOBSClient \in [User -> BOOLEAN]
    /\ mFlvSeqHeaderFlag \in [User -> BOOLEAN]
    /\ flvSeqHeaderChange \in BOOLEAN

Version == [HeaderType -> 0 .. MaxVersion]

VersionType ==
    /\ flvSeqHeaderMap \in Version
    /\ decoder \in [User -> Version]
    /\ needed \in [User -> Version]

TypeInv == ListType /\ FlagType /\ VersionType

LEMMA TypeFromInv == TypeInv => TypeOK
  BY DEF TypeInv, ListType, FlagType, VersionType, Version, TypeOK

LEMMA ListedIsUser == ListType => Listed \subseteq User /\ Len(users) \in Nat
                                  /\ DOMAIN users = 1 .. Len(users)
  BY ElementOfSeq, LenProperties DEF ListType, Listed

LEMMA NoHeadersType == NoHeaders \in Version
  BY FlvRelayAssumption DEF NoHeaders, Version

LEMMA TypeInit == Init => TypeInv
  <1> SUFFICES ASSUME Init PROVE TypeInv
    OBVIOUS
  <1>1. ListType
    BY EmptySeq DEF Init, ListType
  <1>2. FlagType
    BY FlvRelayAssumption DEF Init, FlagType
  <1>3. VersionType
    BY NoHeadersType DEF Init, VersionType
  <1> QED
    BY <1>1, <1>2, <1>3 DEF TypeInv

\* What the list's own steps leave alone.
LEMMA ListSteps ==
    ASSUME NEW u \in User, AddUser(u) \/ LinkLost(u) \/ DeleteUser(u)
    PROVE  UNCHANGED <<server, mIsOBSClient, mFlvSeqHeaderFlag, headerVars, position, decoder,
                       ghostVars>>
  BY DEF AddUser, LinkLost, DeleteUser

LEMMA ListTypeStep ==
    ASSUME ListType, NEW u \in User, AddUser(u) \/ LinkLost(u) \/ DeleteUser(u)
    PROVE  ListType'
  <1>1. UNCHANGED <<position, framed>>
    BY ListSteps DEF ghostVars
  <1>2. CASE AddUser(u)
    <2>1. /\ users' \in Seq(User) /\ Len(users') = Len(users) + 1
          /\ Listed' = Listed \cup {u}
      BY <1>2, ListedAppend DEF AddUser, ListType, Listed, ListedIn
    <2>2. position' \in 0 .. Len(users') + 1
      BY <1>1, <2>1, ListedIsUser DEF ListType
    <2> QED
      BY <1>1, <1>2, <2>1, <2>2 DEF AddUser, ListType
  <1>3. CASE LinkLost(u)
    BY <1>1, <1>3, ListedIsUser DEF LinkLost, ListType, Listed
  <1>4. CASE DeleteUser(u)
    <2>1. PICK k \in DOMAIN users : users[k] = u /\ users' = Erase(users, k)
      BY <1>4 DEF DeleteUser
    <2>2. k \in 1 .. Len(users)
      BY ListedIsUser
    <2>3. users' \in Seq(User) /\ Len(users') = Len(users) - 1
      BY <2>1, <2>2, EraseFacts DEF ListType
    <2>4. Listed \ {u} \subseteq Listed'
      <3>1. ListedIn(users) \ {users[k]} \subseteq ListedIn(Erase(users, k))
        BY <2>2, ListedErase DEF ListType
      <3> QED
        BY <2>1, <3>1 DEF Listed, ListedIn
    <2>5. position' = 0 /\ u \in gone /\ UNCHANGED <<valid, gone>>
      BY <1>4 DEF DeleteUser
    <2>6. position' \in 0 .. Len(users') + 1
      <3>1. Len(users') \in Nat
        BY <2>3, LenProperties
      <3> QED
        BY <2>5, <3>1
    <2>7. valid' \subseteq Listed' /\ framed' \subseteq Listed' \cup gone'
      BY <1>1, <2>4, <2>5 DEF ListType
    <2> QED
      BY <2>3, <2>5, <2>6, <2>7 DEF ListType
  <1> QED
    BY <1>2, <1>3, <1>4

\* What SendFrame does for the user whose turn it is.
LEMMA SendToType ==
    ASSUME FlagType, VersionType, NEW u \in User, SendTo(u)
    PROVE  /\ mFlvSeqHeaderFlag' \in [User -> BOOLEAN]
           /\ flvSeqHeaderChange' \in BOOLEAN
           /\ decoder' \in [User -> Version]
           /\ needed' \in [User -> Version]
  <1> USE DEF FlagType, VersionType
  <1>1. needed' \in [User -> Version]
    BY DEF SendTo
  <1>2. CASE SendFlvSeqHeaderData(u) /\ flvSeqHeaderChange' = FALSE
    <2>1. decoder' \in [User -> Version]
      BY <1>2 DEF SendFlvSeqHeaderData
    <2>2. mFlvSeqHeaderFlag' \in [User -> BOOLEAN]
      <3> DEFINE served == u \in valid \/ flvSeqHeaderMap = NoHeaders
      <3>1. mFlvSeqHeaderFlag' = [mFlvSeqHeaderFlag EXCEPT ![u] = @ \/ served]
        BY <1>2 DEF SendFlvSeqHeaderData
      <3>2. (mFlvSeqHeaderFlag[u] \/ served) \in BOOLEAN
        OBVIOUS
      <3> HIDE DEF served
      <3> QED
        BY <3>1, <3>2
    <2> QED
      BY <1>1, <1>2, <2>1, <2>2
  <1>3. CASE UNCHANGED <<mFlvSeqHeaderFlag, flvSeqHeaderChange, decoder>>
    BY <1>1, <1>3
  <1> QED
    BY <1>2, <1>3 DEF SendTo

LEMMA SendFrameType == ASSUME TypeInv, SendFrame PROVE TypeInv'
  <1> DEFINE u == users[position]
  <1>1. u \in Listed /\ u \in User
    BY ListedIsUser DEF SendFrame, TypeInv, Listed
  <1>2. UNCHANGED <<users, valid, gone, mIsOBSClient, flvSeqHeaderMap>>
        /\ position' = position + 1 /\ position \in DOMAIN users
    BY DEF SendFrame, listVars
  <1>3. \/ SendTo(u)
        \/ UNCHANGED <<mFlvSeqHeaderFlag, flvSeqHeaderChange, decoder, framed, needed>>
    BY DEF SendFrame
  <1> HIDE DEF u
  <1>4. framed' \subseteq framed \cup {u}
    BY <1>3 DEF SendTo
  <1>5. position' \in 0 .. Len(users') + 1
    BY <1>2, ListedIsUser DEF TypeInv
  <1>6. Listed' = Listed
    BY <1>2 DEF Listed
  <1>7. ListType'
    BY <1>1, <1>2, <1>4, <1>5, <1>6 DEF TypeInv, ListType
  <1>8. FlagType' /\ VersionType'
    BY <1>1, <1>2, <1>3, SendToType DEF TypeInv, FlagType, VersionType
  <1> QED
    BY <1>7, <1>8 DEF TypeInv

LEMMA TypeStep == TypeInv /\ [Next]_flvVars => TypeInv'
  <1> SUFFICES ASSUME TypeInv, [Next]_flvVars PROVE TypeInv'
    OBVIOUS
  <1> USE DEF TypeInv
  <1>1. CASE \E u \in User : AddUser(u) \/ LinkLost(u) \/ DeleteUser(u)
    <2>1. UNCHANGED <<mIsOBSClient, mFlvSeqHeaderFlag, headerVars, decoder, needed>>
      BY <1>1, ListSteps DEF ghostVars
    <2> QED
      BY <1>1, <2>1, ListTypeStep DEF FlagType, VersionType, headerVars
  <1>2. ASSUME NEW u \in User, BeginFrame(u) PROVE TypeInv'
    <2>1. ListType'
      BY <1>2, ListedIsUser DEF BeginFrame, ListType, Listed, ghostVars
    <2> QED
      BY <1>2, <2>1 DEF BeginFrame, FlagType, VersionType, headerVars, ghostVars
  <1>3. ASSUME NEW t \in HeaderType, CacheFlvSeqHeaderData(t) PROVE TypeInv'
    <2>1. ListType'
      BY <1>3 DEF CacheFlvSeqHeaderData, ListType, Listed, listVars, ghostVars
    <2>2. VersionType'
      BY <1>3, FlvRelayAssumption DEF CacheFlvSeqHeaderData, VersionType, Version, ghostVars
    <2> QED
      BY <1>3, <2>1, <2>2 DEF CacheFlvSeqHeaderData, FlagType, listVars
  <1>4. CASE BeginSceneFrame
    <2>1. ListType'
      BY <1>4, ListedIsUser DEF BeginSceneFrame, ListType, Listed, listVars, ghostVars
    <2> QED
      BY <1>4, <2>1 DEF BeginSceneFrame, FlagType, VersionType, listVars, headerVars, ghostVars
  <1>5. CASE EndFrame
    <2>1. ListType'
      BY <1>5, ListedIsUser DEF EndFrame, ListType, Listed, listVars, ghostVars
    <2> QED
      BY <1>5, <2>1 DEF EndFrame, FlagType, VersionType, listVars, headerVars, ghostVars
  <1>6. CASE SendFrame
    BY <1>6, SendFrameType
  <1>7. CASE UNCHANGED flvVars
    BY <1>7 DEF flvVars, listVars, headerVars, ghostVars, ListType, FlagType, VersionType, Listed
  <1> QED
    BY <1>1, <1>2, <1>3, <1>4, <1>5, <1>6, <1>7 DEF Next

LEMMA FlvTypeInv == Spec => []TypeInv
  BY TypeInit, TypeStep, PTL DEF Spec

\* Every variable keeps its type; the loop of SendFlvStream keeps its place in the
\* list, from which a user goes between frames only, and a user whose link can be
\* sent to is in the list.
THEOREM FlvTyped == Spec => []TypeOK
  BY FlvTypeInv, TypeFromInv, PTL

-----------------------------------------------------------------------------
(* The first frame. *)

\* A user that has not been sent a frame has not been sent a header; if its flag
\* began FALSE it still is, so its headers will come first.
Unframed ==
    \A u \in User \ framed :
        /\ decoder[u] = NoHeaders /\ needed[u] = NoHeaders
        /\ u \in cleared => ~mFlvSeqHeaderFlag[u]

\* No user has, or needs, a header newer than the cached one.
NoneNewer ==
    \A u \in User : \A t \in HeaderType :
        decoder[u][t] <= flvSeqHeaderMap[t] /\ needed[u][t] <= flvSeqHeaderMap[t]

DecodableInv == Unframed /\ NoneNewer /\ FirstFrameDecodable

LEMMA VersionFacts ==
    ASSUME VersionType
    PROVE  /\ \A t \in HeaderType : flvSeqHeaderMap[t] \in Nat /\ NoHeaders[t] = 0
           /\ \A u \in User : \A t \in HeaderType :
                decoder[u][t] \in Nat /\ needed[u][t] \in Nat
  <1>1. 0 .. MaxVersion \subseteq Nat
    BY FlvRelayAssumption
  <1> QED
    BY <1>1 DEF VersionType, Version, NoHeaders

LEMMA DecodableInit == Init => DecodableInv
  <1> SUFFICES ASSUME Init PROVE DecodableInv
    OBVIOUS
  <1>1. \A t \in HeaderType : NoHeaders[t] = 0
    BY DEF NoHeaders
  <1>2. Unframed
    BY DEF Init, Unframed
  <1>3. NoneNewer
    BY <1>1 DEF Init, NoneNewer
  <1>4. FirstFrameDecodable
    BY DEF Init, FirstFrameDecodable
  <1> QED
    BY <1>2, <1>3, <1>4 DEF DecodableInv

\* What SendFlvStream does for one user.
LEMMA SendToEffect ==
    ASSUME FlagType, VersionType, NEW w \in User, SendTo(w)
    PROVE  LET told == w \in valid /\ (~mFlvSeqHeaderFlag[w] \/ flvSeqHeaderChange) IN
           /\ \A u \in User \ {w} : /\ decoder'[u] = decoder[u] /\ needed'[u] = needed[u]
                                    /\ mFlvSeqHeaderFlag'[u] = mFlvSeqHeaderFlag[u]
           /\ told => decoder'[w] = flvSeqHeaderMap
           /\ ~told => decoder'[w] = decoder[w]
           /\ needed'[w] = IF w \in valid \ framed THEN flvSeqHeaderMap ELSE needed[w]
           /\ framed' = framed \cup {w}
  <1> USE DEF FlagType, VersionType
  <1>1. /\ needed'[w] = IF w \in valid \ framed THEN flvSeqHeaderMap ELSE needed[w]
        /\ framed' = framed \cup {w}
        /\ \A u \in User \ {w} : needed'[u] = needed[u]
    BY DEF SendTo
  <1>2. CASE ~mFlvSeqHeaderFlag[w] \/ flvSeqHeaderChange
    BY <1>1, <1>2 DEF SendTo, SendFlvSeqHeaderData
  <1>3. CASE ~(~mFlvSeqHeaderFlag[w] \/ flvSeqHeaderChange)
    BY <1>1, <1>3 DEF SendTo
  <1> QED
    BY <1>2, <1>3

LEMMA DecodableSendTo ==
    ASSUME ListType, FlagType, VersionType, DecodableInv, NEW w \in User, SendTo(w),
           UNCHANGED <<flvSeqHeaderMap, cleared>>
    PROVE  DecodableInv'
  <1> DEFINE told == w \in valid /\ (~mFlvSeqHeaderFlag[w] \/ flvSeqHeaderChange)
  <1>1. /\ \A u \in User \ {w} : /\ decoder'[u] = decoder[u] /\ needed'[u] = needed[u]
                                 /\ mFlvSeqHeaderFlag'[u] = mFlvSeqHeaderFlag[u]
        /\ told => decoder'[w] = flvSeqHeaderMap
        /\ ~told => decoder'[w] = decoder[w]
        /\ needed'[w] = IF w \in valid \ framed THEN flvSeqHeaderMap ELSE needed[w]
        /\ framed' = framed \cup {w}
    BY SendToEffect
  <1>2. \A t \in HeaderType : /\ flvSeqHeaderMap[t] <= flvSeqHeaderMap[t]
                              /\ NoHeaders[t] <= NoHeaders[t]
    BY VersionFacts
  <1>3. Unframed'
    BY <1>1 DEF DecodableInv, Unframed
  <1>4. NoneNewer'
    BY <1>1, <1>2 DEF DecodableInv, NoneNewer
  <1>5. \A t \in HeaderType : w \in cleared => decoder'[w][t] >= needed'[w][t]
    <2> SUFFICES ASSUME NEW t \in HeaderType, w \in cleared
                 PROVE  decoder'[w][t] >= needed'[w][t]
      OBVIOUS
    <2>1. CASE told
      <3>1. needed'[w][t] <= flvSeqHeaderMap[t]
        BY <1>1, <1>2 DEF DecodableInv, NoneNewer
      <3>2. decoder'[w] = flvSeqHeaderMap
        BY <1>1, <2>1
      <3> QED
        BY <3>1, <3>2
    <2>2. CASE ~told /\ w \in framed
      BY <1>1, <2>2 DEF DecodableInv, FirstFrameDecodable
    <2>3. CASE ~told /\ w \notin framed
      <3>1. w \notin valid
        BY <2>3 DEF DecodableInv, Unframed
      <3>2. decoder'[w] = NoHeaders /\ needed'[w] = NoHeaders
        BY <1>1, <2>3, <3>1 DEF DecodableInv, Unframed
      <3> QED
        BY <1>2, <3>2
    <2> QED
      BY <2>1, <2>2, <2>3
  <1>6. framed \subseteq User
    BY ListedIsUser DEF ListType
  <1>7. FirstFrameDecodable'
    BY <1>1, <1>5, <1>6 DEF DecodableInv, FirstFrameDecodable
  <1> QED
    BY <1>3, <1>4, <1>7 DEF DecodableInv

\* The other steps send nothing, and the versions of the headers only grow.
LEMMA DecodableFrame ==
    ASSUME VersionType, VersionType', DecodableInv,
           UNCHANGED <<mFlvSeqHeaderFlag, decoder, ghostVars>>,
           \A t \in HeaderType : flvSeqHeaderMap[t] <= flvSeqHeaderMap'[t]
    PROVE  DecodableInv'
  <1> USE DEF DecodableInv, ghostVars
  <1>1. Unframed'
    BY DEF Unframed
  <1>2. FirstFrameDecodable'
    BY DEF FirstFrameDecodable
  <1>3. NoneNewer'
    <2> SUFFICES ASSUME NEW u \in User, NEW t \in HeaderType
                 PROVE  decoder[u][t] <= flvSeqHeaderMap'[t] /\ needed[u][t] <= flvSeqHeaderMap'[t]
      BY DEF NoneNewer
    <2>1. decoder[u][t] <= flvSeqHeaderMap[t] /\ needed[u][t] <= flvSeqHeaderMap[t]
      BY DEF NoneNewer
    <2>2. /\ decoder[u][t] \in Nat /\ needed[u][t] \in Nat
          /\ flvSeqHeaderMap[t] \in Nat /\ flvSeqHeaderMap'[t] \in Int
      BY VersionFacts, FlvRelayAssumption DEF VersionType, Version
    <2> QED
      BY <2>1, <2>2
  <1> QED
    BY <1>1, <1>2, <1>3

LEMMA SameHeaders ==
    ASSUME VersionType, UNCHANGED flvSeqHeaderMap
    PROVE  \A t \in HeaderType : flvSeqHeaderMap[t] <= flvSeqHeaderMap'[t]
  BY VersionFacts

LEMMA DecodableStep == TypeInv /\ TypeInv' /\ DecodableInv /\ [Next]_flvVars => DecodableInv'
  <1> SUFFICES ASSUME TypeInv, TypeInv', DecodableInv, [Next]_flvVars PROVE DecodableInv'
    OBVIOUS
  <1>1. ListType /\ FlagType /\ VersionType /\ VersionType'
    BY DEF TypeInv
  <1>2. CASE \/ \E u \in User : AddUser(u) \/ LinkLost(u) \/ DeleteUser(u)
             \/ \E u \in User : BeginFrame(u)
             \/ BeginSceneFrame \/ EndFrame \/ UNCHANGED flvVars
    <2>1. UNCHANGED <<mFlvSeqHeaderFlag, decoder, ghostVars, flvSeqHeaderMap>>
      BY <1>2, ListSteps DEF BeginFrame, BeginSceneFrame, EndFrame, flvVars, headerVars
    <2> QED
      BY <1>1, <2>1, SameHeaders, DecodableFrame
  <1>3. ASSUME NEW t \in HeaderType, CacheFlvSeqHeaderData(t) PROVE DecodableInv'
    <2>1. \A y \in HeaderType : flvSeqHeaderMap[y] <= flvSeqHeaderMap'[y]
      BY <1>1, <1>3, VersionFacts DEF CacheFlvSeqHeaderData, VersionType, Version
    <2> QED
      BY <1>1, <1>3, <2>1, DecodableFrame DEF CacheFlvSeqHeaderData
  <1>4. CASE SendFrame
    <2> DEFINE w == users[position]
    <2>1. w \in User /\ UNCHANGED <<flvSeqHeaderMap, cleared>>
      BY <1>1, <1>4, ListedIsUser DEF SendFrame, Listed
    <2>2. \/ SendTo(w)
          \/ UNCHANGED <<mFlvSeqHeaderFlag, flvSeqHeaderChange, decoder, framed, needed>>
      BY <1>4 DEF SendFrame
    <2> HIDE DEF w
    <2>3. CASE SendTo(w)
      BY <1>1, <2>1, <2>3, DecodableSendTo
    <2>4. CASE UNCHANGED <<mFlvSeqHeaderFlag, flvSeqHeaderChange, decoder, framed, needed>>
      BY <1>1, <2>1, <2>4, SameHeaders, DecodableFrame DEF ghostVars
    <2> QED
      BY <2>2, <2>3, <2>4
  <1> QED
    BY <1>2, <1>3, <1>4 DEF Next

LEMMA FlvDecodableInv == Spec => []DecodableInv
  BY FlvTypeInv, DecodableInit, DecodableStep, PTL DEF Spec

\* A user whose flag did not begin TRUE by accident has, by its first frame, a
\* header of every type cached then (SendFlvStream's test of GetFlvSeqHeaderFlag,
\* which SendFlvSeqHeaderData sets), whoever else comes, goes or is served between.
THEOREM FirstFramesDecodable == Spec => []FirstFrameDecodable
  <1>1. DecodableInv => FirstFrameDecodable
    BY DEF DecodableInv
  <1> QED
    BY <1>1, FlvDecodableInv, PTL

-----------------------------------------------------------------------------
(* Changed headers. *)

\* As long as no other user has been sent a frame, which would count the change
\* as dealt with, a user has the headers in use or the change is to be noticed.
ChangeIsNoticed ==
    \A u \in valid : framed \subseteq {u} => flvSeqHeaderChange \/ UpToDate(u)

NoticedInv == ChangeIsNoticed /\ OnlyUserUpToDate

LEMMA NothingIsUpToDate ==
    ASSUME NEW u \in User, decoder[u] = NoHeaders
    PROVE  UpToDate(u)
  BY DEF UpToDate, NoHeaders

\* Between frames, and before the first user's turn, nobody is reached.
LEMMA NobodyReached == position \in {0, 1} => OnlyUserUpToDate
  <1> SUFFICES ASSUME position \in {0, 1} PROVE Reached = {}
    BY DEF OnlyUserUpToDate
  <1>1. 1 .. position - 1 = {}
    OBVIOUS
  <1> QED
    BY <1>1 DEF Reached

LEMMA NobodyReachedNext == (position \in {0, 1})' => OnlyUserUpToDate'
  BY NobodyReached, PTL

LEMMA NoticedInit == Init => NoticedInv
  BY NobodyReached DEF Init, NoticedInv, ChangeIsNoticed

LEMMA NoticedListStep ==
    ASSUME ListType, Unframed, NoticedInv,
           NEW u \in User, AddUser(u) \/ LinkLost(u) \/ DeleteUser(u)
    PROVE  NoticedInv'
  <1> USE DEF NoticedInv
  <1>1. UNCHANGED <<mIsOBSClient, flvSeqHeaderMap, flvSeqHeaderChange, position, decoder, framed>>
    BY ListSteps DEF headerVars, ghostVars
  <1>2. \A v \in User : UpToDate(v)' <=> UpToDate(v)
    BY <1>1 DEF UpToDate
  <1>3. valid \subseteq User
    BY ListedIsUser DEF ListType
  <1>4. CASE LinkLost(u) \/ DeleteUser(u)
    <2>1. valid' \subseteq valid
      BY <1>4 DEF LinkLost, DeleteUser
    <2>2. ChangeIsNoticed'
      BY <1>1, <1>2, <1>3, <2>1 DEF ChangeIsNoticed
    <2>3. CASE UNCHANGED users
      <3>1. Reached' \subseteq Reached
        BY <1>1, <2>1, <2>3 DEF Reached
      <3> QED
        BY <1>1, <1>2, <1>3, <2>2, <3>1 DEF OnlyUserUpToDate, Reached
    <2>4. CASE position = 0
      BY <1>1, <2>2, <2>4, NobodyReachedNext
    <2> QED
      BY <1>4, <2>3, <2>4 DEF LinkLost, DeleteUser
  <1>5. CASE AddUser(u)
    <2>1. position' = 0 /\ valid' = valid \cup {u} /\ u \notin framed
      BY <1>5 DEF AddUser, ListType
    <2>2. UpToDate(u)
      BY <2>1, NothingIsUpToDate DEF Unframed
    <2>3. ChangeIsNoticed'
      BY <1>1, <1>2, <1>3, <2>1, <2>2 DEF ChangeIsNoticed
    <2> QED
      BY <2>1, <2>3, NobodyReachedNext
  <1> QED
    BY <1>4, <1>5

\* A header that replaces one is a change; of one that replaces none no user can
\* have an older version.
LEMMA NoticedCache ==
    ASSUME TypeInv, NoneNewer, NoticedInv, NEW t \in HeaderType, CacheFlvSeqHeaderData(t)
    PROVE  NoticedInv'
  <1> USE DEF NoticedInv
  <1>1. /\ position' = 0
        /\ flvSeqHeaderMap' = [flvSeqHeaderMap EXCEPT ![t] = @ + 1]
        /\ flvSeqHeaderChange' = (flvSeqHeaderChange \/ flvSeqHeaderMap[t] # 0)
        /\ UNCHANGED <<valid, decoder, framed>>
    BY DEF CacheFlvSeqHeaderData, listVars, ghostVars
  <1>2. ASSUME NEW u \in valid, framed \subseteq {u}, flvSeqHeaderMap[t] = 0, UpToDate(u)
        PROVE  UpToDate(u)'
    <2>1. u \in User
      BY ListedIsUser DEF TypeInv, ListType
    <2>2. decoder[u][t] = 0
      BY <1>2, <2>1, VersionFacts DEF NoneNewer, TypeInv
    <2> QED
      BY <1>1, <1>2, <2>2 DEF UpToDate, TypeInv, VersionType, Version
  <1>3. ChangeIsNoticed'
    BY <1>1, <1>2 DEF ChangeIsNoticed
  <1> QED
    BY <1>1, <1>3, NobodyReachedNext

LEMMA NoticedSendTo ==
    ASSUME TypeInv, NoticedInv, NEW w \in User, SendTo(w), UNCHANGED <<valid, flvSeqHeaderMap>>
    PROVE  NoticedInv'
  <1>1. valid \subseteq User
    BY ListedIsUser DEF TypeInv, ListType
  <1>2. framed' = framed \cup {w}
    BY DEF SendTo
  <1>3. ASSUME w \in valid, framed \subseteq {w} PROVE UpToDate(w)'
    <2>1. CASE ~mFlvSeqHeaderFlag[w] \/ flvSeqHeaderChange
      <3>1. decoder'[w] = flvSeqHeaderMap
        BY <1>3, <2>1, SendToEffect DEF TypeInv
      <3> QED
        BY <3>1 DEF UpToDate
    <2>2. CASE ~(~mFlvSeqHeaderFlag[w] \/ flvSeqHeaderChange)
      <3>1. UpToDate(w)
        BY <1>3, <2>2 DEF NoticedInv, ChangeIsNoticed
      <3>2. decoder' = decoder
        BY <2>2 DEF SendTo
      <3> QED
        BY <3>1, <3>2 DEF UpToDate
    <2> QED
      BY <2>1, <2>2
  <1>4. ChangeIsNoticed'
    BY <1>2, <1>3 DEF ChangeIsNoticed
  <1>5. OnlyUserUpToDate'
    BY <1>2, <1>3 DEF OnlyUserUpToDate, Reached
  <1> QED
    BY <1>4, <1>5 DEF NoticedInv

\* A user that sends frames itself is passed over.
LEMMA NoticedPassOver ==
    ASSUME TypeInv, NoticedInv, SendFrame, mIsOBSClient[users[position]],
           UNCHANGED <<mFlvSeqHeaderFlag, flvSeqHeaderChange, decoder, framed, needed>>
    PROVE  NoticedInv'
  <1>1. UNCHANGED <<users, mIsOBSClient, valid, flvSeqHeaderMap>>
        /\ position' = position + 1 /\ position \in 1 .. Len(users) /\ Len(users) \in Nat
    BY ListedIsUser DEF SendFrame, listVars, TypeInv
  <1>2. \A u \in User : UpToDate(u)' <=> UpToDate(u)
    BY <1>1 DEF UpToDate
  <1>3. valid \subseteq User
    BY ListedIsUser DEF TypeInv, ListType
  <1>4. ChangeIsNoticed'
    BY <1>1, <1>2, <1>3 DEF NoticedInv, ChangeIsNoticed
  <1>5. ASSUME NEW u \in Reached', ~mIsOBSClient[u] PROVE u \in Reached
    <2>1. PICK k \in 1 .. position' - 1 : u = users[k]
      BY <1>1 DEF Reached
    <2>2. u \in framed /\ u \in valid
      BY <1>1, <1>5 DEF Reached
    <2>3. k # position
      BY <1>5, <2>1
    <2>4. k \in 1 .. position - 1
      BY <1>1, <2>1, <2>3
    <2> QED
      BY <2>1, <2>2, <2>4 DEF Reached
  <1>6. OnlyUserUpToDate'
    BY <1>1, <1>2, <1>3, <1>5 DEF NoticedInv, OnlyUserUpToDate, Reached
  <1> QED
    BY <1>4, <1>6 DEF NoticedInv

LEMMA NoticedStep == TypeInv /\ DecodableInv /\ NoticedInv /\ [Next]_flvVars => NoticedInv'
  <1> SUFFICES ASSUME TypeInv, DecodableInv, NoticedInv, [Next]_flvVars PROVE NoticedInv'
    OBVIOUS
  <1>1. CASE \E u \in User : AddUser(u) \/ LinkLost(u) \/ DeleteUser(u)
    BY <1>1, NoticedListStep DEF TypeInv, DecodableInv
  <1>2. CASE (\E u \in User : BeginFrame(u)) \/ BeginSceneFrame \/ EndFrame
    <2>1. /\ position' \in {0, 1}
          /\ UNCHANGED <<valid, framed, flvSeqHeaderMap, flvSeqHeaderChange, decoder>>
      BY <1>2 DEF BeginFrame, BeginSceneFrame, EndFrame, listVars, headerVars, ghostVars
    <2>2. ChangeIsNoticed'
      BY <2>1 DEF NoticedInv, ChangeIsNoticed, UpToDate
    <2> QED
      BY <2>1, <2>2, NobodyReachedNext DEF NoticedInv
  <1>3. CASE \E t \in HeaderType : CacheFlvSeqHeaderData(t)
    BY <1>3, NoticedCache DEF DecodableInv
  <1>4. CASE SendFrame
    <2> DEFINE w == users[position]
    <2>1. w \in User /\ UNCHANGED <<valid, flvSeqHeaderMap>>
      BY <1>4, ListedIsUser DEF SendFrame, Listed, listVars, TypeInv
    <2>2. \/ SendTo(w)
          \/ /\ mIsOBSClient[w]
             /\ UNCHANGED <<mFlvSeqHeaderFlag, flvSeqHeaderChange, decoder, framed, needed>>
      BY <1>4 DEF SendFrame
    <2> QED
      BY <1>4, <2>1, <2>2, NoticedSendTo, NoticedPassOver
  <1>5. CASE UNCHANGED flvVars
    BY <1>5 DEF flvVars, listVars, headerVars, ghostVars, NoticedInv, ChangeIsNoticed,
                OnlyUserUpToDate, Reached, UpToDate
  <1> QED
    BY <1>1, <1>2, <1>3, <1>4, <1>5 DEF Next

\* While one user alone has been sent frames, a header that is replaced
\* (CacheFlvSeqHeaderData sets flvSeqHeaderChange) reaches it before its next
\* frame: nothing but that user's own turn resets the flag.
THEOREM OnlyUserIsUpToDate == Spec => []OnlyUserUpToDate
  <1>1. NoticedInv => OnlyUserUpToDate
    BY DEF NoticedInv
  <1> QED
    BY <1>1, FlvTypeInv, FlvDecodableInv, NoticedInit, NoticedStep, PTL DEF Spec
=============================================================================
