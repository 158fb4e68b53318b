------------------------ MODULE MessageQueueABProofs ------------------------
(* What holds of the double-buffered queue for every set of messages, every *)
(* limit and every number of buffers. *)
EXTENDS MessageQueueAB, SequenceTheorems, TLAPS

-----------------------------------------------------------------------------
(* Types. *)

QueueType == queue \in [{0, 1} -> Seq(Package)]

\* The two queues swap their roles.
LEMMA OtherQueue ==
    ASSUME m_current \in {0, 1}
    PROVE  /\ (m_current + 1) % 2 = 1 - m_current
           /\ 1 - m_current \in {0, 1}
           /\ 1 - m_current # m_current
           /\ 1 - (1 - m_current) = m_current
  <1>1. CASE m_current = 0
    BY <1>1
  <1>2. CASE m_current = 1
    BY <1>2
  <1> QED
    BY <1>1, <1>2

\* A message appended, and the same with the oldest one dropped.
LEMMA AppendType ==
    ASSUME NEW q \in Seq(Package), NEW e \in Package
    PROVE  /\ Append(q, e) \in Seq(Package) /\ Append(q, e) # << >>
           /\ Tail(Append(q, e)) \in Seq(Package)
  <1>1. Append(q, e) \in Seq(Package) /\ Append(q, e) # << >>
    BY AppendProperties
  <1> QED
    BY <1>1, HeadTailProperties

LEMMA TypeInit == Init => TypeOK
  <1> SUFFICES ASSUME Init PROVE TypeOK
    OBVIOUS
  <1>1. << >> \in Seq(Package) /\ Len(<< >>) = 0
    BY EmptySeq
  <1>2. 1 - m_current \in {0, 1}
    BY DEF Init
  <1> QED
    BY <1>1, <1>2 DEF Init, TypeOK, Get

LEMMA TypeAddPackage ==
    ASSUME TypeOK, NEW c \in Content, AddPackage(c)
    PROVE  TypeOK'
  <1> DEFINE e == [content |-> c, bigDataPointer |-> NullPtr]
             q == Append(queue[m_current], e)
             r == IF Len(q) >= QueueMax THEN Tail(q) ELSE q
  <1>1. e \in Package /\ queue[m_current] \in Seq(Package)
    BY DEF TypeOK, Package
  <1>2. r \in Seq(Package)
    BY <1>1, AppendType
  <1>3. queue' = [queue EXCEPT ![m_current] = r] /\ UNCHANGED <<m_current, index>>
    BY DEF AddPackage, RemoveFront
  <1>4. heap' \subseteq heap
    BY DEF AddPackage
  <1> HIDE DEF r, q
  <1>5. queue' \in [{0, 1} -> Seq(Package)]
    BY <1>2, <1>3 DEF TypeOK
  <1>6. Get' = Get
    BY <1>3, OtherQueue DEF TypeOK, Get
  <1> QED
    BY <1>3, <1>4, <1>5, <1>6 DEF TypeOK

LEMMA TypeAddBigPackage ==
    ASSUME TypeOK, NEW c \in Content, AddBigPackage(c)
    PROVE  TypeOK'
  <1>1. PICK p \in (Address \ heap) \cup {NullPtr} :
            /\ queue' = [queue EXCEPT ![m_current] =
                            Append(@, [content |-> c, bigDataPointer |-> p])]
            /\ heap' = heap \cup ({p} \ {NullPtr})
    BY DEF AddBigPackage
  <1> DEFINE e == [content |-> c, bigDataPointer |-> p]
  <1>2. e \in Package /\ queue[m_current] \in Seq(Package)
    BY DEF TypeOK, Package
  <1>3. Append(queue[m_current], e) \in Seq(Package)
    BY <1>2, AppendType
  <1>4. queue' \in [{0, 1} -> Seq(Package)]
    BY <1>1, <1>3 DEF TypeOK
  <1>5. UNCHANGED <<m_current, index>>
    BY DEF AddBigPackage
  <1>6. Get' = Get
    BY <1>1, <1>5, OtherQueue DEF TypeOK, Get
  <1>7. heap' \subseteq Address
    BY <1>1 DEF TypeOK
  <1> QED
    BY <1>4, <1>5, <1>6, <1>7 DEF TypeOK

LEMMA TypeSwap == ASSUME TypeOK, Swap PROVE TypeOK'
  <1>1. m_current' = 1 - m_current /\ m_current' \in {0, 1}
    BY OtherQueue DEF TypeOK, Swap
  <1>2. << >> \in Seq(Package)
    BY EmptySeq
  <1>3. queue' \in [{0, 1} -> Seq(Package)]
    BY <1>1, <1>2 DEF TypeOK, Swap
  <1>4. Get' \in Seq(Package)
    BY <1>1, <1>3, OtherQueue DEF TypeOK, Get
  <1>5. Len(Get') \in Nat
    BY <1>4, LenProperties
  <1>6. index' = 0 /\ heap' \subseteq Address
    BY DEF TypeOK, Swap
  <1> QED
    BY <1>1, <1>3, <1>5, <1>6 DEF TypeOK

LEMMA TypeGetPackage == ASSUME TypeOK, GetPackage PROVE TypeOK'
  <1>1. Get \in Seq(Package)
    BY OtherQueue DEF TypeOK, Get
  <1>2. Len(Get) \in Nat
    BY <1>1, LenProperties
  <1>3. Get' = Get
    BY DEF GetPackage, Get
  <1> QED
    BY <1>2, <1>3 DEF TypeOK, GetPackage

\* Each step keeps the types, and the main loop inside its queue.
LEMMA TypeStep == TypeOK /\ [Next]_mqVars => TypeOK'
  <1> SUFFICES ASSUME TypeOK, [Next]_mqVars PROVE TypeOK'
    OBVIOUS
  <1>1. CASE UNCHANGED mqVars
    BY <1>1 DEF mqVars, TypeOK, Get
  <1> QED
    BY <1>1, TypeAddPackage, TypeAddBigPackage, TypeSwap, TypeGetPackage DEF Next

\* Every variable keeps its type, and the main loop never reads beyond the end of
\* the queue it was handed (GetPackage's index, HXLibMessageQueue.cpp).
THEOREM QueueTyped == Spec => []TypeOK
  BY TypeInit, TypeStep, PTL DEF Spec

-----------------------------------------------------------------------------
(* Buffers. *)

\* No two messages of a sequence have one buffer.
Distinct(q) ==
    \A i, j \in DOMAIN q :
        q[i].bigDataPointer = q[j].bigDataPointer /\ q[i].bigDataPointer # NullPtr => i = j

\* The messages of q and r own the buffers h, each one for itself.
Own(q, r, h) ==
    /\ h = Buffers(q) \cup Buffers(r)
    /\ Distinct(q) /\ Distinct(r)
    /\ Buffers(q) \cap Buffers(r) = {}

LEMMA BuffersEmpty == Buffers(<< >>) = {} /\ Distinct(<< >>)
  BY DEF Buffers, Distinct

\* A message appended brings its buffer along.
LEMMA BuffersAppend ==
    ASSUME NEW q \in Seq(Package), NEW e \in Package
    PROVE  Buffers(Append(q, e)) = Buffers(q) \cup ({e.bigDataPointer} \ {NullPtr})
  <1> DEFINE s == Append(q, e)
  <1>1. /\ Len(q) \in Nat /\ DOMAIN q = 1 .. Len(q) /\ DOMAIN s = 1 .. Len(q) + 1
        /\ \A i \in 1 .. Len(q) : s[i] = q[i]
        /\ s[Len(q) + 1] = e
    BY AppendProperties, LenProperties
  <1>2. {s[k].bigDataPointer : k \in DOMAIN s}
            = {q[k].bigDataPointer : k \in DOMAIN q} \cup {e.bigDataPointer}
    <2> HIDE DEF s
    <2>1. DOMAIN s = DOMAIN q \cup {Len(q) + 1}
      BY <1>1
    <2> QED
      BY <1>1, <2>1
  <1> QED
    BY <1>2 DEF Buffers

\* It may be appended if its buffer is a new one.
LEMMA DistinctAppend ==
    ASSUME NEW q \in Seq(Package), NEW e \in Package, Distinct(q),
           e.bigDataPointer \notin Buffers(q)
    PROVE  Distinct(Append(q, e))
  <1> DEFINE s == Append(q, e)
  <1>1. /\ Len(q) \in Nat /\ DOMAIN q = 1 .. Len(q) /\ DOMAIN s = 1 .. Len(q) + 1
        /\ \A i \in 1 .. Len(q) : s[i] = q[i]
        /\ s[Len(q) + 1] = e
    BY AppendProperties, LenProperties
  <1>2. \A i \in DOMAIN q :
            q[i].bigDataPointer # NullPtr => q[i].bigDataPointer # e.bigDataPointer
    BY DEF Buffers
  <1> HIDE DEF s
  <1>3. \A i \in DOMAIN s : i \in DOMAIN q \/ i = Len(q) + 1
    BY <1>1
  <1>4. Distinct(s)
    BY <1>1, <1>2, <1>3 DEF Distinct
  <1> QED
    BY <1>4 DEF s

\* The front taken off a sequence takes its buffer along, and nothing else.
LEMMA BuffersTail ==
    ASSUME NEW q \in Seq(Package), q # << >>, Distinct(q)
    PROVE  /\ Buffers(Tail(q)) = Buffers(q) \ {Head(q).bigDataPointer}
           /\ Distinct(Tail(q))
  <1> DEFINE t == Tail(q)
  <1>1. /\ Len(q) \in Nat \ {0} /\ DOMAIN q = 1 .. Len(q) /\ DOMAIN t = 1 .. Len(q) - 1
        /\ \A i \in 1 .. Len(q) - 1 : t[i] = q[i + 1]
        /\ Head(q) = q[1]
    <2>1. t \in Seq(Package) /\ Len(t) = Len(q) - 1
          /\ \A i \in 1 .. Len(t) : t[i] = q[i + 1]
      BY HeadTailProperties
    <2>2. Len(q) \in Nat \ {0} /\ DOMAIN q = 1 .. Len(q) /\ DOMAIN t = 1 .. Len(t)
      BY <2>1, EmptySeq, LenProperties
    <2> QED
      BY <2>1, <2>2
  <1> HIDE DEF t
  <1>2. \A i \in DOMAIN t : i + 1 \in DOMAIN q /\ i + 1 # 1 /\ t[i] = q[i + 1]
    BY <1>1
  <1>3. \A i \in DOMAIN q : i # 1 => i - 1 \in DOMAIN t /\ t[i - 1] = q[i]
    <2> SUFFICES ASSUME NEW i \in DOMAIN q, i # 1
                 PROVE  i - 1 \in DOMAIN t /\ t[i - 1] = q[i]
      OBVIOUS
    <2>1. i - 1 \in 1 .. Len(q) - 1 /\ (i - 1) + 1 = i
      BY <1>1
    <2> QED
      BY <1>1, <2>1
  <1>4. Buffers(t) = Buffers(q) \ {Head(q).bigDataPointer}
    <2>1. ASSUME NEW p \in Buffers(t) PROVE p \in Buffers(q) \ {Head(q).bigDataPointer}
      <3>1. PICK i \in DOMAIN t : p = t[i].bigDataPointer /\ p # NullPtr
        BY <2>1 DEF Buffers
      <3>2. i + 1 \in DOMAIN q /\ 1 \in DOMAIN q /\ i + 1 # 1 /\ p = q[i + 1].bigDataPointer
        BY <1>1, <1>2, <3>1
      <3>3. p # q[1].bigDataPointer
        BY <3>1, <3>2 DEF Distinct
      <3> QED
        BY <1>1, <3>1, <3>2, <3>3 DEF Buffers
    <2>2. ASSUME NEW p \in Buffers(q), p # Head(q).bigDataPointer PROVE p \in Buffers(t)
      <3>1. PICK i \in DOMAIN q : p = q[i].bigDataPointer /\ p # NullPtr
        BY <2>2 DEF Buffers
      <3>2. i # 1
        BY <1>1, <2>2, <3>1
      <3>3. i - 1 \in DOMAIN t /\ p = t[i - 1].bigDataPointer
        BY <1>3, <3>1, <3>2
      <3> QED
        BY <3>1, <3>3 DEF Buffers
    <2> QED
      BY <2>1, <2>2
  <1>5. Distinct(t)
    <2> SUFFICES ASSUME NEW i \in DOMAIN t, NEW j \in DOMAIN t,
                        t[i].bigDataPointer = t[j].bigDataPointer,
                        t[i].bigDataPointer # NullPtr
                 PROVE  i = j
      BY DEF Distinct
    <2>1. i + 1 = j + 1
      BY <1>2 DEF Distinct
    <2> QED
      BY <1>1, <2>1
  <1> QED
    BY <1>4, <1>5 DEF t

CurrentType == m_current \in {0, 1}

OwnedByBoth == Own(queue[m_current], Get, heap)

\* The invariant, said of the current queue and the other one.
LEMMA OwnedByQueues == CurrentType => (BuffersOwned <=> OwnedByBoth)
  <1> SUFFICES ASSUME CurrentType PROVE BuffersOwned <=> OwnedByBoth
    OBVIOUS
  <1> USE DEF CurrentType, OwnedByBoth
  <1>1. BuffersOwned <=> Own(queue[0], queue[1], heap)
    <2>1. ASSUME BuffersOwned PROVE Own(queue[0], queue[1], heap)
      <3>1. Distinct(queue[0]) /\ Distinct(queue[1])
        BY <2>1 DEF BuffersOwned, Distinct
      <3>2. Buffers(queue[0]) \cap Buffers(queue[1]) = {}
        BY <2>1 DEF BuffersOwned, Buffers
      <3> QED
        BY <2>1, <3>1, <3>2 DEF BuffersOwned, Own
    <2>2. ASSUME Own(queue[0], queue[1], heap) PROVE BuffersOwned
      <3> SUFFICES ASSUME NEW a \in {0, 1}, NEW b \in {0, 1},
                          NEW i \in DOMAIN queue[a], NEW j \in DOMAIN queue[b],
                          queue[a][i].bigDataPointer = queue[b][j].bigDataPointer,
                          queue[a][i].bigDataPointer # NullPtr
                   PROVE  a = b /\ i = j
        BY <2>2 DEF BuffersOwned, Own
      <3>1. /\ queue[a][i].bigDataPointer \in Buffers(queue[a])
            /\ queue[a][i].bigDataPointer \in Buffers(queue[b])
        BY DEF Buffers
      <3>2. a = b
        BY <2>2, <3>1 DEF Own
      <3> QED
        BY <2>2, <3>2 DEF Own, Distinct
    <2> QED
      BY <2>1, <2>2
  <1>2. Own(queue[0], queue[1], heap) <=> Own(queue[1], queue[0], heap)
    BY DEF Own
  <1>3. CASE m_current = 0
    BY <1>1, <1>3 DEF Get
  <1>4. CASE m_current = 1
    BY <1>1, <1>2, <1>4 DEF Get
  <1> QED
    BY <1>3, <1>4

\* The same of the state after a step.
LEMMA OwnedByNextQueues == CurrentType' => (BuffersOwned' <=> OwnedByBoth')
  BY OwnedByQueues, PTL

LEMMA OwnedInit == Init => BuffersOwned
  BY BuffersEmpty DEF Init, BuffersOwned

LEMMA OwnedAddPackage ==
    ASSUME TypeOK, BuffersOwned, NEW c \in Content, AddPackage(c)
    PROVE  BuffersOwned'
  <1> DEFINE e == [content |-> c, bigDataPointer |-> NullPtr]
             p == queue[m_current]
             q == Append(p, e)
             full == Len(q) >= QueueMax
             r == IF full THEN Tail(q) ELSE q
             h == IF full THEN heap \ {Head(q).bigDataPointer} ELSE heap
  <1>1. e \in Package /\ p \in Seq(Package) /\ Own(p, Get, heap)
    BY OwnedByQueues DEF CurrentType, OwnedByBoth, TypeOK, Package
  <1>2. q \in Seq(Package) /\ q # << >>
    BY <1>1, AppendProperties
  <1>3. Buffers(q) = Buffers(p)
    <2>1. Buffers(q) = Buffers(p) \cup ({e.bigDataPointer} \ {NullPtr})
      BY <1>1, BuffersAppend
    <2>2. e.bigDataPointer = NullPtr
      OBVIOUS
    <2> HIDE DEF q, e
    <2> QED
      BY <2>1, <2>2
  <1>4. Distinct(q)
    BY <1>1, DistinctAppend DEF Own, Buffers
  <1>5. /\ queue' = [queue EXCEPT ![m_current] = r]
        /\ heap' = h
        /\ UNCHANGED m_current
    BY DEF AddPackage, RemoveFront
  <1>6. Own(r, Get, h)
    <2>1. CASE ~full
      BY <1>1, <1>3, <1>4, <2>1 DEF Own
    <2>2. CASE full
      <3>1. Buffers(Tail(q)) = Buffers(q) \ {Head(q).bigDataPointer} /\ Distinct(Tail(q))
        BY <1>2, <1>4, BuffersTail
      <3>2. Head(q).bigDataPointer \notin Buffers(Get)
        <4>1. 1 \in DOMAIN q /\ Head(q) = q[1]
          BY <1>2, EmptySeq, LenProperties
        <4>2. Head(q).bigDataPointer = NullPtr \/ Head(q).bigDataPointer \in Buffers(q)
          BY <4>1 DEF Buffers
        <4> QED
          BY <1>1, <1>3, <4>2 DEF Own, Buffers
      <3> QED
        BY <1>1, <1>3, <2>2, <3>1, <3>2 DEF Own
    <2> QED
      BY <2>1, <2>2
  <1> HIDE DEF q, r, h
  <1>7. queue'[m_current] = r /\ Get' = Get /\ m_current' \in {0, 1}
    BY <1>5, OtherQueue DEF TypeOK, Get
  <1>8. Own(queue[m_current], Get, heap)'
    BY <1>5, <1>6, <1>7 DEF Own, Buffers, Distinct
  <1> QED
    BY <1>7, <1>8, OwnedByNextQueues DEF CurrentType, OwnedByBoth

LEMMA OwnedAddBigPackage ==
    ASSUME TypeOK, BuffersOwned, NEW c \in Content, AddBigPackage(c)
    PROVE  BuffersOwned'
  <1>1. PICK p \in (Address \ heap) \cup {NullPtr} :
            /\ queue' = [queue EXCEPT ![m_current] =
                            Append(@, [content |-> c, bigDataPointer |-> p])]
            /\ heap' = heap \cup ({p} \ {NullPtr})
    BY DEF AddBigPackage
  <1> DEFINE e == [content |-> c, bigDataPointer |-> p]
             q == queue[m_current]
             r == Append(q, e)
  <1>2. e \in Package /\ q \in Seq(Package) /\ Own(q, Get, heap)
    BY OwnedByQueues DEF CurrentType, OwnedByBoth, TypeOK, Package
  <1>3. Buffers(r) = Buffers(q) \cup ({p} \ {NullPtr})
    BY <1>2, BuffersAppend
  <1>4. p \notin Buffers(q) /\ p \notin Buffers(Get)
    BY <1>2 DEF Own, Buffers
  <1>5. Distinct(r)
    BY <1>2, <1>4, DistinctAppend DEF Own
  <1>6. queue' = [queue EXCEPT ![m_current] = r] /\ m_current' = m_current
    BY <1>1 DEF AddBigPackage
  <1> HIDE DEF r
  <1>7. Own(r, Get, heap')
    BY <1>1, <1>2, <1>3, <1>4, <1>5 DEF Own
  <1>8. queue'[m_current] = r /\ Get' = Get /\ m_current' \in {0, 1}
    BY <1>6, OtherQueue DEF TypeOK, Get
  <1>9. Own(queue[m_current], Get, heap)'
    BY <1>6, <1>7, <1>8 DEF Own, Buffers, Distinct
  <1> QED
    BY <1>8, <1>9, OwnedByNextQueues DEF CurrentType, OwnedByBoth

LEMMA OwnedSwap == ASSUME TypeOK, BuffersOwned, Swap PROVE BuffersOwned'
  <1>1. Own(queue[m_current], Get, heap)
    BY OwnedByQueues DEF CurrentType, OwnedByBoth, TypeOK
  <1>2. m_current' = 1 - m_current /\ m_current' \in {0, 1}
    BY OtherQueue DEF TypeOK, Swap
  <1>3. queue' = [queue EXCEPT ![1 - m_current] = << >>] /\ heap' = heap \ Buffers(Get)
    BY <1>2 DEF Swap, Get
  <1>4. queue'[1 - m_current] = << >> /\ Get' = queue[m_current]
    BY <1>2, <1>3, OtherQueue DEF TypeOK, Get
  <1>5. Own(<< >>, queue[m_current], heap \ Buffers(Get))
    BY <1>1, BuffersEmpty DEF Own
  <1>6. Own(queue[m_current], Get, heap)'
    BY <1>2, <1>3, <1>4, <1>5 DEF Own, Buffers, Distinct
  <1> QED
    BY <1>2, <1>6, OwnedByNextQueues DEF CurrentType, OwnedByBoth

LEMMA OwnedStep == TypeOK /\ BuffersOwned /\ [Next]_mqVars => BuffersOwned'
  <1> SUFFICES ASSUME TypeOK, BuffersOwned, [Next]_mqVars PROVE BuffersOwned'
    OBVIOUS
  <1>1. CASE UNCHANGED <<queue, heap>>
    BY <1>1 DEF BuffersOwned, Buffers
  <1>2. CASE GetPackage
    BY <1>1, <1>2 DEF GetPackage
  <1>3. CASE UNCHANGED mqVars
    BY <1>1, <1>3 DEF mqVars
  <1> QED
    BY <1>2, <1>3, OwnedAddPackage, OwnedAddBigPackage, OwnedSwap DEF Next

\* What is allocated is what the messages of the two queues point to, each buffer
\* from one message only: RemoveFront and Reset (HXLibMessageQueue.cpp) free no buffer
\* twice, none that the main loop still reads, and none is lost.
THEOREM BuffersAreOwned == Spec => []BuffersOwned
  BY OwnedInit, OwnedStep, QueueTyped, PTL DEF Spec

-----------------------------------------------------------------------------
(* The two buffers implement one lossy FIFO queue. *)

LEMMA ContentsLen ==
    ASSUME NEW q \in Seq(Package)
    PROVE  /\ Contents(q) \in Seq(Content)
           /\ Len(Contents(q)) = Len(q)
           /\ \A k \in 1 .. Len(q) : Contents(q)[k] = q[k].content
  <1>1. Len(q) \in Nat /\ DOMAIN q = 1 .. Len(q) /\ \A k \in 1 .. Len(q) : q[k] \in Package
    BY LenProperties, ElementOfSeq
  <1>2. Contents(q) \in [1 .. Len(q) -> Content]
    BY <1>1 DEF Contents, Package
  <1>3. [1 .. Len(q) -> Content] \subseteq Seq(Content)
    BY <1>1, SeqDef
  <1>4. Contents(q) \in Seq(Content) /\ DOMAIN Contents(q) = 1 .. Len(q)
    BY <1>2, <1>3
  <1>5. Len(Contents(q)) = Len(q)
    BY <1>1, <1>4, LenProperties
  <1> QED
    BY <1>1, <1>4, <1>5 DEF Contents

\* Contents are appended, and taken, as messages are.
LEMMA ContentsAppend ==
    ASSUME NEW q \in Seq(Package), NEW e \in Package
    PROVE  Contents(Append(q, e)) = Append(Contents(q), e.content)
  <1> DEFINE s == Append(q, e)
             t == Append(Contents(q), e.content)
  <1>1. /\ Len(q) \in Nat /\ Contents(q) \in Seq(Content) /\ Len(Contents(q)) = Len(q)
        /\ \A k \in 1 .. Len(q) : Contents(q)[k] = q[k].content
        /\ e.content \in Content
    BY ContentsLen, LenProperties DEF Package
  <1>2. /\ s \in Seq(Package) /\ Len(s) = Len(q) + 1
        /\ \A k \in 1 .. Len(q) : s[k] = q[k]
        /\ s[Len(q) + 1] = e
    BY AppendProperties
  <1>3. /\ t \in Seq(Content) /\ Len(t) = Len(q) + 1
        /\ \A k \in 1 .. Len(q) : t[k] = q[k].content
        /\ t[Len(q) + 1] = e.content
    BY <1>1, AppendProperties
  <1> HIDE DEF s, t
  <1>4. Contents(s) \in Seq(Content) /\ Len(Contents(s)) = Len(t)
    BY <1>2, <1>3, ContentsLen
  <1>5. \A k \in 1 .. Len(Contents(s)) : Contents(s)[k] = t[k]
    <2> SUFFICES ASSUME NEW k \in 1 .. Len(Contents(s)) PROVE Contents(s)[k] = t[k]
      OBVIOUS
    <2>1. Contents(s)[k] = s[k].content
      BY <1>2, <1>3, <1>4, ContentsLen
    <2>2. k \in 1 .. Len(q) \/ k = Len(q) + 1
      BY <1>1, <1>3, <1>4
    <2> QED
      BY <2>1, <2>2, <1>2, <1>3
  <1>6. Contents(s) = t
    BY <1>3, <1>4, <1>5, SeqEqual
  <1> QED
    BY <1>6 DEF s, t

LEMMA ContentsTail ==
    ASSUME NEW q \in Seq(Package), q # << >>
    PROVE  Contents(Tail(q)) = Tail(Contents(q))
  <1> DEFINE s == Tail(q)
             c == Contents(q)
             t == Tail(c)
  <1>1. /\ Len(q) \in Nat \ {0} /\ c \in Seq(Content) /\ Len(c) = Len(q)
        /\ \A k \in 1 .. Len(q) : c[k] = q[k].content
    BY ContentsLen, EmptySeq
  <1>2. c # << >>
    BY <1>1
  <1> HIDE DEF c
  <1>3. s \in Seq(Package) /\ Len(s) = Len(q) - 1 /\ \A k \in 1 .. Len(s) : s[k] = q[k + 1]
    BY HeadTailProperties
  <1>4. t \in Seq(Content) /\ Len(t) = Len(q) - 1 /\ \A k \in 1 .. Len(t) : t[k] = c[k + 1]
    BY <1>1, <1>2, HeadTailProperties
  <1> HIDE DEF s, t
  <1>5. Contents(s) \in Seq(Content) /\ Len(Contents(s)) = Len(t)
    BY <1>3, <1>4, ContentsLen
  <1>6. \A k \in 1 .. Len(Contents(s)) : Contents(s)[k] = t[k]
    <2> SUFFICES ASSUME NEW k \in 1 .. Len(Contents(s)) PROVE Contents(s)[k] = t[k]
      OBVIOUS
    <2>1. Contents(s)[k] = s[k].content /\ k \in 1 .. Len(s) /\ k \in 1 .. Len(t)
      BY <1>3, <1>4, <1>5, ContentsLen
    <2>2. k + 1 \in 1 .. Len(q)
      BY <1>1, <1>3, <2>1
    <2>3. s[k] = q[k + 1] /\ t[k] = c[k + 1] /\ c[k + 1] = q[k + 1].content
      BY <1>1, <1>3, <1>4, <2>1, <2>2
    <2> QED
      BY <2>1, <2>3
  <1>7. Contents(s) = t
    BY <1>4, <1>5, <1>6, SeqEqual
  <1> QED
    BY <1>7 DEF s, t, c

LEMMA FifoInit == Init => Fifo!Init
  <1>1. Contents(<< >>) = << >>
    BY EmptySeq, ContentsLen
  <1>2. Init => queue[m_current] = << >> /\ Get = << >> /\ index = 0
    BY DEF Init, Get
  <1> QED
    BY <1>1, <1>2 DEF Fifo!Init

\* A message put into the current queue is pending; a full queue gives up its
\* oldest one.
LEMMA FifoAddPackage ==
    ASSUME TypeOK, NEW c \in Content, AddPackage(c)
    PROVE  Fifo!Put(c)
  <1> DEFINE e == [content |-> c, bigDataPointer |-> NullPtr]
             p == queue[m_current]
             q == Append(p, e)
  <1>1. e \in Package /\ p \in Seq(Package) /\ e.content = c
    BY DEF TypeOK, Package
  <1>2. q \in Seq(Package) /\ q # << >> /\ Len(q) = Len(p) + 1
    BY <1>1, AppendProperties
  <1>3. Contents(q) = Append(Contents(p), c)
    BY <1>1, ContentsAppend
  <1>4. Contents(Tail(q)) = Tail(Append(Contents(p), c))
    BY <1>2, <1>3, ContentsTail
  <1>5. Len(Contents(p)) = Len(p)
    BY <1>1, ContentsLen
  <1>6. queue' = [queue EXCEPT ![m_current] = IF Len(q) >= QueueMax THEN Tail(q) ELSE q]
        /\ UNCHANGED <<m_current, index>>
    BY DEF AddPackage, RemoveFront
  <1>7. Get' = Get
    BY <1>6, OtherQueue DEF TypeOK, Get
  <1>8. queue'[m_current'] = IF Len(p) + 1 >= QueueMax THEN Tail(q) ELSE q
    BY <1>2, <1>6 DEF TypeOK
  <1> HIDE DEF q, p
  <1>9. \/ Contents(queue'[m_current']) = Append(Contents(p), c)
        \/ /\ Len(Contents(p)) + 1 >= QueueMax
           /\ Contents(queue'[m_current']) = Tail(Append(Contents(p), c))
    BY <1>3, <1>4, <1>5, <1>8
  <1> QED
    BY <1>6, <1>7, <1>9 DEF Fifo!Put, Contents, p

LEMMA FifoAddBigPackage ==
    ASSUME TypeOK, NEW c \in Content, AddBigPackage(c)
    PROVE  Fifo!Put(c)
  <1>1. PICK b \in (Address \ heap) \cup {NullPtr} :
            queue' = [queue EXCEPT ![m_current] =
                         Append(@, [content |-> c, bigDataPointer |-> b])]
    BY DEF AddBigPackage
  <1> DEFINE e == [content |-> c, bigDataPointer |-> b]
             p == queue[m_current]
             q == Append(p, e)
  <1>2. e \in Package /\ p \in Seq(Package) /\ e.content = c
    BY DEF TypeOK, Package
  <1>3. Contents(q) = Append(Contents(p), c)
    BY <1>2, ContentsAppend
  <1>4. UNCHANGED <<m_current, index>>
    BY DEF AddBigPackage
  <1>5. Get' = Get /\ queue'[m_current'] = q
    BY <1>1, <1>4, OtherQueue DEF TypeOK, Get
  <1> HIDE DEF q, p
  <1> QED
    BY <1>3, <1>4, <1>5 DEF Fifo!Put, Contents, p

\* What is pending becomes the batch of the main loop.
LEMMA FifoSwap == ASSUME TypeOK, Swap PROVE Fifo!Take
  <1>1. m_current' = 1 - m_current
    BY OtherQueue DEF TypeOK, Swap
  <1>2. queue' = [queue EXCEPT ![1 - m_current] = << >>] /\ index = Len(Get) /\ index' = 0
    BY <1>1 DEF Swap
  <1>3. queue'[m_current'] = << >> /\ Get' = queue[m_current]
    BY <1>1, <1>2, OtherQueue DEF TypeOK, Get
  <1>4. Contents(<< >>) = << >>
    BY EmptySeq, ContentsLen
  <1>5. Len(Contents(Get)) = Len(Get)
    BY OtherQueue, ContentsLen DEF TypeOK, Get
  <1> QED
    BY <1>2, <1>3, <1>4, <1>5 DEF Fifo!Take, Contents

LEMMA FifoGetPackage == ASSUME TypeOK, GetPackage PROVE Fifo!Handle
  <1>1. Len(Contents(Get)) = Len(Get)
    BY OtherQueue, ContentsLen DEF TypeOK, Get
  <1> QED
    BY <1>1 DEF GetPackage, Fifo!Handle, Contents, Get

LEMMA FifoStep == TypeOK /\ [Next]_mqVars => [Fifo!Next]_(Fifo!fifoVars)
  <1> SUFFICES ASSUME TypeOK, [Next]_mqVars PROVE [Fifo!Next]_(Fifo!fifoVars)
    OBVIOUS
  <1>1. CASE UNCHANGED mqVars
    BY <1>1 DEF mqVars, Fifo!fifoVars, Contents, Get
  <1>2. ASSUME NEW c \in Content, AddPackage(c) \/ AddBigPackage(c) PROVE Fifo!Next
    BY <1>2, FifoAddPackage, FifoAddBigPackage DEF Fifo!Next
  <1>3. CASE GetPackage
    BY <1>3, FifoGetPackage DEF Fifo!Next
  <1>4. CASE Swap
    BY <1>4, FifoSwap DEF Fifo!Next
  <1> QED
    BY <1>1, <1>2, <1>3, <1>4 DEF Next

\* The two buffers behave as one lossy FIFO queue: the main loop is handed the
\* messages in the order in which they were added, a batch it reads does not
\* change under it, and only a full queue loses a message, its oldest (swap() and
\* add(), HXLibMessageQueue.cpp).
THEOREM QueueIsLossyFifo == Spec => Fifo!SafeSpec
  BY QueueTyped, FifoInit, FifoStep, PTL DEF Spec, Fifo!SafeSpec
=============================================================================
