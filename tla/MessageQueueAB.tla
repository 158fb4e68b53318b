--------------------------- MODULE MessageQueueAB ---------------------------
(***************************************************************************)
(* HXMessageQueueAB: the double-buffered queue between the network threads *)
(* (io thread, callers of Push) and the main loop.  Producers append to    *)
(* m_queue[m_current] under m_mutex; swap() makes the other queue current  *)
(* and hands the filled one to the main loop, which reads it without a     *)
(* lock until its next swap().                                             *)
(*                                                                         *)
(* A message reassembled from a large one carries a buffer on the heap     *)
(* (bigDataPointer) that belongs to the queue holding the message.         *)
(***************************************************************************)
EXTENDS Integers, Sequences, FiniteSets

CONSTANTS
    Content,    \* what a message carries
    Address,    \* the addresses new char[] can return
    NullPtr,    \* a bigDataPointer that points nowhere
    QueueMax,   \* m_queueMax
    MaxLength   \* bound: messages in one queue

ASSUME MessageQueueAssumption ==
    /\ NullPtr \notin Address
    /\ QueueMax \in Nat \ {0, 1}
    /\ MaxLength \in Nat

VARIABLES
    queue,      \* m_queue[2]
    m_current,  \* the queue producers append to
    index,      \* the main loop's position in the queue it reads
    heap        \* the addresses allocated and not freed

mqVars == <<queue, m_current, index, heap>>

Package == [content : Content, bigDataPointer : Address \cup {NullPtr}]

\* The queue the main loop may read.
Get == queue[1 - m_current]

\* The buffers a sequence of messages owns.
Buffers(q) == {q[k].bigDataPointer : k \in DOMAIN q} \ {NullPtr}

Init ==
    /\ queue = [b \in {0, 1} |-> << >>]
    /\ m_current = 0
    /\ index = 0
    /\ heap = {}

-----------------------------------------------------------------------------
(* HXMessageQueue. *)

\* RemoveFront: what is left of q, the front's buffer being freed.
RemoveFront(q) == Tail(q)

\* Producers, on any network thread.

\* Fault: the message dropped keeps its buffer.
AddPackageLeaks(c) ==
    LET q == Append(queue[m_current], [content |-> c, bigDataPointer |-> NullPtr])
        full == Len(q) >= QueueMax
    IN  /\ Len(q) <= MaxLength
        /\ queue' = [queue EXCEPT ![m_current] = IF full THEN RemoveFront(q) ELSE q]
        /\ UNCHANGED <<m_current, index, heap>>

\* add() of an ordinary message, and Push: append it, then drop the oldest
\* message if the queue has reached its limit.
AddPackage(c) ==
    LET q == Append(queue[m_current], [content |-> c, bigDataPointer |-> NullPtr])
        full == Len(q) >= QueueMax
    IN  /\ Len(q) <= MaxLength
        /\ queue' = [queue EXCEPT ![m_current] = IF full THEN RemoveFront(q) ELSE q]
        /\ heap' = IF full THEN heap \ {Head(q).bigDataPointer} ELSE heap
        /\ UNCHANGED <<m_current, index>>

\* add() of the last section of a large message: the message is rebuilt in a
\* buffer of its own, unless it is empty, and add() returns before the limit
\* is looked at.  The other sections change nothing here.
AddBigPackage(c) ==
    /\ Len(queue[m_current]) < MaxLength
    /\ \E p \in (Address \ heap) \cup {NullPtr} :
        /\ queue' = [queue EXCEPT ![m_current] =
                        Append(@, [content |-> c, bigDataPointer |-> p])]
        /\ heap' = heap \cup ({p} \ {NullPtr})
    /\ UNCHANGED <<m_current, index>>

-----------------------------------------------------------------------------
(* The main loop. *)

\* The body of the loop: GetPackage(i) for the next i.
GetPackage ==
    /\ index < Len(Get)
    /\ index' = index + 1
    /\ UNCHANGED <<queue, m_current, heap>>

\* Faults: the main loop goes on from where it was in the other queue, or the
\* queue it has read is not emptied.
SwapKeepsIndex ==
    /\ index = Len(Get)
    /\ m_current' = (m_current + 1) % 2
    /\ queue' = [queue EXCEPT ![m_current'] = << >>]
    /\ heap' = heap \ Buffers(queue[m_current'])
    /\ UNCHANGED index

SwapNoReset ==
    /\ index = Len(Get)
    /\ m_current' = (m_current + 1) % 2
    /\ index' = 0
    /\ UNCHANGED <<queue, heap>>

\* SwapQueue once the loop is done: the queue read so far is emptied, its
\* buffers freed, and becomes current.
Swap ==
    /\ index = Len(Get)
    /\ m_current' = (m_current + 1) % 2
    /\ queue' = [queue EXCEPT ![m_current'] = << >>]
    /\ heap' = heap \ Buffers(queue[m_current'])
    /\ index' = 0

-----------------------------------------------------------------------------
Next ==
    \/ \E c \in Content : AddPackage(c) \/ AddBigPackage(c)
    \/ GetPackage
    \/ Swap

\* The main loop runs for ever.
Spec == Init /\ [][Next]_mqVars /\ WF_mqVars(GetPackage) /\ WF_mqVars(Swap)

-----------------------------------------------------------------------------
(* Properties. *)

\* Every variable keeps its type.
TypeOK ==
    /\ queue \in [{0, 1} -> Seq(Package)]
    /\ m_current \in {0, 1}
    /\ index \in Nat
    /\ index <= Len(Get)
    /\ heap \subseteq Address

\* Buffers are owned: what is allocated is what the messages of the two queues
\* point to, and no two messages point to one buffer.  So the main loop never
\* reads a freed buffer, none is freed twice and none is lost.
BuffersOwned ==
    /\ heap = Buffers(queue[0]) \cup Buffers(queue[1])
    /\ \A a, b \in {0, 1} : \A i \in DOMAIN queue[a], j \in DOMAIN queue[b] :
        /\ queue[a][i].bigDataPointer = queue[b][j].bigDataPointer
        /\ queue[a][i].bigDataPointer # NullPtr
        => a = b /\ i = j

\* Without the buffers, the contents of a queue.
Contents(q) == [k \in DOMAIN q |-> q[k].content]

\* The two buffers together behave as one lossy FIFO queue: what producers
\* append to is pending, what the main loop reads is its batch.
Fifo == INSTANCE LossyFifo WITH
    pending <- Contents(queue[m_current]),
    batch   <- Contents(Get),
    handled <- index

ImplementsFifo == Fifo!Spec
=============================================================================
