---------------------------- MODULE UserVerifier ----------------------------
(***************************************************************************)
(* UserVerifier: requests to verify a user go from the main loop through a *)
(* bounded queue to a thread that answers them, and the answers through    *)
(* another one to a thread that sends them.  put() and get() of MsgQueue   *)
(* hold its mutex but while they wait for a condition, so each of their    *)
(* turns is one step: it finishes, or finds the queue full or empty and    *)
(* goes to sleep.  A thread that wakes up, also for no reason, looks again.*)
(*                                                                         *)
(* A request and its answer carry the same link, user and id, and stand    *)
(* for each other here.                                                    *)
(***************************************************************************)
EXTENDS Integers, Sequences

CONSTANTS
    Request,    \* ID_User_Verify messages
    None,       \* no message
    MaxSize,    \* m_maxSize of both queues
    MaxRequests \* bound: requests added

ASSUME VerifierAssumption ==
    /\ None \notin Request
    /\ MaxSize \in Nat \ {0}
    /\ MaxRequests \in Nat

VARIABLES
    queueIn, queueOut,
    adding,     \* the request the main loop is in put() with, or None
    verified,   \* the answer thread_HandleQueueIn is in put() with; None: in get()
    sending,    \* the answer thread_HandleQueueOut has got; None: in get()
    asleep,     \* the threads that wait for a condition
    accepted,   \* ghost: the requests added, in order
    sent        \* ghost: the answers handed to the service, in order

vars == <<queueIn, queueOut, adding, verified, sending, asleep, accepted, sent>>

Thread == {"main", "in", "out"}

Init ==
    /\ queueIn = << >> /\ queueOut = << >>
    /\ adding = None /\ verified = None /\ sending = None
    /\ asleep = {}
    /\ accepted = << >> /\ sent = << >>

-----------------------------------------------------------------------------
(* MsgQueue. *)

\* Fault: a queue is full when it has more than m_maxSize messages.
IsFullLate(q) == Len(q) > MaxSize

IsFull(q) == Len(q) = MaxSize
IsEmpty(q) == q = << >>

\* m_notEmpty.wait and m_notFull.wait.
Wait(t) == asleep' = asleep \cup {t}

\* Fault: nobody is notified.
NotifyNobody(t, waits) == UNCHANGED asleep

\* notify_one: t is the only thread that ever waits for the condition, and does
\* so now if waits.
Notify(t, waits) == asleep' = IF waits THEN asleep \ {t} ELSE asleep

-----------------------------------------------------------------------------
(* The main loop. *)

\* A request comes.
Receive(r) ==
    /\ adding = None
    /\ Len(accepted) < MaxRequests
    /\ adding' = r
    /\ UNCHANGED <<queueIn, queueOut, verified, sending, asleep, accepted, sent>>

\* AddMsgPackage: put() on queueIn.
AddMsgPackage ==
    /\ adding # None /\ "main" \notin asleep
    /\ \/ /\ IsFull(queueIn)
          /\ Wait("main")
          /\ UNCHANGED <<queueIn, adding, accepted>>
       \/ /\ ~IsFull(queueIn)
          /\ queueIn' = Append(queueIn, adding)
          /\ accepted' = Append(accepted, adding)
          /\ adding' = None
          /\ Notify("in", verified = None)
    /\ UNCHANGED <<queueOut, verified, sending, sent>>

-----------------------------------------------------------------------------
(* HandleQueueInMsg. *)

\* get() on queueIn.
GetRequest ==
    /\ verified = None /\ "in" \notin asleep
    /\ \/ /\ IsEmpty(queueIn)
          /\ Wait("in")
          /\ UNCHANGED <<queueIn, verified>>
       \/ /\ ~IsEmpty(queueIn)
          /\ verified' = Head(queueIn)
          /\ queueIn' = Tail(queueIn)
          /\ Notify("main", TRUE)
    /\ UNCHANGED <<queueOut, adding, sending, accepted, sent>>

\* Fault: the answer is dropped when there is no room.
VerifyUserIDDrops ==
    /\ verified # None /\ "in" \notin asleep
    /\ verified' = None
    /\ queueOut' = IF IsFull(queueOut) THEN queueOut ELSE Append(queueOut, verified)
    /\ Notify("out", TRUE)
    /\ UNCHANGED <<queueIn, adding, sending, accepted, sent>>

\* VerifyUserID: put() of the answer, which is always yes, on queueOut.
VerifyUserID ==
    /\ verified # None /\ "in" \notin asleep
    /\ \/ /\ IsFull(queueOut)
          /\ Wait("in")
          /\ UNCHANGED <<queueOut, verified>>
       \/ /\ ~IsFull(queueOut)
          /\ queueOut' = Append(queueOut, verified)
          /\ verified' = None
          /\ Notify("out", TRUE)
    /\ UNCHANGED <<queueIn, adding, sending, accepted, sent>>

-----------------------------------------------------------------------------
(* HandleQueueOutMsg. *)

\* get() on queueOut.
GetAnswer ==
    /\ sending = None /\ "out" \notin asleep
    /\ \/ /\ IsEmpty(queueOut)
          /\ Wait("out")
          /\ UNCHANGED <<queueOut, sending>>
       \/ /\ ~IsEmpty(queueOut)
          /\ sending' = Head(queueOut)
          /\ queueOut' = Tail(queueOut)
          /\ Notify("in", verified # None)
    /\ UNCHANGED <<queueIn, adding, verified, accepted, sent>>

\* Send of the service, whose result nobody looks at.
SendAnswer ==
    /\ sending # None
    /\ sent' = Append(sent, sending)
    /\ sending' = None
    /\ UNCHANGED <<queueIn, queueOut, adding, verified, asleep, accepted>>

\* A thread wakes up for no reason.
WakeUp(t) ==
    /\ t \in asleep
    /\ asleep' = asleep \ {t}
    /\ UNCHANGED <<queueIn, queueOut, adding, verified, sending, accepted, sent>>

-----------------------------------------------------------------------------
Next ==
    \/ \E r \in Request : Receive(r)
    \/ AddMsgPackage
    \/ GetRequest \/ VerifyUserID
    \/ GetAnswer \/ SendAnswer
    \/ \E t \in Thread : WakeUp(t)

\* Threads that are not asleep run.
Fairness ==
    /\ WF_vars(AddMsgPackage)
    /\ WF_vars(GetRequest) /\ WF_vars(VerifyUserID)
    /\ WF_vars(GetAnswer) /\ WF_vars(SendAnswer)

Spec == Init /\ [][Next]_vars /\ Fairness

-----------------------------------------------------------------------------
(* Properties. *)

\* Every variable keeps its type, and no queue grows beyond its size.
TypeOK ==
    /\ queueIn \in Seq(Request) /\ Len(queueIn) <= MaxSize
    /\ queueOut \in Seq(Request) /\ Len(queueOut) <= MaxSize
    /\ {adding, verified, sending} \subseteq Request \cup {None}
    /\ asleep \subseteq Thread
    /\ accepted \in Seq(Request)
    /\ sent \in Seq(Request)

\* No wakeup is lost: a thread is asleep only while what it waits for does not
\* hold, whoever filled or emptied the queues in between.
NoLostWakeup ==
    /\ "main" \in asleep => adding # None /\ IsFull(queueIn)
    /\ "in" \in asleep => IF verified = None THEN IsEmpty(queueIn) ELSE IsFull(queueOut)
    /\ "out" \in asleep => sending = None /\ IsEmpty(queueOut)

\* Every request is answered once, in the order in which the requests came.
Channel == INSTANCE MessageChannel WITH
    Message   <- Request,
    delivered <- sent,
    broken    <- FALSE

ImplementsChannel == Channel!Spec
=============================================================================
