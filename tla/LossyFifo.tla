----------------------------- MODULE LossyFifo ------------------------------
(***************************************************************************)
(* What a queue between network threads and a main loop promises: messages *)
(* are handed over in the order in which they were put, in batches; a      *)
(* batch that has been taken does not change while the main loop walks     *)
(* through it; and a message is lost only when the queue is full, and then *)
(* it is the oldest one.                                                   *)
(***************************************************************************)
EXTENDS Naturals, Sequences

CONSTANTS
    Content,    \* what messages carry
    QueueMax    \* the length at which the queue is full

VARIABLES
    pending,    \* put and not taken yet, oldest first
    batch,      \* taken by the main loop
    handled     \* how many messages of the batch the main loop has handled

fifoVars == <<pending, batch, handled>>

Init ==
    /\ pending = << >>
    /\ batch = << >>
    /\ handled = 0

\* A message is put at the end; a full queue may give up its oldest one.
Put(c) ==
    /\ \/ pending' = Append(pending, c)
       \/ /\ Len(pending) + 1 >= QueueMax
          /\ pending' = Tail(Append(pending, c))
    /\ UNCHANGED <<batch, handled>>

\* The main loop handles the next message of its batch.
Handle ==
    /\ handled < Len(batch)
    /\ handled' = handled + 1
    /\ UNCHANGED <<pending, batch>>

\* Having handled all of it, it takes everything put since as its next batch.
Take ==
    /\ handled = Len(batch)
    /\ batch' = pending
    /\ pending' = << >>
    /\ handled' = 0

Next == (\E c \in Content : Put(c)) \/ Handle \/ Take

\* The main loop never stops.
Spec == Init /\ [][Next]_fifoVars /\ WF_fifoVars(Handle) /\ WF_fifoVars(Take)

\* The safety half, without the main loop's fairness.
SafeSpec == Init /\ [][Next]_fifoVars
=============================================================================
