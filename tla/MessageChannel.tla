--------------------------- MODULE MessageChannel ---------------------------
(***************************************************************************)
(* What a connection promises for the messages sent on it: those accepted  *)
(* arrive whole, unaltered, once and in order, all of them as long as the  *)
(* connection is not broken.                                               *)
(***************************************************************************)
EXTENDS Naturals, Sequences

CONSTANT Message

VARIABLES
    accepted,   \* the messages accepted for sending, in order
    delivered,  \* the messages handed to the receiving program, in order
    broken      \* the connection has failed or was closed

channelVars == <<accepted, delivered, broken>>

Init ==
    /\ accepted = << >>
    /\ delivered = << >>
    /\ broken = FALSE

Accept(m) ==
    /\ accepted' = Append(accepted, m)
    /\ UNCHANGED <<delivered, broken>>

Deliver ==
    /\ Len(delivered) < Len(accepted)
    /\ delivered' = Append(delivered, accepted[Len(delivered) + 1])
    /\ UNCHANGED <<accepted, broken>>

Break ==
    /\ broken' = TRUE
    /\ UNCHANGED <<accepted, delivered>>

Next == (\E m \in Message : Accept(m)) \/ Deliver \/ Break

Spec == Init /\ [][Next]_channelVars /\ WF_channelVars(~broken /\ Deliver)
=============================================================================
