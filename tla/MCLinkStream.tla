---------------------------- MODULE MCLinkStream ----------------------------
(* LinkStream on small instances. *)
EXTENDS LinkStream, TLC

CONSTANTS v1, v2, v3

\* Large messages of one, two and two sections; the last must not be lost.
MCBig == {v1, v2, v3}
MCLossy == {v1, v2}
MCSectionCount == (v1 :> 1) @@ (v2 :> 2) @@ (v3 :> 2)
=============================================================================
