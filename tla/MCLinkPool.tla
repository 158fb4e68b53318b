----------------------------- MODULE MCLinkPool -----------------------------
(* LinkPool on small instances. *)
EXTENDS LinkPool, TLC

\* Connections are interchangeable: none is named by a definition.
SessionSymmetry == Permutations(Session)
=============================================================================
