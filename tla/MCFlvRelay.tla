----------------------------- MODULE MCFlvRelay -----------------------------
(* FlvRelay on small instances. *)
EXTENDS FlvRelay, TLC

\* Users are interchangeable.
UserSymmetry == Permutations(User)
=============================================================================
