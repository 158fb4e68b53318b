----------------------------- MODULE MCTheatre -----------------------------
(* Theatre on small instances. *)
EXTENDS Theatre, TLC

CONSTANTS sA, sB, a1, a2, a3, b1, k1, k2

\* A scene with VIP and capsule clients, and one with a VIP client.
MCSceneOf == [c \in Client |-> IF c = b1 THEN sB ELSE sA]
MCKind == [c \in Client |-> IF c \in {k1, k2} THEN "Capsule" ELSE "VIP"]
MCSeatOf == (a1 :> 1) @@ (a2 :> 2) @@ (k1 :> 3) @@ (k2 :> 4) @@ (b1 :> 1) @@ (a3 :> 1)

\* Either the VIP clients make the users of both scenes visible; or a VIP client
\* of each scene and a capsule client give commands and show flowers while a
\* connection to the center breaks; or two capsule clients look for seats.
MCScript ==
    {{a1, a2, b1} \cup Scene,
     {a1, k1, b1, "present_flowers", "stop_present_flowers", "center_lost"} \cup Command,
     {a1, a2, k1, k2}, {a1, a3, k1, k2}, {a1, a3, b1} \cup Scene}
=============================================================================
