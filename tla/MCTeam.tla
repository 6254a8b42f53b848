------------------------------- MODULE MCTeam -------------------------------
(* Instance of Team: two users, two seat types, one of them at a time. *)
EXTENDS Team, TLC

MCSeats == 1 .. 2
MCLimit == [t \in {"basic", "max"} |-> IF t = "basic" THEN 1 ELSE 2]
MCItems == {<<>>} \cup {<<[type |-> t, n |-> n]>> : t \in {"basic", "max"}, n \in 1 .. 2}
=============================================================================
