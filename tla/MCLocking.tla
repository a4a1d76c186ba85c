----------------------------- MODULE MCLocking -----------------------------
(***************************************************************************)
(* Constants for model checking Locking.                                   *)
(***************************************************************************)
EXTENDS Locking

CONSTANTS r1, r2, pong, sphere

\* The two apps, and the two rooms, are in different shards.
InOrder == [a \in Apps |-> IF a = pong THEN 1 ELSE 2]
InTwo == [r \in RoomIds |-> IF r = r1 THEN 1 ELSE 2]

=============================================================================
