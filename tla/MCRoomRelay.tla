---------------------------- MODULE MCRoomRelay ----------------------------
(***************************************************************************)
(* Constants for model checking RoomRelay.                                 *)
(***************************************************************************)
EXTENDS RoomRelay

OpenSettings ==
  [max |-> 0, min |-> 0, public |-> FALSE, locked |-> FALSE, accept |-> FALSE]
WaitingSettings == [OpenSettings EXCEPT !.accept = TRUE, !.min = 2, !.public = TRUE]

OneHash == [c \in Conns |-> CHOOSE h \in Hashes : TRUE]
OpenOrWaiting == {OpenSettings, WaitingSettings}

\* Every connection may do the same, and no liveness is checked.
Symmetry == Permutations(Conns)

=============================================================================
