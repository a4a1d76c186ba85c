-------------------------- MODULE MCRoomRegistry --------------------------
(***************************************************************************)
(* Constants for model checking RoomRegistry.                              *)
(***************************************************************************)
EXTENDS RoomRegistry, TLC

\* A new room of the instance: open to all, without limits.
OpenSettings ==
  [max |-> 0, min |-> 0, public |-> FALSE, locked |-> FALSE, accept |-> FALSE]

\* Rooms of at most two, whose host admits each peer.
ClosedSettings == [OpenSettings EXCEPT !.max = 2, !.min = 1, !.accept = TRUE]
LockedSettings == [OpenSettings EXCEPT !.max = 1, !.locked = TRUE]

WaitingSettings == [OpenSettings EXCEPT !.accept = TRUE]
NoSettings == {}
LockingSettings == {LockedSettings}

\* Sound where no liveness is checked and every connection may do the same.
Symmetry == Permutations(Conns) \cup Permutations(RoomIds)
              \cup Permutations(Codes) \cup Permutations(Hashes)

===========================================================================
