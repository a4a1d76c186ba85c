-------------------------------- MODULE Lobby --------------------------------
(***************************************************************************)
(* What the rooms of one app promise to those who use them, with every     *)
(* request in one step: rooms open and close by name, clients enter and    *)
(* depart.  RoomRegistry implements it with lookups, mutexes and clean-ups *)
(* that other tasks interrupt, and with rooms that nobody can find any     *)
(* more, which the lobby does not have.                                    *)
(***************************************************************************)
CONSTANTS
  Clients,  \* those who enter
  Names,    \* the names of rooms
  Ids       \* the ids a room gives to its guests

VARIABLES
  open,   \* the names of the rooms there are
  guests  \* who is in which room, under which id

lobby == <<open, guests>>

Guest == [conn : Clients, code : Names, peer : Ids]

TypeOK == open \subseteq Names /\ guests \subseteq Guest

Inside(code) == {g \in guests : g.code = code}

Init == open = {} /\ guests = {}

Open(code) ==
  /\ code \notin open
  /\ open' = open \cup {code}
  /\ UNCHANGED guests

\* A room closes when its last guest has gone, not before.
Close(code) ==
  /\ code \in open
  /\ Inside(code) = {}
  /\ open' = open \ {code}
  /\ UNCHANGED guests

\* A client that is in no room enters one there is, under an id nobody in it has.
Enter(c, code, id) ==
  /\ \A g \in guests : g.conn # c
  /\ \A g \in Inside(code) : g.peer # id
  /\ guests' = guests \cup {[conn |-> c, code |-> code, peer |-> id]}
  /\ UNCHANGED open

\* Some guests of one room go: of their own accord, evicted, or found to be gone.
Depart(gone) ==
  /\ guests' = guests \ gone
  /\ UNCHANGED open

Next ==
  \/ \E code \in Names : \E gone \in SUBSET Inside(code) : Depart(gone)
  \/ \E code \in Names : Open(code) \/ Close(code)
  \/ \E c \in Clients, code \in open, id \in Ids : Enter(c, code, id)

Spec == Init /\ [][Next]_lobby

-----------------------------------------------------------------------------
(* What follows for anything that implements the lobby.                    *)

\* Guests are in rooms there are, each in one room under one id, no two of a room
\* under the same id.
Orderly ==
  /\ TypeOK
  /\ \A g \in guests : g.code \in open
  /\ \A g, h \in guests : g.conn = h.conn => g = h
  /\ \A g, h \in guests : g.code = h.code /\ g.peer = h.peer => g = h

=============================================================================
