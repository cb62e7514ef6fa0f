------------------------------- MODULE MCHub -------------------------------
(* Hub on small instances: an administrator, ana, and the people she       *)
(* moderates, on two or three sockets.                                     *)
EXTENDS Hub, TLC

CONSTANTS ana, bia

Person(is_admin) ==
  [admin |-> is_admin, restrictions |-> Unrestricted, session_end_requested |-> FALSE]

OneAdministrator == {[u \in Users |-> Person(u = ana)]}

(* bia's account does not exist until ana creates it.                      *)
BiaUnborn == {[u \in Users |-> IF u = bia THEN Unborn ELSE Person(u = ana)]}

TwoAdministrators == {[u \in Users |-> Person(TRUE)]}

(* Every room of the store, nobody's, with room for two.                   *)
RoomsOfNobody == {[r \in RoomIds |-> [name |-> r, owner |-> Nobody, capacity |-> 2]]}

NoRooms == {[r \in RoomIds |-> NoRoom]}

Ban == [Unrestricted EXCEPT !.banned = TRUE]
Mute == [Unrestricted EXCEPT !.muted = TRUE]
Block == [Unrestricted EXCEPT !.screen_share_blocked = TRUE]

(* Nothing tells one socket from another, nor one room.                    *)
Symmetry == Permutations(Connections) \cup Permutations(RoomIds)

AnyStart == OneAdministrator \cup BiaUnborn

OneAtATime == {Unrestricted, Ban, Mute, Block}
MuteAndBlock == {Unrestricted, Ban, [Mute EXCEPT !.screen_share_blocked = TRUE]}
OnlyBans == {Unrestricted, Ban}
=============================================================================
