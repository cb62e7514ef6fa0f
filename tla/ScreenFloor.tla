---------------------------- MODULE ScreenFloor ----------------------------
(***************************************************************************)
(* What PartyShare promises about a shared screen (section 5.1 of          *)
(* SPEC.md), without saying how rooms are kept: everybody is in at most    *)
(* one room, a room's screen belongs to at most one of the people inside,  *)
(* and it is free before somebody else takes it.                           *)
(***************************************************************************)
CONSTANTS Users, RoomIds, Nowhere, Nobody

VARIABLES
  room_of,   \* the room somebody is in
  sharer     \* whose screen a room is watching

floorVars == <<room_of, sharer>>

Init ==
  /\ room_of = [u \in Users |-> Nowhere]
  /\ sharer = [r \in RoomIds |-> Nobody]

(* Moving from one room, or none, to another ends one's share.             *)
Move(u, r) ==
  /\ room_of[u] # r
  /\ room_of' = [room_of EXCEPT ![u] = r]
  /\ sharer' = [q \in RoomIds |-> IF sharer[q] = u THEN Nobody ELSE sharer[q]]

Take(u) ==
  /\ room_of[u] # Nowhere
  /\ sharer[room_of[u]] = Nobody
  /\ sharer' = [sharer EXCEPT ![room_of[u]] = u]
  /\ UNCHANGED room_of

(* Whoever is in `out` leaves the room they are in and whoever is in       *)
(* `hiding` stops sharing: one person, everybody inside a room that is     *)
(* closed or with the process that kept them all, or all those at once     *)
(* from whom something has been taken.                                     *)
Withdraw(out, hiding) ==
  /\ room_of' = [u \in Users |-> IF u \in out THEN Nowhere ELSE room_of[u]]
  /\ sharer' = [q \in RoomIds |-> IF sharer[q] \in out \cup hiding THEN Nobody ELSE sharer[q]]

Next ==
  \/ \E u \in Users, r \in RoomIds : Move(u, r)
  \/ \E u \in Users : Take(u)
  \/ \E out, hiding \in SUBSET Users : Withdraw(out, hiding)

Spec == Init /\ [][Next]_floorVars

(* The person whose screen a room watches is in that room.                 *)
SharerIsInside ==
  \A r \in RoomIds : sharer[r] # Nobody => room_of[sharer[r]] = r
=============================================================================
