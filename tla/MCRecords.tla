------------------------------- MODULE MCRecords -------------------------------
(* The parts of MCRecovery, and two more in which what one writes down is  *)
(* read by another: rooms on a store that fails in every way (RoomManager),*)
(* and messages on the wire (Codec).                                       *)
EXTENDS MCRecovery

CONSTANTS
  Owners, Names, MaxSeats, InitialStores, Creators, RequestedSizes, Refusing,
  Unacknowledging, Killable, DbadminActs,    \* RoomManager's
  Unset, Width                               \* Codec's

VARIABLES
  r_rooms, r_people, r_user_to_room, r_stored, r_chat, r_condemned,
  w_sent, w_wire, w_altered, w_got

r_vars == <<r_rooms, r_people, r_user_to_room, r_stored, r_chat, r_condemned>>
w_vars == <<w_sent, w_wire, w_altered, w_got>>

Store == INSTANCE RoomManager WITH
  Users <- Owners, RoomIds <- Places, TypedNames <- Names,
  MaxParticipantsPerRoom <- MaxSeats, rooms <- r_rooms, people <- r_people,
  user_to_room <- r_user_to_room, stored <- r_stored, chat <- r_chat,
  condemned <- r_condemned

Wire == INSTANCE Codec WITH
  sent <- w_sent, wire <- w_wire, altered <- w_altered, got <- w_got

ASSUME RecordsAssumption ==
  /\ Store!RoomsAssumption /\ Store!RoomManagerAssumption
  /\ Wire!CodecAssumption

NoRecords == [r \in Places |-> NoRoom]

(* A database written before names had to be unique, and an empty one.     *)
LegacyRecords ==
  {NoRecords} \cup
    {[r \in Places |-> [name |-> n, owner |-> Nobody, capacity |-> 0]] : n \in Names}

RecordsInit ==
  /\ PartsInit /\ Store!Init /\ Wire!Init
  /\ part # "rooms" => r_stored = NoRecords

RecordsNext ==
  /\ PartsNext
  /\ IF part = "rooms" THEN Store!Next ELSE UNCHANGED r_vars
  /\ IF part = "wire" THEN Wire!Next ELSE UNCHANGED w_vars

RecordsSpec ==
  /\ RecordsInit
  /\ [][RecordsNext]_<<part, session_vars, l_vars, n_vars, s_vars, vars, r_vars, w_vars>>
  /\ Session!Fairness /\ Link!Fairness /\ Mail!Fairness

(* The types of every part.                                                *)
RecordsTypeOK ==
  /\ PartsTypeOK
  /\ part = "rooms" => Store!TypeOK
  /\ part = "wire" => Wire!TypeOK

(* RoomManager: a live room that dbadmin has not deleted is in the store   *)
(* under its name and owner, whatever write failed and wherever the server *)
(* was killed, so that the next start finds it.                            *)
NoRoomIsLost == part = "rooms" => Store!NoRoomIsLost

(* RoomManager: two live rooms share a name only where they were loaded so.*)
NamesCollideOnlyOnLoad == Store!NamesCollideOnlyOnLoad

(* Codec: a message arrives as it was meant, or says nothing its sender    *)
(* did not, or is refused for the field that is wrong, whatever another    *)
(* version left out or wrote otherwise.                                    *)
SaysNoMore == part = "wire" => Wire!SaysNoMore
=============================================================================
