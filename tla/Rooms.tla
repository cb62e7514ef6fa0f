------------------------------- MODULE Rooms -------------------------------
(***************************************************************************)
(* The vocabulary of PartyShare's rooms, shared by the modules that keep   *)
(* them: what a room and a participant are (dv/models/room.hpp, user.hpp)  *)
(* and what the rules of section 5.1 of SPEC.md compute on them            *)
(* (server/src/rooms/room_manager.cpp).                                    *)
(*                                                                         *)
(* A room's description (its name, its owner, its size) is kept apart from *)
(* the people inside it, because only the description is written to the    *)
(* store.  The list of participants of a room is a function of the users   *)
(* whose value is Absent for whoever is not inside: the order in which     *)
(* people entered is read by no rule.                                      *)
(*                                                                         *)
(* A definition marked "a slip" is no part of the model: it is the one     *)
(* below it with a mistake a programmer could make, and the runs must      *)
(* notice when it takes that one's place.                                  *)
(***************************************************************************)
EXTENDS Integers, FiniteSets

CONSTANTS
  Users,                     \* account identifiers
  RoomIds,                   \* the identifiers generate_room_id may produce
  TypedNames,                \* names a person may type, one per room_name_key
  Untyped,                   \* the empty name
  Nobody,                    \* no account: the owner of a room older than the field
  NoRoom,                    \* "no room answers to this identifier"
  Nowhere,                   \* the room of somebody who is in none
  Absent,                    \* the entry of somebody who is not inside
  MaxParticipantsPerRoom     \* the operator's ceiling on a room's size

(* An identifier is a possible name: a room nobody named carries its own.  *)
RoomNames == TypedNames \cup RoomIds

kDefaultRoomCapacity == 5
kMinRoomCapacity == 2
kMaxRoomCapacity == 50

(* What the store keeps of a room.  A capacity of zero is a record written *)
(* before rooms had a size.                                                *)
RoomRecord == [name : RoomNames, owner : Users \cup {Nobody}, capacity : Nat]

Participant ==
  [muted : BOOLEAN, muted_by_admin : BOOLEAN,
   sharing_screen : BOOLEAN, sharing_audio : BOOLEAN]

ASSUME RoomsAssumption ==
  /\ MaxParticipantsPerRoom \in Int
  /\ IsFiniteSet(Users)
  /\ Untyped \notin TypedNames
  /\ Nobody \notin Users
  /\ NoRoom \notin RoomRecord
  /\ Nowhere \notin RoomIds
  /\ Absent \notin Participant
-----------------------------------------------------------------------------
(* The sizes a room may be given.                                          *)

Clamp(n, low, high) == IF n < low THEN low ELSE IF n > high THEN high ELSE n

max_capacity == Clamp(MaxParticipantsPerRoom, kMinRoomCapacity, kMaxRoomCapacity)

default_capacity ==
  IF kDefaultRoomCapacity < max_capacity THEN kDefaultRoomCapacity ELSE max_capacity

is_valid_room_capacity(n) == n \in kMinRoomCapacity .. kMaxRoomCapacity

Grantable(n) == is_valid_room_capacity(n) /\ n <= max_capacity

(* The capacity create_room settles on: zero asks for the default.         *)
CapacityFor(requested) == IF requested = 0 THEN default_capacity ELSE requested

LoadedAsWritten(record) == record                                      \* a slip

(* How load_rooms reads a record back.                                     *)
Loaded(record) ==
  IF record = NoRoom THEN NoRoom
  ELSE [record EXCEPT !.capacity = IF @ > 0 THEN @ ELSE kDefaultRoomCapacity]
-----------------------------------------------------------------------------
(* Who is inside.  `people` maps each room to the entries of its users.    *)

Empty == [u \in Users |-> Absent]

Newcomer ==
  [muted |-> FALSE, muted_by_admin |-> FALSE,
   sharing_screen |-> FALSE, sharing_audio |-> FALSE]

contains(people, r, u) == people[r][u] # Absent

Occupants(people, r) == {u \in Users : contains(people, r, u)}

is_overfull(people, r, capacity) ==                                  \* a slip
  Cardinality(Occupants(people, r)) > capacity

is_full(people, r, capacity) == Cardinality(Occupants(people, r)) >= capacity

Shares(people, r, u) == contains(people, r, u) /\ people[r][u].sharing_screen

Sharers(people, r) == {u \in Users : Shares(people, r, u)}

(* Whose screen a room is watching.                                        *)
screen_sharer(people, r) ==
  IF Sharers(people, r) = {} THEN Nobody ELSE CHOOSE u \in Sharers(people, r) : TRUE

(* u's entry of room r taken out, or replaced.                             *)
Set(people, r, u, entry) == [people EXCEPT ![r][u] = entry]
Out(people, r, u) == Set(people, r, u, Absent)

MovedAndStayed(people, from, r, u) ==                                \* a slip
  Set(people, r, u, Newcomer)

MovedAsTheyWere(people, from, r, u) ==                               \* a slip
  Set(IF from = Nowhere THEN people ELSE Out(people, from, u), r, u,
      IF from = Nowhere THEN Newcomer ELSE people[from][u])

(* The list after u, coming from room `from` (or Nowhere), enters r.       *)
Moved(people, from, r, u) ==
  Set(IF from = Nowhere THEN people ELSE Out(people, from, u), r, u, Newcomer)

(* An entry after a mute request.                                          *)
MuteSet(entry, muted, by_admin) ==
  [entry EXCEPT !.muted = muted,
                !.muted_by_admin = IF by_admin THEN muted ELSE @]

MayAlwaysBeMuted(entry, muted, by_admin) == TRUE                     \* a slip

MayBeMuted(entry, muted, by_admin) == by_admin \/ muted \/ ~entry.muted_by_admin

ShareStarted(entry, with_audio) ==
  [entry EXCEPT !.sharing_screen = TRUE, !.sharing_audio = with_audio]

ShareStopped(entry) ==
  [entry EXCEPT !.sharing_screen = FALSE, !.sharing_audio = FALSE]

OwnScreenBusy(people, r, u) == Shares(people, r, u)                  \* a slip

(* Somebody else's share is what makes a start fail.                       *)
ScreenBusy(people, r, u) == Sharers(people, r) \ {u} # {}
-----------------------------------------------------------------------------
(* The names in use, and the identifiers create_room may settle on.        *)

Live(rooms) == {r \in RoomIds : rooms[r] # NoRoom}

name_taken(rooms, name) == \E r \in Live(rooms) : rooms[r].name = name

FreeIdsAnyName(rooms, stored, wanted) ==                             \* a slip
  {id \in RoomIds : rooms[id] = NoRoom /\ stored[id] = NoRoom}

FreeIds(rooms, stored, wanted) ==
  {id \in RoomIds :
     /\ rooms[id] = NoRoom
     /\ stored[id] = NoRoom
     /\ wanted = Untyped => ~name_taken(rooms, id)}

NameFor(id, wanted) == IF wanted = Untyped THEN id ELSE wanted

room_owned_by(rooms, u) == {r \in Live(rooms) : rooms[r].owner = u}
=============================================================================
