------------------------- MODULE RoomManagerProofs -------------------------
(***************************************************************************)
(* What RoomManager.tla guarantees for any number of users and rooms, any  *)
(* sizes, any initial database and any combination of store failures,      *)
(* kills and deletions by dbadmin.                                         *)
(*                                                                         *)
(* The argument is one inductive invariant, IInv: the types, the agreement *)
(* of the two views of who is where, the single sharer and the forced      *)
(* mute.  The agreement of the views is what makes it inductive: join      *)
(* takes somebody out of the one room user_to_room_ names, and only the    *)
(* agreement says that no other room still holds them.                     *)
(***************************************************************************)
EXTENDS RoomManager, FiniteSetTheorems, TLAPS

(* What the operators of Rooms.tla return, as far as it is needed here;    *)
(* HubProofs has these facts of them and others.                           *)

PeopleType == [RoomIds -> [Users -> Participant \cup {Absent}]]

(* Set changes one entry of one room and leaves every other as it was.     *)
LEMMA SetOneEntry ==
  ASSUME NEW p \in PeopleType, NEW r \in RoomIds, NEW u \in Users,
         NEW entry \in Participant \cup {Absent}
  PROVE  /\ Set(p, r, u, entry) \in PeopleType
         /\ Set(p, r, u, entry)[r][u] = entry
         /\ \A q \in RoomIds, v \in Users :
              q # r \/ v # u => Set(p, r, u, entry)[q][v] = p[q][v]
BY DEF Set, PeopleType

(* The list after a move, entry by entry.                                  *)
LEMMA MovedEntries ==
  ASSUME NEW p \in PeopleType, NEW r \in RoomIds, NEW u \in Users,
         NEW from \in RoomIds \cup {Nowhere}
  PROVE  /\ Moved(p, from, r, u) \in PeopleType
         /\ \A q \in RoomIds, v \in Users :
              Moved(p, from, r, u)[q][v] =
                IF v # u THEN p[q][v]
                ELSE IF q = r THEN Newcomer
                ELSE IF q = from THEN Absent
                ELSE p[q][v]
<1>1. Newcomer \in Participant
  BY DEF Newcomer, Participant
<1>2. Nowhere \notin RoomIds
  BY RoomsAssumption
<1>3. CASE from = Nowhere
  BY <1>1, <1>2, <1>3, SetOneEntry DEF Moved
<1>4. CASE from \in RoomIds
  <2> DEFINE left == Out(p, from, u)
  <2>1. /\ left \in PeopleType
        /\ left[from][u] = Absent
        /\ \A q \in RoomIds, v \in Users : q # from \/ v # u => left[q][v] = p[q][v]
    BY <1>4, SetOneEntry DEF Out
  <2>2. Moved(p, from, r, u) = Set(left, r, u, Newcomer)
    BY <1>2, <1>4 DEF Moved
  <2> HIDE DEF left
  <2>3. /\ Set(left, r, u, Newcomer) \in PeopleType
        /\ Set(left, r, u, Newcomer)[r][u] = Newcomer
        /\ \A q \in RoomIds, v \in Users :
             q # r \/ v # u => Set(left, r, u, Newcomer)[q][v] = left[q][v]
    BY <1>1, <2>1, SetOneEntry
  <2>4. QED
    BY <2>1, <2>2, <2>3
<1>5. QED
  BY <1>3, <1>4

(* With one sharer at most, whose screen is watched is no choice.          *)
LEMMA TheSharer ==
  ASSUME NEW p, NEW r, \A u, v \in Sharers(p, r) : u = v
  PROVE  /\ \A u \in Users : u \in Sharers(p, r) => screen_sharer(p, r) = u
         /\ Sharers(p, r) = {} <=> screen_sharer(p, r) = Nobody
         /\ screen_sharer(p, r) # Nobody => screen_sharer(p, r) \in Sharers(p, r)
<1>1. Sharers(p, r) \subseteq Users
  BY DEF Sharers
<1>2. CASE Sharers(p, r) = {}
  BY <1>2 DEF screen_sharer
<1>3. CASE Sharers(p, r) # {}
  <2>1. screen_sharer(p, r) \in Sharers(p, r)
    BY <1>3 DEF screen_sharer
  <2>2. QED
    BY <1>1, <1>3, <2>1, RoomsAssumption
<1>4. QED
  BY <1>2, <1>3

(* The same sharers, the same screen.                                      *)
LEMMA SameSharersSameScreen ==
  ASSUME NEW p, NEW q, NEW r, Sharers(q, r) = Sharers(p, r)
  PROVE  screen_sharer(q, r) = screen_sharer(p, r)
BY DEF screen_sharer

(* Without those in W among the sharers, the screen is nobody's if it was  *)
(* one of theirs.                                                          *)
LEMMA WithoutSharers ==
  ASSUME NEW p, NEW q, NEW r, NEW W \in SUBSET Users,
         \A v, w \in Sharers(p, r) : v = w,
         Sharers(q, r) = Sharers(p, r) \ W
  PROVE  screen_sharer(q, r) = IF screen_sharer(p, r) \in W THEN Nobody ELSE screen_sharer(p, r)
<1>1. CASE screen_sharer(p, r) \in W
  <2>1. screen_sharer(p, r) # Nobody
    BY <1>1, RoomsAssumption
  <2>2. Sharers(p, r) = {screen_sharer(p, r)}
    BY <2>1, TheSharer
  <2>3. Sharers(q, r) = {}
    BY <1>1, <2>2
  <2>4. QED
    BY <1>1, <2>3 DEF screen_sharer
<1>2. CASE screen_sharer(p, r) \notin W
  <2>1. \A u \in Sharers(p, r) : u \notin W
    BY <1>2, TheSharer DEF Sharers
  <2>2. Sharers(q, r) = Sharers(p, r)
    BY <2>1
  <2>3. QED
    BY <1>2, <2>2 DEF screen_sharer
<1>3. QED
  BY <1>1, <1>2
-----------------------------------------------------------------------------
(* The floor of ScreenFloor.tla: whose screen each room is watching.       *)

FloorOf(p) == [r \in RoomIds |-> screen_sharer(p, r)]

LEMMA FloorUntouched ==
  ASSUME NEW p, NEW q, \A r \in RoomIds : Sharers(q, r) = Sharers(p, r)
  PROVE  FloorOf(q) = FloorOf(p)
BY SameSharersSameScreen DEF FloorOf

LEMMA FloorWithdrawn ==
  ASSUME NEW p, NEW q, NEW W \in SUBSET Users,
         \A r \in RoomIds : \A v, w \in Sharers(p, r) : v = w,
         \A r \in RoomIds : Sharers(q, r) = Sharers(p, r) \ W
  PROVE  FloorOf(q) = [r \in RoomIds |-> IF FloorOf(p)[r] \in W THEN Nobody ELSE FloorOf(p)[r]]
BY WithoutSharers DEF FloorOf

LEMMA FloorTaken ==
  ASSUME NEW p, NEW q, NEW r \in RoomIds, NEW u,
         Sharers(p, r) = {}, Sharers(q, r) = {u},
         \A s \in RoomIds : s # r => Sharers(q, s) = Sharers(p, s)
  PROVE  /\ FloorOf(p)[r] = Nobody
         /\ FloorOf(q) = [FloorOf(p) EXCEPT ![r] = u]
<1>1. screen_sharer(p, r) = Nobody /\ screen_sharer(q, r) = u
  BY DEF screen_sharer
<1>2. \A s \in RoomIds : s # r => screen_sharer(q, s) = screen_sharer(p, s)
  BY SameSharersSameScreen
<1>3. QED
  BY <1>1, <1>2 DEF FloorOf
-----------------------------------------------------------------------------
IInv ==
  /\ TypeOK
  /\ ViewsAgree
  /\ OneSharer
  /\ ForcedMuteHolds
-----------------------------------------------------------------------------
(* Lemmas about sizes and records.                                         *)

(* Every size a room is given is a positive number.                        *)
LEMMA SizesArePositive ==
  ASSUME NEW n \in Nat, n # 0 => Grantable(n)
  PROVE  CapacityFor(n) \in Nat \ {0}
<1>1. default_capacity \in Nat \ {0}
  BY RoomsAssumption
  DEF default_capacity, max_capacity, Clamp,
      kDefaultRoomCapacity, kMinRoomCapacity, kMaxRoomCapacity
<1>2. QED
  BY <1>1 DEF CapacityFor

(* A record is loaded as a live room, and nothing as nothing.              *)
LEMMA LoadedType ==
  ASSUME NEW record \in RoomRecord \cup {NoRoom}
  PROVE  /\ Loaded(record) \in LiveRoom \cup {NoRoom}
         /\ record = NoRoom => Loaded(record) = NoRoom
BY RoomsAssumption DEF Loaded, LiveRoom, RoomRecord, kDefaultRoomCapacity

(* A live room is a record the store can hold.                             *)
LEMMA LiveRoomIsRecord ==
  /\ LiveRoom \subseteq RoomRecord
  /\ NoRoom \notin LiveRoom
BY RoomsAssumption DEF LiveRoom, RoomRecord
-----------------------------------------------------------------------------
(* Steps that leave everybody where they are.                              *)

(* The rooms and the store may change in any way that keeps every live     *)
(* room live.                                                              *)
LEMMA NobodyMoves ==
  ASSUME IInv, UNCHANGED <<people, user_to_room>>, TypeOK',
         \A r \in RoomIds : rooms[r] # NoRoom => rooms'[r] # NoRoom
  PROVE  IInv'
BY DEF IInv, ViewsAgree, OneSharer, ForcedMuteHolds, contains, Occupants, Sharers, Shares

(* One entry is rewritten, and the new one respects the rules that entries *)
(* must respect together.                                                  *)
LEMMA OneEntryRewritten ==
  ASSUME IInv, NEW r \in RoomIds, NEW u \in Users, NEW entry \in Participant,
         contains(people, r, u),
         people' = Set(people, r, u, entry),
         UNCHANGED <<rooms, user_to_room, stored, chat, condemned>>,
         entry.sharing_screen => Sharers(people, r) \subseteq {u},
         entry.sharing_audio => entry.sharing_screen,
         entry.muted_by_admin => entry.muted
  PROVE  IInv'
<1>1. people \in PeopleType
  BY DEF IInv, TypeOK, PeopleType
<1>2. /\ people' \in PeopleType
      /\ people'[r][u] = entry
      /\ \A q \in RoomIds, v \in Users : q # r \/ v # u => people'[q][v] = people[q][v]
  BY <1>1, SetOneEntry
<1>3. entry # Absent
  BY RoomsAssumption
<1>4. TypeOK'
  BY <1>2 DEF IInv, TypeOK, PeopleType
<1>5. ViewsAgree'
  BY <1>2, <1>3 DEF IInv, ViewsAgree, contains
<1>6. OneSharer'
  BY <1>2, <1>3 DEF IInv, OneSharer, contains, Occupants, Sharers, Shares
<1>7. ForcedMuteHolds'
  BY <1>2, <1>3 DEF IInv, ForcedMuteHolds, contains, Occupants
<1>8. QED
  BY <1>4, <1>5, <1>6, <1>7 DEF IInv

(* The process starts again with whatever it read of a store.              *)
LEMMA LoadingIsSafe ==
  ASSUME NEW store \in [RoomIds -> RoomRecord \cup {NoRoom}], LoadRooms(store),
         stored' \in [RoomIds -> RoomRecord \cup {NoRoom}],
         chat' \subseteq RoomIds, condemned' \subseteq RoomIds
  PROVE  IInv'
<1>1. /\ rooms' \in [RoomIds -> LiveRoom \cup {NoRoom}]
      /\ people' = [r \in RoomIds |-> Empty]
      /\ user_to_room' = [u \in Users |-> Nowhere]
  <2>1. PICK seen \in SUBSET RoomIds :
          rooms' = [r \in RoomIds |-> IF r \in seen THEN Loaded(store[r]) ELSE NoRoom]
    BY DEF LoadRooms
  <2>2. \A r \in RoomIds : Loaded(store[r]) \in LiveRoom \cup {NoRoom}
    BY LoadedType
  <2>3. QED
    BY <2>1, <2>2 DEF LoadRooms
<1>2. \A r \in RoomIds, u \in Users : people'[r][u] = Absent
  BY <1>1 DEF Empty
<1>3. TypeOK'
  BY <1>1 DEF TypeOK, Empty
<1>4. ViewsAgree'
  BY <1>1, <1>2, RoomsAssumption DEF ViewsAgree, contains
<1>5. OneSharer' /\ ForcedMuteHolds'
  BY <1>2 DEF OneSharer, ForcedMuteHolds, Occupants, Sharers, Shares, contains
<1>6. QED
  BY <1>3, <1>4, <1>5 DEF IInv
-----------------------------------------------------------------------------
(* One lemma per operation.                                                *)

LEMMA CreateRoomSafe ==
  ASSUME IInv, NEW wanted \in TypedNames \cup {Untyped}, NEW owner \in Creators,
         NEW requested \in RequestedSizes, NEW id \in RoomIds,
         CreateRoom(wanted, owner, requested, id)
  PROVE  IInv'
<1> DEFINE record == [name |-> NameFor(id, wanted), owner |-> owner,
                      capacity |-> CapacityFor(requested)]
<1>1. record \in LiveRoom
  <2>1. CapacityFor(requested) \in Nat \ {0}
    BY SizesArePositive, RoomManagerAssumption DEF CreateRoom
  <2>2. owner \in Users \cup {Nobody} /\ NameFor(id, wanted) \in RoomNames
    BY RoomManagerAssumption DEF NameFor, RoomNames
  <2>3. QED
    BY <2>1, <2>2 DEF LiveRoom
<1>2. PICK outcome \in Outcomes("upsert") :
        /\ stored' = StoreAfter(outcome, id, record)
        /\ rooms' = LiveAfter(outcome, id, record)
        /\ condemned' = IF Applied(outcome) THEN condemned \ {id} ELSE condemned
        /\ UNCHANGED <<people, user_to_room, chat>>
  BY DEF CreateRoom
<1> HIDE DEF record
<1>3. TypeOK'
  BY <1>1, <1>2, LiveRoomIsRecord DEF IInv, TypeOK, StoreAfter, LiveAfter
<1>4. \A r \in RoomIds : rooms[r] # NoRoom => rooms'[r] # NoRoom
  BY <1>1, <1>2, LiveRoomIsRecord DEF IInv, TypeOK, LiveAfter
<1>5. QED
  BY <1>2, <1>3, <1>4, NobodyMoves

LEMMA SetCapacitySafe ==
  ASSUME IInv, NEW r \in RoomIds, NEW capacity \in RequestedSizes, SetCapacity(r, capacity)
  PROVE  IInv'
<1> DEFINE record == [rooms[r] EXCEPT !.capacity = capacity]
<1>1. record \in LiveRoom
  <2>1. capacity \in Nat \ {0}
    BY RoomManagerAssumption
    DEF SetCapacity, Grantable, is_valid_room_capacity, kMinRoomCapacity, kMaxRoomCapacity
  <2>2. rooms[r] \in LiveRoom
    BY DEF SetCapacity, IInv, TypeOK
  <2>3. QED
    BY <2>1, <2>2 DEF LiveRoom
<1>2. PICK outcome \in Outcomes("upsert") :
        /\ stored' = StoreAfter(outcome, r, record)
        /\ rooms' = LiveAfter(outcome, r, record)
        /\ UNCHANGED <<people, user_to_room, chat, condemned>>
  BY DEF SetCapacity
<1> HIDE DEF record
<1>3. TypeOK'
  BY <1>1, <1>2, LiveRoomIsRecord DEF IInv, TypeOK, StoreAfter, LiveAfter
<1>4. \A q \in RoomIds : rooms[q] # NoRoom => rooms'[q] # NoRoom
  BY <1>1, <1>2, LiveRoomIsRecord DEF IInv, TypeOK, LiveAfter
<1>5. QED
  BY <1>2, <1>3, <1>4, NobodyMoves

LEMMA RemoveLiveRoomSafe ==
  ASSUME IInv, NEW r \in RoomIds, RemoveLiveRoom(r)
  PROVE  IInv'
<1>1. /\ people' = [people EXCEPT ![r] = Empty]
      /\ rooms' = [rooms EXCEPT ![r] = NoRoom]
      /\ user_to_room' = [u \in Users |-> IF contains(people, r, u) THEN Nowhere
                                          ELSE user_to_room[u]]
      /\ stored' \in {stored, [stored EXCEPT ![r] = NoRoom]}
      /\ chat' \in {chat, chat \ {r}}
      /\ condemned' = condemned
  BY DEF RemoveLiveRoom, Forget
<1>2. /\ \A u \in Users : people'[r][u] = Absent
      /\ \A q \in RoomIds \ {r} : people'[q] = people[q] /\ rooms'[q] = rooms[q]
  BY <1>1 DEF IInv, TypeOK, Empty
<1>3. TypeOK'
  BY <1>1 DEF IInv, TypeOK, Empty
<1>4. ViewsAgree'
  BY <1>1, <1>2, RoomsAssumption DEF IInv, ViewsAgree, TypeOK, contains
<1>5. OneSharer'
  BY <1>2 DEF IInv, OneSharer, contains, Occupants, Sharers, Shares
<1>6. ForcedMuteHolds'
  BY <1>2 DEF IInv, ForcedMuteHolds, contains, Occupants
<1>7. QED
  BY <1>3, <1>4, <1>5, <1>6 DEF IInv

LEMMA RemoveStoredRoomSafe ==
  ASSUME IInv, NEW r \in RoomIds, RemoveStoredRoom(r)
  PROVE  IInv'
<1>1. /\ UNCHANGED <<rooms, people, user_to_room, condemned>>
      /\ stored' = [stored EXCEPT ![r] = NoRoom]
      /\ chat' \in {chat, chat \ {r}}
  BY DEF RemoveStoredRoom, Forget
<1>2. TypeOK'
  BY <1>1 DEF IInv, TypeOK
<1>3. QED
  BY <1>1, <1>2, NobodyMoves

(* A join, entry by entry.                                                 *)
LEMMA JoinEntries ==
  ASSUME TypeOK, NEW r \in RoomIds, NEW u \in Users, Join(r, u)
  PROVE  /\ people' \in PeopleType
         /\ \A q \in RoomIds, v \in Users :
              people'[q][v] = IF v # u THEN people[q][v]
                              ELSE IF q = r THEN Newcomer
                              ELSE IF q = user_to_room[u] THEN Absent
                              ELSE people[q][v]
<1> DEFINE from == user_to_room[u]
<1>1. from \in RoomIds \cup {Nowhere} /\ people \in PeopleType
  BY DEF TypeOK, PeopleType
<1>2. people' = Moved(people, from, r, u)
  BY DEF Join
<1> HIDE DEF from
<1>3. /\ Moved(people, from, r, u) \in PeopleType
      /\ \A q \in RoomIds, v \in Users :
           Moved(people, from, r, u)[q][v] =
             IF v # u THEN people[q][v]
             ELSE IF q = r THEN Newcomer
             ELSE IF q = from THEN Absent
             ELSE people[q][v]
  BY <1>1, MovedEntries
<1>4. QED
  BY <1>2, <1>3 DEF from

LEMMA JoinSafe ==
  ASSUME IInv, NEW r \in RoomIds, NEW u \in Users, Join(r, u)
  PROVE  IInv'
<1>0. user_to_room[u] \in RoomIds \cup {Nowhere} /\ people \in PeopleType
  BY DEF IInv, TypeOK, PeopleType
<1>1. /\ people' \in PeopleType
      /\ \A q \in RoomIds, v \in Users :
           people'[q][v] = IF v # u THEN people[q][v]
                           ELSE IF q = r THEN Newcomer
                           ELSE IF q = user_to_room[u] THEN Absent
                           ELSE people[q][v]
  BY JoinEntries DEF IInv
<1>2. \A q \in RoomIds : q # r => people'[q][u] = Absent
  BY <1>0, <1>1 DEF IInv, ViewsAgree, contains
<1>3. people'[r][u] = Newcomer /\ Newcomer # Absent
  <2>1. Newcomer \in Participant
    BY DEF Newcomer, Participant
  <2>2. QED
    BY <1>1, <2>1, RoomsAssumption
<1>4. \A q \in RoomIds, v \in Users : v # u => people'[q][v] = people[q][v]
  BY <1>1
<1>5. TypeOK'
  BY <1>1 DEF IInv, TypeOK, Join, PeopleType
<1>6. ViewsAgree'
  BY <1>2, <1>3, <1>4 DEF IInv, ViewsAgree, TypeOK, Join, contains
<1>7. OneSharer'
  BY <1>2, <1>3, <1>4 DEF IInv, OneSharer, contains, Occupants, Sharers, Shares, Newcomer
<1>8. ForcedMuteHolds'
  BY <1>2, <1>3, <1>4 DEF IInv, ForcedMuteHolds, contains, Occupants, Newcomer
<1>9. QED
  BY <1>5, <1>6, <1>7, <1>8 DEF IInv

LEMMA LeaveSafe ==
  ASSUME IInv, NEW r \in RoomIds, NEW u \in Users, Leave(r, u)
  PROVE  IInv'
<1>0. people \in PeopleType
  BY DEF IInv, TypeOK, PeopleType
<1>1. /\ people' \in PeopleType
      /\ people'[r][u] = Absent
      /\ \A q \in RoomIds, v \in Users : q # r \/ v # u => people'[q][v] = people[q][v]
  BY <1>0, SetOneEntry DEF Leave, Out
<1>2. TypeOK'
  BY <1>1 DEF IInv, TypeOK, Leave, PeopleType
<1>3. ViewsAgree'
  BY <1>1, RoomsAssumption DEF IInv, ViewsAgree, TypeOK, Leave, contains
<1>4. OneSharer'
  BY <1>1 DEF IInv, OneSharer, contains, Occupants, Sharers, Shares
<1>5. ForcedMuteHolds'
  BY <1>1 DEF IInv, ForcedMuteHolds, contains, Occupants
<1>6. QED
  BY <1>2, <1>3, <1>4, <1>5 DEF IInv

LEMMA SetMutedSafe ==
  ASSUME IInv, NEW r \in RoomIds, NEW u \in Users, NEW muted \in BOOLEAN,
         NEW by_admin \in BOOLEAN, SetMuted(r, u, muted, by_admin)
  PROVE  IInv'
<1> DEFINE entry == MuteSet(people[r][u], muted, by_admin)
<1>1. people[r][u] \in Participant
  BY DEF IInv, TypeOK, SetMuted, contains
<1>2. /\ entry \in Participant
      /\ entry.sharing_screen = people[r][u].sharing_screen
      /\ entry.sharing_audio = people[r][u].sharing_audio
      /\ entry.muted = muted
      /\ entry.muted_by_admin = IF by_admin THEN muted ELSE people[r][u].muted_by_admin
  BY <1>1 DEF MuteSet, Participant
<1>3. contains(people, r, u) /\ MayBeMuted(people[r][u], muted, by_admin)
  BY DEF SetMuted
<1>4. /\ people' = Set(people, r, u, entry)
      /\ UNCHANGED <<rooms, user_to_room, stored, chat, condemned>>
  BY DEF SetMuted
<1> HIDE DEF entry
<1>5. entry.muted_by_admin => entry.muted
  BY <1>1, <1>2, <1>3 DEF MayBeMuted, Participant
<1>6. people[r][u].sharing_screen => u \in Sharers(people, r)
  BY <1>3 DEF Sharers, Shares
<1>7. entry.sharing_screen => Sharers(people, r) \subseteq {u}
  BY <1>2, <1>6 DEF IInv, OneSharer
<1>8. entry.sharing_audio => entry.sharing_screen
  BY <1>2, <1>3 DEF IInv, OneSharer, Occupants
<1>9. QED
  BY <1>2, <1>3, <1>4, <1>5, <1>7, <1>8, OneEntryRewritten

LEMMA StartScreenShareSafe ==
  ASSUME IInv, NEW r \in RoomIds, NEW u \in Users, NEW with_audio \in BOOLEAN,
         StartScreenShare(r, u, with_audio)
  PROVE  IInv'
<1> DEFINE entry == ShareStarted(people[r][u], with_audio)
<1>1. people[r][u] \in Participant /\ contains(people, r, u)
  BY DEF IInv, TypeOK, StartScreenShare, contains
<1>2. /\ entry \in Participant
      /\ entry.sharing_screen
      /\ entry.muted = people[r][u].muted
      /\ entry.muted_by_admin = people[r][u].muted_by_admin
  BY <1>1 DEF ShareStarted, Participant
<1>3. Sharers(people, r) \subseteq {u}
  BY DEF StartScreenShare, ScreenBusy
<1>4. entry.muted_by_admin => entry.muted
  BY <1>1, <1>2 DEF IInv, ForcedMuteHolds, Occupants
<1>5. /\ people' = Set(people, r, u, entry)
      /\ UNCHANGED <<rooms, user_to_room, stored, chat, condemned>>
  BY DEF StartScreenShare
<1> HIDE DEF entry
<1>6. QED
  BY <1>1, <1>2, <1>3, <1>4, <1>5, OneEntryRewritten

LEMMA StopScreenShareSafe ==
  ASSUME IInv, NEW r \in RoomIds, NEW u \in Users, StopScreenShare(r, u)
  PROVE  IInv'
<1> DEFINE entry == ShareStopped(people[r][u])
<1>1. people[r][u] \in Participant /\ contains(people, r, u)
  BY DEF IInv, TypeOK, StopScreenShare, contains
<1>2. /\ entry \in Participant
      /\ ~entry.sharing_screen /\ ~entry.sharing_audio
      /\ entry.muted = people[r][u].muted
      /\ entry.muted_by_admin = people[r][u].muted_by_admin
  BY <1>1 DEF ShareStopped, Participant
<1>3. entry.muted_by_admin => entry.muted
  BY <1>1, <1>2 DEF IInv, ForcedMuteHolds, Occupants
<1>4. /\ people' = Set(people, r, u, entry)
      /\ UNCHANGED <<rooms, user_to_room, stored, chat, condemned>>
  BY DEF StopScreenShare
<1> HIDE DEF entry
<1>5. QED
  BY <1>1, <1>2, <1>3, <1>4, OneEntryRewritten
-----------------------------------------------------------------------------
(* The invariant.                                                          *)

LEMMA InitSafe == Init => IInv
<1> SUFFICES ASSUME Init PROVE IInv
  OBVIOUS
<1>1. stored \in [RoomIds -> RoomRecord \cup {NoRoom}]
  BY RoomManagerAssumption DEF Init
<1>2. rooms \in [RoomIds -> LiveRoom \cup {NoRoom}]
  BY <1>1, LoadedType DEF Init
<1>3. \A r \in RoomIds, u \in Users : people[r][u] = Absent /\ user_to_room[u] = Nowhere
  BY DEF Init, Empty
<1>4. TypeOK
  BY <1>1, <1>2 DEF Init, TypeOK, Empty
<1>5. ViewsAgree /\ OneSharer /\ ForcedMuteHolds
  BY <1>3, RoomsAssumption
  DEF ViewsAgree, OneSharer, ForcedMuteHolds, Occupants, Sharers, Shares, contains
<1>6. QED
  BY <1>4, <1>5 DEF IInv

LEMMA StepSafe == IInv /\ [Next]_vars => IInv'
<1> SUFFICES ASSUME IInv, [Next]_vars PROVE IInv'
  OBVIOUS
<1>0. /\ stored \in [RoomIds -> RoomRecord \cup {NoRoom}]
      /\ chat \subseteq RoomIds /\ condemned \subseteq RoomIds
  BY DEF IInv, TypeOK
<1>1. ASSUME NEW r \in RoomIds, RoomNext(r) PROVE IInv'
  <2>1. ASSUME NEW wanted \in TypedNames \cup {Untyped}, NEW owner \in Creators,
               NEW requested \in RequestedSizes, CreateRoom(wanted, owner, requested, r)
        PROVE  IInv'
    BY <2>1, CreateRoomSafe
  <2>2. ASSUME NEW capacity \in RequestedSizes, SetCapacity(r, capacity) PROVE IInv'
    BY <2>2, SetCapacitySafe
  <2>3. CASE RemoveLiveRoom(r)
    BY <2>3, RemoveLiveRoomSafe
  <2>4. CASE RemoveStoredRoom(r)
    BY <2>4, RemoveStoredRoomSafe
  <2>5. CASE KilledInRemoveRoom(r)
    <3>1. stored' \in [RoomIds -> RoomRecord \cup {NoRoom}]
      BY <1>0, <2>5 DEF KilledInRemoveRoom
    <3>2. QED
      BY <1>0, <2>5, <3>1, LoadingIsSafe DEF KilledInRemoveRoom
  <2>6. CASE DbadminDeleteRoom(r)
    <3>1. /\ UNCHANGED <<rooms, people, user_to_room>>
          /\ TypeOK'
      BY <1>0, <2>6 DEF DbadminDeleteRoom, IInv, TypeOK
    <3>2. QED
      BY <3>1, NobodyMoves
  <2>7. QED
    BY <1>1, <2>1, <2>2, <2>3, <2>4, <2>5, <2>6 DEF RoomNext
<1>2. ASSUME NEW r \in RoomIds, NEW u \in Users, ParticipantNext(r, u) PROVE IInv'
  <2>1. CASE Join(r, u)
    BY <2>1, JoinSafe
  <2>2. CASE Leave(r, u)
    BY <2>2, LeaveSafe
  <2>3. ASSUME NEW muted \in BOOLEAN, NEW by_admin \in BOOLEAN, SetMuted(r, u, muted, by_admin)
        PROVE  IInv'
    BY <2>3, SetMutedSafe
  <2>4. ASSUME NEW with_audio \in BOOLEAN, StartScreenShare(r, u, with_audio) PROVE IInv'
    BY <2>4, StartScreenShareSafe
  <2>5. CASE StopScreenShare(r, u)
    BY <2>5, StopScreenShareSafe
  <2>6. CASE Say(r, u)
    <3>1. /\ UNCHANGED <<rooms, people, user_to_room>>
          /\ TypeOK'
      BY <2>6 DEF Say, IInv, TypeOK
    <3>2. QED
      BY <3>1, NobodyMoves
  <2>7. QED
    BY <1>2, <2>1, <2>2, <2>3, <2>4, <2>5, <2>6 DEF ParticipantNext
<1>3. ASSUME NEW u \in Users, remove_from_any_room(u) PROVE IInv'
  <2>1. user_to_room[u] \in RoomIds
    BY <1>3 DEF remove_from_any_room, IInv, TypeOK
  <2>2. QED
    BY <1>3, <2>1, LeaveSafe DEF remove_from_any_room
<1>4. CASE Restart
  BY <1>0, <1>4, LoadingIsSafe DEF Restart
<1>5. CASE UNCHANGED vars
  BY <1>5 DEF vars, IInv, TypeOK, ViewsAgree, OneSharer, ForcedMuteHolds,
              Occupants, Sharers, Shares, contains
<1>6. QED
  BY <1>1, <1>2, <1>3, <1>4, <1>5 DEF Next

(* Everything RoomManager keeps has its shape, the two views of who is     *)
(* where agree, a room has one sharer and a forced mute holds: always, for *)
(* every value of the constants.                                           *)
THEOREM RoomsAreConsistent == Spec => [](TypeOK /\ ViewsAgree /\ OneSharer /\ ForcedMuteHolds)
<1>1. IInv => TypeOK /\ ViewsAgree /\ OneSharer /\ ForcedMuteHolds
  BY DEF IInv
<1>2. QED
  BY InitSafe, StepSafe, <1>1, PTL DEF Spec

(* Nothing a participant asks for undoes a mute an administrator put on    *)
(* (set_muted), whatever joins, kills and store failures come in between.  *)
THEOREM ForcedMutesStand == Spec => []ForcedMuteHolds
<1>1. IInv => ForcedMuteHolds
  BY DEF IInv
<1>2. QED
  BY InitSafe, StepSafe, <1>1, PTL DEF Spec
-----------------------------------------------------------------------------
(* Sizes: the only step that puts somebody into a room is a join.          *)

LEMMA OnlyJoinAdds ==
  ASSUME IInv, [Next]_vars, NEW r \in RoomIds,
         ~(Occupants(people, r)' \subseteq Occupants(people, r))
  PROVE  \E u \in Users : Join(r, u)
<1> USE DEF Occupants, contains
<1>0. people \in PeopleType
  BY DEF IInv, TypeOK, PeopleType
<1>1. PICK v \in Users : people'[r][v] # Absent /\ people[r][v] = Absent
  OBVIOUS
<1>2. ASSUME NEW q \in RoomIds, RoomNext(q) PROVE FALSE
  <2>1. \/ UNCHANGED people
        \/ people' = [people EXCEPT ![q] = Empty]
        \/ people' = [s \in RoomIds |-> Empty]
    BY <1>2 DEF RoomNext, CreateRoom, SetCapacity, RemoveLiveRoom, RemoveStoredRoom,
                KilledInRemoveRoom, DbadminDeleteRoom, LoadRooms
  <2>2. QED
    BY <1>0, <1>1, <2>1 DEF Empty, PeopleType
<1>3. ASSUME NEW q \in RoomIds, NEW u \in Users, ParticipantNext(q, u)
      PROVE  Join(r, u)
  <2>1. CASE Join(q, u)
    <3>1. \A s \in RoomIds, w \in Users :
            people'[s][w] = IF w # u THEN people[s][w]
                            ELSE IF s = q THEN Newcomer
                            ELSE IF s = user_to_room[u] THEN Absent
                            ELSE people[s][w]
      BY <2>1, JoinEntries DEF IInv
    <3>2. q = r
      BY <1>1, <3>1
    <3>3. QED
      BY <2>1, <3>2
  <2>2. CASE Leave(q, u)
    <3>1. people' = Set(people, q, u, Absent)
      BY <2>2 DEF Leave, Out
    <3>2. QED
      BY <1>0, <1>1, <3>1, SetOneEntry
  <2>3. ASSUME NEW entry, people[q][u] # Absent, people' = Set(people, q, u, entry)
        PROVE  FALSE
    BY <1>0, <1>1, <2>3 DEF Set, PeopleType
  <2>4. CASE Say(q, u)
    BY <1>1, <2>4 DEF Say
  <2>5. QED
    BY <1>3, <2>1, <2>2, <2>3, <2>4
    DEF ParticipantNext, SetMuted, StartScreenShare, StopScreenShare
<1>4. ASSUME NEW u \in Users, remove_from_any_room(u) PROVE FALSE
  <2>1. user_to_room[u] \in RoomIds /\ people' = Set(people, user_to_room[u], u, Absent)
    BY <1>4 DEF remove_from_any_room, Leave, Out, IInv, TypeOK
  <2>2. QED
    BY <1>0, <1>1, <2>1, SetOneEntry
<1>5. ~Restart
  BY <1>1 DEF Restart, LoadRooms, Empty
<1>6. ~UNCHANGED vars
  BY <1>1 DEF vars
<1>7. QED
  BY <1>2, <1>3, <1>4, <1>5, <1>6 DEF Next

LEMMA JoinFits ==
  ASSUME IInv, NEW r \in RoomIds, NEW u \in Users, Join(r, u)
  PROVE  Cardinality(Occupants(people, r)') <= rooms[r].capacity
<1>1. Occupants(people, r)' = Occupants(people, r) \cup {u}
  <2>1. \A v \in Users : people'[r][v] = IF v # u THEN people[r][v] ELSE Newcomer
    BY JoinEntries DEF IInv
  <2>2. Newcomer # Absent
    <3>1. Newcomer \in Participant
      BY DEF Newcomer, Participant
    <3>2. QED
      BY <3>1, RoomsAssumption
  <2>3. QED
    BY <2>1, <2>2 DEF Occupants, contains
<1>2. /\ IsFiniteSet(Occupants(people, r))
      /\ Cardinality(Occupants(people, r)) \in Nat
  <2>1. Occupants(people, r) \subseteq Users
    BY DEF Occupants
  <2>2. QED
    BY <2>1, RoomsAssumption, FS_Subset, FS_CardinalityType
<1>3. u \notin Occupants(people, r)
  BY DEF Join, Occupants
<1>4. Cardinality(Occupants(people, r)') = Cardinality(Occupants(people, r)) + 1
  BY <1>1, <1>2, <1>3, FS_AddElement
<1>5. rooms[r].capacity \in Nat
  BY DEF Join, IInv, TypeOK, LiveRoom
<1>6. ~(Cardinality(Occupants(people, r)) >= rooms[r].capacity)
  BY DEF Join, is_full
<1>7. QED
  BY <1>2, <1>4, <1>5, <1>6

(* Nobody enters a room past its size, whatever was done to the size while *)
(* people were inside.                                                     *)
THEOREM JoinsRespectCapacity == Spec => NobodySqueezedIn
<1>1. IInv /\ [Next]_vars =>
        [\A r \in RoomIds :
           ~(Occupants(people, r)' \subseteq Occupants(people, r))
             => Cardinality(Occupants(people, r)') <= rooms[r].capacity]_vars
  BY OnlyJoinAdds, JoinFits
<1>2. QED
  BY InitSafe, StepSafe, <1>1, PTL DEF Spec, NobodySqueezedIn
-----------------------------------------------------------------------------
(* The store: what a room is called and whose it is survives the process.  *)

LEMMA LoadedKeepsIdentity ==
  ASSUME NEW record \in RoomRecord \cup {NoRoom}, Loaded(record) # NoRoom
  PROVE  /\ record # NoRoom
         /\ Loaded(record).name = record.name
         /\ Loaded(record).owner = record.owner
BY DEF Loaded, RoomRecord

LEMMA LoadingLosesNothing ==
  ASSUME stored' \in [RoomIds -> RoomRecord \cup {NoRoom}], LoadRooms(stored')
  PROVE  NoRoomIsLost'
<1> SUFFICES ASSUME NEW r \in RoomIds, rooms'[r] # NoRoom
             PROVE  /\ stored'[r] # NoRoom
                    /\ stored'[r].name = rooms'[r].name
                    /\ stored'[r].owner = rooms'[r].owner
  BY DEF NoRoomIsLost, Live
<1>1. rooms'[r] = Loaded(stored'[r])
  BY DEF LoadRooms
<1>2. stored'[r] \in RoomRecord \cup {NoRoom}
  OBVIOUS
<1>3. QED
  BY <1>1, <1>2, LoadedKeepsIdentity

LEMMA WritingLosesNothing ==
  ASSUME TypeOK, NoRoomIsLost, NEW r \in RoomIds, NEW record \in LiveRoom,
         NEW outcome \in Outcomes("upsert"),
         rooms[r] # NoRoom => record.name = rooms[r].name /\ record.owner = rooms[r].owner,
         stored' = StoreAfter(outcome, r, record),
         rooms' = LiveAfter(outcome, r, record),
         \/ condemned' = condemned
         \/ rooms[r] = NoRoom /\ condemned' = IF Applied(outcome) THEN condemned \ {r}
                                              ELSE condemned
  PROVE  NoRoomIsLost'
<1>1. record # NoRoom
  BY LiveRoomIsRecord
<1>2. CASE ~Applied(outcome)
  BY <1>2 DEF Applied, StoreAfter, LiveAfter, NoRoomIsLost, Live
<1>3. CASE Applied(outcome)
  BY <1>1, <1>3 DEF StoreAfter, LiveAfter, NoRoomIsLost, Live, TypeOK
<1>4. QED
  BY <1>2, <1>3

LEMMA StepLosesNothing == IInv /\ NoRoomIsLost /\ [Next]_vars => NoRoomIsLost'
<1> SUFFICES ASSUME IInv, NoRoomIsLost, [Next]_vars PROVE NoRoomIsLost'
  OBVIOUS
<1>0. TypeOK /\ TypeOK'
  BY StepSafe DEF IInv
<1>1. ASSUME NEW r \in RoomIds, RoomNext(r) PROVE NoRoomIsLost'
  <2>1. ASSUME NEW wanted \in TypedNames \cup {Untyped}, NEW owner \in Creators,
               NEW requested \in RequestedSizes, CreateRoom(wanted, owner, requested, r)
        PROVE  NoRoomIsLost'
    <3> DEFINE record == [name |-> NameFor(r, wanted), owner |-> owner,
                          capacity |-> CapacityFor(requested)]
    <3>1. record \in LiveRoom
      <4>1. CapacityFor(requested) \in Nat \ {0}
        BY <2>1, SizesArePositive, RoomManagerAssumption DEF CreateRoom
      <4>2. owner \in Users \cup {Nobody} /\ NameFor(r, wanted) \in RoomNames
        BY RoomManagerAssumption DEF NameFor, RoomNames
      <4>3. QED
        BY <4>1, <4>2 DEF LiveRoom
    <3>2. rooms[r] = NoRoom
      BY <2>1 DEF CreateRoom, FreeIds
    <3>3. PICK outcome \in Outcomes("upsert") :
            /\ stored' = StoreAfter(outcome, r, record)
            /\ rooms' = LiveAfter(outcome, r, record)
            /\ condemned' = IF Applied(outcome) THEN condemned \ {r} ELSE condemned
      BY <2>1 DEF CreateRoom
    <3> HIDE DEF record
    <3>4. QED
      BY <1>0, <3>1, <3>2, <3>3, WritingLosesNothing
  <2>2. ASSUME NEW capacity \in RequestedSizes, SetCapacity(r, capacity)
        PROVE  NoRoomIsLost'
    <3> DEFINE record == [rooms[r] EXCEPT !.capacity = capacity]
    <3>1. /\ record \in LiveRoom
          /\ record.name = rooms[r].name
          /\ record.owner = rooms[r].owner
      <4>1. capacity \in Nat \ {0}
        BY <2>2, RoomManagerAssumption
        DEF SetCapacity, Grantable, is_valid_room_capacity, kMinRoomCapacity, kMaxRoomCapacity
      <4>2. rooms[r] \in LiveRoom
        BY <1>0, <2>2 DEF SetCapacity, TypeOK
      <4>3. QED
        BY <4>1, <4>2 DEF LiveRoom
    <3>2. PICK outcome \in Outcomes("upsert") :
            /\ stored' = StoreAfter(outcome, r, record)
            /\ rooms' = LiveAfter(outcome, r, record)
            /\ condemned' = condemned
      BY <2>2 DEF SetCapacity
    <3> HIDE DEF record
    <3>3. QED
      BY <1>0, <3>1, <3>2, WritingLosesNothing
  <2>3. CASE RemoveLiveRoom(r)
    <3>1. /\ rooms' = [rooms EXCEPT ![r] = NoRoom]
          /\ stored' \in {stored, [stored EXCEPT ![r] = NoRoom]}
          /\ condemned' = condemned
      BY <2>3 DEF RemoveLiveRoom
    <3>2. QED
      BY <1>0, <3>1 DEF NoRoomIsLost, Live, TypeOK
  <2>4. CASE RemoveStoredRoom(r)
    BY <1>0, <2>4 DEF RemoveStoredRoom, NoRoomIsLost, Live, TypeOK
  <2>5. CASE KilledInRemoveRoom(r)
    BY <1>0, <2>5, LoadingLosesNothing DEF KilledInRemoveRoom, TypeOK
  <2>6. CASE DbadminDeleteRoom(r)
    BY <1>0, <2>6 DEF DbadminDeleteRoom, NoRoomIsLost, Live, TypeOK
  <2>7. QED
    BY <1>1, <2>1, <2>2, <2>3, <2>4, <2>5, <2>6 DEF RoomNext
<1>2. ASSUME UNCHANGED <<rooms, stored, condemned>> PROVE NoRoomIsLost'
  BY <1>2 DEF NoRoomIsLost, Live
<1>3. ASSUME NEW r \in RoomIds, NEW u \in Users, ParticipantNext(r, u) PROVE NoRoomIsLost'
  BY <1>2, <1>3
  DEF ParticipantNext, Join, Leave, SetMuted, StartScreenShare, StopScreenShare, Say
<1>4. ASSUME NEW u \in Users, remove_from_any_room(u) PROVE NoRoomIsLost'
  BY <1>2, <1>4 DEF remove_from_any_room, Leave
<1>5. CASE Restart
  BY <1>0, <1>5, LoadingLosesNothing DEF Restart, TypeOK
<1>6. CASE UNCHANGED vars
  BY <1>2, <1>6 DEF vars
<1>7. QED
  BY <1>1, <1>3, <1>4, <1>5, <1>6 DEF Next

LEMMA InitLosesNothing == Init => NoRoomIsLost
<1> SUFFICES ASSUME Init, NEW r \in RoomIds, rooms[r] # NoRoom
             PROVE  /\ stored[r] # NoRoom
                    /\ stored[r].name = rooms[r].name
                    /\ stored[r].owner = rooms[r].owner
  BY DEF NoRoomIsLost, Live
<1>1. stored[r] \in RoomRecord \cup {NoRoom}
  BY RoomManagerAssumption DEF Init
<1>2. rooms[r] = Loaded(stored[r])
  BY DEF Init
<1>3. QED
  BY <1>1, <1>2, LoadedKeepsIdentity

(* Whatever the store refuses, and whenever the process is killed, a live  *)
(* room nobody deleted is one the next start finds, under its own name.    *)
THEOREM NoLiveRoomIsLost == Spec => []NoRoomIsLost
BY InitSafe, StepSafe, InitLosesNothing, StepLosesNothing, PTL DEF Spec
-----------------------------------------------------------------------------
(* Names: the only step that gives a live room a name, other than a start, *)
(* is its creation.                                                        *)

(* A record that brings no name in use, or the name its room already has,  *)
(* leaves the names of live rooms apart.                                   *)
LEMMA WritingKeepsNamesApart ==
  ASSUME TypeOK, NamesDistinct, NEW r \in RoomIds, NEW outcome,
         NEW record \in LiveRoom, rooms' = LiveAfter(outcome, r, record),
         \A s \in Live(rooms) \ {r} : rooms[s].name # record.name
  PROVE  NamesDistinct'
<1>1. rooms'[r] \in {rooms[r], record}
  BY DEF LiveAfter, TypeOK
<1>2. \A s \in RoomIds : s # r => rooms'[s] = rooms[s]
  BY DEF LiveAfter, TypeOK
<1>3. SUFFICES ASSUME NEW s \in RoomIds, NEW t \in RoomIds,
                      rooms'[s] # NoRoom, rooms'[t] # NoRoom, rooms'[s].name = rooms'[t].name
               PROVE  s = t
  BY DEF NamesDistinct, Live
<1>4. CASE rooms'[r] = rooms[r]
  BY <1>2, <1>3, <1>4 DEF NamesDistinct, Live
<1>5. CASE rooms'[r] = record
  BY <1>2, <1>3, <1>5 DEF NamesDistinct, Live
<1>6. QED
  BY <1>1, <1>4, <1>5

(* A room created has a name nobody else has: the one that was typed, or   *)
(* an identifier nobody has typed for theirs.                              *)
LEMMA CreateKeepsNamesApart ==
  ASSUME TypeOK, NamesDistinct, NEW wanted \in TypedNames \cup {Untyped}, NEW owner \in Creators,
         NEW requested \in RequestedSizes, NEW r \in RoomIds,
         CreateRoom(wanted, owner, requested, r)
  PROVE  NamesDistinct'
<1> DEFINE record == [name |-> NameFor(r, wanted), owner |-> owner,
                      capacity |-> CapacityFor(requested)]
<1>1. record \in LiveRoom
  <2>1. CapacityFor(requested) \in Nat \ {0}
    BY SizesArePositive, RoomManagerAssumption DEF CreateRoom
  <2>2. owner \in Users \cup {Nobody} /\ NameFor(r, wanted) \in RoomNames
    BY RoomManagerAssumption DEF NameFor, RoomNames
  <2>3. QED
    BY <2>1, <2>2 DEF LiveRoom
<1>2. \A s \in Live(rooms) : rooms[s].name # NameFor(r, wanted)
  <2>1. CASE wanted = Untyped
    BY <2>1 DEF CreateRoom, FreeIds, name_taken, NameFor
  <2>2. CASE wanted # Untyped
    BY <2>2 DEF CreateRoom, name_taken, NameFor
  <2>3. QED
    BY <2>1, <2>2
<1>3. PICK outcome \in Outcomes("upsert") : rooms' = LiveAfter(outcome, r, record)
  BY DEF CreateRoom
<1>4. record.name = NameFor(r, wanted)
  OBVIOUS
<1> HIDE DEF record
<1>5. QED
  BY <1>1, <1>2, <1>3, <1>4, WritingKeepsNamesApart

LEMMA SetCapacityKeepsNamesApart ==
  ASSUME TypeOK, NamesDistinct, NEW r \in RoomIds, NEW capacity \in RequestedSizes,
         SetCapacity(r, capacity)
  PROVE  NamesDistinct'
<1> DEFINE record == [rooms[r] EXCEPT !.capacity = capacity]
<1>1. record \in LiveRoom /\ record.name = rooms[r].name
  <2>1. capacity \in Nat \ {0}
    BY RoomManagerAssumption
    DEF SetCapacity, Grantable, is_valid_room_capacity, kMinRoomCapacity, kMaxRoomCapacity
  <2>2. rooms[r] \in LiveRoom
    BY DEF SetCapacity, TypeOK
  <2>3. QED
    BY <2>1, <2>2 DEF LiveRoom
<1>2. PICK outcome \in Outcomes("upsert") : rooms' = LiveAfter(outcome, r, record)
  BY DEF SetCapacity
<1>3. r \in Live(rooms)
  BY DEF SetCapacity, Live
<1> HIDE DEF record
<1>4. QED
  BY <1>1, <1>2, <1>3, WritingKeepsNamesApart DEF NamesDistinct

(* Every step keeps names apart, or is a start.                            *)
LEMMA StepKeepsNamesApart ==
  ASSUME TypeOK, NamesDistinct, Next, ~ \E store \in {stored, stored'} : LoadRooms(store)
  PROVE  NamesDistinct'
<1>1. ASSUME UNCHANGED rooms PROVE NamesDistinct'
  BY <1>1 DEF NamesDistinct, Live
<1>2. ASSUME NEW r \in RoomIds, rooms' = [rooms EXCEPT ![r] = NoRoom] PROVE NamesDistinct'
  BY <1>2 DEF NamesDistinct, Live, TypeOK
<1>3. ASSUME NEW r \in RoomIds, RoomNext(r) PROVE NamesDistinct'
  <2>1. CASE RemoveLiveRoom(r)
    BY <1>2, <2>1 DEF RemoveLiveRoom
  <2>2. CASE RemoveStoredRoom(r) \/ DbadminDeleteRoom(r)
    BY <1>1, <2>2 DEF RemoveStoredRoom, DbadminDeleteRoom
  <2>3. ~KilledInRemoveRoom(r)
    BY DEF KilledInRemoveRoom
  <2>4. QED
    BY <1>3, <2>1, <2>2, <2>3, CreateKeepsNamesApart, SetCapacityKeepsNamesApart DEF RoomNext
<1>4. ASSUME NEW r \in RoomIds, NEW u \in Users, ParticipantNext(r, u) PROVE NamesDistinct'
  BY <1>1, <1>4
  DEF ParticipantNext, Join, Leave, SetMuted, StartScreenShare, StopScreenShare, Say
<1>5. ASSUME NEW u \in Users, remove_from_any_room(u) PROVE NamesDistinct'
  BY <1>1, <1>5 DEF remove_from_any_room, Leave
<1>6. ~Restart
  BY DEF Restart
<1>7. QED
  BY <1>3, <1>4, <1>5, <1>6 DEF Next

(* Whatever is created, resized, refused by the store or deleted with      *)
(* dbadmin, two live rooms come to share a name only by being loaded from  *)
(* a database that held it twice.                                          *)
THEOREM NamesCollideOnlyAtAStart == Spec => NamesCollideOnlyOnLoad
<1>1. IInv /\ [Next]_vars =>
        [NamesDistinct => NamesDistinct' \/ \E store \in {stored, stored'} : LoadRooms(store)]_vars
  BY StepKeepsNamesApart DEF IInv
<1>2. QED
  BY InitSafe, StepSafe, <1>1, PTL DEF Spec, NamesCollideOnlyOnLoad
-----------------------------------------------------------------------------
(* Conversations: what has to hold for docs/06-protocol.md to be right.    *)

(* No conversation is refused its clearing, no removal is applied and      *)
(* reported as failed, nobody kills the server in between and dbadmin      *)
(* deletes no rooms.                                                       *)
ConversationsAreCleared ==
  /\ "clear" \notin Refusing /\ "remove" \notin Unacknowledging
  /\ Killable = FALSE /\ DbadminActs = FALSE

Cleared == condemned = {} /\ NoRoomIsLost /\ ConversationDiesWithRoom

LEMMA ForgettingClears ==
  ASSUME ConversationsAreCleared, NEW r \in RoomIds, Forget(r)
  PROVE  chat' = chat \ {r}
BY DEF ConversationsAreCleared, Forget, Outcomes, Applied

LEMMA StepClears ==
  ASSUME ConversationsAreCleared, TypeOK, TypeOK', NoRoomIsLost', Cleared, [Next]_vars
  PROVE  Cleared'
<1>1. ASSUME NEW r \in RoomIds, rooms[r] # NoRoom PROVE stored[r] # NoRoom
  BY <1>1 DEF Cleared, NoRoomIsLost, Live
<1>2. SUFFICES condemned' = {} /\ ConversationDiesWithRoom'
  BY DEF Cleared
<1>3. condemned = {} /\ chat \subseteq RoomIds /\ ConversationDiesWithRoom
  BY DEF Cleared, TypeOK
<1>4. ASSUME condemned' = condemned, chat' = chat,
             \A r \in RoomIds :
               rooms[r] # NoRoom \/ stored[r] # NoRoom => rooms'[r] # NoRoom \/ stored'[r] # NoRoom
      PROVE  condemned' = {} /\ ConversationDiesWithRoom'
  BY <1>3, <1>4 DEF ConversationDiesWithRoom
<1>5. ASSUME NEW r \in RoomIds, condemned' = condemned, chat' = chat \ {r},
             \A s \in RoomIds \ {r} : rooms'[s] = rooms[s] /\ stored'[s] = stored[s]
      PROVE  condemned' = {} /\ ConversationDiesWithRoom'
  BY <1>3, <1>5 DEF ConversationDiesWithRoom
<1>6. ASSUME NEW r \in RoomIds, RoomNext(r) PROVE condemned' = {} /\ ConversationDiesWithRoom'
  <2>1. ASSUME NEW wanted \in TypedNames \cup {Untyped}, NEW owner \in Creators,
               NEW requested \in RequestedSizes, CreateRoom(wanted, owner, requested, r)
        PROVE  condemned' = {} /\ ConversationDiesWithRoom'
    <3> DEFINE record == [name |-> NameFor(r, wanted), owner |-> owner,
                          capacity |-> CapacityFor(requested)]
    <3>1. PICK outcome \in Outcomes("upsert") :
            /\ stored' = StoreAfter(outcome, r, record)
            /\ rooms' = LiveAfter(outcome, r, record)
            /\ condemned' = IF Applied(outcome) THEN condemned \ {r} ELSE condemned
      BY <2>1 DEF CreateRoom
    <3>2. condemned' = condemned /\ chat' = chat
      BY <1>3, <2>1, <3>1 DEF CreateRoom
    <3>3. rooms[r] = NoRoom /\ stored[r] = NoRoom
      BY <2>1 DEF CreateRoom, FreeIds
    <3> HIDE DEF record
    <3>4. \A s \in RoomIds \ {r} : rooms'[s] = rooms[s] /\ stored'[s] = stored[s]
      BY <3>1 DEF StoreAfter, LiveAfter, TypeOK
    <3>5. QED
      BY <1>4, <3>2, <3>3, <3>4
  <2>2. ASSUME NEW capacity \in RequestedSizes, SetCapacity(r, capacity)
        PROVE  condemned' = {} /\ ConversationDiesWithRoom'
    <3> DEFINE record == [rooms[r] EXCEPT !.capacity = capacity]
    <3>1. PICK outcome \in Outcomes("upsert") :
            stored' = StoreAfter(outcome, r, record) /\ rooms' = LiveAfter(outcome, r, record)
      BY <2>2 DEF SetCapacity
    <3>2. condemned' = condemned /\ chat' = chat /\ rooms[r] \in LiveRoom
      BY <2>2 DEF SetCapacity, TypeOK
    <3>3. record \in LiveRoom
      <4>1. capacity \in Nat \ {0}
        BY <2>2, RoomManagerAssumption
        DEF SetCapacity, Grantable, is_valid_room_capacity, kMinRoomCapacity, kMaxRoomCapacity
      <4>2. QED
        BY <3>2, <4>1 DEF LiveRoom
    <3>4. NoRoom \notin LiveRoom
      BY RoomsAssumption DEF LiveRoom, RoomRecord
    <3> HIDE DEF record
    <3>5. rooms'[r] # NoRoom
      BY <3>1, <3>2, <3>3, <3>4 DEF LiveAfter, TypeOK
    <3>6. \A s \in RoomIds \ {r} : rooms'[s] = rooms[s] /\ stored'[s] = stored[s]
      BY <3>1 DEF StoreAfter, LiveAfter, TypeOK
    <3>7. QED
      BY <1>4, <3>2, <3>5, <3>6
  <2>3. CASE RemoveLiveRoom(r)
    <3>1. chat' = chat \ {r} /\ condemned' = condemned
      BY <2>3, ForgettingClears DEF RemoveLiveRoom
    <3>2. /\ rooms' = [rooms EXCEPT ![r] = NoRoom]
          /\ stored' \in {stored, [stored EXCEPT ![r] = NoRoom]}
      BY <2>3 DEF RemoveLiveRoom
    <3>3. QED
      BY <1>5, <3>1, <3>2 DEF TypeOK
  <2>4. CASE RemoveStoredRoom(r)
    <3>1. PICK outcome \in Outcomes("remove") :
            /\ Applied(outcome)
            /\ IF outcome = "done" THEN Forget(r) ELSE UNCHANGED chat
      BY <2>4 DEF RemoveStoredRoom
    <3>2. chat' = chat \ {r}
      BY <3>1, ForgettingClears DEF ConversationsAreCleared, Outcomes, Applied
    <3>3. stored' = [stored EXCEPT ![r] = NoRoom] /\ UNCHANGED <<rooms, condemned>>
      BY <2>4 DEF RemoveStoredRoom
    <3>4. QED
      BY <1>5, <3>2, <3>3 DEF TypeOK
  <2>5. ~KilledInRemoveRoom(r) /\ ~DbadminDeleteRoom(r)
    BY DEF ConversationsAreCleared, KilledInRemoveRoom, DbadminDeleteRoom
  <2>6. QED
    BY <1>6, <2>1, <2>2, <2>3, <2>4, <2>5 DEF RoomNext
<1>7. ASSUME UNCHANGED <<rooms, stored, condemned>>, chat' \subseteq chat \cup Live(rooms)
      PROVE  condemned' = {} /\ ConversationDiesWithRoom'
  BY <1>3, <1>7 DEF ConversationDiesWithRoom, Live
<1>8. ASSUME NEW r \in RoomIds, NEW u \in Users, ParticipantNext(r, u)
      PROVE  condemned' = {} /\ ConversationDiesWithRoom'
  <2>1. CASE Say(r, u)
    BY <1>7, <2>1 DEF Say, Live
  <2>2. CASE ~Say(r, u)
    BY <1>7, <1>8, <2>2
    DEF ParticipantNext, Join, Leave, SetMuted, StartScreenShare, StopScreenShare
  <2>3. QED
    BY <2>1, <2>2
<1>9. ASSUME NEW u \in Users, remove_from_any_room(u)
      PROVE  condemned' = {} /\ ConversationDiesWithRoom'
  BY <1>7, <1>9 DEF remove_from_any_room, Leave
<1>10. CASE Restart
  <2>1. UNCHANGED <<stored, chat, condemned>>
    BY <1>10 DEF Restart
  <2>2. QED
    BY <1>1, <1>4, <2>1
<1>11. CASE UNCHANGED vars
  BY <1>7, <1>11 DEF vars
<1>12. QED
  BY <1>6, <1>8, <1>9, <1>10, <1>11 DEF Next

(* A conversation lives no longer than its room, and no newcomer is shown  *)
(* somebody else's, under the conditions named: whatever else the store    *)
(* refuses, reports wrongly or lists in part, and however often the server *)
(* restarts.  Each of them is needed: see README.md, section 4.            *)
THEOREM ConversationsDieWithTheirRooms ==
  ASSUME ConversationsAreCleared
  PROVE  Spec => []ConversationDiesWithRoom
<1>1. Init => Cleared
  BY InitLosesNothing DEF Init, Cleared, ConversationDiesWithRoom
<1>2. TypeOK /\ TypeOK' /\ NoRoomIsLost' /\ Cleared /\ [Next]_vars => Cleared'
  BY StepClears
<1>3. IInv => TypeOK
  BY DEF IInv
<1>4. Cleared => ConversationDiesWithRoom
  BY DEF Cleared
<1>5. QED
  BY InitSafe, StepSafe, InitLosesNothing, StepLosesNothing, <1>1, <1>2, <1>3, <1>4, PTL DEF Spec
-----------------------------------------------------------------------------
(* RoomManager implements ScreenFloor: seen only through who is where and  *)
(* whose screen each room watches, every operation of the rooms is one     *)
(* step of the abstract floor, or none.                                    *)

(* OneSharer, room by room.                                                *)
LEMMA OneSharerEach == OneSharer => \A r \in RoomIds : \A u, v \in Sharers(people, r) : u = v
BY DEF OneSharer

LEMMA PeopleTyped == IInv => people \in PeopleType
BY DEF IInv, TypeOK, PeopleType
-----------------------------------------------------------------------------
(* The initial state and each operation.                                   *)

LEMMA FloorInit == Init => Floor!Init
<1> SUFFICES ASSUME Init PROVE Floor!Init
  OBVIOUS
<1>1. \A r \in RoomIds : Sharers(people, r) = {}
  BY DEF Init, Empty, Sharers, Shares, contains
<1>2. QED
  BY <1>1 DEF Init, Floor!Init, screen_sharer

LEMMA MoveStep ==
  ASSUME IInv, NEW u \in Users, NEW r \in RoomIds,
         user_to_room[u] # r,
         user_to_room' = [user_to_room EXCEPT ![u] = r],
         \A q \in RoomIds : Sharers(people', q) = Sharers(people, q) \ {u}
  PROVE  Floor!Next
<1> DEFINE W == {u}
<1>1. /\ W \in SUBSET Users
      /\ \A q \in RoomIds : \A v, w \in Sharers(people, q) : v = w
      /\ \A q \in RoomIds : Sharers(people', q) = Sharers(people, q) \ W
  BY OneSharerEach DEF IInv
<1> HIDE DEF W
<1>2. FloorOf(people') =
        [q \in RoomIds |-> IF FloorOf(people)[q] \in W THEN Nobody ELSE FloorOf(people)[q]]
  BY <1>1, FloorWithdrawn
<1>3. Floor!Move(u, r)
  BY <1>2 DEF Floor!Move, FloorOf, W
<1>4. QED
  BY <1>3 DEF Floor!Next

LEMMA WithdrawStep ==
  ASSUME IInv, NEW out \in SUBSET Users, NEW hiding \in SUBSET Users,
         user_to_room' = [u \in Users |-> IF u \in out THEN Nowhere ELSE user_to_room[u]],
         \A q \in RoomIds : Sharers(people', q) = Sharers(people, q) \ (out \cup hiding)
  PROVE  Floor!Next
<1> DEFINE W == out \cup hiding
<1>1. W \in SUBSET Users /\ \A q \in RoomIds : Sharers(people', q) = Sharers(people, q) \ W
  OBVIOUS
<1>2. \A q \in RoomIds : \A v, w \in Sharers(people, q) : v = w
  BY OneSharerEach DEF IInv
<1> HIDE DEF W
<1>3. FloorOf(people') =
        [q \in RoomIds |-> IF FloorOf(people)[q] \in W THEN Nobody ELSE FloorOf(people)[q]]
  BY <1>1, <1>2, FloorWithdrawn
<1>4. Floor!Withdraw(out, hiding)
  BY <1>3 DEF Floor!Withdraw, FloorOf, W
<1>5. QED
  BY <1>4 DEF Floor!Next

LEMMA JoinMoves ==
  ASSUME IInv, IInv', NEW r \in RoomIds, NEW u \in Users, Join(r, u)
  PROVE  Floor!Next
<1>1. \A q \in RoomIds, v \in Users :
        people'[q][v] = IF v # u THEN people[q][v]
                        ELSE IF q = r THEN Newcomer
                        ELSE IF q = user_to_room[u] THEN Absent
                        ELSE people[q][v]
  BY JoinEntries DEF IInv
<1>2. \A q \in RoomIds : people[q][u] # Absent => user_to_room[u] = q
  BY DEF IInv, ViewsAgree, contains
<1>3. \A q \in RoomIds : Sharers(people', q) = Sharers(people, q) \ {u}
  BY <1>1, <1>2 DEF Sharers, Shares, contains, Newcomer
<1>4. /\ user_to_room[u] # r
      /\ user_to_room' = [user_to_room EXCEPT ![u] = r]
  BY DEF Join, IInv, ViewsAgree
<1>5. QED
  BY <1>3, <1>4, MoveStep

LEMMA LeaveWithdraws ==
  ASSUME IInv, IInv', NEW r \in RoomIds, NEW u \in Users, Leave(r, u)
  PROVE  Floor!Next
<1>1. /\ people'[r][u] = Absent
      /\ \A q \in RoomIds, v \in Users : q # r \/ v # u => people'[q][v] = people[q][v]
  BY PeopleTyped, SetOneEntry DEF Leave, Out
<1>2. user_to_room[u] = r
  BY DEF Leave, IInv, ViewsAgree
<1>3. \A q \in RoomIds : q # r => people[q][u] = Absent
  BY <1>2 DEF IInv, ViewsAgree, contains
<1>4. \A q \in RoomIds : Sharers(people', q) = Sharers(people, q) \ ({u} \cup {})
  BY <1>1, <1>3 DEF Sharers, Shares, contains
<1>5. user_to_room' = [v \in Users |-> IF v \in {u} THEN Nowhere ELSE user_to_room[v]]
  BY DEF Leave, IInv, TypeOK
<1>6. QED
  BY <1>4, <1>5, WithdrawStep

LEMMA StartTakes ==
  ASSUME IInv, IInv', NEW r \in RoomIds, NEW u \in Users, NEW with_audio \in BOOLEAN,
         StartScreenShare(r, u, with_audio)
  PROVE  [Floor!Next]_(Floor!floorVars)
<1>1. /\ people[r][u] \in Participant
      /\ people' = Set(people, r, u, ShareStarted(people[r][u], with_audio))
      /\ user_to_room' = user_to_room
      /\ Sharers(people, r) \subseteq {u}
  BY DEF StartScreenShare, ScreenBusy, contains, IInv, TypeOK
<1>2. /\ people'[r][u] = ShareStarted(people[r][u], with_audio)
      /\ \A q \in RoomIds, v \in Users : q # r \/ v # u => people'[q][v] = people[q][v]
  <2>1. ShareStarted(people[r][u], with_audio) \in Participant
    BY <1>1 DEF ShareStarted, Participant
  <2> DEFINE entry == ShareStarted(people[r][u], with_audio)
  <2> HIDE DEF entry
  <2>2. entry \in Participant /\ people' = Set(people, r, u, entry)
    BY <1>1, <2>1 DEF entry
  <2>3. /\ people'[r][u] = entry
        /\ \A q \in RoomIds, v \in Users : q # r \/ v # u => people'[q][v] = people[q][v]
    BY <2>2, PeopleTyped, SetOneEntry
  <2>4. QED
    BY <2>3 DEF entry
<1>3. /\ people'[r][u] # Absent
      /\ people'[r][u].sharing_screen
  <2>1. ShareStarted(people[r][u], with_audio) \in Participant
    BY <1>1 DEF ShareStarted, Participant
  <2>2. QED
    BY <1>1, <1>2, <2>1, RoomsAssumption DEF ShareStarted, Participant
<1>4. Sharers(people', r) = {u}
  BY <1>1, <1>2, <1>3 DEF Sharers, Shares, contains
<1>5. \A q \in RoomIds : q # r => Sharers(people', q) = Sharers(people, q)
  BY <1>2 DEF Sharers, Shares, contains
<1>6. CASE u \in Sharers(people, r)
  <2>1. \A q \in RoomIds : Sharers(people', q) = Sharers(people, q)
    BY <1>1, <1>4, <1>5, <1>6
  <2>2. FloorOf(people') = FloorOf(people)
    BY <2>1, FloorUntouched
  <2>3. QED
    BY <1>1, <2>2 DEF Floor!floorVars, FloorOf
<1>7. CASE u \notin Sharers(people, r)
  <2>1. Sharers(people, r) = {}
    BY <1>1, <1>7
  <2>2. /\ FloorOf(people)[r] = Nobody
        /\ FloorOf(people') = [FloorOf(people) EXCEPT ![r] = u]
    BY <1>4, <1>5, <2>1, FloorTaken
  <2>3. user_to_room[u] = r
    BY DEF StartScreenShare, IInv, ViewsAgree
  <2>4. Floor!Take(u)
    BY <1>1, <2>2, <2>3, RoomsAssumption DEF Floor!Take, FloorOf
  <2>5. QED
    BY <2>4 DEF Floor!Next
<1>8. QED
  BY <1>6, <1>7

LEMMA StopWithdraws ==
  ASSUME IInv, IInv', NEW r \in RoomIds, NEW u \in Users, StopScreenShare(r, u)
  PROVE  Floor!Next
<1>1. /\ people[r][u] \in Participant
      /\ people' = Set(people, r, u, ShareStopped(people[r][u]))
      /\ user_to_room' = user_to_room
  BY DEF StopScreenShare, contains, IInv, TypeOK
<1>2. /\ ~people'[r][u].sharing_screen
      /\ \A q \in RoomIds, v \in Users : q # r \/ v # u => people'[q][v] = people[q][v]
  <2>1. /\ ShareStopped(people[r][u]) \in Participant
        /\ ~ShareStopped(people[r][u]).sharing_screen
    BY <1>1 DEF ShareStopped, Participant
  <2>2. QED
    BY <1>1, <2>1, PeopleTyped, SetOneEntry
<1>3. \A q \in RoomIds : q # r => people[q][u] = Absent
  BY DEF StopScreenShare, IInv, ViewsAgree, contains
<1>4. \A q \in RoomIds : Sharers(people', q) = Sharers(people, q) \ ({} \cup {u})
  BY <1>2, <1>3 DEF Sharers, Shares, contains
<1>5. user_to_room' = [v \in Users |-> IF v \in {} THEN Nowhere ELSE user_to_room[v]]
  BY <1>1 DEF IInv, TypeOK
<1>6. QED
  BY <1>4, <1>5, WithdrawStep

LEMMA SetMutedStutters ==
  ASSUME IInv, NEW r \in RoomIds, NEW u \in Users, NEW muted \in BOOLEAN,
         NEW by_admin \in BOOLEAN, SetMuted(r, u, muted, by_admin)
  PROVE  UNCHANGED Floor!floorVars
<1>1. /\ people[r][u] \in Participant
      /\ people' = Set(people, r, u, MuteSet(people[r][u], muted, by_admin))
      /\ user_to_room' = user_to_room
  BY DEF SetMuted, contains, IInv, TypeOK
<1>2. /\ MuteSet(people[r][u], muted, by_admin) \in Participant
      /\ MuteSet(people[r][u], muted, by_admin).sharing_screen = people[r][u].sharing_screen
  BY <1>1 DEF MuteSet, Participant
<1>3. /\ people'[r][u] = MuteSet(people[r][u], muted, by_admin)
      /\ \A q \in RoomIds, v \in Users : q # r \/ v # u => people'[q][v] = people[q][v]
  <2> DEFINE entry == MuteSet(people[r][u], muted, by_admin)
  <2> HIDE DEF entry
  <2>1. entry \in Participant /\ people' = Set(people, r, u, entry)
    BY <1>1, <1>2 DEF entry
  <2>2. /\ people'[r][u] = entry
        /\ \A q \in RoomIds, v \in Users : q # r \/ v # u => people'[q][v] = people[q][v]
    BY <2>1, PeopleTyped, SetOneEntry
  <2>3. QED
    BY <2>2 DEF entry
<1>4. people[r][u] # Absent /\ people'[r][u] # Absent
  BY <1>1, <1>2, <1>3, RoomsAssumption
<1>5. \A q \in RoomIds : Sharers(people', q) = Sharers(people, q)
  BY <1>2, <1>3, <1>4 DEF Sharers, Shares, contains
<1>6. QED
  BY <1>1, <1>5, FloorUntouched DEF Floor!floorVars, FloorOf

(* Everybody inside a room that is removed leaves it.                      *)
LEMMA RemoveLiveRoomWithdraws ==
  ASSUME IInv, NEW r \in RoomIds, RemoveLiveRoom(r)
  PROVE  Floor!Next
<1> DEFINE inside == Occupants(people, r)
<1>1. /\ people' = [people EXCEPT ![r] = Empty]
      /\ user_to_room' = [u \in Users |-> IF u \in inside THEN Nowhere ELSE user_to_room[u]]
  BY DEF RemoveLiveRoom, Occupants
<1>2. /\ \A u \in Users : people'[r][u] = Absent
      /\ \A q \in RoomIds \ {r} : people'[q] = people[q]
  BY <1>1 DEF IInv, TypeOK, Empty
<1>3. \A q \in RoomIds \ {r}, u \in Users : contains(people, q, u) => u \notin inside
  BY DEF IInv, ViewsAgree, Occupants
<1>4. \A q \in RoomIds : Sharers(people', q) = Sharers(people, q) \ (inside \cup {})
  BY <1>2, <1>3 DEF Sharers, Shares, contains, Occupants
<1>5. inside \in SUBSET Users
  BY DEF Occupants
<1> HIDE DEF inside
<1>6. QED
  BY <1>1, <1>4, <1>5, WithdrawStep

LEMMA LoadingWithdraws ==
  ASSUME IInv, NEW store, LoadRooms(store)
  PROVE  Floor!Next
<1>1. /\ people' = [r \in RoomIds |-> Empty]
      /\ user_to_room' = [u \in Users |-> IF u \in Users THEN Nowhere ELSE user_to_room[u]]
  BY DEF LoadRooms
<1>2. \A r \in RoomIds : Sharers(people', r) = Sharers(people, r) \ (Users \cup {})
  BY <1>1 DEF Sharers, Shares, contains, Empty
<1>3. QED
  BY <1>1, <1>2, WithdrawStep
-----------------------------------------------------------------------------
LEMMA FloorStep == IInv /\ IInv' /\ [Next]_vars => [Floor!Next]_(Floor!floorVars)
<1> SUFFICES ASSUME IInv, IInv', [Next]_vars PROVE [Floor!Next]_(Floor!floorVars)
  OBVIOUS
<1>0. ASSUME UNCHANGED <<people, user_to_room>> PROVE UNCHANGED Floor!floorVars
  BY <1>0 DEF Floor!floorVars
<1>1. ASSUME NEW r \in RoomIds, RoomNext(r) PROVE [Floor!Next]_(Floor!floorVars)
  <2>1. CASE RemoveLiveRoom(r)
    BY <2>1, RemoveLiveRoomWithdraws
  <2>2. CASE KilledInRemoveRoom(r)
    BY <2>2, LoadingWithdraws DEF KilledInRemoveRoom
  <2>3. CASE UNCHANGED <<people, user_to_room>>
    BY <1>0, <2>3
  <2>4. QED
    BY <1>1, <2>1, <2>2, <2>3
    DEF RoomNext, CreateRoom, SetCapacity, RemoveStoredRoom, DbadminDeleteRoom
<1>2. ASSUME NEW r \in RoomIds, NEW u \in Users, ParticipantNext(r, u)
      PROVE  [Floor!Next]_(Floor!floorVars)
  <2>1. CASE Join(r, u)
    BY <2>1, JoinMoves
  <2>2. CASE Leave(r, u)
    BY <2>2, LeaveWithdraws
  <2>3. ASSUME NEW muted \in BOOLEAN, NEW by_admin \in BOOLEAN, SetMuted(r, u, muted, by_admin)
        PROVE  [Floor!Next]_(Floor!floorVars)
    BY <2>3, SetMutedStutters
  <2>4. ASSUME NEW with_audio \in BOOLEAN, StartScreenShare(r, u, with_audio)
        PROVE  [Floor!Next]_(Floor!floorVars)
    BY <2>4, StartTakes
  <2>5. CASE StopScreenShare(r, u)
    BY <2>5, StopWithdraws
  <2>6. CASE Say(r, u)
    BY <1>0, <2>6 DEF Say
  <2>7. QED
    BY <1>2, <2>1, <2>2, <2>3, <2>4, <2>5, <2>6 DEF ParticipantNext
<1>3. ASSUME NEW u \in Users, remove_from_any_room(u) PROVE [Floor!Next]_(Floor!floorVars)
  <2>1. user_to_room[u] \in RoomIds
    BY <1>3 DEF remove_from_any_room, IInv, TypeOK
  <2>2. QED
    BY <1>3, <2>1, LeaveWithdraws DEF remove_from_any_room
<1>4. CASE Restart
  BY <1>4, LoadingWithdraws DEF Restart
<1>5. CASE UNCHANGED vars
  BY <1>0, <1>5 DEF vars
<1>6. QED
  BY <1>1, <1>2, <1>3, <1>4, <1>5 DEF Next

(* The rooms implement the screen floor, for every value of the constants. *)
THEOREM RoomsImplementFloor == Spec => ImplementsFloor
BY InitSafe, StepSafe, FloorInit, FloorStep, PTL DEF Spec, ImplementsFloor, Floor!Spec
=============================================================================
