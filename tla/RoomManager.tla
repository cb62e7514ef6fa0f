---------------------------- MODULE RoomManager ----------------------------
(***************************************************************************)
(* dv::server::RoomManager: the rooms of one server process, the people in *)
(* them, and the store and conversations that outlive the process.         *)
(*                                                                         *)
(* The Hub serialises every call, so a call is one action; what is not     *)
(* atomic is the store behind it.  A write may be refused, may be applied  *)
(* and reported as failed (the reply to the database was lost), the        *)
(* process may be killed between two writes of one call, and dbadmin, a    *)
(* process of its own, deletes rooms from the same database.               *)
(***************************************************************************)
EXTENDS Rooms

CONSTANTS
  InitialStores,    \* what the store may hold when the server first starts
  Creators,         \* who asks for rooms
  RequestedSizes,   \* capacities asked for at creation and by update_room
  Refusing,         \* store operations that may fail without effect
  Unacknowledging,  \* store operations that may take effect and report failure
  Killable,         \* whether the process may be killed inside remove_room
  DbadminActs       \* whether dbadmin deletes rooms from the database

StoreOperations == {"upsert", "remove", "list", "clear"}

ASSUME RoomManagerAssumption ==
  /\ InitialStores \subseteq [RoomIds -> RoomRecord \cup {NoRoom}]
  /\ Creators \subseteq Users \cup {Nobody}
  /\ RequestedSizes \subseteq Nat
  /\ Refusing \subseteq StoreOperations
  /\ Unacknowledging \subseteq StoreOperations
  /\ {Killable, DbadminActs} \subseteq BOOLEAN

VARIABLES
  rooms,         \* rooms_: the description of every live room
  people,        \* rooms_: the participants of every live room
  user_to_room,  \* user_to_room_: user id to room id
  stored,        \* the room store
  chat,          \* the chat store: the rooms whose conversation is not empty
  condemned      \* history: rooms dbadmin deleted and nobody created again

live == <<rooms, people, user_to_room>>
vars == <<rooms, people, user_to_room, stored, chat, condemned>>

Outcomes(operation) ==
  {"done"} \cup (IF operation \in Refusing THEN {"refused"} ELSE {})
           \cup (IF operation \in Unacknowledging THEN {"unacknowledged"} ELSE {})

Applied(outcome) == outcome # "refused"

(* load_rooms on a process that has just started: list() stops where it    *)
(* fails and what it had read is loaded.                                   *)
LoadRooms(store) ==
  /\ \E seen \in IF "list" \in Refusing THEN SUBSET RoomIds ELSE {RoomIds} :
       rooms' = [r \in RoomIds |-> IF r \in seen THEN Loaded(store[r]) ELSE NoRoom]
  /\ people' = [r \in RoomIds |-> Empty]
  /\ user_to_room' = [u \in Users |-> Nowhere]

Init ==
  /\ stored \in InitialStores
  /\ rooms = [r \in RoomIds |-> Loaded(stored[r])]
  /\ people = [r \in RoomIds |-> Empty]
  /\ user_to_room = [u \in Users |-> Nowhere]
  /\ chat = {}
  /\ condemned = {}
-----------------------------------------------------------------------------
(* Rooms come and go.                                                      *)

(* A room's record is written before the live room is: what each of the    *)
(* two holds after the write.                                              *)
StoreAfter(outcome, r, record) ==
  IF Applied(outcome) THEN [stored EXCEPT ![r] = record] ELSE stored

LiveAfterAnyway(outcome, r, record) == [rooms EXCEPT ![r] = record]   \* a slip

LiveAfter(outcome, r, record) ==
  IF outcome = "done" THEN [rooms EXCEPT ![r] = record] ELSE rooms

CreateRoom(wanted, owner, requested, id) ==
  /\ requested # 0 => Grantable(requested)
  /\ wanted # Untyped => ~name_taken(rooms, wanted)
  /\ id \in FreeIds(rooms, stored, wanted)
  /\ LET record == [name |-> NameFor(id, wanted), owner |-> owner,
                    capacity |-> CapacityFor(requested)]
     IN \E outcome \in Outcomes("upsert") :
          /\ stored' = StoreAfter(outcome, id, record)
          /\ rooms' = LiveAfter(outcome, id, record)
          /\ condemned' = IF Applied(outcome) THEN condemned \ {id} ELSE condemned
  /\ UNCHANGED <<people, user_to_room, chat>>

(* The conversation goes last; a store that refuses is logged and passed   *)
(* over.                                                                   *)
Forget(r) ==
  \E outcome \in Outcomes("clear") :
    chat' = IF Applied(outcome) THEN chat \ {r} ELSE chat

(* remove_room of a room that is live: the live room goes whatever the     *)
(* store answers.                                                          *)
RemoveLiveRoom(r) ==
  /\ rooms[r] # NoRoom
  /\ user_to_room' = [u \in Users |-> IF contains(people, r, u) THEN Nowhere
                                      ELSE user_to_room[u]]
  /\ people' = [people EXCEPT ![r] = Empty]
  /\ rooms' = [rooms EXCEPT ![r] = NoRoom]
  /\ \E outcome \in Outcomes("remove") :
       stored' = IF Applied(outcome) THEN [stored EXCEPT ![r] = NoRoom] ELSE stored
  /\ Forget(r)
  /\ UNCHANGED condemned

(* remove_room of a room only the store knows: its failure is the call's,  *)
(* and the conversation is then left.                                      *)
RemoveStoredRoom(r) ==
  /\ rooms[r] = NoRoom
  /\ stored[r] # NoRoom
  /\ \E outcome \in Outcomes("remove") :
       /\ Applied(outcome)
       /\ stored' = [stored EXCEPT ![r] = NoRoom]
       /\ IF outcome = "done" THEN Forget(r) ELSE UNCHANGED chat
  /\ UNCHANGED <<rooms, people, user_to_room, condemned>>

SetCapacity(r, capacity) ==
  /\ Grantable(capacity)
  /\ rooms[r] # NoRoom
  /\ LET record == [rooms[r] EXCEPT !.capacity = capacity]
     IN \E outcome \in Outcomes("upsert") :
          /\ stored' = StoreAfter(outcome, r, record)
          /\ rooms' = LiveAfter(outcome, r, record)
  /\ UNCHANGED <<people, user_to_room, chat, condemned>>
-----------------------------------------------------------------------------
(* People come and go.                                                     *)

Join(r, u) ==
  /\ rooms[r] # NoRoom
  /\ ~contains(people, r, u)
  /\ ~is_full(people, r, rooms[r].capacity)
  /\ people' = Moved(people, user_to_room[u], r, u)
  /\ user_to_room' = [user_to_room EXCEPT ![u] = r]
  /\ UNCHANGED <<rooms, stored, chat, condemned>>

Leave(r, u) ==
  /\ rooms[r] # NoRoom
  /\ contains(people, r, u)
  /\ people' = Out(people, r, u)
  /\ user_to_room' = [user_to_room EXCEPT ![u] = Nowhere]
  /\ UNCHANGED <<rooms, stored, chat, condemned>>

remove_from_any_room(u) ==
  /\ user_to_room[u] # Nowhere
  /\ Leave(user_to_room[u], u)

SetMuted(r, u, muted, by_admin) ==
  /\ rooms[r] # NoRoom
  /\ contains(people, r, u)
  /\ MayBeMuted(people[r][u], muted, by_admin)
  /\ people' = Set(people, r, u, MuteSet(people[r][u], muted, by_admin))
  /\ UNCHANGED <<rooms, user_to_room, stored, chat, condemned>>

StartScreenShare(r, u, with_audio) ==
  /\ rooms[r] # NoRoom
  /\ contains(people, r, u)
  /\ ~ScreenBusy(people, r, u)
  /\ people' = Set(people, r, u, ShareStarted(people[r][u], with_audio))
  /\ UNCHANGED <<rooms, user_to_room, stored, chat, condemned>>

StopScreenShare(r, u) ==
  /\ rooms[r] # NoRoom
  /\ contains(people, r, u)
  /\ people' = Set(people, r, u, ShareStopped(people[r][u]))
  /\ UNCHANGED <<rooms, user_to_room, stored, chat, condemned>>
-----------------------------------------------------------------------------
(* What the rest of the system does to the same state.                     *)

(* Hub::handle_chat: only somebody inside writes in a conversation.        *)
Say(r, u) ==
  /\ rooms[r] # NoRoom
  /\ contains(people, r, u)
  /\ chat' = chat \cup {r}
  /\ UNCHANGED <<rooms, people, user_to_room, stored, condemned>>

(* The process ends and another starts on the same database.               *)
Restart ==
  /\ LoadRooms(stored)
  /\ UNCHANGED <<stored, chat, condemned>>

(* The process is killed inside remove_room, after the store has forgotten *)
(* the room and before the conversation is cleared.                        *)
KilledInRemoveRoom(r) ==
  /\ Killable
  /\ rooms[r] # NoRoom
  /\ stored' = [stored EXCEPT ![r] = NoRoom]
  /\ LoadRooms(stored')
  /\ UNCHANGED <<chat, condemned>>

(* dbadmin's Store.DeleteRoom: one document deleted, whatever is running.  *)
DbadminDeleteRoom(r) ==
  /\ DbadminActs
  /\ stored[r] # NoRoom
  /\ stored' = [stored EXCEPT ![r] = NoRoom]
  /\ condemned' = condemned \cup {r}
  /\ UNCHANGED <<rooms, people, user_to_room, chat>>
-----------------------------------------------------------------------------
RoomNext(r) ==
  \/ \E wanted \in TypedNames \cup {Untyped}, owner \in Creators,
        requested \in RequestedSizes : CreateRoom(wanted, owner, requested, r)
  \/ \E capacity \in RequestedSizes : SetCapacity(r, capacity)
  \/ RemoveLiveRoom(r)
  \/ RemoveStoredRoom(r)
  \/ KilledInRemoveRoom(r)
  \/ DbadminDeleteRoom(r)

ParticipantNext(r, u) ==
  \/ Join(r, u)
  \/ Leave(r, u)
  \/ \E muted, by_admin \in BOOLEAN : SetMuted(r, u, muted, by_admin)
  \/ \E with_audio \in BOOLEAN : StartScreenShare(r, u, with_audio)
  \/ StopScreenShare(r, u)
  \/ Say(r, u)

Next ==
  \/ \E r \in RoomIds : RoomNext(r)
  \/ \E r \in RoomIds, u \in Users : ParticipantNext(r, u)
  \/ \E u \in Users : remove_from_any_room(u)
  \/ Restart

Spec == Init /\ [][Next]_vars
-----------------------------------------------------------------------------
(* Properties.                                                             *)

(* Every variable has its shape; a live room always has a size, whatever   *)
(* record it was loaded from.                                              *)
LiveRoom == [name : RoomNames, owner : Users \cup {Nobody}, capacity : Nat \ {0}]

TypeOK ==
  /\ rooms \in [RoomIds -> LiveRoom \cup {NoRoom}]
  /\ people \in [RoomIds -> [Users -> Participant \cup {Absent}]]
  /\ user_to_room \in [Users -> RoomIds \cup {Nowhere}]
  /\ stored \in [RoomIds -> RoomRecord \cup {NoRoom}]
  /\ chat \subseteq RoomIds
  /\ condemned \subseteq RoomIds

(* user_to_room_ and the participant lists say the same thing, so somebody *)
(* is inside at most one room, and only a live room has anybody inside:    *)
(* the two views join (room_manager.cpp:296) keeps from disagreeing.       *)
ViewsAgree ==
  \A r \in RoomIds, u \in Users :
    /\ contains(people, r, u) <=> user_to_room[u] = r
    /\ contains(people, r, u) => rooms[r] # NoRoom

(* Section 5.1 of SPEC.md: at most one participant of a room shares their  *)
(* screen, and only a screen being shared carries the machine's audio.     *)
OneSharer ==
  /\ \A r \in RoomIds : \A u, v \in Sharers(people, r) : u = v
  /\ \A r \in RoomIds : \A u \in Occupants(people, r) :
       people[r][u].sharing_audio => people[r][u].sharing_screen

(* A mute an administrator put on is in force for as long as it stands,    *)
(* whatever the participant asked for since (set_muted).                   *)
ForcedMuteHolds ==
  \A r \in RoomIds : \A u \in Occupants(people, r) :
    people[r][u].muted_by_admin => people[r][u].muted

(* Nobody enters a room past its size: a room already over it, because the *)
(* size was lowered with people inside, only ever empties (join).          *)
NobodySqueezedIn ==
  [][\A r \in RoomIds :
       ~(Occupants(people, r)' \subseteq Occupants(people, r))
         => Cardinality(Occupants(people, r)') <= rooms[r].capacity]_vars

(* Every live room that dbadmin has not deleted is in the store under the  *)
(* same name and owner, so the next start finds it (create_room,           *)
(* set_capacity): no failure of the store loses a room somebody uses.      *)
NoRoomIsLost ==
  \A r \in Live(rooms) \ condemned :
    /\ stored[r] # NoRoom
    /\ stored[r].name = rooms[r].name
    /\ stored[r].owner = rooms[r].owner

NamesDistinct ==
  \A r, s \in Live(rooms) : rooms[r].name = rooms[s].name => r = s

(* Two live rooms come to share a name by being loaded, never by being     *)
(* created: not even a room nobody named, whose name is an identifier that *)
(* somebody may have typed (create_room).                                  *)
NamesCollideOnlyOnLoad ==
  [][NamesDistinct => NamesDistinct' \/ \E store \in {stored, stored'} : LoadRooms(store)]_vars

(* docs/06-protocol.md section 4.5, "A room's conversation lives exactly   *)
(* as long as the room": an identifier that may be handed out again has no *)
(* conversation left for its next owner to be shown (forget).              *)
ConversationDiesWithRoom ==
  \A r \in chat : rooms[r] # NoRoom \/ stored[r] # NoRoom

(* store.go:787, of dbadmin's DeleteRoom: "What this guarantees is the     *)
(* other half - that the room does not come back at the next start".       *)
DeletedStaysGone ==
  \A r \in condemned : stored[r] = NoRoom

(* What the screen share is to the people in the rooms.                    *)
Floor ==
  INSTANCE ScreenFloor
    WITH room_of <- user_to_room,
         sharer <- [r \in RoomIds |-> screen_sharer(people, r)]

(* The rooms implement the screen floor of ScreenFloor.tla: whatever the   *)
(* calls, a share passes from one person to another only through nobody.   *)
ImplementsFloor == Floor!Spec
=============================================================================
