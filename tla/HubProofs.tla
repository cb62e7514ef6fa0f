----------------------------- MODULE HubProofs -----------------------------
(***************************************************************************)
(* Who is here, for any number of sockets, accounts and rooms, whatever    *)
(* dbadmin writes meanwhile and whether or not a signed-in socket may      *)
(* authenticate again.                                                     *)
(*                                                                         *)
(* PresenceAgrees is not inductive: NoGhosts says that whoever is inside a *)
(* room is indexed there and has a socket, and a departure takes somebody  *)
(* out of the room the index names.  Presence adds the converse, the index *)
(* names no room its user is not in, which every departure relies on.      *)
(***************************************************************************)
EXTENDS Hub, TLAPS

(* What the operators of Rooms.tla return: facts about lists of            *)
(* participants.                                                           *)

PeopleType == [RoomIds -> [Users -> Participant \cup {Absent}]]

(* Set changes one entry of one room and leaves every other as it was.     *)
LEMMA SetOneEntry ==
  ASSUME NEW p \in PeopleType, NEW r \in RoomIds, NEW u \in Users,
         NEW entry \in Participant \cup {Absent}
  PROVE  /\ Set(p, r, u, entry) \in PeopleType
         /\ Set(p, r, u, entry)[r][u] = entry
         /\ \A q \in RoomIds, v \in Users :
              q # r \/ v # u => Set(p, r, u, entry)[q][v] = p[q][v]
BY DEF Set, PeopleType

(* The list after a move, entry by entry.                                  *)
LEMMA MovedEntries ==
  ASSUME NEW p \in PeopleType, NEW r \in RoomIds, NEW u \in Users,
         NEW from \in RoomIds \cup {Nowhere}
  PROVE  /\ Moved(p, from, r, u) \in PeopleType
         /\ \A q \in RoomIds, v \in Users :
              Moved(p, from, r, u)[q][v] =
                IF v # u THEN p[q][v]
                ELSE IF q = r THEN Newcomer
                ELSE IF q = from THEN Absent
                ELSE p[q][v]
<1>1. Newcomer \in Participant
  BY DEF Newcomer, Participant
<1>2. Nowhere \notin RoomIds
  BY RoomsAssumption
<1>3. CASE from = Nowhere
  BY <1>1, <1>2, <1>3, SetOneEntry DEF Moved
<1>4. CASE from \in RoomIds
  <2> DEFINE left == Out(p, from, u)
  <2>1. /\ left \in PeopleType
        /\ left[from][u] = Absent
        /\ \A q \in RoomIds, v \in Users : q # from \/ v # u => left[q][v] = p[q][v]
    BY <1>4, SetOneEntry DEF Out
  <2>2. Moved(p, from, r, u) = Set(left, r, u, Newcomer)
    BY <1>2, <1>4 DEF Moved
  <2> HIDE DEF left
  <2>3. /\ Set(left, r, u, Newcomer) \in PeopleType
        /\ Set(left, r, u, Newcomer)[r][u] = Newcomer
        /\ \A q \in RoomIds, v \in Users :
             q # r \/ v # u => Set(left, r, u, Newcomer)[q][v] = left[q][v]
    BY <1>1, <2>1, SetOneEntry
  <2>4. QED
    BY <2>1, <2>2, <2>3
<1>5. QED
  BY <1>3, <1>4

(* An entry after anything that may be asked of it is an entry.            *)
LEMMA EntryTypes ==
  /\ Newcomer \in Participant
  /\ \A entry \in Participant, a, b \in BOOLEAN :
       /\ MuteSet(entry, a, b) \in Participant
       /\ ShareStarted(entry, a) \in Participant
       /\ ShareStopped(entry) \in Participant
<1>1. Newcomer \in Participant
  BY DEF Newcomer, Participant
<1>2. \A entry \in Participant, a, b \in BOOLEAN : MuteSet(entry, a, b) \in Participant
  BY DEF MuteSet, Participant
<1>3. \A entry \in Participant, a \in BOOLEAN : ShareStarted(entry, a) \in Participant
  BY DEF ShareStarted, Participant
<1>4. \A entry \in Participant : ShareStopped(entry) \in Participant
  BY DEF ShareStopped, Participant
<1>5. QED
  BY <1>1, <1>2, <1>3, <1>4

(* What each change says of the flags it is not about.                     *)
LEMMA EntryFlags ==
  \A entry \in Participant, a, b \in BOOLEAN :
    /\ MuteSet(entry, a, b).muted = a
    /\ MuteSet(entry, a, b).sharing_screen = entry.sharing_screen
    /\ MuteSet(entry, a, b).sharing_audio = entry.sharing_audio
    /\ ShareStarted(entry, a).sharing_screen = TRUE
    /\ ShareStarted(entry, a).sharing_audio = a
    /\ ShareStopped(entry).sharing_screen = FALSE
<1>1. \A entry \in Participant, a, b \in BOOLEAN :
        /\ MuteSet(entry, a, b).muted = a
        /\ MuteSet(entry, a, b).sharing_screen = entry.sharing_screen
        /\ MuteSet(entry, a, b).sharing_audio = entry.sharing_audio
  BY DEF MuteSet, Participant
<1>2. \A entry \in Participant, a \in BOOLEAN :
        /\ ShareStarted(entry, a).sharing_screen = TRUE
        /\ ShareStarted(entry, a).sharing_audio = a
  BY DEF ShareStarted, Participant
<1>3. \A entry \in Participant : ShareStopped(entry).sharing_screen = FALSE
  BY DEF ShareStopped, Participant
<1>4. QED
  BY <1>1, <1>2, <1>3

(* With one sharer at most, whose screen is watched is no choice.          *)
LEMMA TheSharer ==
  ASSUME NEW p, NEW r, \A u, v \in Sharers(p, r) : u = v
  PROVE  /\ \A u \in Users : u \in Sharers(p, r) => screen_sharer(p, r) = u
         /\ Sharers(p, r) = {} <=> screen_sharer(p, r) = Nobody
         /\ screen_sharer(p, r) # Nobody => screen_sharer(p, r) \in Sharers(p, r)
<1>1. Sharers(p, r) \subseteq Users
  BY DEF Sharers
<1>2. CASE Sharers(p, r) = {}
  BY <1>2 DEF screen_sharer
<1>3. CASE Sharers(p, r) # {}
  <2>1. screen_sharer(p, r) \in Sharers(p, r)
    BY <1>3 DEF screen_sharer
  <2>2. QED
    BY <1>1, <1>3, <2>1, RoomsAssumption
<1>4. QED
  BY <1>2, <1>3

(* The same sharers, the same screen.                                      *)
LEMMA SameSharersSameScreen ==
  ASSUME NEW p, NEW q, NEW r, Sharers(q, r) = Sharers(p, r)
  PROVE  screen_sharer(q, r) = screen_sharer(p, r)
BY DEF screen_sharer

(* Without those in W among the sharers, the screen is nobody's if it was  *)
(* one of theirs.                                                          *)
LEMMA WithoutSharers ==
  ASSUME NEW p, NEW q, NEW r, NEW W \in SUBSET Users,
         \A v, w \in Sharers(p, r) : v = w,
         Sharers(q, r) = Sharers(p, r) \ W
  PROVE  screen_sharer(q, r) = IF screen_sharer(p, r) \in W THEN Nobody ELSE screen_sharer(p, r)
<1>1. CASE screen_sharer(p, r) \in W
  <2>1. screen_sharer(p, r) # Nobody
    BY <1>1, RoomsAssumption
  <2>2. Sharers(p, r) = {screen_sharer(p, r)}
    BY <2>1, TheSharer
  <2>3. Sharers(q, r) = {}
    BY <1>1, <2>2
  <2>4. QED
    BY <1>1, <2>3 DEF screen_sharer
<1>2. CASE screen_sharer(p, r) \notin W
  <2>1. \A u \in Sharers(p, r) : u \notin W
    BY <1>2, TheSharer DEF Sharers
  <2>2. Sharers(q, r) = Sharers(p, r)
    BY <2>1
  <2>3. QED
    BY <1>2, <2>2 DEF screen_sharer
<1>3. QED
  BY <1>1, <1>2
-----------------------------------------------------------------------------
(* The floor of ScreenFloor.tla: whose screen each room is watching.       *)

FloorOf(p) == [r \in RoomIds |-> screen_sharer(p, r)]

LEMMA FloorUntouched ==
  ASSUME NEW p, NEW q, \A r \in RoomIds : Sharers(q, r) = Sharers(p, r)
  PROVE  FloorOf(q) = FloorOf(p)
BY SameSharersSameScreen DEF FloorOf

LEMMA FloorWithdrawn ==
  ASSUME NEW p, NEW q, NEW W \in SUBSET Users,
         \A r \in RoomIds : \A v, w \in Sharers(p, r) : v = w,
         \A r \in RoomIds : Sharers(q, r) = Sharers(p, r) \ W
  PROVE  FloorOf(q) = [r \in RoomIds |-> IF FloorOf(p)[r] \in W THEN Nobody ELSE FloorOf(p)[r]]
BY WithoutSharers DEF FloorOf

LEMMA FloorTaken ==
  ASSUME NEW p, NEW q, NEW r \in RoomIds, NEW u,
         Sharers(p, r) = {}, Sharers(q, r) = {u},
         \A s \in RoomIds : s # r => Sharers(q, s) = Sharers(p, s)
  PROVE  /\ FloorOf(p)[r] = Nobody
         /\ FloorOf(q) = [FloorOf(p) EXCEPT ![r] = u]
<1>1. screen_sharer(p, r) = Nobody /\ screen_sharer(q, r) = u
  BY DEF screen_sharer
<1>2. \A s \in RoomIds : s # r => screen_sharer(q, s) = screen_sharer(p, s)
  BY SameSharersSameScreen
<1>3. QED
  BY <1>1, <1>2 DEF FloorOf
-----------------------------------------------------------------------------
(* rooms_: the list of a room and the index by user agree.                 *)
Placed ==
  \A u \in Users, r \in RoomIds : contains(people, r, u) <=> user_to_room[u] = r

(* Whoever is in a room is signed in, and the room is live.                *)
Housed ==
  \A u \in Users :
    user_to_room[u] # Nowhere =>
      /\ rooms[user_to_room[u]] # NoRoom
      /\ user_to_connection[u] # NoConnection

Presence == TypeOK /\ IdentitiesAgree /\ Placed /\ Housed

-----------------------------------------------------------------------------
(* What the helpers return.                                                *)

(* An open socket nobody has signed in on.                                 *)
LEMMA AnonymousSocket ==
  Anonymous \in Connection /\ Anonymous # Closed /\ Anonymous.user = Nobody
<1>1. Unrestricted \in Restrictions
  BY DEF Unrestricted, Restrictions
<1>2. Anonymous \in Connection
  BY <1>1 DEF Anonymous, Connection
<1>3. Closed \notin Connection
  BY HubAssumption
<1>4. Anonymous.user = Nobody
  BY DEF Anonymous
<1>5. QED
  BY <1>2, <1>3, <1>4

(* A session ended leaves an open socket with nobody on it; nobody else's  *)
(* socket changes.                                                         *)
LEMMA SignedOutSockets ==
  ASSUME TypeOK, IdentitiesAgree, NEW S \in SUBSET Users
  PROVE  /\ SignedOut(S) \in [Connections -> Connection \cup {Closed}]
         /\ Unmapped(S) \in [Users -> Connections \cup {NoConnection}]
         /\ \A c \in Connections, u \in Users :
              (/\ SignedOut(S)[c] # Closed
               /\ SignedOut(S)[c].user = u) <=> (SignedIn(c, u) /\ u \notin S)
         /\ \A c \in Connections : SignedOut(S)[c] = Closed <=> connections[c] = Closed
<1>1. Anonymous \in Connection /\ Anonymous # Closed /\ Anonymous.user = Nobody
  BY AnonymousSocket
<1>2. SignedOut(S) \in [Connections -> Connection \cup {Closed}]
  BY <1>1 DEF SignedOut, TypeOK
<1>3. Unmapped(S) \in [Users -> Connections \cup {NoConnection}]
  BY DEF Unmapped, TypeOK
<1>4. \A c \in ConnectionsOf(S) : c \in Connections /\ \E u \in S : SignedIn(c, u)
  BY DEF ConnectionsOf, IdentitiesAgree, TypeOK
<1>5. \A c \in Connections, u \in S : SignedIn(c, u) => c \in ConnectionsOf(S)
  BY HubAssumption DEF ConnectionsOf, IdentitiesAgree, TypeOK
<1>6. ASSUME NEW c \in Connections, NEW u \in Users
      PROVE  (SignedOut(S)[c] # Closed /\ SignedOut(S)[c].user = u)
               <=> (SignedIn(c, u) /\ u \notin S)
  <2>1. u # Nobody
    BY RoomsAssumption
  <2>2. CASE c \in ConnectionsOf(S)
    <3>1. SignedOut(S)[c] = Anonymous
      BY <2>2 DEF SignedOut
    <3>2. PICK v \in S : SignedIn(c, v)
      BY <1>4, <2>2
    <3>3. SignedIn(c, u) => u \in S
      BY <3>2 DEF SignedIn
    <3>4. QED
      BY <1>1, <2>1, <3>1, <3>3
  <2>3. CASE c \notin ConnectionsOf(S)
    <3>1. SignedOut(S)[c] = connections[c]
      BY <2>3 DEF SignedOut
    <3>2. QED
      BY <1>5, <2>1, <2>3, <3>1 DEF SignedIn, IsOpen
  <2>4. QED
    BY <2>2, <2>3
<1>7. ASSUME NEW c \in Connections
      PROVE  SignedOut(S)[c] = Closed <=> connections[c] = Closed
  BY <1>1, <1>4 DEF SignedOut, SignedIn, IsOpen
<1>8. QED
  BY <1>2, <1>3, <1>6, <1>7

(* Departures leave the lists of people and their index in agreement.      *)
LEMMA DeparturesArePlaced ==
  ASSUME TypeOK, Placed, NEW S \in SUBSET Users,
         people' = PeopleWithout(S), user_to_room' = RoomsWithout(S)
  PROVE  /\ people' \in PeopleType
         /\ user_to_room' \in [Users -> RoomIds \cup {Nowhere}]
         /\ Placed'
         /\ \A u \in Users : user_to_room'[u] # Nowhere =>
              u \notin S /\ user_to_room'[u] = user_to_room[u]
<1>1. people' \in PeopleType
  BY DEF PeopleType, PeopleWithout, TypeOK
<1>2. user_to_room' \in [Users -> RoomIds \cup {Nowhere}]
  BY DEF RoomsWithout, TypeOK
<1>3. ASSUME NEW u \in Users, NEW r \in RoomIds
      PROVE  people'[r][u] # Absent <=> user_to_room'[u] = r
  BY RoomsAssumption, <1>3 DEF PeopleWithout, RoomsWithout, Placed, contains
<1>4. QED
  BY <1>1, <1>2, <1>3 DEF RoomsWithout, Placed, contains

(* What a socket was told keeps its shape.                                 *)
LEMMA RosterTypes ==
  ASSUME roster \in [Connections -> Roster]
  PROVE  /\ Nothing \in Roster
         /\ \A told \in Roster, S \in SUBSET Users :
              WithoutScreenOf(told, S) \in Roster /\ WithoutMembers(told, S) \in Roster
         /\ \A S \in SUBSET Users : RostersWithout(S) \in [Connections -> Roster]
         /\ \A told \in [Connections -> Roster], C \in SUBSET Connections :
              Blanked(told, C) \in [Connections -> Roster]
<1>1. Nothing \in Roster
  BY DEF Nothing, Roster
<1>2. \A told \in Roster, S \in SUBSET Users : WithoutScreenOf(told, S) \in Roster
  BY DEF WithoutScreenOf, NewScreen, Roster
<1>3. \A told \in Roster, S \in SUBSET Users : WithoutMembers(told, S) \in Roster
  <2> SUFFICES ASSUME NEW told \in Roster, NEW S \in SUBSET Users
               PROVE  WithoutMembers(told, S) \in Roster
    OBVIOUS
  <2>1. WithoutScreenOf(told, S) \in Roster
    BY <1>2
  <2>2. QED
    BY <2>1 DEF WithoutMembers, Roster
<1>4. \A S \in SUBSET Users : RostersWithout(S) \in [Connections -> Roster]
  BY <1>3 DEF RostersWithout
<1>5. QED
  BY <1>1, <1>2, <1>3, <1>4 DEF Blanked

(* Rows closed are still counted in whole numbers.                         *)
LEMMA RowsType ==
  ASSUME TypeOK, NEW S \in SUBSET Users
  PROVE  RowsWithout(S) \in [Users -> Nat]
BY DEF RowsWithout, TypeOK

LEMMA RestrictionTypes ==
  ASSUME TypeOK
  PROVE  /\ Unrestricted \in Restrictions
         /\ \A u \in Users : RestrictionsOf(u) \in Restrictions
         /\ \A u \in Users : Exists(u) => accounts[u] \in Account
         /\ \A S \in SUBSET Users :
              RequestDiscarded(S) \in [Users -> Account \cup {Unborn, Removed}]
<1>1. Unrestricted \in Restrictions
  BY DEF Unrestricted, Restrictions
<1>2. \A u \in Users : Exists(u) => accounts[u] \in Account
  BY DEF TypeOK, Exists
<1>3. \A u \in Users : RestrictionsOf(u) \in Restrictions
  BY <1>1, <1>2 DEF RestrictionsOf, Account
<1>4. \A S \in SUBSET Users : RequestDiscarded(S) \in [Users -> Account \cup {Unborn, Removed}]
  BY <1>2 DEF RequestDiscarded, TypeOK, Account
<1>5. QED
  BY <1>1, <1>2, <1>3, <1>4
-----------------------------------------------------------------------------
(* The shapes of steps.                                                    *)

(* Whoever is in S leaves the room they are in, and those of them in T are *)
(* signed out; a room with somebody left inside stays live.                *)
LEMMA DeparturesKeepPresence ==
  ASSUME Presence, TypeOK', NEW S \in SUBSET Users, NEW T \in SUBSET S,
         \A u \in Users, r \in RoomIds :
           contains(people, r, u)' <=> contains(people, r, u) /\ u \notin S,
         user_to_room' = RoomsWithout(S),
         \A u \in Users :
           user_to_connection'[u] = IF u \in T THEN NoConnection ELSE user_to_connection[u],
         \A c \in Connections, u \in Users : SignedIn(c, u)' <=> SignedIn(c, u) /\ u \notin T,
         \A r \in RoomIds, u \in Users :
           rooms[r] # NoRoom /\ user_to_room[u] = r /\ u \notin S => rooms'[r] # NoRoom
  PROVE  Presence'
<1>1. ASSUME NEW u \in Users
      PROVE  user_to_room'[u] = IF u \in S THEN Nowhere ELSE user_to_room[u]
  BY <1>1 DEF RoomsWithout
<1>2. IdentitiesAgree'
  BY HubAssumption DEF Presence, IdentitiesAgree
<1>3. Placed'
  BY <1>1, RoomsAssumption DEF Presence, Placed
<1>4. Housed'
  <2> SUFFICES ASSUME NEW u \in Users, user_to_room'[u] # Nowhere
               PROVE  /\ rooms'[user_to_room'[u]] # NoRoom
                      /\ user_to_connection'[u] # NoConnection
    BY DEF Housed
  <2>1. u \notin S /\ user_to_room'[u] = user_to_room[u]
    BY <1>1
  <2>2. user_to_room[u] \in RoomIds
    BY <2>1 DEF Presence, TypeOK
  <2>3. QED
    BY <2>1, <2>2 DEF Presence, Housed
<1>5. QED
  BY <1>2, <1>3, <1>4 DEF Presence

(* Nobody comes or goes; rooms live stay live.                             *)
LEMMA StandstillKeepsPresence ==
  ASSUME Presence, TypeOK',
         UNCHANGED <<user_to_connection, user_to_room>>,
         \A u \in Users, r \in RoomIds : contains(people, r, u)' <=> contains(people, r, u),
         \A c \in Connections, u \in Users : SignedIn(c, u)' <=> SignedIn(c, u),
         \A r \in RoomIds : rooms[r] # NoRoom => rooms'[r] # NoRoom
  PROVE  Presence'
<1>1. IdentitiesAgree'
  BY DEF Presence, IdentitiesAgree
<1>2. Placed'
  BY DEF Presence, Placed
<1>3. Housed'
  BY DEF Presence, Housed, TypeOK
<1>4. QED
  BY <1>1, <1>2, <1>3 DEF Presence
-----------------------------------------------------------------------------
(* Sockets and identities.                                                 *)

LEMMA InitPresence == Init => Presence
<1> SUFFICES ASSUME Init PROVE Presence
  OBVIOUS
<1>1. accounts \in [Users -> Account \cup {Unborn, Removed}]
  BY HubAssumption DEF Init
<1>2. rooms \in [RoomIds -> RoomRecord \cup {NoRoom}]
  BY HubAssumption DEF Init
<1>3. TypeOK
  BY <1>1, <1>2 DEF Init, TypeOK, Empty, Nothing, Roster
<1>4. IdentitiesAgree
  BY HubAssumption DEF Init, IdentitiesAgree, SignedIn, IsOpen
<1>5. Placed /\ Housed
  BY RoomsAssumption DEF Init, Placed, Housed, Empty, contains
<1>6. QED
  BY <1>3, <1>4, <1>5 DEF Presence

LEMMA ConnectKeepsPresence ==
  ASSUME Presence, NEW c \in Connections, on_connect(c)
  PROVE  Presence'
<1>1. TypeOK'
  BY AnonymousSocket DEF on_connect, Presence, TypeOK, places
<1>2. ASSUME NEW d \in Connections, NEW u \in Users
      PROVE  SignedIn(d, u)' <=> SignedIn(d, u)
  BY AnonymousSocket, RoomsAssumption DEF on_connect, SignedIn, IsOpen, Presence, TypeOK
<1>3. QED
  BY <1>1, <1>2, StandstillKeepsPresence DEF on_connect, places, contains

(* The socket u was signed in on, if another, has nobody on it any more.   *)
LEMMA AuthenticateKeepsPresence ==
  ASSUME Presence, NEW c \in Connections, NEW u \in Users, handle_authenticate(c, u)
  PROVE  Presence'
<1> DEFINE old == Displaced(u, c)
<1>1. /\ IsOpen(c)
      /\ MayAuthenticate(c, u)
      /\ people' = PeopleWithout(old)
      /\ user_to_room' = RoomsWithout(old)
      /\ connections' = [SignedOut(old) EXCEPT ![c] = [user |-> u, known |-> RestrictionsOf(u)]]
      /\ roster' = Blanked(RostersWithout(old), ConnectionsOf(old) \cup {c})
      /\ open_rows' = [RowsWithout(old) EXCEPT ![u] = @ + 1]
      /\ user_to_connection' = [user_to_connection EXCEPT ![u] = c]
      /\ accounts' = RequestDiscarded({u})
      /\ rooms' = rooms
  BY DEF handle_authenticate
<1>2. old \in SUBSET Users /\ old \subseteq {u}
  BY DEF Displaced
<1>3. /\ TypeOK /\ IdentitiesAgree /\ Placed /\ Housed
      /\ u # Nobody
      /\ Closed \notin Connection
  BY RoomsAssumption, HubAssumption DEF Presence
<1> HIDE DEF old
<1>4. /\ [user |-> u, known |-> RestrictionsOf(u)] \in Connection
      /\ [user |-> u, known |-> RestrictionsOf(u)] # Closed
  BY <1>3, RestrictionTypes DEF Connection
<1>5. TypeOK'
  <2>1. /\ connections' \in [Connections -> Connection \cup {Closed}]
        /\ user_to_connection' \in [Users -> Connections \cup {NoConnection}]
    BY <1>1, <1>2, <1>3, <1>4, SignedOutSockets DEF TypeOK
  <2>2. open_rows' \in [Users -> Nat]
    BY <1>1, <1>2, <1>3, RowsType
  <2>3. /\ people' \in PeopleType
        /\ user_to_room' \in [Users -> RoomIds \cup {Nowhere}]
    BY <1>1, <1>2, <1>3, DeparturesArePlaced
  <2>4. roster' \in [Connections -> Roster]
    <3>1. ConnectionsOf(old) \cup {c} \in SUBSET Connections
      BY <1>2, <1>3 DEF ConnectionsOf, TypeOK
    <3>2. roster \in [Connections -> Roster]
      BY <1>3 DEF TypeOK
    <3>3. QED
      BY <1>1, <1>2, <3>1, <3>2, RosterTypes
  <2>5. accounts' \in [Users -> Account \cup {Unborn, Removed}]
    BY <1>1, <1>3, RestrictionTypes
  <2>6. QED
    BY <1>1, <1>3, <2>1, <2>2, <2>3, <2>4, <2>5 DEF TypeOK, PeopleType
<1>6. ASSUME NEW d \in Connections, NEW v \in Users
      PROVE  SignedIn(d, v)' <=> (d = c /\ v = u) \/ (d # c /\ v # u /\ SignedIn(d, v))
  <2>1. connections'[d] = IF d = c THEN [user |-> u, known |-> RestrictionsOf(u)]
                          ELSE SignedOut(old)[d]
    BY <1>1, <1>2, <1>3, SignedOutSockets
  <2>2. v # Nobody
    BY RoomsAssumption
  <2>3. CASE d = c
    BY <1>4, <2>1, <2>2, <2>3 DEF SignedIn, IsOpen
  <2>4. CASE d # c
    <3>1. SignedIn(d, v)' <=> SignedIn(d, v) /\ v \notin old
      BY <1>2, <1>3, <2>1, <2>2, <2>4, SignedOutSockets DEF SignedIn, IsOpen
    <3>2. SignedIn(d, u) => u \in old
      BY <1>3, <2>4, HubAssumption DEF IdentitiesAgree, Displaced, old
    <3>3. QED
      BY <1>2, <2>4, <3>1, <3>2
  <2>5. QED
    BY <2>3, <2>4
<1>7. ASSUME NEW v \in Users, v # u PROVE ~SignedIn(c, v)
  BY <1>1, <1>7, RoomsAssumption DEF MayAuthenticate, SignedIn
<1>8. IdentitiesAgree'
  <2> SUFFICES ASSUME NEW d \in Connections, NEW v \in Users
               PROVE  SignedIn(d, v)' <=> user_to_connection'[v] = d
    BY DEF IdentitiesAgree
  <2>1. user_to_connection'[v] = IF v = u THEN c ELSE user_to_connection[v]
    BY <1>1, <1>3 DEF TypeOK
  <2>2. QED
    BY <1>3, <1>6, <1>7, <2>1 DEF IdentitiesAgree
<1>9. Placed' /\ Housed'
  <2>1. Placed'
    BY <1>1, <1>2, <1>3, DeparturesArePlaced
  <2>2. \A v \in Users : user_to_room'[v] # Nowhere =>
          v \notin old /\ user_to_room'[v] = user_to_room[v]
    BY <1>1, <1>2, <1>3, DeparturesArePlaced
  <2>3. \A v \in Users : user_to_connection'[v] = IF v = u THEN c ELSE user_to_connection[v]
    BY <1>1, <1>3 DEF TypeOK
  <2>4. Housed'
    BY <1>1, <1>3, <2>2, <2>3, HubAssumption DEF Housed
  <2>5. QED
    BY <2>1, <2>4
<1>10. QED
  BY <1>5, <1>8, <1>9 DEF Presence

LEMMA DisconnectKeepsPresence ==
  ASSUME Presence, NEW c \in Connections, on_disconnect(c)
  PROVE  Presence'
<1> DEFINE gone == {u \in Users : SignedIn(c, u)}
<1>1. /\ people' = PeopleWithout(gone)
      /\ user_to_room' = RoomsWithout(gone)
      /\ roster' = Blanked(RostersWithout(gone), {c})
      /\ open_rows' = [u \in Users |-> IF u \in gone /\ open_rows[u] > 0
                                       THEN open_rows[u] - 1 ELSE open_rows[u]]
      /\ user_to_connection' = [u \in Users |-> IF u \in gone /\ user_to_connection[u] = c
                                                THEN NoConnection ELSE user_to_connection[u]]
      /\ connections' = [connections EXCEPT ![c] = Closed]
      /\ accounts' = accounts /\ rooms' = rooms
  BY DEF on_disconnect
<1>2. gone \in SUBSET Users /\ \A u \in Users : u \in gone <=> SignedIn(c, u)
  OBVIOUS
<1>3. TypeOK /\ IdentitiesAgree /\ Placed
  BY DEF Presence
<1> HIDE DEF gone
<1>4. /\ people' \in PeopleType
      /\ user_to_room' \in [Users -> RoomIds \cup {Nowhere}]
  BY <1>1, <1>2, <1>3, DeparturesArePlaced
<1>5. roster' \in [Connections -> Roster]
  <2>1. roster \in [Connections -> Roster]
    BY <1>3 DEF TypeOK
  <2>2. QED
    BY <1>1, <1>2, <2>1, RosterTypes
<1>6. /\ connections' \in [Connections -> Connection \cup {Closed}]
      /\ user_to_connection' \in [Users -> Connections \cup {NoConnection}]
      /\ open_rows' \in [Users -> Nat]
  BY <1>1, <1>3 DEF TypeOK
<1>7. TypeOK'
  BY <1>1, <1>3, <1>4, <1>5, <1>6 DEF TypeOK, PeopleType
<1>8. ASSUME NEW u \in Users, NEW r \in RoomIds
      PROVE  contains(people, r, u)' <=> contains(people, r, u) /\ u \notin gone
  BY <1>1, <1>3 DEF PeopleWithout, contains, Placed
<1>9. ASSUME NEW d \in Connections, NEW u \in Users
      PROVE  SignedIn(d, u)' <=> SignedIn(d, u) /\ u \notin gone
  <2>1. connections'[d] = IF d = c THEN Closed ELSE connections[d]
    BY <1>1, <1>3 DEF TypeOK
  <2>2. SignedIn(d, u) /\ SignedIn(c, u) => d = c
    BY <1>3 DEF IdentitiesAgree
  <2>3. QED
    BY <1>2, <2>1, <2>2 DEF SignedIn, IsOpen
<1>10. ASSUME NEW u \in Users
       PROVE  user_to_connection'[u] = IF u \in gone THEN NoConnection ELSE user_to_connection[u]
  BY <1>1, <1>2, <1>3 DEF IdentitiesAgree
<1>11. QED
  BY <1>1, <1>2, <1>7, <1>8, <1>9, <1>10, DeparturesKeepPresence
-----------------------------------------------------------------------------
(* Rooms and what participants do in them.                                 *)

(* Whoever is in a room has an entry there.                                *)
LEMMA EntryInRoom ==
  ASSUME Presence, NEW u \in Users, user_to_room[u] # Nowhere
  PROVE  /\ user_to_room[u] \in RoomIds
         /\ EntryOf(u) \in Participant
         /\ \A r \in RoomIds : r # user_to_room[u] => people[r][u] = Absent
<1>1. user_to_room[u] \in RoomIds
  BY DEF Presence, TypeOK
<1>2. contains(people, user_to_room[u], u)
  BY <1>1 DEF Presence, Placed
<1>3. \A r \in RoomIds : r # user_to_room[u] => people[r][u] = Absent
  BY DEF Presence, Placed, contains
<1>4. QED
  BY <1>1, <1>2, <1>3 DEF Presence, TypeOK, EntryOf, contains

(* One entry rewritten, nobody coming or going.                            *)
LEMMA RewritingKeepsPresence ==
  ASSUME Presence, NEW u \in Users, NEW entry \in Participant,
         user_to_room[u] # Nowhere,
         people' = Becomes(u, entry),
         roster' \in [Connections -> Roster],
         UNCHANGED <<accounts, connections, user_to_connection, open_rows, rooms, user_to_room>>
  PROVE  /\ Presence'
         /\ people' \in PeopleType
         /\ \A r \in RoomIds, v \in Users :
              people'[r][v] = IF v = u /\ user_to_room[u] = r THEN entry ELSE people[r][v]
<1>1. user_to_room[u] \in RoomIds /\ people[user_to_room[u]][u] # Absent
  BY EntryInRoom, RoomsAssumption DEF EntryOf
<1>2. people \in PeopleType
  BY DEF Presence, TypeOK, PeopleType
<1>3. /\ people' \in PeopleType
      /\ \A r \in RoomIds, v \in Users :
           people'[r][v] = IF v = u /\ user_to_room[u] = r THEN entry ELSE people[r][v]
  BY <1>1, <1>2 DEF Becomes, Set, PeopleType
<1>4. TypeOK'
  BY <1>3 DEF Presence, TypeOK, PeopleType
<1>5. \A v \in Users, r \in RoomIds : contains(people, r, v)' <=> contains(people, r, v)
  BY <1>1, <1>3, RoomsAssumption DEF contains
<1>6. \A c \in Connections, v \in Users : SignedIn(c, v)' <=> SignedIn(c, v)
  BY DEF SignedIn, IsOpen
<1>7. Presence'
  BY <1>4, <1>5, <1>6, StandstillKeepsPresence
<1>8. QED
  BY <1>3, <1>7

(* The rosters after a share starts or stops.                              *)
LEMMA ScreenRosterTypes ==
  ASSUME roster \in [Connections -> Roster], NEW u \in Users
  PROVE  /\ \A has_audio \in BOOLEAN : ScreenShown(u, has_audio) \in [Connections -> Roster]
         /\ ScreenHidden(u) \in [Connections -> Roster]
<1>1. \A told \in Roster, has_audio \in BOOLEAN : NewScreen(told, u, has_audio) \in Roster
  BY DEF NewScreen, Roster
<1>2. \A told \in Roster : WithoutScreenOf(told, {u}) \in Roster
  BY RosterTypes
<1>3. QED
  BY <1>1, <1>2 DEF ScreenShown, ScreenHidden

LEMMA InRoomKeepsPresence ==
  ASSUME Presence, NEW c \in Connections, NEW u \in Users, NEW a \in BOOLEAN,
         \/ handle_mute(c, u, a)
         \/ ShareStart(c, u, a)
         \/ ShareStop(c, u)
         \/ \E target \in Users : handle_force_mute(c, u, target, a)
  PROVE  Presence'
<1>1. roster \in [Connections -> Roster]
  BY DEF Presence, TypeOK
<1>2. CASE handle_mute(c, u, a)
  <2>1. MuteSet(EntryOf(u), a, FALSE) \in Participant
    BY <1>2, EntryInRoom, EntryTypes DEF handle_mute
  <2>2. QED
    BY <1>1, <1>2, <2>1, RewritingKeepsPresence DEF handle_mute, presence
<1>3. CASE ShareStart(c, u, a)
  <2>1. ShareStarted(EntryOf(u), a) \in Participant
    BY <1>3, EntryInRoom, EntryTypes DEF ShareStart
  <2>2. roster' \in [Connections -> Roster]
    BY <1>1, <1>3, ScreenRosterTypes DEF ShareStart
  <2>3. QED
    BY <1>3, <2>1, <2>2, RewritingKeepsPresence DEF ShareStart, presence
<1>4. CASE ShareStop(c, u)
  <2>1. ShareStopped(EntryOf(u)) \in Participant
    BY <1>4, EntryInRoom, EntryTypes DEF ShareStop
  <2>2. roster' \in [Connections -> Roster]
    BY <1>1, <1>4, ScreenRosterTypes DEF ShareStop
  <2>3. QED
    BY <1>4, <2>1, <2>2, RewritingKeepsPresence DEF ShareStop, presence
<1>5. ASSUME NEW target \in Users, handle_force_mute(c, u, target, a)
      PROVE  Presence'
  <2>1. MuteSet(EntryOf(target), a, TRUE) \in Participant
    BY <1>5, EntryInRoom, EntryTypes DEF handle_force_mute
  <2>2. QED
    BY <1>1, <1>5, <2>1, RewritingKeepsPresence DEF handle_force_mute, presence
<1>6. QED
  BY <1>2, <1>3, <1>4, <1>5

(* A socket's cached restrictions brought up to date: the same sockets,    *)
(* signed in as the same people.                                           *)
LEMMA RefreshedSockets ==
  ASSUME TypeOK, NEW c \in Connections, NEW u \in Users, SignedIn(c, u),
         connections' = Refreshed(c, u)
  PROVE  /\ connections' \in [Connections -> Connection \cup {Closed}]
         /\ \A d \in Connections, v \in Users : SignedIn(d, v)' <=> SignedIn(d, v)
<1>1. /\ connections[c] \in Connection
      /\ connections[c].user = u
      /\ RestrictionsOf(u) \in Restrictions
  BY RestrictionTypes DEF SignedIn, IsOpen, TypeOK
<1>2. /\ [connections[c] EXCEPT !.known = RestrictionsOf(u)] \in Connection
      /\ [connections[c] EXCEPT !.known = RestrictionsOf(u)].user = u
  BY <1>1 DEF Connection
<1>3. \A d \in Connections :
        connections'[d] = IF d = c THEN [connections[c] EXCEPT !.known = RestrictionsOf(u)]
                          ELSE connections[d]
  BY DEF Refreshed, TypeOK
<1>4. connections' \in [Connections -> Connection \cup {Closed}]
  BY <1>2 DEF Refreshed, TypeOK
<1>5. Closed \notin Connection
  BY HubAssumption
<1>6. QED
  BY <1>1, <1>2, <1>3, <1>4, <1>5 DEF SignedIn, IsOpen

LEMMA RefusedJoinKeepsPresence ==
  ASSUME Presence, NEW c \in Connections, NEW u \in Users, NEW r \in RoomIds,
         RefusedJoin(c, u, r)
  PROVE  Presence'
<1>1. TypeOK /\ SignedIn(c, u) /\ connections' = Refreshed(c, u)
  BY DEF Presence, RefusedJoin
<1>2. UNCHANGED <<accounts, user_to_connection, open_rows, rooms, people, user_to_room, roster>>
  BY DEF RefusedJoin, places
<1>3. TypeOK'
  BY <1>1, <1>2, RefreshedSockets DEF TypeOK
<1>4. \A d \in Connections, v \in Users : SignedIn(d, v)' <=> SignedIn(d, v)
  BY <1>1, RefreshedSockets
<1>5. QED
  BY <1>2, <1>3, <1>4, StandstillKeepsPresence DEF contains

(* Creating a room, and giving one another size.                           *)
LEMMA RoomWritesKeepPresence ==
  ASSUME Presence, NEW c \in Connections, NEW u \in Users, NEW r \in RoomIds,
         NEW capacity \in Capacities,
         \/ handle_create_room(c, u, r, capacity)
         \/ handle_update_room(c, u, r, capacity)
  PROVE  Presence'
<1>1. UNCHANGED <<accounts, connections, user_to_connection, open_rows, people, user_to_room, roster>>
  BY DEF handle_create_room, handle_update_room, presence, places
<1>2. capacity \in Nat /\ TypeOK /\ NoRoom \notin RoomRecord
  BY HubAssumption, RoomsAssumption DEF Presence
<1>3. /\ rooms' \in [RoomIds -> RoomRecord \cup {NoRoom}]
      /\ \A q \in RoomIds : rooms[q] # NoRoom => rooms'[q] # NoRoom
  <2>1. CASE handle_create_room(c, u, r, capacity)
    <3>1. [name |-> r, owner |-> u, capacity |-> capacity] \in RoomRecord
      BY <1>2 DEF RoomRecord, RoomNames
    <3>2. QED
      BY <1>2, <2>1, <3>1 DEF handle_create_room, TypeOK
  <2>2. CASE handle_update_room(c, u, r, capacity)
    <3>1. [rooms[r] EXCEPT !.capacity = capacity] \in RoomRecord
      BY <1>2, <2>2 DEF handle_update_room, RoomRecord, TypeOK
    <3>2. rooms' = [rooms EXCEPT ![r] = [rooms[r] EXCEPT !.capacity = capacity]]
      BY <2>2 DEF handle_update_room
    <3>3. QED
      BY <1>2, <3>1, <3>2 DEF TypeOK
  <2>3. QED
    BY <2>1, <2>2
<1>4. TypeOK'
  BY <1>1, <1>2, <1>3 DEF TypeOK
<1>5. QED
  BY <1>1, <1>3, <1>4, StandstillKeepsPresence DEF contains, SignedIn, IsOpen

(* Whoever arrives is in no other list: the index names the only one that  *)
(* may have held them.                                                     *)
LEMMA ArrivedEntries ==
  ASSUME Presence, NEW r \in RoomIds, NEW u \in Users
  PROVE  /\ Arrived(r, u) \in PeopleType
         /\ \A q \in RoomIds, v \in Users : v # u => Arrived(r, u)[q][v] = people[q][v]
         /\ \A q \in RoomIds : q # r => Arrived(r, u)[q][u] = Absent
         /\ Arrived(r, u)[r][u] =
              IF RestrictionsOf(u).muted THEN MuteSet(Newcomer, TRUE, TRUE) ELSE Newcomer
<1> DEFINE from == user_to_room[u]
           inside == Moved(people, from, r, u)
           muted == MuteSet(Newcomer, TRUE, TRUE)
<1>1. /\ people \in PeopleType /\ from \in RoomIds \cup {Nowhere}
      /\ muted \in Participant
  BY EntryTypes DEF Presence, TypeOK, PeopleType
<1>2. \A q \in RoomIds : q # from => people[q][u] = Absent
  BY DEF Presence, Placed, contains
<1>3. Arrived(r, u) = IF RestrictionsOf(u).muted
                      THEN Set(inside, r, u, MuteSet(inside[r][u], TRUE, TRUE)) ELSE inside
  BY DEF Arrived
<1>4. /\ inside \in PeopleType
      /\ \A q \in RoomIds, v \in Users : v # u => inside[q][v] = people[q][v]
      /\ \A q \in RoomIds : q # r => inside[q][u] = Absent
      /\ inside[r][u] = Newcomer
  <2> HIDE DEF from
  <2>1. /\ inside \in PeopleType
        /\ \A q \in RoomIds, v \in Users :
             inside[q][v] = IF v # u THEN people[q][v]
                            ELSE IF q = r THEN Newcomer
                            ELSE IF q = from THEN Absent
                            ELSE people[q][v]
    BY <1>1, MovedEntries
  <2> HIDE DEF inside
  <2>2. QED
    BY <1>2, <2>1
<1> HIDE DEF from, inside
<1>5. CASE RestrictionsOf(u).muted
  <2>1. Arrived(r, u) = Set(inside, r, u, muted)
    BY <1>3, <1>4, <1>5
  <2> HIDE DEF muted
  <2>2. /\ Set(inside, r, u, muted) \in PeopleType
        /\ Set(inside, r, u, muted)[r][u] = muted
        /\ \A q \in RoomIds, v \in Users : q # r \/ v # u =>
             Set(inside, r, u, muted)[q][v] = inside[q][v]
    BY <1>1, <1>4, SetOneEntry
  <2> DEFINE next == Set(inside, r, u, muted)
  <2>3. /\ next \in PeopleType /\ next[r][u] = muted
        /\ \A q \in RoomIds, v \in Users : q # r \/ v # u => next[q][v] = inside[q][v]
    BY <2>2
  <2> HIDE DEF next
  <2>4. /\ \A q \in RoomIds, v \in Users : v # u => next[q][v] = people[q][v]
        /\ \A q \in RoomIds : q # r => next[q][u] = Absent
    BY <1>4, <2>3
  <2>5. Arrived(r, u) = next
    BY <2>1 DEF next
  <2>6. /\ Arrived(r, u) \in PeopleType
        /\ \A q \in RoomIds, v \in Users : v # u => Arrived(r, u)[q][v] = people[q][v]
        /\ \A q \in RoomIds : q # r => Arrived(r, u)[q][u] = Absent
        /\ Arrived(r, u)[r][u] = muted
    BY <2>3, <2>4, <2>5
  <2>7. QED
    BY <1>5, <2>6 DEF muted
<1>6. CASE ~RestrictionsOf(u).muted
  BY <1>3, <1>4, <1>6
<1>7. QED
  BY <1>5, <1>6

(* The rosters after u has joined r on the socket c.                       *)
LEMMA PictureType ==
  ASSUME NEW inside \in PeopleType, NEW r \in RoomIds
  PROVE  Picture(inside, r) \in Roster
<1>1. Sharers(inside, r) \subseteq Users
  BY DEF Sharers
<1>2. screen_sharer(inside, r) \in Users \cup {Nobody}
  BY <1>1 DEF screen_sharer
<1>3. screen_sharer(inside, r) # Nobody => inside[r][screen_sharer(inside, r)].sharing_audio \in BOOLEAN
  <2>1. SUFFICES ASSUME screen_sharer(inside, r) # Nobody
                 PROVE  inside[r][screen_sharer(inside, r)].sharing_audio \in BOOLEAN
    OBVIOUS
  <2>2. screen_sharer(inside, r) \in Sharers(inside, r)
    BY <2>1 DEF screen_sharer
  <2>3. inside[r][screen_sharer(inside, r)] \in Participant
    BY <2>2 DEF Sharers, Shares, contains, PeopleType
  <2>4. QED
    BY <2>3 DEF Participant
<1>4. Occupants(inside, r) \subseteq Users
  BY DEF Occupants
<1> DEFINE sharer == screen_sharer(inside, r)
           heard == sharer # Nobody /\ inside[r][sharer].sharing_audio
<1>5. heard \in BOOLEAN
  BY <1>3
<1>6. Picture(inside, r) =
        [room |-> r, members |-> Occupants(inside, r), screen |-> sharer, has_audio |-> heard]
  BY DEF Picture
<1> HIDE DEF heard, sharer
<1>7. QED
  BY <1>2, <1>4, <1>5, <1>6 DEF Roster, sharer

LEMMA JoinKeepsPresence ==
  ASSUME Presence, NEW c \in Connections, NEW u \in Users, NEW r \in RoomIds,
         handle_join_room(c, u, r)
  PROVE  Presence'
<1>1. /\ SignedIn(c, u)
      /\ rooms[r] # NoRoom
      /\ people' = Arrived(r, u)
      /\ user_to_room' = [user_to_room EXCEPT ![u] = r]
      /\ connections' = Refreshed(c, u)
      /\ UNCHANGED <<accounts, user_to_connection, open_rows, rooms>>
  BY DEF handle_join_room, Admits
<1>2. TypeOK /\ Placed /\ Housed /\ IdentitiesAgree
  BY DEF Presence
<1>3. /\ connections' \in [Connections -> Connection \cup {Closed}]
      /\ \A d \in Connections, v \in Users : SignedIn(d, v)' <=> SignedIn(d, v)
  BY <1>1, <1>2, RefreshedSockets
<1>4. /\ people' \in PeopleType
      /\ \A q \in RoomIds, v \in Users : v # u => people'[q][v] = people[q][v]
      /\ \A q \in RoomIds : q # r => people'[q][u] = Absent
      /\ people'[r][u] \in Participant
  <2> DEFINE next == Arrived(r, u)
  <2>1. /\ next \in PeopleType
        /\ \A q \in RoomIds, v \in Users : v # u => next[q][v] = people[q][v]
        /\ \A q \in RoomIds : q # r => next[q][u] = Absent
    BY ArrivedEntries
  <2>2. next[r][u] \in Participant
    BY ArrivedEntries, EntryTypes
  <2>3. people' = next
    BY <1>1
  <2> HIDE DEF next
  <2>4. QED
    BY <2>1, <2>2, <2>3
<1>5. roster' \in [Connections -> Roster]
  <2>1. RostersWithout({u}) \in [Connections -> Roster]
    BY <1>2, RosterTypes DEF TypeOK
  <2>2. Picture(people', r) \in Roster
    BY <1>4, PictureType
  <2>3. \A told \in Roster : [told EXCEPT !.members = @ \cup {u}] \in Roster
    BY DEF Roster
  <2>4. QED
    BY <2>1, <2>2, <2>3 DEF handle_join_room
<1>6. TypeOK'
  BY <1>1, <1>2, <1>3, <1>4, <1>5 DEF TypeOK, PeopleType
<1>7. Placed'
  BY <1>1, <1>2, <1>4, RoomsAssumption DEF Placed, contains, TypeOK
<1>8. IdentitiesAgree'
  BY <1>1, <1>2, <1>3 DEF IdentitiesAgree
<1>9. Housed'
  <2>1. user_to_connection[u] # NoConnection
    BY <1>1, <1>2, HubAssumption DEF IdentitiesAgree
  <2>2. QED
    BY <1>1, <1>2, <2>1 DEF Housed, TypeOK
<1>10. QED
  BY <1>6, <1>7, <1>8, <1>9 DEF Presence
-----------------------------------------------------------------------------
(* Departures.                                                             *)

(* end_session_of: everybody in S leaves and is signed out.                *)
LEMMA SessionsEnded ==
  ASSUME TypeOK, IdentitiesAgree, Placed, NEW S \in SUBSET Users, EndSessionsOf(S)
  PROVE  /\ people' \in PeopleType
         /\ user_to_room' \in [Users -> RoomIds \cup {Nowhere}]
         /\ connections' \in [Connections -> Connection \cup {Closed}]
         /\ user_to_connection' \in [Users -> Connections \cup {NoConnection}]
         /\ open_rows' \in [Users -> Nat]
         /\ roster' \in [Connections -> Roster]
         /\ \A u \in Users, r \in RoomIds :
              contains(people, r, u)' <=> contains(people, r, u) /\ u \notin S
         /\ \A u \in Users :
              user_to_connection'[u] = IF u \in S THEN NoConnection ELSE user_to_connection[u]
         /\ \A c \in Connections, u \in Users : SignedIn(c, u)' <=> SignedIn(c, u) /\ u \notin S
<1>1. /\ people' = PeopleWithout(S)
      /\ user_to_room' = RoomsWithout(S)
      /\ connections' = SignedOut(S)
      /\ user_to_connection' = Unmapped(S)
      /\ open_rows' = RowsWithout(S)
      /\ roster' = Blanked(RostersWithout(S), ConnectionsOf(S))
  BY DEF EndSessionsOf
<1>2. /\ people' \in PeopleType
      /\ user_to_room' \in [Users -> RoomIds \cup {Nowhere}]
  BY <1>1, DeparturesArePlaced
<1>3. /\ connections' \in [Connections -> Connection \cup {Closed}]
      /\ user_to_connection' \in [Users -> Connections \cup {NoConnection}]
      /\ \A c \in Connections, u \in Users :
           (connections'[c] # Closed /\ connections'[c].user = u) <=> (SignedIn(c, u) /\ u \notin S)
  BY <1>1, SignedOutSockets
<1>4. open_rows' \in [Users -> Nat]
  BY <1>1, RowsType
<1>5. roster' \in [Connections -> Roster]
  <2>1. roster \in [Connections -> Roster] /\ ConnectionsOf(S) \in SUBSET Connections
    BY DEF TypeOK, ConnectionsOf
  <2>2. QED
    BY <1>1, <2>1, RosterTypes
<1>6. \A u \in Users, r \in RoomIds :
        contains(people, r, u)' <=> contains(people, r, u) /\ u \notin S
  BY <1>1 DEF PeopleWithout, contains, Placed
<1>7. \A u \in Users :
        user_to_connection'[u] = IF u \in S THEN NoConnection ELSE user_to_connection[u]
  BY <1>1 DEF Unmapped
<1>8. \A c \in Connections, u \in Users : SignedIn(c, u)' <=> SignedIn(c, u) /\ u \notin S
  BY <1>3, RoomsAssumption DEF SignedIn, IsOpen
<1>9. QED
  BY <1>2, <1>3, <1>4, <1>5, <1>6, <1>7, <1>8

(* evict, and leave_room: everybody in S leaves and stays signed in.       *)
LEMMA EvictionsKeepPresence ==
  ASSUME Presence, NEW S \in SUBSET Users, NEW told,
         people' = PeopleWithout(S), user_to_room' = RoomsWithout(S),
         told \in SUBSET Connections, roster' = Blanked(RostersWithout(S), told),
         rooms' \in [RoomIds -> RoomRecord \cup {NoRoom}],
         \A r \in RoomIds, u \in Users :
           rooms[r] # NoRoom /\ user_to_room[u] = r /\ u \notin S => rooms'[r] # NoRoom,
         UNCHANGED <<accounts, connections, user_to_connection, open_rows>>
  PROVE  Presence'
<1>1. TypeOK /\ Placed
  BY DEF Presence
<1>2. /\ people' \in PeopleType
      /\ user_to_room' \in [Users -> RoomIds \cup {Nowhere}]
  BY <1>1, DeparturesArePlaced
<1>3. roster' \in [Connections -> Roster]
  <2>1. roster \in [Connections -> Roster]
    BY <1>1 DEF TypeOK
  <2>2. QED
    BY <2>1, RosterTypes
<1>4. TypeOK'
  BY <1>1, <1>2, <1>3 DEF TypeOK, PeopleType
<1>5. \A u \in Users, r \in RoomIds :
        contains(people, r, u)' <=> contains(people, r, u) /\ u \notin S
  BY <1>1 DEF PeopleWithout, contains, Placed
<1>6. \A c \in Connections, u \in Users : SignedIn(c, u)' <=> SignedIn(c, u) /\ u \notin {}
  BY DEF SignedIn, IsOpen
<1>7. {} \in SUBSET S /\ \A u \in Users : user_to_connection'[u] = user_to_connection[u]
  OBVIOUS
<1>8. QED
  BY <1>4, <1>5, <1>6, <1>7, DeparturesKeepPresence

LEMMA LeavingKeepsPresence ==
  ASSUME Presence, NEW c \in Connections, NEW u \in Users,
         \/ handle_leave_room(c, u)
         \/ \E target \in Users : handle_kick(c, u, target)
         \/ \E r \in RoomIds : handle_delete_room(c, u, r)
  PROVE  Presence'
<1>1. TypeOK
  BY DEF Presence
<1>2. \A S \in SUBSET Users : ConnectionsOf(S) \in SUBSET Connections
  BY <1>1 DEF ConnectionsOf, TypeOK
<1>3. CASE handle_leave_room(c, u)
  <2>1. /\ {u} \in SUBSET Users
        /\ {c} \in SUBSET Connections
        /\ people' = PeopleWithout({u})
        /\ user_to_room' = RoomsWithout({u})
        /\ roster' = Blanked(RostersWithout({u}), {c})
        /\ UNCHANGED <<accounts, connections, user_to_connection, open_rows, rooms>>
    BY <1>3 DEF handle_leave_room, presence
  <2>2. rooms' \in [RoomIds -> RoomRecord \cup {NoRoom}]
    BY <1>1, <2>1 DEF TypeOK
  <2>3. QED
    BY <2>1, <2>2, EvictionsKeepPresence
<1>4. ASSUME NEW target \in Users, handle_kick(c, u, target) PROVE Presence'
  BY <1>1, <1>2, <1>4, EvictionsKeepPresence DEF handle_kick, Evict, presence, TypeOK
<1>5. ASSUME NEW r \in RoomIds, handle_delete_room(c, u, r) PROVE Presence'
  <2> DEFINE inside == {v \in Users : user_to_room[v] = r}
  <2>1. Evict(inside) /\ rooms' = [rooms EXCEPT ![r] = NoRoom]
    BY <1>5 DEF handle_delete_room
  <2>2. inside \in SUBSET Users /\ \A v \in Users : user_to_room[v] = r => v \in inside
    OBVIOUS
  <2> HIDE DEF inside
  <2>3. /\ rooms' \in [RoomIds -> RoomRecord \cup {NoRoom}]
        /\ \A q \in RoomIds, v \in Users :
             rooms[q] # NoRoom /\ user_to_room[v] = q /\ v \notin inside => rooms'[q] # NoRoom
    BY <1>1, <2>1, <2>2 DEF TypeOK
  <2>4. UNCHANGED <<accounts, connections, user_to_connection, open_rows>>
    BY <1>5 DEF handle_delete_room, presence
  <2>5. QED
    BY <1>2, <2>1, <2>2, <2>3, <2>4, EvictionsKeepPresence DEF Evict
<1>6. QED
  BY <1>3, <1>4, <1>5

LEMMA SigningOutKeepsPresence ==
  ASSUME Presence, NEW S \in SUBSET Users, EndSessionsOf(S), rooms' = rooms,
         accounts' \in [Users -> Account \cup {Unborn, Removed}]
  PROVE  Presence'
<1>1. TypeOK /\ IdentitiesAgree /\ Placed
  BY DEF Presence
<1>2. user_to_room' = RoomsWithout(S)
  BY DEF EndSessionsOf
<1>3. TypeOK'
  BY <1>1, SessionsEnded DEF TypeOK, PeopleType
<1>4. S \in SUBSET S
  OBVIOUS
<1>5. QED
  BY <1>1, <1>2, <1>3, <1>4, SessionsEnded, DeparturesKeepPresence

LEMMA EndingKeepsPresence ==
  ASSUME Presence, NEW c \in Connections, NEW u \in Users,
         \/ handle_change_password(c, u)
         \/ \E target \in Users : handle_end_session(c, u, target)
         \/ \E target \in Users : handle_delete_user(c, u, target)
  PROVE  Presence'
<1>1. accounts \in [Users -> Account \cup {Unborn, Removed}]
  BY DEF Presence, TypeOK
<1>2. CASE handle_change_password(c, u)
  BY <1>1, <1>2, SigningOutKeepsPresence DEF handle_change_password
<1>3. ASSUME NEW target \in Users, handle_end_session(c, u, target) PROVE Presence'
  BY <1>1, <1>3, SigningOutKeepsPresence DEF handle_end_session
<1>4. ASSUME NEW target \in Users, handle_delete_user(c, u, target) PROVE Presence'
  BY <1>1, <1>4, SigningOutKeepsPresence DEF handle_delete_user
<1>5. QED
  BY <1>2, <1>3, <1>4

(* Accounts written, and nothing else.                                     *)
LEMMA AccountWritesKeepPresence ==
  ASSUME Presence, accounts' \in [Users -> Account \cup {Unborn, Removed}],
         UNCHANGED <<connections, user_to_connection, open_rows, rooms, people, user_to_room, roster>>
  PROVE  Presence'
<1>1. TypeOK'
  BY DEF Presence, TypeOK
<1>2. QED
  BY <1>1, StandstillKeepsPresence DEF contains, SignedIn, IsOpen

LEMMA RestartKeepsPresence ==
  ASSUME Presence, Restart
  PROVE  Presence'
<1>1. TypeOK'
  BY DEF Restart, Presence, TypeOK, Empty, Nothing, Roster
<1>2. IdentitiesAgree'
  BY HubAssumption DEF Restart, IdentitiesAgree, SignedIn, IsOpen
<1>3. Placed' /\ Housed'
  BY RoomsAssumption DEF Restart, Placed, Housed, Empty, contains
<1>4. QED
  BY <1>1, <1>2, <1>3 DEF Presence
-----------------------------------------------------------------------------
(* Restrictions.                                                           *)

(* An entry enforced upon is still an entry.                               *)
LEMMA EnforcedType ==
  ASSUME NEW entry \in Participant, NEW before, NEW after \in Restrictions
  PROVE  Enforced(entry, before, after) \in Participant
<1> DEFINE muted == IF after.muted # before.muted THEN MuteSet(entry, after.muted, TRUE) ELSE entry
<1>1. after.muted \in BOOLEAN
  BY DEF Restrictions
<1>2. muted \in Participant
  BY <1>1, EntryTypes
<1>3. Enforced(entry, before, after) =
        IF after.screen_share_blocked /\ ~before.screen_share_blocked
        THEN ShareStopped(muted) ELSE muted
  BY DEF Enforced
<1> HIDE DEF muted
<1>4. ShareStopped(muted) \in Participant
  BY <1>2, EntryTypes
<1>5. QED
  BY <1>2, <1>3, <1>4

(* The entries after enforce: gone for whoever was signed out, enforced    *)
(* upon for whoever changed, as they were for the rest.                    *)
LEMMA EnforcedEntries ==
  ASSUME Presence, NEW changed \in SUBSET Users, NEW ended \in SUBSET Users,
         NEW before, NEW after \in [Users -> Restrictions],
         Enforce(changed, ended, before, after)
  PROVE  /\ people' \in PeopleType
         /\ \A r \in RoomIds, u \in Users :
              /\ user_to_room[u] # r \/ u \in ended => people'[r][u] = Absent
              /\ user_to_room[u] = r /\ u \in changed \ ended =>
                   people'[r][u] = Enforced(people[r][u], before[u], after[u])
              /\ user_to_room[u] = r /\ u \notin changed \cup ended => people'[r][u] = people[r][u]
         /\ \A r \in RoomIds, u \in Users :
              contains(people, r, u)' <=> contains(people, r, u) /\ u \notin ended
<1>1. /\ people \in PeopleType
      /\ \A r \in RoomIds, u \in Users : people[r][u] # Absent <=> user_to_room[u] = r
  BY DEF Presence, TypeOK, PeopleType, Placed, contains
<1>2. \A r \in RoomIds, u \in Users :
        PeopleWithout(ended)[r][u] = IF u \in ended /\ user_to_room[u] = r THEN Absent
                                     ELSE people[r][u]
  BY DEF PeopleWithout
<1>3. people' = [r \in RoomIds |-> [u \in Users |->
                   IF u \in changed \ ended /\ user_to_room[u] = r
                   THEN Enforced(PeopleWithout(ended)[r][u], before[u], after[u])
                   ELSE PeopleWithout(ended)[r][u]]]
  BY DEF Enforce
<1>4. \A r \in RoomIds, u \in Users :
        /\ user_to_room[u] # r \/ u \in ended => people'[r][u] = Absent
        /\ user_to_room[u] = r /\ u \in changed \ ended =>
             people'[r][u] = Enforced(people[r][u], before[u], after[u])
        /\ user_to_room[u] = r /\ u \notin changed \cup ended => people'[r][u] = people[r][u]
  BY <1>1, <1>2, <1>3
<1>5. \A r \in RoomIds, u \in Users :
        user_to_room[u] = r => Enforced(people[r][u], before[u], after[u]) \in Participant
  <2> SUFFICES ASSUME NEW r \in RoomIds, NEW u \in Users, user_to_room[u] = r
               PROVE  Enforced(people[r][u], before[u], after[u]) \in Participant
    OBVIOUS
  <2> DEFINE entry == people[r][u]
             was == before[u]
             is == after[u]
  <2>1. entry \in Participant /\ is \in Restrictions
    BY <1>1 DEF PeopleType
  <2> HIDE DEF entry, was, is
  <2>2. Enforced(entry, was, is) \in Participant
    BY <2>1, EnforcedType
  <2>3. QED
    BY <2>2 DEF entry, was, is
<1>6. \A r \in RoomIds, u \in Users : people'[r][u] \in Participant \cup {Absent}
  BY <1>1, <1>4, <1>5 DEF PeopleType
<1>7. people' \in PeopleType
  <2>1. people' \in [RoomIds -> [Users -> {people'[r][u] : r \in RoomIds, u \in Users}]]
    BY <1>3
  <2>2. QED
    BY <1>6, <2>1 DEF PeopleType
<1>8. \A r \in RoomIds, u \in Users :
        contains(people, r, u)' <=> contains(people, r, u) /\ u \notin ended
  BY <1>1, <1>4, <1>5, RoomsAssumption DEF contains
<1>9. QED
  BY <1>4, <1>7, <1>8

(* The sockets after enforce: whoever was signed out is, and nobody else.  *)
LEMMA EnforcedSockets ==
  ASSUME Presence, NEW changed \in SUBSET Users, NEW ended \in SUBSET Users,
         NEW before, NEW after \in [Users -> Restrictions],
         Enforce(changed, ended, before, after)
  PROVE  /\ connections' \in [Connections -> Connection \cup {Closed}]
         /\ \A c \in Connections, u \in Users : SignedIn(c, u)' <=> SignedIn(c, u) /\ u \notin ended
         /\ \A c \in Connections, u \in Users :
              SignedIn(c, u) /\ u \notin ended =>
                connections'[c].known = IF u \in changed THEN after[u] ELSE connections[c].known
<1> DEFINE reached(c) == \E u \in changed \ ended : user_to_connection[u] = c /\ SignedIn(c, u)
<1>1. TypeOK /\ IdentitiesAgree
  BY DEF Presence
<1>2. \A c \in Connections :
        connections'[c] = IF reached(c) THEN [connections[c] EXCEPT !.known = after[connections[c].user]]
                          ELSE SignedOut(ended)[c]
  BY DEF Enforce
<1>3. connections' = [c \in Connections |-> connections'[c]]
  BY DEF Enforce
<1>4. \A c \in Connections : reached(c) =>
        /\ connections[c] \in Connection
        /\ connections[c].user \in changed \ ended
        /\ SignedIn(c, connections[c].user)
  BY <1>1 DEF SignedIn, IsOpen, TypeOK
<1>5. \A c \in Connections, u \in Users :
        SignedIn(c, u) => (reached(c) <=> u \in changed \ ended)
  BY <1>1 DEF IdentitiesAgree, SignedIn
<1> HIDE DEF reached
<1>6. ASSUME NEW c \in Connections, reached(c)
      PROVE  /\ connections'[c] \in Connection
             /\ connections'[c].user = connections[c].user
             /\ connections'[c].known = after[connections[c].user]
  BY <1>2, <1>4, <1>6 DEF Connection
<1>7. /\ SignedOut(ended) \in [Connections -> Connection \cup {Closed}]
      /\ \A c \in Connections, u \in Users :
           (SignedOut(ended)[c] # Closed /\ SignedOut(ended)[c].user = u)
             <=> (SignedIn(c, u) /\ u \notin ended)
  BY <1>1, SignedOutSockets
<1>8. connections' \in [Connections -> Connection \cup {Closed}]
  <2>1. \A c \in Connections : connections'[c] \in Connection \cup {Closed}
    BY <1>2, <1>6, <1>7
  <2>2. QED
    BY <1>3, <2>1
<1>9. Closed \notin Connection
  BY HubAssumption
<1>10. ASSUME NEW c \in Connections, NEW u \in Users
      PROVE  SignedIn(c, u)' <=> SignedIn(c, u) /\ u \notin ended
  <2>1. u # Nobody
    BY RoomsAssumption
  <2>2. CASE reached(c)
    BY <1>4, <1>6, <1>9, <2>1, <2>2 DEF SignedIn, IsOpen
  <2>3. CASE ~reached(c)
    <3>1. connections'[c] = SignedOut(ended)[c]
      BY <1>2, <2>3
    <3>2. SignedIn(c, u)' <=> SignedOut(ended)[c] # Closed /\ SignedOut(ended)[c].user = u
      BY <2>1, <3>1 DEF SignedIn, IsOpen
    <3>3. QED
      BY <1>7, <3>2
  <2>4. QED
    BY <2>2, <2>3
<1>11. ASSUME NEW c \in Connections, NEW u \in Users, SignedIn(c, u), u \notin ended
       PROVE  connections'[c].known = IF u \in changed THEN after[u] ELSE connections[c].known
  <2>1. CASE u \in changed
    BY <1>5, <1>6, <1>11, <2>1 DEF SignedIn
  <2>2. CASE u \notin changed
    <3>1. ~reached(c)
      BY <1>5, <1>11, <2>2
    <3>2. c \notin ConnectionsOf(ended)
      BY <1>1, <1>11 DEF ConnectionsOf, IdentitiesAgree, SignedIn
    <3>3. connections'[c] = connections[c]
      BY <1>2, <3>1, <3>2 DEF SignedOut
    <3>4. QED
      BY <2>2, <3>3
  <2>3. QED
    BY <2>1, <2>2
<1>12. QED
  BY <1>8, <1>10, <1>11

LEMMA EnforceKeepsPresence ==
  ASSUME Presence, NEW changed \in SUBSET Users, NEW ended \in SUBSET Users,
         NEW before, NEW after \in [Users -> Restrictions],
         Enforce(changed, ended, before, after), rooms' = rooms,
         accounts' \in [Users -> Account \cup {Unborn, Removed}]
  PROVE  Presence'
<1>1. TypeOK /\ IdentitiesAgree /\ Placed
  BY DEF Presence
<1>2. /\ user_to_room' = RoomsWithout(ended)
      /\ user_to_connection' = Unmapped(ended)
      /\ open_rows' = RowsWithout(ended)
  BY DEF Enforce
<1>3. /\ people' \in PeopleType
      /\ \A u \in Users, r \in RoomIds :
           contains(people, r, u)' <=> contains(people, r, u) /\ u \notin ended
  BY EnforcedEntries
<1>4. /\ connections' \in [Connections -> Connection \cup {Closed}]
      /\ \A c \in Connections, u \in Users : SignedIn(c, u)' <=> SignedIn(c, u) /\ u \notin ended
  BY EnforcedSockets
<1>5. roster' \in [Connections -> Roster]
  <2> DEFINE hidden == {u \in changed \ ended : after[u].screen_share_blocked
                                              /\ ~before[u].screen_share_blocked}
             left == Blanked(RostersWithout(ended), ConnectionsOf(ended))
  <2>1. roster' = [c \in Connections |-> WithoutScreenOf(left[c], hidden)]
    BY DEF Enforce
  <2>2. ConnectionsOf(ended) \in SUBSET Connections /\ roster \in [Connections -> Roster]
    BY <1>1 DEF ConnectionsOf, TypeOK
  <2>3. left \in [Connections -> Roster]
    BY <2>2, RosterTypes
  <2>4. hidden \in SUBSET Users
    OBVIOUS
  <2> HIDE DEF hidden, left
  <2>5. \A c \in Connections : WithoutScreenOf(left[c], hidden) \in Roster
    BY <2>2, <2>3, <2>4, RosterTypes
  <2>6. QED
    BY <2>1, <2>5
<1>6. /\ user_to_room' \in [Users -> RoomIds \cup {Nowhere}]
      /\ user_to_connection' \in [Users -> Connections \cup {NoConnection}]
      /\ open_rows' \in [Users -> Nat]
  BY <1>1, <1>2, RowsType DEF RoomsWithout, Unmapped, TypeOK
<1>7. TypeOK'
  BY <1>1, <1>3, <1>4, <1>5, <1>6 DEF TypeOK, PeopleType
<1>8. \A u \in Users :
        user_to_connection'[u] = IF u \in ended THEN NoConnection ELSE user_to_connection[u]
  BY <1>2 DEF Unmapped
<1>9. ended \in SUBSET ended
  OBVIOUS
<1>10. QED
  BY <1>2, <1>3, <1>4, <1>7, <1>8, <1>9, DeparturesKeepPresence

LEMMA RestrictKeepsPresence ==
  ASSUME Presence, NEW c \in Connections, NEW u \in Users, NEW target \in Users,
         NEW after \in Takeable, handle_restrict_user(c, u, target, after)
  PROVE  Presence'
<1> DEFINE ended == IF after.banned /\ ~RestrictionsOf(target).banned THEN {target} ELSE {}
           before == [v \in Users |-> RestrictionsOf(v)]
           is == [v \in Users |-> after]
<1>1. after \in Restrictions
  BY HubAssumption
<1>2. /\ {target} \in SUBSET Users /\ ended \in SUBSET Users
      /\ is \in [Users -> Restrictions]
  BY <1>1
<1>3. /\ Enforce({target}, ended, before, is)
      /\ rooms' = rooms
      /\ accounts' = [accounts EXCEPT ![target].restrictions = after]
      /\ Exists(target)
  BY DEF handle_restrict_user
<1> HIDE DEF ended, before, is
<1>4. accounts' \in [Users -> Account \cup {Unborn, Removed}]
  BY <1>1, <1>3 DEF Presence, TypeOK, Exists, Account
<1>5. QED
  BY <1>2, <1>3, <1>4, EnforceKeepsPresence

LEMMA TickKeepsPresence ==
  ASSUME Presence, tick
  PROVE  Presence'
<1> DEFINE ended == EndedBy(PolledChanges, PolledGone, PolledRequests)
           is == [v \in Users |-> RestrictionsOf(v)]
<1>1. /\ PolledChanges \in SUBSET Users /\ PolledRequests \in SUBSET Users
      /\ ended \in SUBSET Users
  BY DEF PolledChanges, PolledGone, PolledRequests, Watched, EndedBy
<1>2. is \in [Users -> Restrictions]
  BY RestrictionTypes DEF Presence
<1>3. /\ Enforce(PolledChanges, ended, KnownOf, is)
      /\ rooms' = rooms
      /\ accounts' = RequestDiscarded(PolledRequests)
  BY DEF tick
<1> HIDE DEF ended, is
<1>4. accounts' \in [Users -> Account \cup {Unborn, Removed}]
  BY <1>1, <1>3, RestrictionTypes DEF Presence
<1>5. QED
  BY <1>1, <1>2, <1>3, <1>4, EnforceKeepsPresence

LEMMA AccountsKeepPresence ==
  ASSUME Presence, NEW c \in Connections, NEW u \in Users,
         \/ \E fresh \in Users, admin \in BOOLEAN : handle_create_user(c, u, fresh, admin)
         \/ \E target \in Users : handle_update_user(c, u, target)
  PROVE  Presence'
<1>1. TypeOK /\ Unrestricted \in Restrictions /\ \A v \in Users : Exists(v) => accounts[v] \in Account
  BY RestrictionTypes DEF Presence
<1>2. ASSUME NEW fresh \in Users, NEW admin \in BOOLEAN, handle_create_user(c, u, fresh, admin)
      PROVE  Presence'
  <2>1. [admin |-> admin, restrictions |-> Unrestricted, session_end_requested |-> FALSE] \in Account
    BY <1>1 DEF Account
  <2>2. QED
    BY <1>1, <1>2, <2>1, AccountWritesKeepPresence
    DEF handle_create_user, presence, places, TypeOK
<1>3. ASSUME NEW target \in Users, handle_update_user(c, u, target)
      PROVE  Presence'
  <2> DEFINE flipped == ~accounts[target].admin
             updated == [accounts[target] EXCEPT !.admin = flipped]
  <2>1. accounts[target] \in Account
    BY <1>1, <1>3 DEF handle_update_user
  <2>2. accounts' = [accounts EXCEPT ![target] = updated]
    BY <1>3 DEF handle_update_user
  <2>3. flipped \in BOOLEAN
    OBVIOUS
  <2> HIDE DEF flipped
  <2>4. updated \in Account
    BY <2>1, <2>3 DEF Account
  <2> HIDE DEF updated
  <2>5. accounts' \in [Users -> Account \cup {Unborn, Removed}]
    BY <1>1, <2>2, <2>4 DEF TypeOK
  <2>6. QED
    BY <1>3, <2>5, AccountWritesKeepPresence DEF handle_update_user, presence, places
<1>4. QED
  BY <1>2, <1>3

LEMMA DbadminKeepsPresence ==
  ASSUME Presence, NEW u \in Users, DbadminNext(u)
  PROVE  Presence'
<1>1. TypeOK /\ \A v \in Users : Exists(v) => accounts[v] \in Account
  BY RestrictionTypes DEF Presence
<1>2. ASSUME NEW after \in Takeable, DbadminRestrict(u, after)
      PROVE  accounts' \in [Users -> Account \cup {Unborn, Removed}]
  <2>1. after \in Restrictions
    BY HubAssumption
  <2> DEFINE updated == [accounts[u] EXCEPT !.restrictions = after]
  <2>2. accounts[u] \in Account
    BY <1>1, <1>2 DEF DbadminRestrict
  <2>3. accounts' = [accounts EXCEPT ![u] = updated]
    BY <1>2 DEF DbadminRestrict
  <2>4. updated \in Account
    BY <2>1, <2>2 DEF Account
  <2> HIDE DEF updated
  <2>5. QED
    BY <1>1, <2>3, <2>4 DEF TypeOK
<1>3. DbadminRemove(u) => accounts' \in [Users -> Account \cup {Unborn, Removed}]
  BY <1>1 DEF DbadminRemove, TypeOK
<1>4. DbadminEndSession(u) => accounts' \in [Users -> Account \cup {Unborn, Removed}]
  <2> DEFINE updated == [accounts[u] EXCEPT !.session_end_requested = TRUE]
  <2>1. SUFFICES ASSUME DbadminEndSession(u)
                 PROVE  accounts' \in [Users -> Account \cup {Unborn, Removed}]
    OBVIOUS
  <2>2. accounts[u] \in Account
    BY <1>1, <2>1 DEF DbadminEndSession
  <2>3. accounts' = [accounts EXCEPT ![u] = updated]
    BY <2>1 DEF DbadminEndSession
  <2>4. updated \in Account
    BY <2>2 DEF Account
  <2> HIDE DEF updated
  <2>5. QED
    BY <1>1, <2>3, <2>4 DEF TypeOK
<1>5. accounts' \in [Users -> Account \cup {Unborn, Removed}]
  BY <1>2, <1>3, <1>4 DEF DbadminNext
<1>6. UNCHANGED <<connections, user_to_connection, open_rows, rooms, people, user_to_room,
                  roster>>
  <2>1. UNCHANGED <<presence, rooms, places, roster>>
    BY DEF DbadminNext, DbadminRestrict, DbadminRemove, DbadminEndSession
  <2>2. QED
    BY <2>1 DEF presence, places
<1>7. QED
  BY <1>5, <1>6, AccountWritesKeepPresence
-----------------------------------------------------------------------------
(* Every step, and the theorem.                                            *)

LEMMA StepKeepsPresence == Presence /\ [Next]_vars => Presence'
<1> SUFFICES ASSUME Presence, [Next]_vars PROVE Presence'
  OBVIOUS
<1>1. ASSUME NEW c \in Connections, SocketNext(c) PROVE Presence'
  BY <1>1, ConnectKeepsPresence, DisconnectKeepsPresence, AuthenticateKeepsPresence DEF SocketNext
<1>2. ASSUME NEW c \in Connections, NEW u \in Users, ParticipantNext(c, u) PROVE Presence'
  BY <1>2, RoomWritesKeepPresence, RefusedJoinKeepsPresence, JoinKeepsPresence,
     LeavingKeepsPresence, InRoomKeepsPresence, EndingKeepsPresence DEF ParticipantNext
<1>3. ASSUME NEW c \in Connections, NEW u \in Users, AdministratorNext(c, u) PROVE Presence'
  BY <1>3, LeavingKeepsPresence, InRoomKeepsPresence, EndingKeepsPresence, AccountsKeepPresence,
     RestrictKeepsPresence, RoomWritesKeepPresence DEF AdministratorNext
<1>4. ASSUME NEW u \in Users, DbadminNext(u) PROVE Presence'
  BY <1>4, DbadminKeepsPresence
<1>5. CASE UNCHANGED vars
  BY <1>5, AccountWritesKeepPresence DEF vars, presence, places, Presence, TypeOK
<1>6. QED
  BY <1>1, <1>2, <1>3, <1>4, <1>5, TickKeepsPresence, RestartKeepsPresence DEF Next

(* The indexes by which the Hub finds people, by socket, by account and by *)
(* room, agree at all times: one account on one socket, and nobody in a    *)
(* room without one, whatever displaces, evicts, bans, deletes or kills.   *)
THEOREM IndexesAgree == Spec => []PresenceAgrees
<1>1. Presence => PresenceAgrees
  <2> SUFFICES ASSUME Presence PROVE NoGhosts
    BY DEF Presence, PresenceAgrees
  <2>1. ASSUME NEW u \in Users, NEW r \in RoomIds, contains(people, r, u)
        PROVE  user_to_room[u] = r /\ rooms[r] # NoRoom /\ user_to_connection[u] # NoConnection
    BY <2>1, RoomsAssumption DEF Presence, Placed, Housed
  <2>2. QED
    BY <2>1 DEF NoGhosts, Presence, IdentitiesAgree, TypeOK
<1>2. QED
  BY InitPresence, StepKeepsPresence, <1>1, PTL DEF Spec
-----------------------------------------------------------------------------
(* The session store, when no socket authenticates twice.                  *)

(* Whoever is signed out has the one row closed, and nobody else.          *)
LEMMA RowsFollowSockets ==
  ASSUME TypeOK, OneOpenSession, NEW S \in SUBSET Users
  PROVE  \A u \in Users : RowsWithout(S)[u] = IF Unmapped(S)[u] = NoConnection THEN 0 ELSE 1
BY DEF RowsWithout, Unmapped, OneOpenSession, TypeOK

LEMMA SigningOutKeepsRows ==
  ASSUME TypeOK, OneOpenSession, NEW S \in SUBSET Users,
         open_rows' = RowsWithout(S), user_to_connection' = Unmapped(S)
  PROVE  OneOpenSession'
BY RowsFollowSockets DEF OneOpenSession

LEMMA AuthenticateKeepsRows ==
  ASSUME Presence, OneOpenSession, SecondLogins = FALSE,
         NEW c \in Connections, NEW u \in Users, handle_authenticate(c, u)
  PROVE  OneOpenSession'
<1> DEFINE old == Displaced(u, c)
<1>1. /\ open_rows' = [RowsWithout(old) EXCEPT ![u] = @ + 1]
      /\ user_to_connection' = [user_to_connection EXCEPT ![u] = c]
      /\ connections[c].user = Nobody
  BY DEF handle_authenticate, MayAuthenticate
<1>2. TypeOK /\ IdentitiesAgree
  BY DEF Presence
<1>3. user_to_connection[u] # c
  BY <1>1, <1>2, RoomsAssumption DEF IdentitiesAgree, SignedIn
<1>4. /\ old = IF user_to_connection[u] = NoConnection THEN {} ELSE {u}
      /\ old \in SUBSET Users
  BY <1>3 DEF Displaced
<1> HIDE DEF old
<1>5. \A v \in Users : RowsWithout(old)[v] = IF Unmapped(old)[v] = NoConnection THEN 0 ELSE 1
  BY <1>2, <1>4, RowsFollowSockets
<1>6. \A v \in Users : Unmapped(old)[v] = IF v = u THEN NoConnection ELSE user_to_connection[v]
  BY <1>4 DEF Unmapped
<1>7. RowsWithout(old) \in [Users -> Nat]
  BY <1>2, <1>4, RowsType
<1>8. ASSUME NEW v \in Users
      PROVE  open_rows'[v] = IF user_to_connection'[v] = NoConnection THEN 0 ELSE 1
  <2>1. /\ open_rows'[v] = IF v = u THEN RowsWithout(old)[u] + 1 ELSE RowsWithout(old)[v]
        /\ user_to_connection'[v] = IF v = u THEN c ELSE user_to_connection[v]
    BY <1>1, <1>2, <1>7 DEF TypeOK
  <2>2. c # NoConnection
    BY HubAssumption
  <2>3. QED
    BY <1>5, <1>6, <2>1, <2>2
<1>9. QED
  BY <1>8 DEF OneOpenSession

LEMMA DisconnectKeepsRows ==
  ASSUME Presence, OneOpenSession, NEW c \in Connections, on_disconnect(c)
  PROVE  OneOpenSession'
<1> SUFFICES ASSUME NEW u \in Users
             PROVE  open_rows'[u] = IF user_to_connection'[u] = NoConnection THEN 0 ELSE 1
  BY DEF OneOpenSession
<1>1. /\ open_rows[u] = IF user_to_connection[u] = NoConnection THEN 0 ELSE 1
      /\ SignedIn(c, u) <=> user_to_connection[u] = c
      /\ c # NoConnection
  BY HubAssumption DEF OneOpenSession, Presence, IdentitiesAgree
<1>2. /\ open_rows'[u] = IF SignedIn(c, u) /\ open_rows[u] > 0 THEN open_rows[u] - 1 ELSE open_rows[u]
      /\ user_to_connection'[u] = IF SignedIn(c, u) /\ user_to_connection[u] = c
                                   THEN NoConnection ELSE user_to_connection[u]
  BY DEF on_disconnect
<1>3. QED
  BY <1>1, <1>2

(* What every other step does to the rows and to the sockets of accounts.  *)
LEMMA RowsAndSockets ==
  ASSUME [Next]_vars, Presence
  PROVE  \/ \E c \in Connections, u \in Users : handle_authenticate(c, u)
         \/ \E c \in Connections : on_disconnect(c)
         \/ \E S \in SUBSET Users : open_rows' = RowsWithout(S) /\ user_to_connection' = Unmapped(S)
         \/ open_rows' = open_rows /\ user_to_connection' = user_to_connection
         \/ open_rows' = [u \in Users |-> 0] /\ user_to_connection' = [u \in Users |-> NoConnection]
<1> DEFINE Unchanged == open_rows' = open_rows /\ user_to_connection' = user_to_connection
           Ended == \E S \in SUBSET Users :
                      open_rows' = RowsWithout(S) /\ user_to_connection' = Unmapped(S)
<1>1. ASSUME NEW c \in Connections, NEW u \in Users, ParticipantNext(c, u)
      PROVE  Unchanged \/ Ended
  BY <1>1 DEF ParticipantNext, handle_create_room, RefusedJoin, handle_join_room, handle_leave_room,
              handle_mute, ShareStart, ShareStop, handle_change_password, EndSessionsOf, presence
<1>2. ASSUME NEW c \in Connections, NEW u \in Users, AdministratorNext(c, u)
      PROVE  Unchanged \/ Ended
  <2>1. ASSUME NEW target \in Users, NEW after \in Takeable, handle_restrict_user(c, u, target, after)
        PROVE  Ended
    <3> DEFINE ended == IF after.banned /\ ~RestrictionsOf(target).banned THEN {target} ELSE {}
    <3>1. ended \in SUBSET Users
      OBVIOUS
    <3>2. open_rows' = RowsWithout(ended) /\ user_to_connection' = Unmapped(ended)
      BY <2>1 DEF handle_restrict_user, Enforce
    <3> HIDE DEF ended
    <3>3. QED
      BY <3>1, <3>2
  <2>2. QED
    BY <1>2, <2>1 DEF AdministratorNext, handle_kick, handle_force_mute, handle_end_session,
         handle_delete_user, handle_create_user, handle_update_user, handle_delete_room,
         handle_update_room, EndSessionsOf, presence
<1>3. ASSUME NEW u \in Users, DbadminNext(u) PROVE Unchanged
  BY <1>3 DEF DbadminNext, DbadminRestrict, DbadminRemove, DbadminEndSession, presence
<1>4. CASE tick
  <2> DEFINE ended == EndedBy(PolledChanges, PolledGone, PolledRequests)
  <2>1. ended \in SUBSET Users
    BY DEF EndedBy, PolledChanges, PolledGone, PolledRequests, Watched
  <2>2. open_rows' = RowsWithout(ended) /\ user_to_connection' = Unmapped(ended)
    BY <1>4 DEF tick, Enforce
  <2> HIDE DEF ended
  <2>3. QED
    BY <2>1, <2>2
<1>5. ASSUME NEW c \in Connections, on_connect(c) PROVE Unchanged
  BY <1>5 DEF on_connect
<1>6. CASE UNCHANGED vars
  BY <1>6 DEF vars
<1>7. QED
  BY <1>1, <1>2, <1>3, <1>4, <1>5, <1>6 DEF Next, SocketNext, Restart

LEMMA StepKeepsRows ==
  ASSUME Presence, OneOpenSession, SecondLogins = FALSE, [Next]_vars
  PROVE  OneOpenSession'
<1>1. TypeOK
  BY DEF Presence
<1>2. CASE open_rows' = open_rows /\ user_to_connection' = user_to_connection
  BY <1>2 DEF OneOpenSession
<1>3. CASE open_rows' = [u \in Users |-> 0] /\ user_to_connection' = [u \in Users |-> NoConnection]
  BY <1>3 DEF OneOpenSession
<1>4. QED
  BY <1>1, <1>2, <1>3, RowsAndSockets, AuthenticateKeepsRows, DisconnectKeepsRows,
     SigningOutKeepsRows

(* Without second logins on one socket, an account has exactly one row     *)
(* open in the session store while it is signed in, and none otherwise:    *)
(* no displacement, ban, deletion or disconnection closes one too few.     *)
THEOREM RowsMatchSockets ==
  ASSUME SecondLogins = FALSE
  PROVE  Spec => []OneOpenSession
<1>1. Init => OneOpenSession
  BY DEF Init, OneOpenSession
<1>2. Presence /\ OneOpenSession /\ [Next]_vars => OneOpenSession'
  BY StepKeepsRows
<1>3. QED
  BY InitPresence, StepKeepsPresence, <1>1, <1>2, PTL DEF Spec
-----------------------------------------------------------------------------
(* Requests of dbadmin.                                                    *)

LEMMA StepWastesNoRequest ==
  ASSUME Presence, SecondLogins = FALSE, [Next]_vars, NEW u \in Users, NEW c \in Connections,
         Requested(u), Exists(u)', ~Requested(u)', SignedIn(c, u)
  PROVE  ~SignedIn(c, u)'
<1>0. TypeOK /\ IdentitiesAgree /\ accounts[u] \in Account
  BY RestrictionTypes DEF Presence, Requested
<1>1. accounts'[u] # accounts[u]
  BY DEF Requested, Exists
<1>2. ASSUME NEW d \in Connections, NEW v \in Users, handle_authenticate(d, v)
      PROVE  ~SignedIn(c, u)'
  <2>1. v = u
    BY <1>1, <1>2 DEF handle_authenticate, RequestDiscarded
  <2>2. connections[d].user = Nobody
    BY <1>2 DEF handle_authenticate, MayAuthenticate
  <2>3. d # c
    BY <2>2, RoomsAssumption DEF SignedIn
  <2>4. user_to_connection'[u] = d
    BY <1>0, <1>2, <2>1 DEF handle_authenticate, TypeOK
  <2>5. IdentitiesAgree'
    BY <1>2, AuthenticateKeepsPresence DEF Presence
  <2>6. QED
    BY <2>3, <2>4, <2>5 DEF IdentitiesAgree
<1>3. CASE tick
  <2> DEFINE ended == EndedBy(PolledChanges, PolledGone, PolledRequests)
             is == [v \in Users |-> RestrictionsOf(v)]
  <2>1. u \in PolledRequests
    BY <1>1, <1>3 DEF tick, RequestDiscarded
  <2>2. /\ PolledChanges \in SUBSET Users
        /\ ended \in SUBSET Users
        /\ u \in ended
        /\ is \in [Users -> Restrictions]
    BY <1>0, <2>1, RestrictionTypes
    DEF EndedBy, PolledChanges, PolledGone, PolledRequests, Watched
  <2>3. Enforce(PolledChanges, ended, KnownOf, is)
    BY <1>3 DEF tick
  <2> HIDE DEF ended, is
  <2>4. QED
    BY <2>2, <2>3, EnforcedSockets
<1>4. ASSUME NEW d \in Connections, NEW v \in Users, AdministratorNext(d, v)
      PROVE  ~SignedIn(c, u)'
  <2>1. Removed \notin Account /\ Unborn \notin Account
    BY HubAssumption
  <2>2. ASSUME NEW target \in Users, handle_delete_user(d, v, target) PROVE FALSE
    BY <1>0, <1>1, <2>2 DEF handle_delete_user, TypeOK, Exists
  <2>3. ASSUME NEW fresh \in Users, NEW admin \in BOOLEAN, handle_create_user(d, v, fresh, admin)
        PROVE  FALSE
    BY <1>0, <1>1, <2>1, <2>3 DEF handle_create_user, TypeOK
  <2>4. ASSUME NEW target \in Users, handle_update_user(d, v, target) PROVE FALSE
    <3>1. accounts'[u].session_end_requested = accounts[u].session_end_requested
      BY <1>0, <2>4 DEF handle_update_user, TypeOK, Account
    <3>2. QED
      BY <3>1 DEF Requested
  <2>5. ASSUME NEW target \in Users, NEW after \in Takeable, handle_restrict_user(d, v, target, after)
        PROVE  FALSE
    <3>1. accounts'[u].session_end_requested = accounts[u].session_end_requested
      BY <1>0, <2>5 DEF handle_restrict_user, TypeOK, Account
    <3>2. QED
      BY <3>1 DEF Requested
  <2>6. QED
    BY <1>1, <1>4, <2>2, <2>3, <2>4, <2>5
    DEF AdministratorNext, handle_kick, handle_force_mute, handle_end_session,
        handle_delete_room, handle_update_room
<1>5. ASSUME NEW v \in Users, DbadminNext(v) PROVE FALSE
  <2>1. ASSUME NEW after \in Takeable, DbadminRestrict(v, after) PROVE FALSE
    <3>1. accounts'[u].session_end_requested = accounts[u].session_end_requested
      BY <1>0, <2>1 DEF DbadminRestrict, TypeOK, Account
    <3>2. QED
      BY <3>1 DEF Requested
  <2>2. ASSUME DbadminRemove(v) PROVE FALSE
    BY <1>0, <1>1, <2>2 DEF DbadminRemove, TypeOK, Exists
  <2>3. ASSUME DbadminEndSession(v) PROVE FALSE
    BY <1>0, <1>1, <2>3 DEF DbadminEndSession, TypeOK, Account, Requested
  <2>4. QED
    BY <1>5, <2>1, <2>2, <2>3 DEF DbadminNext
<1>6. ASSUME NEW d \in Connections, NEW v \in Users, ParticipantNext(d, v) PROVE FALSE
  BY <1>1, <1>6
  DEF ParticipantNext, handle_create_room, RefusedJoin, handle_join_room, handle_leave_room,
      handle_mute, ShareStart, ShareStop, handle_change_password
<1>7. ASSUME NEW d \in Connections, on_connect(d) \/ on_disconnect(d) PROVE FALSE
  BY <1>1, <1>7 DEF on_connect, on_disconnect
<1>8. QED
  BY <1>1, <1>2, <1>3, <1>4, <1>5, <1>6, <1>7 DEF Next, SocketNext, Restart, vars

(* Without second logins on one socket, a request of dbadmin for a session *)
(* to end is spent only on ending it: never on a socket that stays signed  *)
(* in, however heartbeats, logins and other writes are ordered.            *)
THEOREM NoRequestIsWasted ==
  ASSUME SecondLogins = FALSE
  PROVE  Spec => RequestsAreNotWasted
<1>1. Presence /\ [Next]_vars =>
        [\A u \in Users, c \in Connections :
           Requested(u) /\ Exists(u)' /\ ~Requested(u)' /\ SignedIn(c, u) => ~SignedIn(c, u)']_vars
  BY StepWastesNoRequest
<1>2. QED
  BY InitPresence, StepKeepsPresence, <1>1, PTL DEF Spec, RequestsAreNotWasted
-----------------------------------------------------------------------------
(***************************************************************************)
(* What an administrator takes stays taken, and somebody can always        *)
(* administer, as long as the server alone writes the restrictions and the *)
(* existence of accounts (dbadmin may ask for sessions to end).            *)
(*                                                                         *)
(* RestrictionsHold is made inductive by the cache: what a socket is known *)
(* to be under is what its account is under.  Without it, a heartbeat      *)
(* would find changes to enforce that somebody has enforced already, and   *)
(* lift a mute that is still in force.                                     *)
(***************************************************************************)
(* An entry is within what an account is under.                            *)
Respects(entry, limits) ==
  /\ limits.muted => entry.muted_by_admin
  /\ limits.screen_share_blocked => ~entry.sharing_screen

Restrained ==
  \A c \in Connections, u \in Users :
    SignedIn(c, u) =>
      /\ Exists(u)
      /\ ~RestrictionsOf(u).banned
      /\ connections[c].known = RestrictionsOf(u)
      /\ \A r \in RoomIds : contains(people, r, u) => Respects(people[r][u], RestrictionsOf(u))

(* Of what dbadmin may write, only requests for sessions to end.           *)
ServerWritesAlone == DbadminWrites \subseteq {"end_session"}
-----------------------------------------------------------------------------
(* Lemmas.                                                                 *)

(* Enforcing a change brings an entry within the new limits.               *)
LEMMA EnforcedRespects ==
  ASSUME NEW entry \in Participant, NEW before \in Restrictions, NEW after \in Restrictions,
         Respects(entry, before)
  PROVE  Respects(Enforced(entry, before, after), after)
<1> DEFINE muted == IF after.muted # before.muted THEN MuteSet(entry, after.muted, TRUE) ELSE entry
<1>1. after.muted \in BOOLEAN /\ before.muted \in BOOLEAN
  BY DEF Restrictions
<1>2. /\ muted \in Participant
      /\ after.muted => muted.muted_by_admin
      /\ muted.sharing_screen = entry.sharing_screen
  BY <1>1, EntryTypes DEF Respects, MuteSet, Participant
<1>3. Enforced(entry, before, after) =
        IF after.screen_share_blocked /\ ~before.screen_share_blocked
        THEN ShareStopped(muted) ELSE muted
  BY DEF Enforced
<1> HIDE DEF muted
<1>4. /\ ShareStopped(muted).muted_by_admin = muted.muted_by_admin
      /\ ShareStopped(muted).sharing_screen = FALSE
  BY <1>2 DEF ShareStopped, Participant
<1>5. QED
  BY <1>2, <1>3, <1>4 DEF Respects

(* Whoever stays signed in, under what they were under, with the entry     *)
(* they had or one that respects it.                                       *)
LEMMA RestrainedStays ==
  ASSUME Restrained,
         \A c \in Connections, u \in Users : SignedIn(c, u)' =>
           /\ SignedIn(c, u)
           /\ connections'[c].known = RestrictionsOf(u)
           /\ Exists(u)'
           /\ RestrictionsOf(u)' = RestrictionsOf(u)
           /\ \A r \in RoomIds : contains(people, r, u)' =>
                people'[r][u] = people[r][u] \/ Respects(people'[r][u], RestrictionsOf(u))
  PROVE  Restrained'
<1> SUFFICES ASSUME NEW c \in Connections, NEW u \in Users, SignedIn(c, u)'
             PROVE  /\ Exists(u)'
                    /\ ~RestrictionsOf(u)'.banned
                    /\ connections'[c].known = RestrictionsOf(u)'
                    /\ \A r \in RoomIds : contains(people, r, u)' =>
                         Respects(people'[r][u], RestrictionsOf(u)')
  BY DEF Restrained, Respects
<1>1. /\ SignedIn(c, u)
      /\ connections'[c].known = RestrictionsOf(u)
      /\ Exists(u)'
      /\ RestrictionsOf(u)' = RestrictionsOf(u)
      /\ \A r \in RoomIds : contains(people, r, u)' =>
           people'[r][u] = people[r][u] \/ Respects(people'[r][u], RestrictionsOf(u))
  OBVIOUS
<1>2. /\ ~RestrictionsOf(u).banned
      /\ \A r \in RoomIds : contains(people, r, u) => Respects(people[r][u], RestrictionsOf(u))
  BY <1>1 DEF Restrained
<1>3. \A r \in RoomIds : contains(people, r, u)' /\ people'[r][u] = people[r][u] => contains(people, r, u)
  BY DEF contains
<1>4. \A r \in RoomIds : contains(people, r, u)' => Respects(people'[r][u], RestrictionsOf(u))
  BY <1>1, <1>2, <1>3
<1>5. QED
  BY <1>1, <1>2, <1>4

(* Discarding requests leaves what accounts are otherwise.                 *)
LEMMA DiscardedRequests ==
  ASSUME TypeOK, NEW S \in SUBSET Users, accounts' = RequestDiscarded(S)
  PROVE  \A u \in Users :
           /\ Exists(u)' <=> Exists(u)
           /\ IsAdmin(u)' <=> IsAdmin(u)
           /\ RestrictionsOf(u)' = RestrictionsOf(u)
<1> SUFFICES ASSUME NEW u \in Users
             PROVE  /\ Exists(u)' <=> Exists(u)
                    /\ IsAdmin(u)' <=> IsAdmin(u)
                    /\ RestrictionsOf(u)' = RestrictionsOf(u)
  OBVIOUS
<1>1. Unborn \notin Account /\ Removed \notin Account
  BY HubAssumption
<1>2. CASE Exists(u) /\ u \in S
  <2>1. accounts[u] \in Account
    BY <1>2, RestrictionTypes
  <2>2. accounts'[u] = [accounts[u] EXCEPT !.session_end_requested = FALSE]
    BY <1>2 DEF RequestDiscarded
  <2>3. /\ accounts'[u] \in Account
        /\ accounts'[u].admin = accounts[u].admin
        /\ accounts'[u].restrictions = accounts[u].restrictions
    BY <2>1, <2>2 DEF Account
  <2>4. Exists(u)'
    BY <1>1, <2>3 DEF Exists
  <2>5. QED
    BY <1>2, <2>3, <2>4 DEF IsAdmin, RestrictionsOf
<1>3. CASE ~(Exists(u) /\ u \in S)
  <2>1. accounts'[u] = accounts[u]
    BY <1>3 DEF RequestDiscarded
  <2>2. QED
    BY <2>1 DEF Exists, IsAdmin, RestrictionsOf
<1>4. QED
  BY <1>2, <1>3

(* Under Restrained a heartbeat finds no change to enforce and nobody      *)
(* gone: only requests for sessions to end.                                *)
LEMMA NothingToEnforce ==
  ASSUME Presence, Restrained
  PROVE  /\ PolledChanges = {}
         /\ EndedBy(PolledChanges, PolledGone, PolledRequests) = PolledRequests
<1>1. ASSUME NEW u \in Watched
      PROVE  Exists(u) /\ KnownOf[u] = RestrictionsOf(u)
  <2> DEFINE c == CHOOSE d \in Connections : SignedIn(d, u)
  <2>1. c \in Connections /\ SignedIn(c, u)
    BY DEF Watched, IsSignedIn
  <2>2. KnownOf[u] = connections[c].known
    BY DEF KnownOf, Watched
  <2> HIDE DEF c
  <2>3. u \in Users
    BY DEF Watched
  <2>4. QED
    BY <2>1, <2>2, <2>3 DEF Restrained
<1>2. PolledChanges = {}
  BY <1>1 DEF PolledChanges
<1>3. PolledGone = {}
  BY <1>1 DEF PolledGone
<1>4. QED
  BY <1>2, <1>3 DEF EndedBy
-----------------------------------------------------------------------------
(* Steps that sign people out, or out of rooms.                            *)

(* Of whoever is still signed in, the socket, the account and the entry    *)
(* are as they were.                                                       *)
LEMMA DepartedRestrained ==
  ASSUME Presence, Restrained, NEW S \in SUBSET Users,
         people' = PeopleWithout(S),
         \A c \in Connections : connections'[c] \in {connections[c], Anonymous, Closed},
         \A c \in Connections, u \in Users : SignedIn(c, u)' =>
           SignedIn(c, u) /\ Exists(u)' /\ RestrictionsOf(u)' = RestrictionsOf(u)
  PROVE  Restrained'
<1>1. \A r \in RoomIds, u \in Users : people'[r][u] = people[r][u] \/ people'[r][u] = Absent
  BY DEF PeopleWithout
<1>2. ASSUME NEW c \in Connections, NEW u \in Users, SignedIn(c, u)'
      PROVE  /\ SignedIn(c, u)
             /\ connections'[c].known = RestrictionsOf(u)
             /\ Exists(u)'
             /\ RestrictionsOf(u)' = RestrictionsOf(u)
             /\ \A r \in RoomIds : contains(people, r, u)' => people'[r][u] = people[r][u]
  <2>1. SignedIn(c, u) /\ Exists(u)' /\ RestrictionsOf(u)' = RestrictionsOf(u)
    BY <1>2
  <2>2. connections'[c] = connections[c]
    BY <1>2, AnonymousSocket, RoomsAssumption DEF SignedIn, IsOpen
  <2>3. connections'[c].known = RestrictionsOf(u)
    BY <2>1, <2>2 DEF Restrained
  <2>4. \A r \in RoomIds : contains(people, r, u)' => people'[r][u] = people[r][u]
    BY <1>1 DEF contains
  <2>5. QED
    BY <2>1, <2>3, <2>4
<1>3. QED
  BY <1>2, RestrainedStays

(* The same, when the sockets are as they were.                            *)
LEMMA EvictedRestrained ==
  ASSUME Presence, Restrained, NEW S \in SUBSET Users,
         people' = PeopleWithout(S), UNCHANGED <<accounts, connections>>
  PROVE  Restrained'
<1>1. \A c \in Connections, u \in Users : SignedIn(c, u)' =>
        SignedIn(c, u) /\ Exists(u)' /\ RestrictionsOf(u)' = RestrictionsOf(u)
  BY DEF SignedIn, IsOpen, Exists, RestrictionsOf, Restrained
<1>2. \A c \in Connections : connections'[c] \in {connections[c], Anonymous, Closed}
  OBVIOUS
<1>3. QED
  BY <1>1, <1>2, DepartedRestrained

LEMMA SignedOutRestrained ==
  ASSUME Presence, Restrained, NEW S \in SUBSET Users, EndSessionsOf(S),
         \A u \in Users \ S : Exists(u)' = Exists(u) /\ RestrictionsOf(u)' = RestrictionsOf(u)
  PROVE  Restrained'
<1>1. TypeOK /\ IdentitiesAgree /\ Placed
  BY DEF Presence
<1>2. \A c \in Connections : connections'[c] \in {connections[c], Anonymous, Closed}
  BY DEF EndSessionsOf, SignedOut
<1>3. \A c \in Connections, u \in Users : SignedIn(c, u)' <=> SignedIn(c, u) /\ u \notin S
  BY <1>1, SessionsEnded
<1>4. \A c \in Connections, u \in Users : SignedIn(c, u)' =>
        SignedIn(c, u) /\ Exists(u)' /\ RestrictionsOf(u)' = RestrictionsOf(u)
  BY <1>3 DEF Restrained
<1>5. people' = PeopleWithout(S)
  BY DEF EndSessionsOf
<1>6. QED
  BY <1>2, <1>4, <1>5, DepartedRestrained

(* Accounts written, and nothing else: whoever exists is under what they   *)
(* were under.                                                             *)
LEMMA WrittenRestrained ==
  ASSUME Restrained, UNCHANGED <<connections, people>>,
         \A u \in Users : Exists(u) => Exists(u)' /\ RestrictionsOf(u)' = RestrictionsOf(u)
  PROVE  Restrained'
<1>1. ASSUME NEW c \in Connections, NEW u \in Users, SignedIn(c, u)'
      PROVE  /\ SignedIn(c, u)
             /\ connections'[c].known = RestrictionsOf(u)
             /\ Exists(u)'
             /\ RestrictionsOf(u)' = RestrictionsOf(u)
             /\ \A r \in RoomIds : people'[r][u] = people[r][u]
  BY <1>1 DEF SignedIn, IsOpen, Restrained
<1>2. QED
  BY <1>1, RestrainedStays
-----------------------------------------------------------------------------
(* Steps of a room.                                                        *)

(* One entry rewritten within the limits of its account.                   *)
LEMMA RewrittenRestrained ==
  ASSUME Presence, Restrained, NEW u \in Users, NEW entry \in Participant,
         user_to_room[u] # Nowhere, people' = Becomes(u, entry),
         roster' \in [Connections -> Roster],
         UNCHANGED <<accounts, connections, user_to_connection, open_rows, rooms, user_to_room>>,
         Respects(EntryOf(u), RestrictionsOf(u)) => Respects(entry, RestrictionsOf(u))
  PROVE  Restrained'
<1>1. \A r \in RoomIds, v \in Users :
        people'[r][v] = IF v = u /\ user_to_room[u] = r THEN entry ELSE people[r][v]
  BY RewritingKeepsPresence
<1>2. contains(people, user_to_room[u], u) /\ user_to_room[u] \in RoomIds
  BY EntryInRoom, RoomsAssumption DEF EntryOf, contains
<1>3. ASSUME NEW c \in Connections, NEW v \in Users, SignedIn(c, v)'
      PROVE  /\ SignedIn(c, v)
             /\ connections'[c].known = RestrictionsOf(v)
             /\ Exists(v)'
             /\ RestrictionsOf(v)' = RestrictionsOf(v)
             /\ \A r \in RoomIds : contains(people, r, v)' =>
                  people'[r][v] = people[r][v] \/ Respects(people'[r][v], RestrictionsOf(v))
  <2>1. SignedIn(c, v)
    BY <1>3 DEF SignedIn, IsOpen
  <2>2. Exists(v)' /\ RestrictionsOf(v)' = RestrictionsOf(v) /\ connections'[c].known = RestrictionsOf(v)
    BY <2>1 DEF Exists, RestrictionsOf, Restrained
  <2>3. v = u => Respects(entry, RestrictionsOf(u))
    BY <1>2, <2>1 DEF Restrained, EntryOf
  <2>4. QED
    BY <1>1, <2>1, <2>2, <2>3
<1>4. QED
  BY <1>3, RestrainedStays

LEMMA InRoomRestrained ==
  ASSUME Presence, Restrained, NEW c \in Connections, NEW u \in Users, NEW a \in BOOLEAN,
         \/ handle_mute(c, u, a)
         \/ ShareStart(c, u, a)
         \/ ShareStop(c, u)
         \/ \E target \in Users : handle_force_mute(c, u, target, a)
  PROVE  Restrained'
<1>1. roster \in [Connections -> Roster]
  BY DEF Presence, TypeOK
<1>2. CASE handle_mute(c, u, a)
  <2> DEFINE entry == MuteSet(EntryOf(u), a, FALSE)
  <2>1. EntryOf(u) \in Participant
    BY <1>2, EntryInRoom DEF handle_mute
  <2>2. entry \in Participant
    BY <2>1, EntryTypes
  <2>3. Respects(EntryOf(u), RestrictionsOf(u)) => Respects(entry, RestrictionsOf(u))
    BY <2>1 DEF MuteSet, Participant, Respects
  <2>4. people' = Becomes(u, entry) /\ user_to_room[u] # Nowhere
    BY <1>2 DEF handle_mute
  <2> HIDE DEF entry
  <2>5. QED
    BY <1>1, <1>2, <2>2, <2>3, <2>4, RewrittenRestrained DEF handle_mute, presence
<1>3. CASE ShareStart(c, u, a)
  <2> DEFINE entry == ShareStarted(EntryOf(u), a)
  <2>1. EntryOf(u) \in Participant
    BY <1>3, EntryInRoom DEF ShareStart
  <2>2. entry \in Participant
    BY <2>1, EntryTypes
  <2>3. Respects(EntryOf(u), RestrictionsOf(u)) => Respects(entry, RestrictionsOf(u))
    BY <1>3, <2>1 DEF ShareStart, ShareStarted, Participant, Respects
  <2>4. people' = Becomes(u, entry) /\ user_to_room[u] # Nowhere
    BY <1>3 DEF ShareStart
  <2>5. roster' \in [Connections -> Roster]
    BY <1>1, <1>3, ScreenRosterTypes DEF ShareStart
  <2> HIDE DEF entry
  <2>6. QED
    BY <1>3, <2>2, <2>3, <2>4, <2>5, RewrittenRestrained DEF ShareStart, presence
<1>4. CASE ShareStop(c, u)
  <2> DEFINE entry == ShareStopped(EntryOf(u))
  <2>1. EntryOf(u) \in Participant
    BY <1>4, EntryInRoom DEF ShareStop
  <2>2. entry \in Participant
    BY <2>1, EntryTypes
  <2>3. Respects(EntryOf(u), RestrictionsOf(u)) => Respects(entry, RestrictionsOf(u))
    BY <2>1 DEF ShareStopped, Participant, Respects
  <2>4. people' = Becomes(u, entry) /\ user_to_room[u] # Nowhere
    BY <1>4 DEF ShareStop
  <2>5. roster' \in [Connections -> Roster]
    BY <1>1, <1>4, ScreenRosterTypes DEF ShareStop
  <2> HIDE DEF entry
  <2>6. QED
    BY <1>4, <2>2, <2>3, <2>4, <2>5, RewrittenRestrained DEF ShareStop, presence
<1>5. ASSUME NEW target \in Users, handle_force_mute(c, u, target, a)
      PROVE  Restrained'
  <2> DEFINE entry == MuteSet(EntryOf(target), a, TRUE)
  <2>1. EntryOf(target) \in Participant
    BY <1>5, EntryInRoom DEF handle_force_mute
  <2>2. entry \in Participant
    BY <2>1, EntryTypes
  <2>3. a \/ ~RestrictionsOf(target).muted
    BY <1>5 DEF handle_force_mute
  <2>4. Respects(EntryOf(target), RestrictionsOf(target)) => Respects(entry, RestrictionsOf(target))
    BY <2>1, <2>3 DEF MuteSet, Participant, Respects
  <2>5. people' = Becomes(target, entry) /\ user_to_room[target] # Nowhere
    BY <1>5 DEF handle_force_mute
  <2> HIDE DEF entry
  <2>6. QED
    BY <1>1, <1>5, <2>2, <2>4, <2>5, RewrittenRestrained DEF handle_force_mute, presence
<1>6. QED
  BY <1>2, <1>3, <1>4, <1>5

(* The cache read again holds what it held.                                *)
LEMMA RefreshedKnown ==
  ASSUME TypeOK, NEW c \in Connections, NEW u \in Users, SignedIn(c, u), Restrained,
         connections' = Refreshed(c, u)
  PROVE  \A d \in Connections, v \in Users : SignedIn(d, v)' =>
           SignedIn(d, v) /\ connections'[d].known = RestrictionsOf(v)
<1>1. /\ connections[c] \in Connection
      /\ connections[c].user = u
  BY DEF SignedIn, IsOpen, TypeOK
<1>2. \A d \in Connections :
        connections'[d] = IF d = c THEN [connections[c] EXCEPT !.known = RestrictionsOf(u)]
                          ELSE connections[d]
  BY DEF Refreshed, TypeOK
<1>3. connections'[c].known = RestrictionsOf(u)
  BY <1>1, <1>2 DEF Connection
<1>4. ASSUME NEW d \in Connections, NEW v \in Users, SignedIn(d, v)'
      PROVE  SignedIn(d, v) /\ connections'[d].known = RestrictionsOf(v)
  <2>1. SignedIn(d, v)
    BY <1>4, RefreshedSockets
  <2>2. d = c => v = u
    BY <1>1, <2>1 DEF SignedIn
  <2>3. QED
    BY <1>2, <1>3, <2>1, <2>2 DEF Restrained
<1>5. QED
  BY <1>4

LEMMA JoinRestrained ==
  ASSUME Presence, Restrained, NEW c \in Connections, NEW u \in Users, NEW r \in RoomIds,
         RefusedJoin(c, u, r) \/ handle_join_room(c, u, r)
  PROVE  Restrained'
<1>1. /\ SignedIn(c, u)
      /\ connections' = Refreshed(c, u)
      /\ accounts' = accounts
  BY DEF RefusedJoin, handle_join_room
<1>2. \A q \in RoomIds, v \in Users :
        \/ people'[q][v] = people[q][v]
        \/ people'[q][v] = Absent
        \/ v = u /\ Respects(people'[q][u], RestrictionsOf(u))
  <2>1. CASE RefusedJoin(c, u, r)
    BY <2>1 DEF RefusedJoin, places
  <2>2. CASE handle_join_room(c, u, r)
    <3> DEFINE limits == RestrictionsOf(u)
               entry == IF limits.muted THEN MuteSet(Newcomer, TRUE, TRUE) ELSE Newcomer
    <3>1. people' = Arrived(r, u)
      BY <2>2 DEF handle_join_room
    <3>2. \A q \in RoomIds, v \in Users :
            people'[q][v] = IF v # u THEN people[q][v] ELSE IF q # r THEN Absent ELSE entry
      <4>1. /\ \A q \in RoomIds, v \in Users : v # u => Arrived(r, u)[q][v] = people[q][v]
            /\ \A q \in RoomIds : q # r => Arrived(r, u)[q][u] = Absent
            /\ Arrived(r, u)[r][u] = entry
        BY ArrivedEntries
      <4> HIDE DEF entry
      <4>2. QED
        BY <3>1, <4>1
    <3>3. /\ Newcomer.sharing_screen = FALSE
          /\ MuteSet(Newcomer, TRUE, TRUE).muted_by_admin = TRUE
          /\ MuteSet(Newcomer, TRUE, TRUE).sharing_screen = FALSE
      BY DEF Newcomer, MuteSet
    <3>4. Respects(entry, limits)
      BY <3>3 DEF Respects
    <3> HIDE DEF entry
    <3>5. QED
      BY <3>2, <3>4
  <2>3. QED
    BY <2>1, <2>2
<1>3. ASSUME NEW d \in Connections, NEW v \in Users, SignedIn(d, v)'
      PROVE  /\ SignedIn(d, v)
             /\ connections'[d].known = RestrictionsOf(v)
             /\ Exists(v)'
             /\ RestrictionsOf(v)' = RestrictionsOf(v)
             /\ \A q \in RoomIds : contains(people, q, v)' =>
                  people'[q][v] = people[q][v] \/ Respects(people'[q][v], RestrictionsOf(v))
  <2>1. SignedIn(d, v) /\ connections'[d].known = RestrictionsOf(v)
    BY <1>1, <1>3, RefreshedKnown DEF Presence
  <2>2. Exists(v)' /\ RestrictionsOf(v)' = RestrictionsOf(v)
    BY <1>1, <2>1 DEF Restrained, Exists, RestrictionsOf
  <2>3. \A q \in RoomIds : contains(people, q, v)' =>
          people'[q][v] = people[q][v] \/ Respects(people'[q][v], RestrictionsOf(v))
    BY <1>2 DEF contains
  <2>4. QED
    BY <2>1, <2>2, <2>3
<1>4. QED
  BY <1>3, RestrainedStays

(* Whoever signs in is in no room, and under what the account is under.    *)
LEMMA AuthenticateRestrained ==
  ASSUME Presence, Restrained, NEW c \in Connections, NEW u \in Users,
         handle_authenticate(c, u)
  PROVE  Restrained'
<1> DEFINE old == Displaced(u, c)
           fresh == [user |-> u, known |-> RestrictionsOf(u)]
<1>1. /\ MayAuthenticate(c, u)
      /\ Exists(u)
      /\ ~RestrictionsOf(u).banned
      /\ people' = PeopleWithout(old)
      /\ user_to_room' = RoomsWithout(old)
      /\ connections' = [SignedOut(old) EXCEPT ![c] = fresh]
      /\ accounts' = RequestDiscarded({u})
  BY DEF handle_authenticate
<1>2. TypeOK /\ IdentitiesAgree /\ Presence'
  BY AuthenticateKeepsPresence DEF Presence
<1>3. \A v \in Users : (Exists(v)' <=> Exists(v)) /\ RestrictionsOf(v)' = RestrictionsOf(v)
  BY <1>1, <1>2, DiscardedRequests
<1>4. \A r \in RoomIds : ~contains(people, r, u)'
  <2>1. user_to_room'[u] = Nowhere
    <3>1. CASE u \in old
      BY <1>1, <3>1 DEF RoomsWithout
    <3>2. CASE user_to_connection[u] = NoConnection
      BY <1>1, <3>2 DEF RoomsWithout, Presence, Housed
    <3>3. CASE user_to_connection[u] = c
      <4>1. connections[c].user = u
        BY <1>2, <3>3 DEF IdentitiesAgree, SignedIn
      <4>2. user_to_room[u] = Nowhere
        BY <1>1, <4>1, RoomsAssumption DEF MayAuthenticate
      <4>3. QED
        BY <1>1, <4>2 DEF RoomsWithout
    <3>4. QED
      BY <3>1, <3>2, <3>3 DEF Displaced
  <2>2. QED
    BY <1>2, <2>1, RoomsAssumption DEF Presence, Placed
<1>5. ASSUME NEW d \in Connections, NEW v \in Users, SignedIn(d, v)'
      PROVE  /\ Exists(v)'
             /\ ~RestrictionsOf(v)'.banned
             /\ connections'[d].known = RestrictionsOf(v)'
             /\ \A r \in RoomIds : contains(people, r, v)' =>
                  Respects(people'[r][v], RestrictionsOf(v)')
  <2>1. SignedOut(old) \in [Connections -> Connection \cup {Closed}]
    BY <1>2, SignedOutSockets DEF Displaced
  <2>2. connections'[d] = IF d = c THEN fresh ELSE SignedOut(old)[d]
    BY <1>1, <2>1
  <2>3. CASE d = c
    <3>1. v = u
      BY <2>2, <2>3, <1>5 DEF SignedIn
    <3>2. connections'[d].known = RestrictionsOf(u)
      BY <2>2, <2>3
    <3>3. QED
      BY <1>1, <1>3, <1>4, <3>1, <3>2
  <2>4. CASE d # c
    <3>1. connections'[d] = connections[d] /\ SignedIn(d, v)
      BY <1>5, <2>2, <2>4, AnonymousSocket, RoomsAssumption DEF SignedOut, SignedIn, IsOpen
    <3>2. \A r \in RoomIds : contains(people, r, v)' => people'[r][v] = people[r][v]
      BY <1>1 DEF PeopleWithout, contains
    <3>3. \A r \in RoomIds : contains(people, r, v)' => contains(people, r, v)
      BY <3>2 DEF contains
    <3>4. /\ Exists(v)
          /\ ~RestrictionsOf(v).banned
          /\ connections[d].known = RestrictionsOf(v)
          /\ \A r \in RoomIds : contains(people, r, v) => Respects(people[r][v], RestrictionsOf(v))
      BY <3>1 DEF Restrained
    <3>5. RestrictionsOf(v)' = RestrictionsOf(v) /\ (Exists(v)' <=> Exists(v))
      BY <1>3
    <3> HIDE DEF old, fresh
    <3>6. \A r \in RoomIds : contains(people, r, v)' => Respects(people'[r][v], RestrictionsOf(v))
      BY <3>2, <3>3, <3>4
    <3>7. QED
      BY <3>1, <3>4, <3>5, <3>6
  <2>5. QED
    BY <2>3, <2>4
<1>6. QED
  BY <1>5 DEF Restrained, Respects
-----------------------------------------------------------------------------
(* Steps of administrators, heartbeats and dbadmin.                        *)

LEMMA RestrictRestrained ==
  ASSUME Presence, Restrained, NEW c \in Connections, NEW u \in Users, NEW target \in Users,
         NEW after \in Takeable, handle_restrict_user(c, u, target, after)
  PROVE  Restrained'
<1> DEFINE limits == RestrictionsOf(target)
           ended == IF after.banned /\ ~limits.banned THEN {target} ELSE {}
           before == [v \in Users |-> RestrictionsOf(v)]
           is == [v \in Users |-> after]
<1>1. after \in Restrictions /\ TypeOK /\ Placed
  BY HubAssumption DEF Presence
<1>2. /\ {target} \in SUBSET Users
      /\ ended \in SUBSET Users
      /\ is \in [Users -> Restrictions]
      /\ \A v \in Users : is[v] = after /\ before[v] = RestrictionsOf(v)
      /\ target \notin ended /\ after.banned => limits.banned
  BY <1>1
<1>3. /\ Enforce({target}, ended, before, is)
      /\ accounts' = [accounts EXCEPT ![target].restrictions = after]
      /\ Exists(target)
  BY DEF handle_restrict_user
<1> HIDE DEF ended, before, is, limits
<1>4. \A v \in Users : v # target =>
        (Exists(v)' <=> Exists(v)) /\ RestrictionsOf(v)' = RestrictionsOf(v)
  BY <1>1, <1>3 DEF Exists, RestrictionsOf, TypeOK
<1>5. Exists(target)' /\ RestrictionsOf(target)' = after
  <2>1. accounts[target] \in Account
    BY <1>1, <1>3, RestrictionTypes
  <2>2. accounts'[target] = [accounts[target] EXCEPT !.restrictions = after]
    BY <1>1, <1>3 DEF TypeOK
  <2>3. accounts'[target] \in Account /\ accounts'[target].restrictions = after
    BY <1>1, <2>1, <2>2 DEF Account
  <2>4. Unborn \notin Account /\ Removed \notin Account
    BY HubAssumption
  <2>5. QED
    BY <2>3, <2>4 DEF Exists, RestrictionsOf
<1>6. /\ \A d \in Connections, v \in Users : SignedIn(d, v)' <=> SignedIn(d, v) /\ v \notin ended
      /\ \A d \in Connections, v \in Users :
           SignedIn(d, v) /\ v \notin ended =>
             connections'[d].known = IF v \in {target} THEN is[v] ELSE connections[d].known
  BY <1>2, <1>3, EnforcedSockets
<1>7. \A r \in RoomIds, v \in Users :
        /\ user_to_room[v] # r \/ v \in ended => people'[r][v] = Absent
        /\ user_to_room[v] = r /\ v \in {target} \ ended =>
             people'[r][v] = Enforced(people[r][v], before[v], is[v])
        /\ user_to_room[v] = r /\ v \notin {target} \cup ended => people'[r][v] = people[r][v]
  BY <1>2, <1>3, EnforcedEntries
<1>8. ASSUME NEW d \in Connections, NEW v \in Users, SignedIn(d, v)'
      PROVE  /\ Exists(v)'
             /\ ~RestrictionsOf(v)'.banned
             /\ connections'[d].known = RestrictionsOf(v)'
             /\ \A r \in RoomIds : contains(people, r, v)' =>
                  Respects(people'[r][v], RestrictionsOf(v)')
  <2>1. SignedIn(d, v) /\ v \notin ended
    BY <1>6, <1>8
  <2>2. /\ Exists(v)
        /\ ~RestrictionsOf(v).banned
        /\ connections[d].known = RestrictionsOf(v)
        /\ \A r \in RoomIds : contains(people, r, v) => Respects(people[r][v], RestrictionsOf(v))
    BY <2>1 DEF Restrained
  <2>3. CASE v # target
    <3>1. \A r \in RoomIds : contains(people, r, v)' =>
            people'[r][v] = people[r][v] /\ contains(people, r, v)
      BY <1>7, <2>3 DEF contains
    <3>2. connections'[d].known = connections[d].known
      BY <1>6, <2>1, <2>3
    <3>3. QED
      BY <1>4, <2>2, <2>3, <3>1, <3>2
  <2>4. CASE v = target
    <3>1. ~after.banned
      BY <1>2, <2>1, <2>2, <2>4 DEF limits
    <3>2. connections'[d].known = after
      BY <1>2, <1>6, <2>1, <2>4
    <3>3. ASSUME NEW r \in RoomIds, contains(people, r, v)'
          PROVE  Respects(people'[r][v], after)
      <4> DEFINE entry == people[r][v]
      <4>1. user_to_room[v] = r /\ people'[r][v] = Enforced(people[r][v], before[v], is[v])
        BY <1>7, <2>1, <2>4, <3>3 DEF contains
      <4>2. people'[r][v] = Enforced(entry, limits, after)
        BY <1>2, <2>4, <4>1 DEF limits
      <4>3. contains(people, r, v)
        BY <1>1, <4>1 DEF Placed
      <4>4. entry \in Participant /\ Respects(entry, limits)
        BY <1>1, <2>2, <2>4, <4>3 DEF TypeOK, contains, limits
      <4>5. limits \in Restrictions
        BY <1>1, RestrictionTypes DEF limits
      <4> HIDE DEF entry
      <4>6. QED
        BY <1>1, <4>2, <4>4, <4>5, EnforcedRespects
    <3>4. QED
      BY <1>5, <2>4, <3>1, <3>2, <3>3
  <2>5. QED
    BY <2>3, <2>4
<1>9. QED
  BY <1>8 DEF Restrained, Respects

LEMMA TickRestrained ==
  ASSUME Presence, Restrained, tick
  PROVE  Restrained'
<1> DEFINE is == [v \in Users |-> RestrictionsOf(v)]
<1>1. TypeOK /\ PolledRequests \in SUBSET Users /\ {} \in SUBSET Users
  BY DEF Presence, PolledRequests, Watched
<1>2. is \in [Users -> Restrictions]
  BY <1>1, RestrictionTypes
<1>3. Enforce({}, PolledRequests, KnownOf, is) /\ accounts' = RequestDiscarded(PolledRequests)
  BY NothingToEnforce DEF tick
<1> HIDE DEF is
<1>4. /\ \A d \in Connections, v \in Users :
           SignedIn(d, v)' <=> SignedIn(d, v) /\ v \notin PolledRequests
      /\ \A d \in Connections, v \in Users :
           SignedIn(d, v) /\ v \notin PolledRequests =>
             connections'[d].known = IF v \in {} THEN is[v] ELSE connections[d].known
  BY <1>1, <1>2, <1>3, EnforcedSockets
<1>5. \A r \in RoomIds, v \in Users :
        /\ user_to_room[v] # r \/ v \in PolledRequests => people'[r][v] = Absent
        /\ user_to_room[v] = r /\ v \notin {} \cup PolledRequests => people'[r][v] = people[r][v]
  BY <1>1, <1>2, <1>3, EnforcedEntries
<1>6. \A v \in Users : (Exists(v)' <=> Exists(v)) /\ RestrictionsOf(v)' = RestrictionsOf(v)
  BY <1>1, <1>3, DiscardedRequests
<1>7. ASSUME NEW d \in Connections, NEW v \in Users, SignedIn(d, v)'
      PROVE  /\ SignedIn(d, v)
             /\ connections'[d].known = RestrictionsOf(v)
             /\ Exists(v)'
             /\ RestrictionsOf(v)' = RestrictionsOf(v)
             /\ \A r \in RoomIds : contains(people, r, v)' => people'[r][v] = people[r][v]
  <2>1. SignedIn(d, v) /\ v \notin PolledRequests
    BY <1>4, <1>7
  <2>2. Exists(v) /\ connections'[d].known = RestrictionsOf(v)
    BY <1>4, <2>1 DEF Restrained
  <2>3. \A r \in RoomIds : contains(people, r, v)' => people'[r][v] = people[r][v]
    BY <1>5 DEF contains
  <2>4. QED
    BY <1>6, <2>1, <2>2, <2>3
<1>8. QED
  BY <1>7, RestrainedStays

LEMMA DeleteUserRestrained ==
  ASSUME Presence, Restrained, NEW c \in Connections, NEW u \in Users, NEW target \in Users,
         handle_delete_user(c, u, target)
  PROVE  Restrained'
<1>1. EndSessionsOf({target}) /\ accounts' = [accounts EXCEPT ![target] = Removed]
  BY DEF handle_delete_user
<1>2. \A v \in Users \ {target} : Exists(v)' = Exists(v) /\ RestrictionsOf(v)' = RestrictionsOf(v)
  BY <1>1 DEF Exists, RestrictionsOf, Presence, TypeOK
<1>3. QED
  BY <1>1, <1>2, SignedOutRestrained

LEMMA AccountsRestrained ==
  ASSUME Presence, Restrained, NEW u \in Users,
         \/ \E c \in Connections, fresh \in Users, admin \in BOOLEAN : handle_create_user(c, u, fresh, admin)
         \/ \E c \in Connections, target \in Users : handle_update_user(c, u, target)
         \/ DbadminEndSession(u)
  PROVE  Restrained'
<1>1. TypeOK /\ Unborn \notin Account /\ Removed \notin Account
  BY HubAssumption DEF Presence
<1>2. ASSUME NEW v \in Users, Exists(v)
      PROVE  Exists(v)' /\ RestrictionsOf(v)' = RestrictionsOf(v)
  <2>1. accounts[v] \in Account
    BY <1>1, <1>2, RestrictionTypes
  <2>2. SUFFICES accounts'[v] \in Account /\ accounts'[v].restrictions = accounts[v].restrictions
    BY <1>1, <1>2 DEF Exists, RestrictionsOf
  <2>3. ASSUME NEW c \in Connections, NEW fresh \in Users, NEW admin \in BOOLEAN,
               handle_create_user(c, u, fresh, admin)
        PROVE  accounts'[v] = accounts[v]
    BY <1>1, <2>1, <2>3 DEF handle_create_user, TypeOK
  <2>4. ASSUME NEW c \in Connections, NEW target \in Users, handle_update_user(c, u, target)
        PROVE  accounts'[v] \in Account /\ accounts'[v].restrictions = accounts[v].restrictions
    <3> DEFINE flipped == ~accounts[target].admin
    <3>1. accounts' = [accounts EXCEPT ![target].admin = flipped] /\ flipped \in BOOLEAN
      BY <2>4 DEF handle_update_user
    <3> HIDE DEF flipped
    <3>2. QED
      BY <1>1, <2>1, <3>1 DEF TypeOK, Account
  <2>5. ASSUME DbadminEndSession(u)
        PROVE  accounts'[v] \in Account /\ accounts'[v].restrictions = accounts[v].restrictions
    BY <1>1, <2>1, <2>5 DEF DbadminEndSession, TypeOK, Account
  <2>6. QED
    BY <2>1, <2>3, <2>4, <2>5
<1>3. UNCHANGED <<connections, people>>
  BY DEF handle_create_user, handle_update_user, DbadminEndSession, presence, places
<1>4. QED
  BY <1>2, <1>3, WrittenRestrained

LEMMA LeavingRestrained ==
  ASSUME Presence, Restrained, NEW c \in Connections, NEW u \in Users,
         \/ handle_leave_room(c, u)
         \/ \E target \in Users : handle_kick(c, u, target)
         \/ \E r \in RoomIds : handle_delete_room(c, u, r)
  PROVE  Restrained'
<1>1. PICK S \in SUBSET Users : people' = PeopleWithout(S)
  <2>1. \A r \in RoomIds : {v \in Users : user_to_room[v] = r} \in SUBSET Users
    OBVIOUS
  <2>2. QED
    BY <2>1 DEF handle_leave_room, handle_kick, handle_delete_room, Evict
<1>2. UNCHANGED <<accounts, connections>>
  BY DEF handle_leave_room, handle_kick, handle_delete_room, presence
<1>3. QED
  BY <1>1, <1>2, EvictedRestrained

LEMMA EndingRestrained ==
  ASSUME Presence, Restrained, NEW c \in Connections, NEW u \in Users,
         \/ handle_change_password(c, u)
         \/ \E target \in Users : handle_end_session(c, u, target)
  PROVE  Restrained'
<1>1. PICK S \in SUBSET Users : EndSessionsOf(S)
  BY DEF handle_change_password, handle_end_session
<1>2. \A v \in Users : Exists(v)' = Exists(v) /\ RestrictionsOf(v)' = RestrictionsOf(v)
  BY DEF handle_change_password, handle_end_session, Exists, RestrictionsOf
<1>3. QED
  BY <1>1, <1>2, SignedOutRestrained

LEMMA SocketRestrained ==
  ASSUME Presence, Restrained, NEW c \in Connections, on_connect(c) \/ on_disconnect(c)
  PROVE  Restrained'
<1>1. \A u \in Users : Exists(u)' = Exists(u) /\ RestrictionsOf(u)' = RestrictionsOf(u)
  BY DEF on_connect, on_disconnect, Exists, RestrictionsOf
<1>2. \A r \in RoomIds, u \in Users : people'[r][u] \in {people[r][u], Absent}
  BY DEF on_connect, on_disconnect, places, PeopleWithout
<1>3. ASSUME NEW d \in Connections, NEW u \in Users, SignedIn(d, u)'
      PROVE  connections'[d] = connections[d] /\ SignedIn(d, u)
  BY <1>3, AnonymousSocket, RoomsAssumption
  DEF on_connect, on_disconnect, SignedIn, IsOpen, Presence, TypeOK
<1>4. ASSUME NEW d \in Connections, NEW u \in Users, SignedIn(d, u)'
      PROVE  /\ SignedIn(d, u)
             /\ connections'[d].known = RestrictionsOf(u)
             /\ Exists(u)'
             /\ RestrictionsOf(u)' = RestrictionsOf(u)
             /\ \A r \in RoomIds : contains(people, r, u)' => people'[r][u] = people[r][u]
  BY <1>1, <1>2, <1>3, <1>4 DEF Restrained, contains
<1>5. QED
  BY <1>4, RestrainedStays

LEMMA StepRestrained ==
  ASSUME Presence, Restrained, ServerWritesAlone, [Next]_vars
  PROVE  Restrained'
<1>1. ASSUME NEW c \in Connections, SocketNext(c) PROVE Restrained'
  BY <1>1, SocketRestrained, AuthenticateRestrained DEF SocketNext
<1>2. ASSUME NEW c \in Connections, NEW u \in Users, ParticipantNext(c, u) PROVE Restrained'
  <2>1. ASSUME NEW r \in RoomIds, NEW capacity \in Capacities, handle_create_room(c, u, r, capacity)
        PROVE  Restrained'
    BY <2>1, WrittenRestrained DEF handle_create_room, presence, places, Exists, RestrictionsOf
  <2>2. QED
    BY <1>2, <2>1, JoinRestrained, LeavingRestrained, InRoomRestrained, EndingRestrained
    DEF ParticipantNext
<1>3. ASSUME NEW c \in Connections, NEW u \in Users, AdministratorNext(c, u) PROVE Restrained'
  <2>1. ASSUME NEW r \in RoomIds, NEW capacity \in Capacities, handle_update_room(c, u, r, capacity)
        PROVE  Restrained'
    BY <2>1, WrittenRestrained DEF handle_update_room, presence, places, Exists, RestrictionsOf
  <2>2. QED
    BY <1>3, <2>1, LeavingRestrained, InRoomRestrained, EndingRestrained, DeleteUserRestrained,
       AccountsRestrained, RestrictRestrained DEF AdministratorNext
<1>4. ASSUME NEW u \in Users, DbadminNext(u) PROVE Restrained'
  <2>1. "restrict" \notin DbadminWrites /\ "remove" \notin DbadminWrites
    BY DEF ServerWritesAlone
  <2>2. QED
    BY <1>4, <2>1, AccountsRestrained DEF DbadminNext, DbadminRestrict, DbadminRemove
<1>5. CASE Restart
  BY <1>5 DEF Restart, Restrained, SignedIn, IsOpen
<1>6. CASE UNCHANGED vars
  BY <1>6, WrittenRestrained DEF vars, presence, places, Exists, RestrictionsOf
<1>7. QED
  BY <1>1, <1>2, <1>3, <1>4, <1>5, <1>6, TickRestrained DEF Next

LEMMA InitRestrained == Init => Restrained
BY DEF Init, Restrained, SignedIn, IsOpen

(* What an administrator took stays taken: a banned or deleted account is  *)
(* signed in nowhere, a muted one is muted by the administrator in the     *)
(* room it is in, a blocked one shows no screen, whatever it does next.    *)
THEOREM RestrictionsStand ==
  ASSUME ServerWritesAlone
  PROVE  Spec => []RestrictionsHold
<1>1. Presence /\ Restrained /\ [Next]_vars => Restrained'
  BY StepRestrained
<1>2. Restrained => RestrictionsHold
  BY DEF Restrained, RestrictionsHold, Respects
<1>3. QED
  BY InitPresence, StepKeepsPresence, InitRestrained, <1>1, <1>2, PTL DEF Spec
-----------------------------------------------------------------------------
(* Somebody can administer.                                                *)

(* Whoever administers is not the one an administrator takes from, so they *)
(* are an administrator still.                                             *)
LEMMA AdministratorsStay ==
  ASSUME Presence, Restrained, NEW c \in Connections, NEW u \in Users, AdministratorNext(c, u),
         SomebodyCanAdminister
  PROVE  SomebodyCanAdminister'
<1>1. Administers(c, u)
  BY DEF AdministratorNext, handle_kick, handle_force_mute, handle_end_session, handle_delete_user,
         handle_create_user, handle_update_user, handle_restrict_user, handle_delete_room,
         handle_update_room
<1>2. /\ IsAdmin(u) /\ ~RestrictionsOf(u).banned
      /\ Exists(u) /\ accounts[u] # Unborn
      /\ TypeOK
  BY <1>1 DEF Administers, Restrained, IsAdmin, Exists, Presence
<1>3. accounts'[u] = accounts[u] \/ accounts' = accounts
  <2>1. ASSUME NEW target \in Users, handle_delete_user(c, u, target) PROVE accounts'[u] = accounts[u]
    BY <1>2, <2>1 DEF handle_delete_user, MayTakeFrom, TypeOK
  <2>2. ASSUME NEW fresh \in Users, NEW admin \in BOOLEAN, handle_create_user(c, u, fresh, admin)
        PROVE  accounts'[u] = accounts[u]
    BY <1>2, <2>2 DEF handle_create_user, TypeOK
  <2>3. ASSUME NEW target \in Users, handle_update_user(c, u, target) PROVE accounts'[u] = accounts[u]
    BY <1>2, <2>3 DEF handle_update_user, MayTakeFrom, TypeOK
  <2>4. ASSUME NEW target \in Users, NEW after \in Takeable, handle_restrict_user(c, u, target, after)
        PROVE  accounts'[u] = accounts[u]
    BY <1>2, <2>4 DEF handle_restrict_user, TypeOK
  <2>5. QED
    BY <2>1, <2>2, <2>3, <2>4
    DEF AdministratorNext, handle_kick, handle_force_mute, handle_end_session,
        handle_delete_room, handle_update_room
<1>4. IsAdmin(u)' /\ ~RestrictionsOf(u)'.banned
  BY <1>2, <1>3 DEF IsAdmin, Exists, RestrictionsOf
<1>5. QED
  BY <1>4 DEF SomebodyCanAdminister

LEMMA StepKeepsAdministrator ==
  ASSUME Presence, Restrained, ServerWritesAlone, SomebodyCanAdminister, [Next]_vars
  PROVE  SomebodyCanAdminister'
<1>1. TypeOK
  BY DEF Presence
<1>2. ASSUME accounts' = accounts PROVE SomebodyCanAdminister'
  BY <1>2 DEF SomebodyCanAdminister, IsAdmin, Exists, RestrictionsOf
<1>3. ASSUME NEW S \in SUBSET Users, accounts' = RequestDiscarded(S)
      PROVE  SomebodyCanAdminister'
  BY <1>1, <1>3, DiscardedRequests DEF SomebodyCanAdminister
<1>4. ASSUME NEW c \in Connections, SocketNext(c) PROVE SomebodyCanAdminister'
  BY <1>2, <1>3, <1>4 DEF SocketNext, on_connect, on_disconnect, handle_authenticate
<1>5. ASSUME NEW c \in Connections, NEW u \in Users, ParticipantNext(c, u)
      PROVE  SomebodyCanAdminister'
  BY <1>2, <1>5
  DEF ParticipantNext, handle_create_room, RefusedJoin, handle_join_room, handle_leave_room,
      handle_mute, ShareStart, ShareStop, handle_change_password
<1>6. ASSUME NEW u \in Users, DbadminNext(u) PROVE SomebodyCanAdminister'
  <2>1. accounts' = [accounts EXCEPT ![u].session_end_requested = TRUE] /\ Exists(u)
    BY <1>6 DEF DbadminNext, DbadminRestrict, DbadminRemove, DbadminEndSession, ServerWritesAlone
  <2>2. Unborn \notin Account /\ Removed \notin Account
    BY HubAssumption
  <2>3. \A v \in Users : (IsAdmin(v)' <=> IsAdmin(v)) /\ RestrictionsOf(v)' = RestrictionsOf(v)
    <3> SUFFICES ASSUME NEW v \in Users
                 PROVE  (IsAdmin(v)' <=> IsAdmin(v)) /\ RestrictionsOf(v)' = RestrictionsOf(v)
      OBVIOUS
    <3>1. CASE v = u
      <4>1. accounts[u] \in Account
        BY <1>1, <2>1, RestrictionTypes
      <4>2. accounts'[u] = [accounts[u] EXCEPT !.session_end_requested = TRUE]
        BY <1>1, <2>1 DEF TypeOK
      <4>3. /\ accounts'[u] \in Account
            /\ accounts'[u].admin = accounts[u].admin
            /\ accounts'[u].restrictions = accounts[u].restrictions
        BY <4>1, <4>2 DEF Account
      <4>4. Exists(u) /\ Exists(u)'
        BY <2>1, <2>2, <4>3 DEF Exists
      <4>5. QED
        BY <3>1, <4>3, <4>4 DEF IsAdmin, RestrictionsOf
    <3>2. CASE v # u
      <4>1. accounts'[v] = accounts[v]
        BY <1>1, <2>1, <3>2 DEF TypeOK
      <4>2. QED
        BY <4>1 DEF IsAdmin, Exists, RestrictionsOf
    <3>3. QED
      BY <3>1, <3>2
  <2>4. QED
    BY <2>3 DEF SomebodyCanAdminister
<1>7. CASE tick
  BY <1>3, <1>7 DEF tick, PolledRequests, Watched
<1>8. CASE Restart \/ UNCHANGED vars
  BY <1>2, <1>8 DEF Restart, vars
<1>9. QED
  BY <1>4, <1>5, <1>6, <1>7, <1>8, AdministratorsStay DEF Next

(* A server that starts with an administrator who can sign in always has   *)
(* one, whatever administrators do to each other: nobody takes from        *)
(* themselves, and whoever takes is an administrator who is not banned.    *)
THEOREM SomebodyAlwaysAdministers ==
  ASSUME ServerWritesAlone,
         \A start \in InitialAccounts : \E u \in Users :
           start[u] \in Account /\ start[u].admin /\ ~start[u].restrictions.banned
  PROVE  Spec => []SomebodyCanAdminister
<1>1. Init => SomebodyCanAdminister
  <2> SUFFICES ASSUME Init PROVE SomebodyCanAdminister
    OBVIOUS
  <2>1. PICK u \in Users :
          accounts[u] \in Account /\ accounts[u].admin /\ ~accounts[u].restrictions.banned
    BY DEF Init
  <2>2. Unborn \notin Account /\ Removed \notin Account
    BY HubAssumption
  <2>3. Exists(u)
    BY <2>1, <2>2 DEF Exists
  <2>4. QED
    BY <2>1, <2>3 DEF SomebodyCanAdminister, IsAdmin, RestrictionsOf
<1>2. Presence /\ Restrained /\ [Next]_vars => Restrained'
  BY StepRestrained
<1>3. Presence /\ Restrained /\ SomebodyCanAdminister /\ [Next]_vars => SomebodyCanAdminister'
  BY StepKeepsAdministrator
<1>4. QED
  BY InitPresence, StepKeepsPresence, InitRestrained, <1>1, <1>2, <1>3, PTL DEF Spec
-----------------------------------------------------------------------------
(***************************************************************************)
(* What the Hub announces adds up to what its rooms are.                   *)
(*                                                                         *)
(* A picture names one sharer, by a CHOOSE.  The inductive invariant, Told,*)
(* says instead of everybody inside whether the screen they show is the    *)
(* one a socket was told of; that a room has one sharer at most follows,   *)
(* since whoever is inside has a socket, and a socket was told of one.     *)
(***************************************************************************)

(* What a socket was told is what room r of the lists p is.                *)
Shows(told, p, r) ==
  /\ told.room = r
  /\ told.members = Occupants(p, r)
  /\ \A v \in Users : told.screen = v <=> Shares(p, r, v)
  /\ \A v \in Users : told.screen = v => told.has_audio = p[r][v].sharing_audio
  /\ told.screen = Nobody => told.has_audio = FALSE

Told ==
  \A c \in Connections, u \in Users :
    SignedIn(c, u) =>
      /\ user_to_room[u] = Nowhere => roster[c] = Nothing
      /\ user_to_room[u] # Nowhere => Shows(roster[c], people, user_to_room[u])

OneScreen == \A r \in RoomIds : \A u, v \in Sharers(people, r) : u = v
-----------------------------------------------------------------------------
(* Pictures.                                                               *)

(* What shows a room is its picture.                                       *)
LEMMA ShowsItsPicture ==
  ASSUME NEW told \in Roster, NEW p \in PeopleType, NEW r \in RoomIds, Shows(told, p, r)
  PROVE  told = Picture(p, r)
<1> DEFINE sharer == screen_sharer(p, r)
           heard == sharer # Nobody /\ p[r][sharer].sharing_audio
<1>1. \A u, v \in Sharers(p, r) : u = v
  BY DEF Shows, Sharers
<1>2. /\ \A u \in Users : u \in Sharers(p, r) => sharer = u
      /\ Sharers(p, r) = {} <=> sharer = Nobody
      /\ sharer # Nobody => sharer \in Sharers(p, r)
  BY <1>1, TheSharer
<1>3. told.screen \in Users \cup {Nobody} /\ told.has_audio \in BOOLEAN
  BY DEF Roster
<1>4. told.screen = sharer
  BY <1>2, <1>3, RoomsAssumption DEF Shows, Sharers
<1>5. told.has_audio = heard
  <2>1. CASE sharer = Nobody
    BY <1>4, <2>1 DEF Shows
  <2>2. CASE sharer # Nobody
    <3>1. sharer \in Users /\ p[r][sharer] \in Participant
      BY <1>2, <2>2 DEF Sharers, Shares, contains, PeopleType
    <3>2. p[r][sharer].sharing_audio \in BOOLEAN
      BY <3>1 DEF Participant
    <3>3. told.has_audio = p[r][sharer].sharing_audio
      BY <1>4, <3>1 DEF Shows
    <3>4. QED
      BY <2>2, <3>2, <3>3
  <2>3. QED
    BY <2>1, <2>2
<1>6. Picture(p, r) =
        [room |-> r, members |-> Occupants(p, r), screen |-> sharer, has_audio |-> heard]
  BY DEF Picture
<1> HIDE DEF sharer, heard
<1>7. QED
  BY <1>4, <1>5, <1>6 DEF Shows, Roster

(* The picture of a room with one sharer at most shows it.                 *)
LEMMA PictureShows ==
  ASSUME NEW p \in PeopleType, NEW r \in RoomIds, \A u, v \in Sharers(p, r) : u = v
  PROVE  Shows(Picture(p, r), p, r)
<1> DEFINE sharer == screen_sharer(p, r)
           heard == sharer # Nobody /\ p[r][sharer].sharing_audio
           told == [room |-> r, members |-> Occupants(p, r), screen |-> sharer, has_audio |-> heard]
<1>1. /\ \A u \in Users : u \in Sharers(p, r) => sharer = u
      /\ Sharers(p, r) = {} <=> sharer = Nobody
      /\ sharer # Nobody => sharer \in Sharers(p, r)
  BY TheSharer
<1>2. \A v \in Users : sharer = v <=> Shares(p, r, v)
  BY <1>1, RoomsAssumption DEF Sharers
<1>3. \A v \in Users : sharer = v => heard = p[r][v].sharing_audio
  <2> SUFFICES ASSUME NEW v \in Users, sharer = v PROVE heard = p[r][v].sharing_audio
    OBVIOUS
  <2>1. v # Nobody /\ p[r][v] \in Participant
    BY <1>2, RoomsAssumption DEF Shares, contains, PeopleType
  <2>2. p[r][v].sharing_audio \in BOOLEAN
    BY <2>1 DEF Participant
  <2>3. QED
    BY <2>1, <2>2
<1>4. sharer = Nobody => heard = FALSE
  OBVIOUS
<1>5. Picture(p, r) = told
  BY DEF Picture
<1> HIDE DEF sharer, heard
<1>6. /\ told.room = r
      /\ told.members = Occupants(p, r)
      /\ told.screen = sharer
      /\ told.has_audio = heard
  OBVIOUS
<1> HIDE DEF told
<1>7. QED
  BY <1>2, <1>3, <1>4, <1>5, <1>6 DEF Shows

(* Rooms with the same people look the same.                               *)
LEMMA SameRoomShows ==
  ASSUME NEW told, NEW p, NEW q, NEW r, Shows(told, p, r), \A u \in Users : q[r][u] = p[r][u]
  PROVE  Shows(told, q, r)
BY DEF Shows, Occupants, Shares, contains

(* Whoever is in a room has a socket, and that was told of one screen.     *)
LEMMA OneScreenIsTold == Presence /\ Told => OneScreen
<1> SUFFICES ASSUME Presence, Told, NEW r \in RoomIds,
                    NEW u \in Sharers(people, r), NEW v \in Sharers(people, r)
             PROVE  u = v
  BY DEF OneScreen
<1>1. u \in Users /\ v \in Users /\ user_to_room[u] = r /\ Shares(people, r, u) /\ Shares(people, r, v)
  BY DEF Sharers, Shares, Presence, Placed
<1>2. PICK c \in Connections : SignedIn(c, u)
  BY <1>1, RoomsAssumption DEF Presence, Housed, IdentitiesAgree, TypeOK
<1>3. Shows(roster[c], people, r)
  BY <1>1, <1>2, RoomsAssumption DEF Told
<1>4. QED
  BY <1>1, <1>3 DEF Shows
-----------------------------------------------------------------------------
(* Departures.                                                             *)

(* Whoever stays was told of everybody who left their room: what reaches   *)
(* their socket takes out the people, and the screen, that went.           *)
LEMMA StayersAreTold ==
  ASSUME Presence, Told, NEW S \in SUBSET Users, NEW c \in Connections, NEW u \in Users,
         SignedIn(c, u), u \notin S
  PROVE  /\ user_to_room[u] = Nowhere => RostersWithout(S)[c] = Nothing
         /\ user_to_room[u] # Nowhere =>
              Shows(RostersWithout(S)[c], PeopleWithout(S), user_to_room[u])
<1>1. TypeOK /\ IdentitiesAgree /\ Placed
  BY DEF Presence
<1>2. user_to_connection[u] = c /\ \A w \in Users : user_to_connection[w] = c => w = u
  <2>1. user_to_connection[u] = c
    BY <1>1 DEF IdentitiesAgree
  <2>2. \A w \in Users : user_to_connection[w] = c => SignedIn(c, w)
    BY <1>1 DEF IdentitiesAgree
  <2>3. QED
    BY <2>1, <2>2 DEF SignedIn
<1>3. ASSUME NEW r \in RoomIds
      PROVE  c \in Reached(user_to_room, r, S) <=> user_to_room[u] = r
  <2>1. c # NoConnection
    BY HubAssumption
  <2>2. QED
    BY <1>2, <2>1 DEF Reached
<1> DEFINE r == user_to_room[u]
<1>4. RostersWithout(S)[c] =
        IF \E v \in S : user_to_room[v] # Nowhere /\ c \in Reached(user_to_room, user_to_room[v], S)
        THEN WithoutMembers(roster[c], S) ELSE roster[c]
  BY DEF RostersWithout
<1>5. (\E v \in S : user_to_room[v] # Nowhere /\ c \in Reached(user_to_room, user_to_room[v], S))
        <=> (r # Nowhere /\ \E v \in S : user_to_room[v] = r)
  BY <1>1, <1>3 DEF TypeOK
<1>6. CASE r = Nowhere
  BY <1>4, <1>5, <1>6 DEF Told
<1>7. CASE r # Nowhere
  <2>1. Shows(roster[c], people, r) /\ r \in RoomIds /\ roster[c] \in Roster
    BY <1>1, <1>7 DEF Told, TypeOK
  <2>2. \A v \in Users : PeopleWithout(S)[r][v] = IF v \in S THEN Absent ELSE people[r][v]
    BY <1>1, <2>1 DEF PeopleWithout, Placed, contains
  <2> HIDE DEF r
  <2>3. CASE \E v \in S : user_to_room[v] = r
    <3> DEFINE told == roster[c]
               after == WithoutMembers(told, S)
    <3>1. RostersWithout(S)[c] = after
      BY <1>4, <1>5, <1>7, <2>3
    <3>2. /\ after.room = told.room
          /\ after.members = told.members \ S
          /\ after.screen = IF told.screen \in S THEN Nobody ELSE told.screen
          /\ after.has_audio = IF told.screen \in S THEN FALSE ELSE told.has_audio
      <4> HIDE DEF told
      <4>1. told \in Roster
        BY <2>1 DEF told
      <4>2. WithoutScreenOf(told, S) \in Roster
        BY <1>1, <4>1, RosterTypes DEF TypeOK
      <4>3. /\ WithoutScreenOf(told, S).room = told.room
            /\ WithoutScreenOf(told, S).members = told.members
            /\ WithoutScreenOf(told, S).screen = IF told.screen \in S THEN Nobody ELSE told.screen
            /\ WithoutScreenOf(told, S).has_audio = IF told.screen \in S THEN FALSE ELSE told.has_audio
        BY <4>1 DEF WithoutScreenOf, NewScreen, Roster
      <4>4. QED
        BY <4>2, <4>3 DEF WithoutMembers, Roster
    <3> HIDE DEF after
    <3>3. Shows(after, PeopleWithout(S), r)
      <4>1. after.members = Occupants(PeopleWithout(S), r)
        BY <2>1, <2>2, <3>2 DEF Shows, Occupants, contains
      <4>2. \A v \in Users : Shares(PeopleWithout(S), r, v) <=> v \notin S /\ Shares(people, r, v)
        BY <2>2 DEF Shares, contains
      <4>3. \A v \in Users : after.screen = v <=> Shares(PeopleWithout(S), r, v)
        BY <2>1, <3>2, <4>2, RoomsAssumption DEF Shows
      <4>4. \A v \in Users : after.screen = v => after.has_audio = PeopleWithout(S)[r][v].sharing_audio
        <5> SUFFICES ASSUME NEW v \in Users, after.screen = v
                     PROVE  after.has_audio = PeopleWithout(S)[r][v].sharing_audio
          OBVIOUS
        <5>1. v # Nobody
          BY RoomsAssumption
        <5>2. told.screen = v /\ v \notin S /\ after.has_audio = told.has_audio
          BY <3>2, <5>1
        <5>3. told.has_audio = people[r][v].sharing_audio
          BY <2>1, <5>2 DEF Shows
        <5>4. PeopleWithout(S)[r][v] = people[r][v]
          BY <2>2, <5>2
        <5>5. QED
          BY <5>2, <5>3, <5>4
      <4>5. after.screen = Nobody => after.has_audio = FALSE
        BY <2>1, <3>2 DEF Shows
      <4>6. QED
        BY <2>1, <3>2, <4>1, <4>3, <4>4, <4>5 DEF Shows
    <3>4. QED
      BY <1>7, <3>1, <3>3 DEF r
  <2>4. CASE ~\E v \in S : user_to_room[v] = r
    <3>1. RostersWithout(S)[c] = roster[c]
      BY <1>4, <1>5, <2>4
    <3>2. \A v \in Users : PeopleWithout(S)[r][v] = people[r][v]
      BY <2>1, <2>4 DEF PeopleWithout
    <3>3. Shows(roster[c], PeopleWithout(S), r)
      BY <2>1, <3>2, SameRoomShows
    <3>4. QED
      BY <1>7, <3>1, <3>3 DEF r
  <2>5. QED
    BY <2>3, <2>4
<1>8. QED
  BY <1>6, <1>7

(* Whoever is in S leaves.  The sockets in C are blanked: they are those   *)
(* of the people who left, or nobody on them is in a room.                 *)
LEMMA DepartedTold ==
  ASSUME Presence, Told, NEW S \in SUBSET Users, NEW C,
         people' = PeopleWithout(S), user_to_room' = RoomsWithout(S),
         roster' = Blanked(RostersWithout(S), C),
         \A c \in Connections, u \in Users :
           SignedIn(c, u)' => IF c \in C THEN user_to_room'[u] = Nowhere
                              ELSE SignedIn(c, u) /\ u \notin S
  PROVE  Told'
<1> SUFFICES ASSUME NEW c \in Connections, NEW u \in Users, SignedIn(c, u)'
             PROVE  /\ user_to_room'[u] = Nowhere => roster'[c] = Nothing
                    /\ user_to_room'[u] # Nowhere => Shows(roster'[c], people', user_to_room'[u])
  BY DEF Told, Shows, Occupants, Shares, contains
<1>1. CASE c \in C
  BY <1>1 DEF Blanked
<1>2. CASE c \notin C
  <2>1. SignedIn(c, u) /\ u \notin S
    BY <1>2
  <2>2. roster'[c] = RostersWithout(S)[c] /\ user_to_room'[u] = user_to_room[u]
    BY <1>2, <2>1 DEF Blanked, RoomsWithout
  <2>3. /\ user_to_room[u] = Nowhere => RostersWithout(S)[c] = Nothing
        /\ user_to_room[u] # Nowhere =>
             Shows(RostersWithout(S)[c], PeopleWithout(S), user_to_room[u])
    BY <2>1, StayersAreTold
  <2>4. QED
    BY <2>2, <2>3
<1>3. QED
  BY <1>1, <1>2

-----------------------------------------------------------------------------
(* What participants do in their rooms.                                    *)

(* The same people inside, of whom those in `hidden` show nothing any more *)
(* and the others show what they showed.                                   *)
LEMMA HiddenShows ==
  ASSUME NEW told \in Roster, NEW p, NEW q, NEW r, NEW hidden \in SUBSET Users, Shows(told, p, r),
         \A v \in Users : contains(q, r, v) <=> contains(p, r, v),
         \A v \in Users : Shares(q, r, v) <=> Shares(p, r, v) /\ v \notin hidden,
         \A v \in Users : Shares(q, r, v) => q[r][v].sharing_audio = p[r][v].sharing_audio
  PROVE  Shows(WithoutScreenOf(told, hidden), q, r)
<1> DEFINE after == WithoutScreenOf(told, hidden)
<1>1. /\ after.room = told.room
      /\ after.members = told.members
      /\ after.screen = IF told.screen \in hidden THEN Nobody ELSE told.screen
      /\ after.has_audio = IF told.screen \in hidden THEN FALSE ELSE told.has_audio
  BY DEF WithoutScreenOf, NewScreen, Roster
<1> HIDE DEF after
<1>2. after.members = Occupants(q, r)
  BY <1>1 DEF Shows, Occupants
<1>3. \A v \in Users : after.screen = v <=> Shares(q, r, v)
  BY <1>1, RoomsAssumption DEF Shows
<1>4. ASSUME NEW v \in Users, after.screen = v
      PROVE  after.has_audio = q[r][v].sharing_audio
  <2>1. v # Nobody /\ Shares(q, r, v)
    BY <1>3, <1>4, RoomsAssumption
  <2>2. told.screen = v /\ after.has_audio = told.has_audio
    BY <1>1, <1>4, <2>1
  <2>3. QED
    BY <2>1, <2>2 DEF Shows
<1>5. after.screen = Nobody => after.has_audio = FALSE
  BY <1>1 DEF Shows
<1>6. Shows(after, q, r)
  BY <1>1, <1>2, <1>3, <1>4, <1>5 DEF Shows
<1>7. QED
  BY <1>6 DEF after

(* One entry rewritten, and the room told of it.                           *)
LEMMA RewrittenTold ==
  ASSUME Presence, Told, NEW u \in Users, NEW entry \in Participant,
         user_to_room[u] # Nowhere, people' = Becomes(u, entry),
         UNCHANGED <<connections, user_to_room>>,
         \A c \in Connections : c \notin Roommates(u) => roster'[c] = roster[c],
         \A c \in Connections :
           Shows(roster[c], people, user_to_room[u]) /\ c \in Roommates(u) =>
             Shows(roster'[c], people', user_to_room[u])
  PROVE  Told'
<1> SUFFICES ASSUME NEW c \in Connections, NEW v \in Users, SignedIn(c, v)'
             PROVE  /\ user_to_room'[v] = Nowhere => roster'[c] = Nothing
                    /\ user_to_room'[v] # Nowhere => Shows(roster'[c], people', user_to_room'[v])
  BY DEF Told, Shows, Occupants, Shares, contains
<1>1. TypeOK /\ IdentitiesAgree /\ user_to_room[u] \in RoomIds
  BY DEF Presence, TypeOK
<1>2. SignedIn(c, v) /\ user_to_room'[v] = user_to_room[v]
  BY DEF SignedIn, IsOpen
<1>3. /\ user_to_room[v] = Nowhere => roster[c] = Nothing
      /\ user_to_room[v] # Nowhere => Shows(roster[c], people, user_to_room[v])
  BY <1>2 DEF Told
<1>4. c \in Roommates(u) <=> user_to_room[v] = user_to_room[u]
  <2>1. user_to_connection[v] = c /\ c # NoConnection
    BY <1>1, <1>2, HubAssumption DEF IdentitiesAgree
  <2>2. \A w \in Users : user_to_connection[w] = c => w = v
    BY <1>1, <1>2 DEF IdentitiesAgree, SignedIn
  <2>3. QED
    BY <2>1, <2>2 DEF Roommates, Reached
<1>5. CASE user_to_room[v] = user_to_room[u]
  BY <1>2, <1>3, <1>4, <1>5
<1>6. CASE user_to_room[v] # user_to_room[u]
  <2>1. roster'[c] = roster[c]
    BY <1>4, <1>6
  <2>2. user_to_room[v] # Nowhere =>
          \A w \in Users : people'[user_to_room[v]][w] = people[user_to_room[v]][w]
    BY <1>1, <1>6 DEF Becomes, Set, TypeOK
  <2>3. user_to_room[v] # Nowhere => Shows(roster[c], people', user_to_room[v])
    BY <1>3, <2>2, SameRoomShows
  <2>4. QED
    BY <1>2, <1>3, <2>1, <2>3
<1>7. QED
  BY <1>5, <1>6

(* A mute, one's own or an administrator's, is no part of the picture.     *)
LEMMA MuteTold ==
  ASSUME Presence, Told, NEW u \in Users, NEW a \in BOOLEAN, NEW b \in BOOLEAN,
         user_to_room[u] # Nowhere, people' = Becomes(u, MuteSet(EntryOf(u), a, b)),
         UNCHANGED <<connections, user_to_room, roster>>
  PROVE  Told'
<1> DEFINE r == user_to_room[u]
           entry == MuteSet(EntryOf(u), a, b)
<1>1. /\ r \in RoomIds /\ EntryOf(u) \in Participant /\ EntryOf(u) = people[r][u]
      /\ people \in PeopleType
  BY EntryInRoom DEF EntryOf, Presence, TypeOK, PeopleType
<1>2. /\ entry \in Participant
      /\ entry.sharing_screen = EntryOf(u).sharing_screen
      /\ entry.sharing_audio = EntryOf(u).sharing_audio
  <2>1. entry \in Participant
    BY <1>1, EntryTypes
  <2>2. entry.sharing_screen = EntryOf(u).sharing_screen
    BY <1>1, EntryFlags
  <2>3. entry.sharing_audio = EntryOf(u).sharing_audio
    BY <1>1, EntryFlags
  <2>4. QED
    BY <2>1, <2>2, <2>3
<1>3. people' = Becomes(u, entry)
  OBVIOUS
<1> HIDE DEF entry
<1>4. \A v \in Users : people'[r][v] = IF v = u THEN entry ELSE people[r][v]
  BY <1>1, <1>3 DEF Becomes, Set, PeopleType
<1>5. ASSUME NEW c \in Connections, Shows(roster[c], people, r)
      PROVE  Shows(roster'[c], people', r)
  <2>1. \A v \in Users :
          /\ contains(people', r, v) <=> contains(people, r, v)
          /\ people'[r][v].sharing_screen = people[r][v].sharing_screen
          /\ people'[r][v].sharing_audio = people[r][v].sharing_audio
    BY <1>1, <1>2, <1>4, RoomsAssumption DEF contains
  <2>2. roster'[c] = roster[c]
    OBVIOUS
  <2>3. Occupants(people', r) = Occupants(people, r)
    BY <2>1 DEF Occupants
  <2>4. \A v \in Users : Shares(people', r, v) <=> Shares(people, r, v)
    BY <2>1 DEF Shares
  <2>5. QED
    BY <1>5, <2>1, <2>2, <2>3, <2>4 DEF Shows
<1>6. QED
  BY <1>2, <1>3, <1>5, RewrittenTold

(* Whoever starts is the only one who shares, and everybody is told so.    *)
LEMMA ShareStartTold ==
  ASSUME Presence, Told, NEW c \in Connections, NEW u \in Users, NEW a \in BOOLEAN,
         ShareStart(c, u, a)
  PROVE  Told'
<1> DEFINE r == user_to_room[u]
           entry == ShareStarted(EntryOf(u), a)
<1>1. /\ r # Nowhere /\ r \in RoomIds /\ EntryOf(u) \in Participant
      /\ people \in PeopleType
      /\ roster \in [Connections -> Roster]
      /\ \A v \in Users : Shares(people, r, v) => v = u
  BY EntryInRoom DEF ShareStart, ScreenBusy, Sharers, Presence, TypeOK, PeopleType
<1>2. entry \in Participant /\ entry.sharing_screen = TRUE /\ entry.sharing_audio = a
  BY <1>1, EntryTypes, EntryFlags
<1>3. /\ people' = Becomes(u, entry)
      /\ roster' = ScreenShown(u, a)
      /\ UNCHANGED <<connections, user_to_room>>
  BY DEF ShareStart, presence
<1> HIDE DEF entry
<1>4. \A v \in Users : people'[r][v] = IF v = u THEN entry ELSE people[r][v]
  BY <1>1, <1>3 DEF Becomes, Set, PeopleType
<1>5. \A d \in Connections :
        roster'[d] = IF d \in Roommates(u) THEN NewScreen(roster[d], u, a) ELSE roster[d]
  BY <1>3 DEF ScreenShown
<1>6. ASSUME NEW d \in Connections, Shows(roster[d], people, r), d \in Roommates(u)
      PROVE  Shows(roster'[d], people', r)
  <2>1. /\ roster'[d].room = roster[d].room
        /\ roster'[d].members = roster[d].members
        /\ roster'[d].screen = u
        /\ roster'[d].has_audio = a
    BY <1>1, <1>5, <1>6 DEF NewScreen, Roster
  <2>2. contains(people, r, u) /\ entry # Absent
    BY <1>1, <1>2, RoomsAssumption DEF Presence, Placed
  <2>3. Occupants(people', r) = Occupants(people, r)
    BY <1>4, <2>2 DEF Occupants, contains
  <2>4. \A v \in Users : Shares(people', r, v) <=> v = u
    BY <1>1, <1>2, <1>4, <2>2 DEF Shares, contains
  <2>5. people'[r][u].sharing_audio = a /\ u # Nobody
    BY <1>2, <1>4, RoomsAssumption
  <2>6. QED
    BY <1>6, <2>1, <2>3, <2>4, <2>5 DEF Shows
<1>7. QED
  BY <1>1, <1>2, <1>3, <1>5, <1>6, RewrittenTold

LEMMA ShareStopTold ==
  ASSUME Presence, Told, NEW c \in Connections, NEW u \in Users, ShareStop(c, u)
  PROVE  Told'
<1> DEFINE r == user_to_room[u]
           entry == ShareStopped(EntryOf(u))
<1>1. /\ r # Nowhere /\ r \in RoomIds /\ EntryOf(u) \in Participant
      /\ people \in PeopleType
      /\ roster \in [Connections -> Roster]
  BY EntryInRoom DEF ShareStop, Presence, TypeOK, PeopleType
<1>2. entry \in Participant /\ ~entry.sharing_screen
  BY <1>1, EntryTypes DEF ShareStopped, Participant
<1>3. /\ people' = Becomes(u, entry)
      /\ roster' = ScreenHidden(u)
      /\ UNCHANGED <<connections, user_to_room>>
  BY DEF ShareStop, presence
<1> HIDE DEF entry
<1>4. \A v \in Users : people'[r][v] = IF v = u THEN entry ELSE people[r][v]
  BY <1>1, <1>3 DEF Becomes, Set, PeopleType
<1>5. \A d \in Connections :
        roster'[d] = IF d \in Roommates(u) THEN WithoutScreenOf(roster[d], {u}) ELSE roster[d]
  BY <1>3 DEF ScreenHidden
<1>6. ASSUME NEW d \in Connections, Shows(roster[d], people, r), d \in Roommates(u)
      PROVE  Shows(roster'[d], people', r)
  <2>1. contains(people, r, u) /\ entry # Absent
    BY <1>1, <1>2, RoomsAssumption DEF Presence, Placed
  <2>2. /\ \A v \in Users : contains(people', r, v) <=> contains(people, r, v)
        /\ \A v \in Users : Shares(people', r, v) <=> Shares(people, r, v) /\ v \notin {u}
        /\ \A v \in Users : Shares(people', r, v) =>
             people'[r][v].sharing_audio = people[r][v].sharing_audio
    BY <1>2, <1>4, <2>1 DEF Shares, contains
  <2>3. roster[d] \in Roster /\ {u} \in SUBSET Users
    BY <1>1
  <2>4. Shows(WithoutScreenOf(roster[d], {u}), people', r)
    BY <1>6, <2>2, <2>3, HiddenShows
  <2>5. QED
    BY <1>5, <1>6, <2>4
<1>7. QED
  BY <1>1, <1>2, <1>3, <1>5, <1>6, RewrittenTold

(* A newcomer is sent the picture, and everybody inside is told of them.   *)
LEMMA JoinTold ==
  ASSUME Presence, Told, NEW c \in Connections, NEW u \in Users, NEW r \in RoomIds,
         handle_join_room(c, u, r)
  PROVE  Told'
<1> DEFINE left == RostersWithout({u})
           met == Reached(user_to_room, r, {u})
           without == PeopleWithout({u})
<1>1. /\ SignedIn(c, u)
      /\ ~contains(people, r, u)
      /\ people' = Arrived(r, u)
      /\ user_to_room' = [user_to_room EXCEPT ![u] = r]
      /\ connections' = Refreshed(c, u)
      /\ UNCHANGED <<accounts, user_to_connection, open_rows, rooms>>
  BY DEF handle_join_room, Admits
<1>2. \A d \in Connections :
        roster'[d] = IF d = c THEN Picture(people', r)
                     ELSE IF d \in met THEN [left[d] EXCEPT !.members = @ \cup {u}] ELSE left[d]
  BY DEF handle_join_room
<1>3. TypeOK /\ IdentitiesAgree /\ Placed /\ user_to_room[u] # r
  BY <1>1 DEF Presence, Placed
<1>4. \A d \in Connections, v \in Users : SignedIn(d, v)' <=> SignedIn(d, v)
  BY <1>1, <1>3, RefreshedSockets
<1>5. /\ people' \in PeopleType
      /\ \A q \in RoomIds, v \in Users : v # u => people'[q][v] = people[q][v]
      /\ \A q \in RoomIds : q # r => people'[q][u] = Absent
      /\ people'[r][u] \in Participant /\ ~people'[r][u].sharing_screen
  <2>1. /\ Newcomer \in Participant /\ ~Newcomer.sharing_screen
        /\ MuteSet(Newcomer, TRUE, TRUE) \in Participant
    BY EntryTypes DEF Newcomer
  <2>2. MuteSet(Newcomer, TRUE, TRUE).sharing_screen = Newcomer.sharing_screen
    BY <2>1 DEF MuteSet, Participant
  <2>3. QED
    BY <1>1, <2>1, <2>2, ArrivedEntries
<1>6. /\ \A q \in RoomIds, v \in Users : v # u => without[q][v] = people'[q][v]
      /\ \A q \in RoomIds : without[q][u] = Absent
  BY <1>3, <1>5 DEF PeopleWithout, Placed, contains
<1>7. contains(people', r, u) /\ ~Shares(people', r, u)
  BY <1>5, RoomsAssumption DEF contains, Shares
<1>8. Shows(Picture(people', r), people', r)
  <2>1. \A v, w \in Sharers(people, r) : v = w
    BY OneScreenIsTold DEF OneScreen
  <2>2. Sharers(people', r) \subseteq Sharers(people, r)
    BY <1>5, <1>7 DEF Sharers, Shares, contains
  <2>3. QED
    BY <1>5, <2>1, <2>2, PictureShows
<1>9. \A q \in RoomIds : q # r => \A v \in Users : people'[q][v] = without[q][v]
  BY <1>5, <1>6
<1>10. ASSUME NEW told \in Roster, Shows(told, without, r)
       PROVE  Shows([told EXCEPT !.members = @ \cup {u}], people', r)
  <2> DEFINE after == [told EXCEPT !.members = @ \cup {u}]
  <2>1. /\ after.room = told.room
        /\ after.members = told.members \cup {u}
        /\ after.screen = told.screen
        /\ after.has_audio = told.has_audio
    BY DEF Roster
  <2> HIDE DEF after
  <2>2. Occupants(people', r) = Occupants(without, r) \cup {u}
    BY <1>6, <1>7 DEF Occupants, contains
  <2>3. \A v \in Users : Shares(people', r, v) <=> Shares(without, r, v)
    BY <1>6, <1>7 DEF Shares, contains
  <2>4. \A v \in Users : Shares(without, r, v) => without[r][v] = people'[r][v]
    BY <1>6 DEF Shares, contains
  <2> HIDE DEF without
  <2>5. Shows(after, people', r)
    BY <1>10, <2>1, <2>2, <2>3, <2>4 DEF Shows
  <2>6. QED
    BY <2>5 DEF after
<1>11. SUFFICES ASSUME NEW d \in Connections, NEW v \in Users, SignedIn(d, v)'
                PROVE  /\ user_to_room'[v] = Nowhere => roster'[d] = Nothing
                       /\ user_to_room'[v] # Nowhere => Shows(roster'[d], people', user_to_room'[v])
  BY DEF Told, Shows, Occupants, Shares, contains
<1>12. SignedIn(d, v) /\ user_to_room'[v] = IF v = u THEN r ELSE user_to_room[v]
  BY <1>1, <1>3, <1>4, <1>11 DEF TypeOK
<1>13. CASE v = u
  <2>1. d = c
    BY <1>1, <1>3, <1>12, <1>13 DEF IdentitiesAgree
  <2>2. QED
    BY <1>2, <1>8, <1>12, <1>13, <2>1, RoomsAssumption
<1>14. CASE v # u
  <2>1. d # c /\ user_to_connection[v] = d
    BY <1>1, <1>3, <1>12, <1>14 DEF IdentitiesAgree, SignedIn
  <2>2. d \in met <=> user_to_room[v] = r
    <3>1. d # NoConnection
      BY HubAssumption
    <3>2. \A w \in Users : user_to_connection[w] = d => w = v
      BY <1>3, <1>12 DEF IdentitiesAgree, SignedIn
    <3>3. QED
      BY <1>14, <2>1, <3>1, <3>2 DEF Reached
  <2>3. /\ user_to_room[v] = Nowhere => left[d] = Nothing
        /\ user_to_room[v] # Nowhere => Shows(left[d], without, user_to_room[v])
    BY <1>12, <1>14, StayersAreTold
  <2>4. left[d] \in Roster
    BY <1>3, RosterTypes DEF TypeOK
  <2>5. CASE user_to_room[v] = r
    <3>1. roster'[d] = [left[d] EXCEPT !.members = @ \cup {u}]
      BY <1>2, <2>1, <2>2, <2>5
    <3> HIDE DEF left, without
    <3>2. QED
      BY <1>10, <1>12, <1>14, <2>3, <2>4, <2>5, <3>1, RoomsAssumption
  <2>6. CASE user_to_room[v] # r
    <3>1. roster'[d] = left[d]
      BY <1>2, <2>1, <2>2, <2>6
    <3>2. user_to_room[v] \in RoomIds \cup {Nowhere}
      BY <1>3 DEF TypeOK
    <3> HIDE DEF left, without
    <3>3. user_to_room[v] # Nowhere => Shows(left[d], people', user_to_room[v])
      BY <1>9, <2>3, <2>6, <3>2, SameRoomShows
    <3>4. QED
      BY <1>12, <1>14, <2>3, <3>1, <3>3
  <2>7. QED
    BY <2>5, <2>6
<1>15. QED
  BY <1>13, <1>14
-----------------------------------------------------------------------------
(* Restrictions enforced.                                                  *)

(* What enforce makes of an entry: the share ends if the block is new.     *)
LEMMA EnforcedShares ==
  ASSUME NEW entry \in Participant, NEW before, NEW after \in Restrictions
  PROVE  LET hides == after.screen_share_blocked /\ ~before.screen_share_blocked
         IN /\ Enforced(entry, before, after).sharing_screen <=> entry.sharing_screen /\ ~hides
            /\ ~hides => Enforced(entry, before, after).sharing_audio = entry.sharing_audio
<1> DEFINE hides == after.screen_share_blocked /\ ~before.screen_share_blocked
           muted == IF after.muted # before.muted THEN MuteSet(entry, after.muted, TRUE) ELSE entry
<1>1. after.muted \in BOOLEAN
  BY DEF Restrictions
<1>2. /\ muted \in Participant
      /\ muted.sharing_screen = entry.sharing_screen
      /\ muted.sharing_audio = entry.sharing_audio
  BY <1>1, EntryTypes DEF MuteSet, Participant
<1>3. Enforced(entry, before, after) = IF hides THEN ShareStopped(muted) ELSE muted
  BY DEF Enforced
<1> HIDE DEF muted, hides
<1>4. ~ShareStopped(muted).sharing_screen
  BY <1>2 DEF ShareStopped, Participant
<1>5. /\ Enforced(entry, before, after).sharing_screen <=> entry.sharing_screen /\ ~hides
      /\ ~hides => Enforced(entry, before, after).sharing_audio = entry.sharing_audio
  BY <1>2, <1>3, <1>4
<1>6. QED
  BY <1>5 DEF hides

(* Whose share an enforcement ends without signing them out.               *)
Hidden(changed, ended, before, after) ==
  {v \in changed \ ended : after[v].screen_share_blocked /\ ~before[v].screen_share_blocked}

(* Who is inside after enforce, whose screen is shown and with what sound. *)
LEMMA EnforcedPictures ==
  ASSUME Presence, NEW changed \in SUBSET Users, NEW ended \in SUBSET Users,
         NEW before, NEW after \in [Users -> Restrictions],
         Enforce(changed, ended, before, after),
         NEW q \in RoomIds, NEW v \in Users
  PROVE  /\ contains(people', q, v) <=> contains(people, q, v) /\ v \notin ended
         /\ Shares(people', q, v) <=>
              Shares(people, q, v) /\ v \notin ended \cup Hidden(changed, ended, before, after)
         /\ Shares(people', q, v) => people'[q][v].sharing_audio = people[q][v].sharing_audio
<1> DEFINE hides == after[v].screen_share_blocked /\ ~before[v].screen_share_blocked
           hidden == Hidden(changed, ended, before, after)
<1>1. TypeOK /\ Placed
  BY DEF Presence
<1>2. \A r \in RoomIds, u \in Users :
        contains(people, r, u)' <=> contains(people, r, u) /\ u \notin ended
  BY EnforcedEntries
<1>3. \A r \in RoomIds, u \in Users :
        /\ user_to_room[u] # r \/ u \in ended => people'[r][u] = Absent
        /\ user_to_room[u] = r /\ u \in changed \ ended =>
             people'[r][u] = Enforced(people[r][u], before[u], after[u])
        /\ user_to_room[u] = r /\ u \notin changed \cup ended => people'[r][u] = people[r][u]
  <2> HIDE DEF hides, hidden
  <2>1. \A r \in RoomIds, u \in Users :
          user_to_room[u] # r \/ u \in ended => people'[r][u] = Absent
    BY <1>1, <1>2 DEF Placed, contains
  <2>2. \A r \in RoomIds, u \in Users :
          user_to_room[u] = r /\ u \in changed \ ended =>
            people'[r][u] = Enforced(people[r][u], before[u], after[u])
    BY EnforcedEntries
  <2>3. \A r \in RoomIds, u \in Users :
          user_to_room[u] = r /\ u \notin changed \cup ended => people'[r][u] = people[r][u]
    BY EnforcedEntries
  <2>4. QED
    BY <2>1, <2>2, <2>3
<1>4. contains(people', q, v) <=> contains(people, q, v) /\ v \notin ended
  BY <1>2 DEF contains
<1>5. v \in hidden <=> v \in changed \ ended /\ hides
  BY DEF Hidden
<1> HIDE DEF hidden
<1>6. CASE v \in ended \/ user_to_room[v] # q
  BY <1>1, <1>3, <1>4, <1>6 DEF Shares, contains, Placed, hidden
<1>7. CASE v \notin ended /\ user_to_room[v] = q /\ v \notin changed
  BY <1>3, <1>4, <1>5, <1>7 DEF Shares, hidden
<1>8. CASE v \notin ended /\ user_to_room[v] = q /\ v \in changed
  <2> DEFINE entry == people[q][v]
             was == before[v]
             is == after[v]
             enforced == Enforced(entry, was, is)
  <2>1. entry \in Participant /\ is \in Restrictions
    BY <1>1, <1>8 DEF Placed, contains, TypeOK
  <2>2. people'[q][v] = enforced
    BY <1>3, <1>8
  <2>3. hides <=> is.screen_share_blocked /\ ~was.screen_share_blocked
    OBVIOUS
  <2>4. v \in hidden <=> hides
    BY <1>5, <1>8
  <2> HIDE DEF entry, was, is, hides
  <2>5. /\ enforced.sharing_screen <=> entry.sharing_screen /\ ~hides
        /\ ~hides => enforced.sharing_audio = entry.sharing_audio
    BY <2>1, <2>3, EnforcedShares
  <2> HIDE DEF enforced
  <2>6. /\ Shares(people', q, v) <=> Shares(people, q, v) /\ v \notin ended \cup hidden
        /\ Shares(people', q, v) => people'[q][v].sharing_audio = people[q][v].sharing_audio
    BY <1>4, <1>8, <2>2, <2>4, <2>5 DEF Shares, entry
  <2>7. QED
    BY <1>4, <2>6 DEF hidden
<1>9. QED
  BY <1>6, <1>7, <1>8

LEMMA EnforceTold ==
  ASSUME Presence, Told, NEW changed \in SUBSET Users, NEW ended \in SUBSET Users,
         NEW before, NEW after \in [Users -> Restrictions],
         Enforce(changed, ended, before, after)
  PROVE  Told'
<1> DEFINE hidden == Hidden(changed, ended, before, after)
           left == Blanked(RostersWithout(ended), ConnectionsOf(ended))
           without == PeopleWithout(ended)
<1>1. TypeOK /\ IdentitiesAgree /\ Placed
  BY DEF Presence
<1>2. /\ user_to_room' = RoomsWithout(ended)
      /\ roster' = [c \in Connections |-> WithoutScreenOf(left[c], hidden)]
  BY DEF Enforce, Hidden
<1>3. \A c \in Connections, u \in Users : SignedIn(c, u)' <=> SignedIn(c, u) /\ u \notin ended
  BY EnforcedSockets
<1>4. ASSUME NEW q \in RoomIds, NEW v \in Users
      PROVE  /\ contains(people', q, v) <=> contains(people, q, v) /\ v \notin ended
             /\ Shares(people', q, v) <=> Shares(people, q, v) /\ v \notin ended \cup hidden
             /\ Shares(people', q, v) => people'[q][v].sharing_audio = people[q][v].sharing_audio
  BY EnforcedPictures
<1> HIDE DEF hidden
<1>5. ASSUME NEW q \in RoomIds, NEW v \in Users
      PROVE  /\ contains(people', q, v) <=> contains(without, q, v)
             /\ Shares(people', q, v) <=> Shares(without, q, v) /\ v \notin hidden
             /\ Shares(people', q, v) => people'[q][v].sharing_audio = without[q][v].sharing_audio
  <2>1. without[q][v] = IF v \in ended THEN Absent ELSE people[q][v]
    BY <1>1 DEF PeopleWithout, Placed, contains
  <2>2. contains(without, q, v) <=> contains(people, q, v) /\ v \notin ended
    BY <2>1 DEF contains
  <2>3. Shares(without, q, v) <=> Shares(people, q, v) /\ v \notin ended
    BY <2>1 DEF Shares, contains
  <2> HIDE DEF without
  <2>4. QED
    BY <1>4, <2>1, <2>2, <2>3
<1>6. SUFFICES ASSUME NEW c \in Connections, NEW u \in Users, SignedIn(c, u)'
               PROVE  /\ user_to_room'[u] = Nowhere => roster'[c] = Nothing
                      /\ user_to_room'[u] # Nowhere => Shows(roster'[c], people', user_to_room'[u])
  BY DEF Told, Shows, Occupants, Shares, contains
<1>7. SignedIn(c, u) /\ u \notin ended /\ user_to_room'[u] = user_to_room[u]
  BY <1>2, <1>3, <1>6 DEF RoomsWithout
<1>8. left[c] = RostersWithout(ended)[c] /\ left[c] \in Roster
  <2>1. c \notin ConnectionsOf(ended)
    BY <1>1, <1>7 DEF ConnectionsOf, IdentitiesAgree, SignedIn
  <2>2. RostersWithout(ended)[c] \in Roster
    BY <1>1, RosterTypes DEF TypeOK
  <2>3. QED
    BY <2>1, <2>2 DEF Blanked
<1>9. /\ user_to_room[u] = Nowhere => left[c] = Nothing
      /\ user_to_room[u] # Nowhere => Shows(left[c], without, user_to_room[u])
  BY <1>7, <1>8, StayersAreTold
<1>10. hidden \in SUBSET Users /\ roster'[c] = WithoutScreenOf(left[c], hidden)
  BY <1>2 DEF hidden, Hidden
<1>11. user_to_room[u] \in RoomIds \cup {Nowhere}
  BY <1>1 DEF TypeOK
<1> HIDE DEF left, without
<1>12. CASE user_to_room[u] = Nowhere
  <2>1. Nothing.screen \notin hidden
    BY <1>10, RoomsAssumption DEF Nothing
  <2>2. QED
    BY <1>7, <1>9, <1>10, <1>12, <2>1 DEF WithoutScreenOf
<1>13. CASE user_to_room[u] # Nowhere
  <2> DEFINE q == user_to_room[u]
             told == left[c]
  <2>1. q \in RoomIds /\ told \in Roster /\ Shows(told, without, q)
    BY <1>8, <1>9, <1>11, <1>13
  <2> HIDE DEF q, told
  <2>2. Shows(WithoutScreenOf(told, hidden), people', q)
    BY <1>5, <1>10, <2>1, HiddenShows
  <2>3. QED
    BY <1>7, <1>10, <1>13, <2>2 DEF q, told
<1>14. QED
  BY <1>12, <1>13

LEMMA RestrictTold ==
  ASSUME Presence, Told, NEW c \in Connections, NEW u \in Users, NEW target \in Users,
         NEW after \in Takeable, handle_restrict_user(c, u, target, after)
  PROVE  Told'
<1> DEFINE ended == IF after.banned /\ ~RestrictionsOf(target).banned THEN {target} ELSE {}
           before == [v \in Users |-> RestrictionsOf(v)]
           is == [v \in Users |-> after]
<1>1. after \in Restrictions
  BY HubAssumption
<1>2. {target} \in SUBSET Users /\ ended \in SUBSET Users /\ is \in [Users -> Restrictions]
  BY <1>1
<1>3. Enforce({target}, ended, before, is)
  BY DEF handle_restrict_user
<1> HIDE DEF ended, before, is
<1>4. QED
  BY <1>2, <1>3, EnforceTold

LEMMA TickTold ==
  ASSUME Presence, Told, tick
  PROVE  Told'
<1> DEFINE ended == EndedBy(PolledChanges, PolledGone, PolledRequests)
           is == [v \in Users |-> RestrictionsOf(v)]
<1>1. PolledChanges \in SUBSET Users /\ ended \in SUBSET Users
  BY DEF PolledChanges, PolledGone, PolledRequests, Watched, EndedBy
<1>2. is \in [Users -> Restrictions]
  BY RestrictionTypes DEF Presence
<1>3. Enforce(PolledChanges, ended, KnownOf, is)
  BY DEF tick
<1> HIDE DEF ended, is
<1>4. QED
  BY <1>1, <1>2, <1>3, EnforceTold
-----------------------------------------------------------------------------
(* Sockets, departures, and every step.                                    *)

(* Sockets signed in as they were, rooms and rosters untouched.            *)
LEMMA UntouchedTold ==
  ASSUME Told, UNCHANGED <<people, user_to_room, roster>>,
         \A c \in Connections, u \in Users : SignedIn(c, u)' => SignedIn(c, u)
  PROVE  Told'
BY DEF Told, Shows, Occupants, Shares, contains

(* Nobody is in a room on the socket somebody signs in on.                 *)
LEMMA AuthenticateTold ==
  ASSUME Presence, Told, NEW c \in Connections, NEW u \in Users, handle_authenticate(c, u)
  PROVE  Told'
<1> DEFINE old == Displaced(u, c)
           blank == ConnectionsOf(old) \cup {c}
<1>1. /\ MayAuthenticate(c, u)
      /\ people' = PeopleWithout(old)
      /\ user_to_room' = RoomsWithout(old)
      /\ connections' = [SignedOut(old) EXCEPT ![c] = [user |-> u, known |-> RestrictionsOf(u)]]
      /\ roster' = Blanked(RostersWithout(old), blank)
  BY DEF handle_authenticate
<1>2. old \in SUBSET Users /\ TypeOK /\ IdentitiesAgree /\ Housed
  BY DEF Displaced, Presence
<1>3. \A d \in Connections : connections'[d] =
        IF d = c THEN [user |-> u, known |-> RestrictionsOf(u)] ELSE SignedOut(old)[d]
  BY <1>1, <1>2, SignedOutSockets
<1>4. user_to_room'[u] = Nowhere
  <2>1. CASE user_to_connection[u] = NoConnection
    BY <1>1, <1>2, <2>1 DEF Housed, RoomsWithout
  <2>2. CASE user_to_connection[u] = c
    <3>1. connections[c].user = u
      BY <1>2, <2>2 DEF IdentitiesAgree, SignedIn
    <3>2. user_to_room[u] = Nowhere
      BY <1>1, <3>1, RoomsAssumption DEF MayAuthenticate
    <3>3. QED
      BY <1>1, <3>2 DEF RoomsWithout
  <2>3. CASE user_to_connection[u] \notin {NoConnection, c}
    BY <1>1, <2>3 DEF Displaced, RoomsWithout
  <2>4. QED
    BY <2>1, <2>2, <2>3
<1>5. ASSUME NEW d \in Connections, NEW v \in Users, SignedIn(d, v)'
      PROVE  IF d \in blank THEN user_to_room'[v] = Nowhere ELSE SignedIn(d, v) /\ v \notin old
  <2>1. CASE d = c
    <3>1. connections'[c].user = u
      BY <1>3
    <3>2. v = u
      BY <1>5, <2>1, <3>1 DEF SignedIn
    <3>3. QED
      BY <1>4, <2>1, <3>2
  <2>2. CASE d # c
    <3>1. connections'[d] = SignedOut(old)[d]
      BY <1>3, <2>2
    <3>2. SignedIn(d, v) /\ v \notin old
      BY <1>2, <1>5, <3>1, SignedOutSockets DEF SignedIn, IsOpen
    <3>3. d \notin ConnectionsOf(old)
      BY <1>2, <3>2 DEF ConnectionsOf, IdentitiesAgree, SignedIn
    <3>4. QED
      BY <2>2, <3>2, <3>3
  <2>3. QED
    BY <2>1, <2>2
<1> HIDE DEF old, blank
<1>6. QED
  BY <1>1, <1>2, <1>5, DepartedTold

LEMMA DisconnectTold ==
  ASSUME Presence, Told, NEW c \in Connections, on_disconnect(c)
  PROVE  Told'
<1> DEFINE gone == {u \in Users : SignedIn(c, u)}
<1>1. /\ people' = PeopleWithout(gone)
      /\ user_to_room' = RoomsWithout(gone)
      /\ roster' = Blanked(RostersWithout(gone), {c})
      /\ connections' = [connections EXCEPT ![c] = Closed]
  BY DEF on_disconnect
<1>2. gone \in SUBSET Users /\ TypeOK /\ IdentitiesAgree
  BY DEF Presence
<1>3. ASSUME NEW d \in Connections, NEW v \in Users, SignedIn(d, v)'
      PROVE  d # c /\ SignedIn(d, v) /\ v \notin gone
  <2>1. connections'[d] = IF d = c THEN Closed ELSE connections[d]
    BY <1>1, <1>2 DEF TypeOK
  <2>2. d # c /\ SignedIn(d, v)
    BY <1>3, <2>1 DEF SignedIn, IsOpen
  <2>3. QED
    BY <1>2, <2>2 DEF IdentitiesAgree
<1>4. \A d \in Connections, v \in Users : SignedIn(d, v)' =>
        IF d \in {c} THEN user_to_room'[v] = Nowhere ELSE SignedIn(d, v) /\ v \notin gone
  BY <1>3
<1> HIDE DEF gone
<1>5. QED
  BY <1>1, <1>2, <1>4, DepartedTold

(* Sessions ended: nobody in S is signed in any more.                      *)
LEMMA SignedOutTold ==
  ASSUME Presence, Told, NEW S \in SUBSET Users, EndSessionsOf(S)
  PROVE  Told'
<1>1. TypeOK /\ IdentitiesAgree /\ Placed
  BY DEF Presence
<1>2. ASSUME NEW c \in Connections, NEW u \in Users, SignedIn(c, u)'
      PROVE  SignedIn(c, u) /\ u \notin S /\ c \notin ConnectionsOf(S)
  <2>1. SignedIn(c, u) /\ u \notin S
    BY <1>1, <1>2, SessionsEnded
  <2>2. QED
    BY <1>1, <2>1 DEF ConnectionsOf, IdentitiesAgree, SignedIn
<1>3. QED
  BY <1>2, DepartedTold DEF EndSessionsOf

(* Evictions: whoever is in S is signed in still, and out of the room.     *)
LEMMA EvictedTold ==
  ASSUME Presence, Told, NEW S \in SUBSET Users,
         people' = PeopleWithout(S), user_to_room' = RoomsWithout(S),
         roster' = Blanked(RostersWithout(S), ConnectionsOf(S)), connections' = connections
  PROVE  Told'
<1>1. TypeOK /\ IdentitiesAgree
  BY DEF Presence
<1>2. ASSUME NEW c \in Connections, NEW u \in Users, SignedIn(c, u)'
      PROVE  IF c \in ConnectionsOf(S) THEN user_to_room'[u] = Nowhere
             ELSE SignedIn(c, u) /\ u \notin S
  <2>1. SignedIn(c, u) /\ user_to_connection[u] = c /\ c # NoConnection
    BY <1>1, <1>2, HubAssumption DEF SignedIn, IsOpen, IdentitiesAgree
  <2>2. c \in ConnectionsOf(S) <=> u \in S
    BY <1>1, <2>1 DEF ConnectionsOf, IdentitiesAgree, SignedIn
  <2>3. QED
    BY <2>1, <2>2 DEF RoomsWithout
<1>3. QED
  BY <1>2, DepartedTold

LEMMA LeavingTold ==
  ASSUME Presence, Told, NEW c \in Connections, NEW u \in Users,
         \/ handle_leave_room(c, u)
         \/ \E target \in Users : handle_kick(c, u, target)
         \/ \E r \in RoomIds : handle_delete_room(c, u, r)
  PROVE  Told'
<1>1. CASE handle_leave_room(c, u)
  <2>1. ConnectionsOf({u}) = {c}
    BY <1>1, HubAssumption DEF handle_leave_room, ConnectionsOf, Presence, IdentitiesAgree
  <2>2. QED
    BY <1>1, <2>1, EvictedTold DEF handle_leave_room, presence
<1>2. ASSUME NEW target \in Users, handle_kick(c, u, target) PROVE Told'
  BY <1>2, EvictedTold DEF handle_kick, Evict, presence
<1>3. ASSUME NEW r \in RoomIds, handle_delete_room(c, u, r) PROVE Told'
  <2> DEFINE inside == {v \in Users : user_to_room[v] = r}
  <2>1. Evict(inside) /\ connections' = connections /\ inside \in SUBSET Users
    BY <1>3 DEF handle_delete_room, presence
  <2> HIDE DEF inside
  <2>2. QED
    BY <2>1, EvictedTold DEF Evict
<1>4. QED
  BY <1>1, <1>2, <1>3

LEMMA StepTold ==
  ASSUME Presence, Told, [Next]_vars
  PROVE  Told'
<1>1. ASSUME NEW c \in Connections, SocketNext(c) PROVE Told'
  <2>1. CASE on_connect(c)
    <3>1. UNCHANGED <<people, user_to_room, roster>>
      BY <2>1 DEF on_connect, places
    <3>2. \A d \in Connections, v \in Users : SignedIn(d, v)' => SignedIn(d, v)
      BY <2>1, AnonymousSocket DEF on_connect, SignedIn, IsOpen, Presence, TypeOK
    <3>3. QED
      BY <3>1, <3>2, UntouchedTold
  <2>2. QED
    BY <1>1, <2>1, AuthenticateTold, DisconnectTold DEF SocketNext
<1>2. ASSUME NEW c \in Connections, NEW u \in Users, ParticipantNext(c, u) PROVE Told'
  <2>1. ASSUME NEW r \in RoomIds, NEW capacity \in Capacities, handle_create_room(c, u, r, capacity)
        PROVE  Told'
    BY <2>1, UntouchedTold DEF handle_create_room, presence, places, SignedIn, IsOpen
  <2>2. ASSUME NEW r \in RoomIds, RefusedJoin(c, u, r) PROVE Told'
    BY <2>2, UntouchedTold, RefreshedSockets DEF RefusedJoin, places, Presence
  <2>3. ASSUME NEW muted \in BOOLEAN, handle_mute(c, u, muted) PROVE Told'
    BY <2>3, MuteTold DEF handle_mute, presence
  <2>4. CASE handle_change_password(c, u)
    BY <2>4, SignedOutTold DEF handle_change_password
  <2>5. QED
    BY <1>2, <2>1, <2>2, <2>3, <2>4, JoinTold, LeavingTold, ShareStartTold, ShareStopTold
    DEF ParticipantNext
<1>3. ASSUME NEW c \in Connections, NEW u \in Users, AdministratorNext(c, u) PROVE Told'
  <2>1. ASSUME NEW target \in Users, NEW muted \in BOOLEAN, handle_force_mute(c, u, target, muted)
        PROVE  Told'
    BY <2>1, MuteTold DEF handle_force_mute, presence
  <2>2. ASSUME NEW target \in Users, handle_end_session(c, u, target) PROVE Told'
    BY <2>2, SignedOutTold DEF handle_end_session
  <2>3. ASSUME NEW target \in Users, handle_delete_user(c, u, target) PROVE Told'
    BY <2>3, SignedOutTold DEF handle_delete_user
  <2>4. CASE UNCHANGED <<connections, people, user_to_room, roster>>
    BY <2>4, UntouchedTold DEF SignedIn, IsOpen
  <2>5. ASSUME \/ \E fresh \in Users, admin \in BOOLEAN : handle_create_user(c, u, fresh, admin)
               \/ \E target \in Users : handle_update_user(c, u, target)
               \/ \E r \in RoomIds, capacity \in Capacities : handle_update_room(c, u, r, capacity)
        PROVE  UNCHANGED <<connections, people, user_to_room, roster>>
    BY <2>5 DEF handle_create_user, handle_update_user, handle_update_room, presence, places
  <2>6. QED
    BY <1>3, <2>1, <2>2, <2>3, <2>4, <2>5, LeavingTold, RestrictTold DEF AdministratorNext
<1>4. ASSUME NEW u \in Users, DbadminNext(u) PROVE Told'
  <2>1. UNCHANGED <<connections, people, user_to_room, roster>>
    BY <1>4 DEF DbadminNext, DbadminRestrict, DbadminRemove, DbadminEndSession, presence, places
  <2>2. QED
    BY <2>1, UntouchedTold DEF SignedIn, IsOpen
<1>5. CASE Restart
  BY <1>5 DEF Restart, Told, SignedIn, IsOpen
<1>6. CASE UNCHANGED vars
  BY <1>6, UntouchedTold DEF vars, SignedIn, IsOpen
<1>7. QED
  BY <1>1, <1>2, <1>3, <1>4, <1>5, <1>6, TickTold DEF Next

LEMMA InitTold == Init => Told
BY DEF Init, Told, SignedIn, IsOpen

(* What the Hub announces to a socket adds up, at all times, to the room   *)
(* its person is in: who is inside, whose screen is shown and with what    *)
(* sound.  No departure, displacement, eviction, ban or heartbeat, whoever *)
(* writes the accounts meanwhile, leaves a client with another picture.    *)
THEOREM EverybodyIsTold == Spec => []RostersAgree
<1>1. Presence /\ Told /\ [Next]_vars => Told'
  BY StepTold
<1>2. Presence /\ Told => RostersAgree
  <2> SUFFICES ASSUME Presence, Told, NEW c \in Connections, NEW u \in Users, SignedIn(c, u)
               PROVE  roster[c] = IF user_to_room[u] = Nowhere THEN Nothing
                                  ELSE Picture(people, user_to_room[u])
    BY DEF RostersAgree
  <2>1. CASE user_to_room[u] = Nowhere
    BY <2>1 DEF Told
  <2>2. CASE user_to_room[u] # Nowhere
    <3> DEFINE r == user_to_room[u]
               told == roster[c]
    <3>1. /\ told \in Roster /\ people \in PeopleType /\ r \in RoomIds
          /\ Shows(told, people, r)
      BY <2>2 DEF Told, Presence, TypeOK, PeopleType
    <3> HIDE DEF r, told
    <3>2. told = Picture(people, r)
      BY <3>1, ShowsItsPicture
    <3>3. QED
      BY <2>2, <3>2 DEF r, told
  <2>3. QED
    BY <2>1, <2>2
<1>3. QED
  BY InitPresence, StepKeepsPresence, InitTold, <1>1, <1>2, PTL DEF Spec
-----------------------------------------------------------------------------
(* The Hub implements ScreenFloor: whatever sockets, administrators,       *)
(* heartbeats and dbadmin do, each step is one of the abstract floor's, or *)
(* none.  That a room has one sharer at most is what its people were told. *)

(* Who leaves and who stops sharing in a step of the Hub.                  *)
LEMMA HubWithdraws ==
  ASSUME OneScreen, NEW out \in SUBSET Users, NEW hiding \in SUBSET Users,
         user_to_room' = RoomsWithout(out),
         \A q \in RoomIds : Sharers(people', q) = Sharers(people, q) \ (out \cup hiding)
  PROVE  Floor!Next
<1> DEFINE W == out \cup hiding
<1>1. /\ W \in SUBSET Users
      /\ \A q \in RoomIds : Sharers(people', q) = Sharers(people, q) \ W
      /\ \A q \in RoomIds : \A v, w \in Sharers(people, q) : v = w
  BY DEF OneScreen
<1> HIDE DEF W
<1>2. FloorOf(people') =
        [q \in RoomIds |-> IF FloorOf(people)[q] \in W THEN Nobody ELSE FloorOf(people)[q]]
  BY <1>1, FloorWithdrawn
<1>3. Floor!Withdraw(out, hiding)
  BY <1>2 DEF Floor!Withdraw, FloorOf, RoomsWithout, W
<1>4. QED
  BY <1>3 DEF Floor!Next

(* The people of S, wherever they are, leave.                              *)
LEMMA DeparturesWithdraw ==
  ASSUME Presence, OneScreen, NEW S \in SUBSET Users,
         people' = PeopleWithout(S), user_to_room' = RoomsWithout(S)
  PROVE  Floor!Next
<1>1. \A q \in RoomIds, v \in Users :
        people'[q][v] = IF v \in S THEN Absent ELSE people[q][v]
  BY DEF PeopleWithout, Presence, Placed, contains
<1>2. \A q \in RoomIds : Sharers(people', q) = Sharers(people, q) \ (S \cup {})
  BY <1>1 DEF Sharers, Shares, contains
<1>3. QED
  BY <1>2, HubWithdraws

(* Nobody moves, and the same people share.                                *)
LEMMA SameFloor ==
  ASSUME user_to_room' = user_to_room,
         \A q \in RoomIds : Sharers(people', q) = Sharers(people, q)
  PROVE  UNCHANGED Floor!floorVars
<1>1. FloorOf(people') = FloorOf(people)
  BY FloorUntouched
<1>2. QED
  BY <1>1 DEF Floor!floorVars, FloorOf

LEMMA JoinMoves ==
  ASSUME Presence, OneScreen, NEW c \in Connections, NEW u \in Users, NEW r \in RoomIds,
         handle_join_room(c, u, r)
  PROVE  Floor!Next
<1> DEFINE W == {u}
<1>1. /\ people' = Arrived(r, u)
      /\ user_to_room' = [user_to_room EXCEPT ![u] = r]
      /\ user_to_room[u] # r
  BY DEF handle_join_room, Admits, Presence, Placed
<1>2. /\ ~Newcomer.sharing_screen
      /\ ~MuteSet(Newcomer, TRUE, TRUE).sharing_screen
  <2>1. Newcomer \in Participant /\ ~Newcomer.sharing_screen
    BY EntryTypes DEF Newcomer
  <2>2. MuteSet(Newcomer, TRUE, TRUE).sharing_screen = Newcomer.sharing_screen
    BY <2>1, EntryFlags
  <2>3. QED
    BY <2>1, <2>2
<1>3. /\ \A q \in RoomIds, v \in Users : v # u => people'[q][v] = people[q][v]
      /\ \A q \in RoomIds : q # r => people'[q][u] = Absent
      /\ ~people'[r][u].sharing_screen
  BY <1>1, <1>2, ArrivedEntries
<1>4. /\ W \in SUBSET Users
      /\ \A q \in RoomIds : Sharers(people', q) = Sharers(people, q) \ W
      /\ \A q \in RoomIds : \A v, w \in Sharers(people, q) : v = w
  BY <1>3 DEF OneScreen, Sharers, Shares, contains
<1> HIDE DEF W
<1>5. FloorOf(people') =
        [q \in RoomIds |-> IF FloorOf(people)[q] \in W THEN Nobody ELSE FloorOf(people)[q]]
  BY <1>4, FloorWithdrawn
<1>6. Floor!Move(u, r)
  BY <1>1, <1>5 DEF Floor!Move, FloorOf, W
<1>7. QED
  BY <1>6 DEF Floor!Next

(* One entry rewritten, by its sharing before and after.                   *)
LEMMA RewrittenSharers ==
  ASSUME Presence, NEW u \in Users, NEW entry \in Participant,
         user_to_room[u] # Nowhere, people' = Becomes(u, entry)
  PROVE  /\ \A q \in RoomIds : q # user_to_room[u] => Sharers(people', q) = Sharers(people, q)
         /\ \A q \in RoomIds : q # user_to_room[u] => u \notin Sharers(people, q)
         /\ Sharers(people', user_to_room[u]) =
              IF entry.sharing_screen THEN Sharers(people, user_to_room[u]) \cup {u}
              ELSE Sharers(people, user_to_room[u]) \ {u}
<1> DEFINE r == user_to_room[u]
<1>1. r \in RoomIds /\ people \in PeopleType /\ \A q \in RoomIds : q # r => people[q][u] = Absent
  BY EntryInRoom DEF Presence, TypeOK, PeopleType
<1>2. \A q \in RoomIds, v \in Users :
        people'[q][v] = IF q = r /\ v = u THEN entry ELSE people[q][v]
  BY <1>1 DEF Becomes, Set, PeopleType
<1>3. entry # Absent
  BY RoomsAssumption
<1> HIDE DEF r
<1>4. /\ \A q \in RoomIds : q # r => Sharers(people', q) = Sharers(people, q)
      /\ \A q \in RoomIds : q # r => u \notin Sharers(people, q)
  BY <1>1, <1>2 DEF Sharers, Shares, contains
<1>5. Sharers(people', r) = IF entry.sharing_screen THEN Sharers(people, r) \cup {u}
                            ELSE Sharers(people, r) \ {u}
  BY <1>1, <1>2, <1>3 DEF Sharers, Shares, contains
<1>6. QED
  BY <1>4, <1>5 DEF r

LEMMA MuteStutters ==
  ASSUME Presence, NEW u \in Users, NEW a \in BOOLEAN, NEW b \in BOOLEAN,
         user_to_room[u] # Nowhere, people' = Becomes(u, MuteSet(EntryOf(u), a, b)),
         user_to_room' = user_to_room
  PROVE  UNCHANGED Floor!floorVars
<1> DEFINE r == user_to_room[u]
           entry == MuteSet(EntryOf(u), a, b)
<1>1. /\ r \in RoomIds /\ EntryOf(u) \in Participant /\ EntryOf(u) = people[r][u]
      /\ contains(people, r, u)
  BY EntryInRoom DEF EntryOf, Presence, Placed
<1>2. entry \in Participant /\ entry.sharing_screen = people[r][u].sharing_screen
  <2>1. entry \in Participant
    BY <1>1, EntryTypes
  <2>2. entry.sharing_screen = EntryOf(u).sharing_screen
    BY <1>1, EntryFlags
  <2>3. QED
    BY <1>1, <2>1, <2>2
<1>3. people' = Becomes(u, entry)
  OBVIOUS
<1> HIDE DEF entry
<1>4. /\ \A q \in RoomIds : q # r => Sharers(people', q) = Sharers(people, q)
      /\ Sharers(people', r) = IF entry.sharing_screen THEN Sharers(people, r) \cup {u}
                               ELSE Sharers(people, r) \ {u}
  BY <1>2, <1>3, RewrittenSharers
<1>5. entry.sharing_screen <=> u \in Sharers(people, r)
  BY <1>1, <1>2 DEF Sharers, Shares
<1>6. QED
  BY <1>4, <1>5, SameFloor

LEMMA ShareStartTakes ==
  ASSUME Presence, NEW c \in Connections, NEW u \in Users, NEW a \in BOOLEAN, ShareStart(c, u, a)
  PROVE  [Floor!Next]_(Floor!floorVars)
<1> DEFINE r == user_to_room[u]
           entry == ShareStarted(EntryOf(u), a)
<1>1. /\ r # Nowhere /\ r \in RoomIds /\ EntryOf(u) \in Participant
      /\ Sharers(people, r) \subseteq {u}
      /\ user_to_room' = user_to_room
  BY EntryInRoom DEF ShareStart, ScreenBusy, EntryOf
<1>2. entry \in Participant /\ entry.sharing_screen /\ people' = Becomes(u, entry)
  BY <1>1, EntryTypes, EntryFlags DEF ShareStart
<1> HIDE DEF entry
<1>3. /\ \A q \in RoomIds : q # r => Sharers(people', q) = Sharers(people, q)
      /\ Sharers(people', r) = {u}
  BY <1>1, <1>2, RewrittenSharers
<1>4. CASE u \in Sharers(people, r)
  BY <1>1, <1>3, <1>4, SameFloor
<1>5. CASE u \notin Sharers(people, r)
  <2>1. Sharers(people, r) = {}
    BY <1>1, <1>5
  <2> HIDE DEF r
  <2>2. /\ FloorOf(people)[r] = Nobody
        /\ FloorOf(people') = [FloorOf(people) EXCEPT ![r] = u]
    BY <1>1, <1>3, <2>1, FloorTaken
  <2>3. Floor!Take(u)
    BY <1>1, <2>2 DEF Floor!Take, FloorOf, r
  <2>4. QED
    BY <2>3 DEF Floor!Next
<1>6. QED
  BY <1>4, <1>5

LEMMA ShareStopWithdraws ==
  ASSUME Presence, OneScreen, NEW c \in Connections, NEW u \in Users, ShareStop(c, u)
  PROVE  Floor!Next
<1> DEFINE entry == ShareStopped(EntryOf(u))
<1>1. user_to_room[u] # Nowhere /\ EntryOf(u) \in Participant
  BY EntryInRoom DEF ShareStop
<1>2. entry \in Participant /\ ~entry.sharing_screen /\ people' = Becomes(u, entry)
  BY <1>1, EntryTypes, EntryFlags DEF ShareStop
<1> HIDE DEF entry
<1>3. \A q \in RoomIds : Sharers(people', q) = Sharers(people, q) \ ({} \cup {u})
  <2>1. user_to_room[u] \in RoomIds
    BY <1>1, EntryInRoom
  <2>2. QED
    BY <1>1, <1>2, <2>1, RewrittenSharers
<1>4. user_to_room' = RoomsWithout({})
  BY DEF ShareStop, RoomsWithout, Presence, TypeOK
<1>5. QED
  BY <1>3, <1>4, HubWithdraws

(* Restrictions enforced: some are signed out, others lose their share.    *)
LEMMA EnforceWithdraws ==
  ASSUME Presence, OneScreen, NEW changed \in SUBSET Users, NEW ended \in SUBSET Users,
         NEW before, NEW after \in [Users -> Restrictions],
         Enforce(changed, ended, before, after)
  PROVE  Floor!Next
<1> DEFINE hidden == Hidden(changed, ended, before, after)
<1>1. user_to_room' = RoomsWithout(ended) /\ hidden \in SUBSET Users
  BY DEF Enforce, Hidden
<1>2. ASSUME NEW q \in RoomIds, NEW v \in Users
      PROVE  Shares(people', q, v) <=> Shares(people, q, v) /\ v \notin ended \cup hidden
  BY EnforcedPictures
<1> HIDE DEF hidden
<1>3. \A q \in RoomIds : Sharers(people', q) = Sharers(people, q) \ (ended \cup hidden)
  BY <1>2 DEF Sharers
<1>4. QED
  BY <1>1, <1>3, HubWithdraws

LEMMA RestrictWithdraws ==
  ASSUME Presence, OneScreen, NEW c \in Connections, NEW u \in Users, NEW target \in Users,
         NEW after \in Takeable, handle_restrict_user(c, u, target, after)
  PROVE  Floor!Next
<1> DEFINE ended == IF after.banned /\ ~RestrictionsOf(target).banned THEN {target} ELSE {}
           before == [v \in Users |-> RestrictionsOf(v)]
           is == [v \in Users |-> after]
<1>1. after \in Restrictions
  BY HubAssumption
<1>2. {target} \in SUBSET Users /\ ended \in SUBSET Users /\ is \in [Users -> Restrictions]
  BY <1>1
<1>3. Enforce({target}, ended, before, is)
  BY DEF handle_restrict_user
<1> HIDE DEF ended, before, is
<1>4. QED
  BY <1>2, <1>3, EnforceWithdraws

LEMMA TickWithdraws ==
  ASSUME Presence, OneScreen, tick
  PROVE  Floor!Next
<1> DEFINE ended == EndedBy(PolledChanges, PolledGone, PolledRequests)
           is == [v \in Users |-> RestrictionsOf(v)]
<1>1. PolledChanges \in SUBSET Users /\ ended \in SUBSET Users
  BY DEF PolledChanges, PolledGone, PolledRequests, Watched, EndedBy
<1>2. is \in [Users -> Restrictions]
  BY RestrictionTypes DEF Presence
<1>3. Enforce(PolledChanges, ended, KnownOf, is)
  BY DEF tick
<1> HIDE DEF ended, is
<1>4. QED
  BY <1>1, <1>2, <1>3, EnforceWithdraws

(* The process ends: everybody is out of every room.                       *)
LEMMA RestartWithdraws ==
  ASSUME OneScreen, Restart
  PROVE  Floor!Next
<1>1. /\ people' = [r \in RoomIds |-> Empty]
      /\ user_to_room' = RoomsWithout(Users)
  BY DEF Restart, RoomsWithout
<1>2. \A q \in RoomIds : Sharers(people', q) = Sharers(people, q) \ (Users \cup {})
  BY <1>1 DEF Sharers, Shares, contains, Empty
<1>3. QED
  BY <1>1, <1>2, HubWithdraws
-----------------------------------------------------------------------------
(* Every step, and the theorem.                                            *)

LEMMA FloorInit == Init => Floor!Init
<1> SUFFICES ASSUME Init PROVE Floor!Init
  OBVIOUS
<1>1. \A r \in RoomIds : Sharers(people, r) = {}
  BY DEF Init, Empty, Sharers, Shares, contains
<1>2. QED
  BY <1>1 DEF Init, Floor!Init, screen_sharer

LEMMA FloorStep == Presence /\ Told /\ [Next]_vars => [Floor!Next]_(Floor!floorVars)
<1> SUFFICES ASSUME Presence, Told, [Next]_vars PROVE [Floor!Next]_(Floor!floorVars)
  OBVIOUS
<1>1. OneScreen
  BY OneScreenIsTold
<1>2. ASSUME UNCHANGED <<people, user_to_room>> PROVE UNCHANGED Floor!floorVars
  BY <1>2 DEF Floor!floorVars
<1>3. ASSUME NEW S \in SUBSET Users, people' = PeopleWithout(S), user_to_room' = RoomsWithout(S)
      PROVE  Floor!Next
  BY <1>1, <1>3, DeparturesWithdraw
<1>4. ASSUME NEW c \in Connections, SocketNext(c) PROVE [Floor!Next]_(Floor!floorVars)
  <2>1. CASE on_connect(c)
    BY <1>2, <2>1 DEF on_connect, places
  <2>2. CASE on_disconnect(c)
    <3> DEFINE gone == {u \in Users : SignedIn(c, u)}
    <3>1. gone \in SUBSET Users /\ people' = PeopleWithout(gone) /\ user_to_room' = RoomsWithout(gone)
      BY <2>2 DEF on_disconnect
    <3> HIDE DEF gone
    <3>2. QED
      BY <1>3, <3>1
  <2>3. ASSUME NEW u \in Users, handle_authenticate(c, u) PROVE Floor!Next
    <3> DEFINE old == Displaced(u, c)
    <3>1. old \in SUBSET Users /\ people' = PeopleWithout(old) /\ user_to_room' = RoomsWithout(old)
      BY <2>3 DEF handle_authenticate, Displaced
    <3> HIDE DEF old
    <3>2. QED
      BY <1>3, <3>1
  <2>4. QED
    BY <1>4, <2>1, <2>2, <2>3 DEF SocketNext
<1>5. ASSUME NEW c \in Connections, NEW u \in Users, ParticipantNext(c, u)
      PROVE  [Floor!Next]_(Floor!floorVars)
  <2>1. ASSUME NEW r \in RoomIds, NEW capacity \in Capacities, handle_create_room(c, u, r, capacity)
        PROVE  [Floor!Next]_(Floor!floorVars)
    BY <1>2, <2>1 DEF handle_create_room, places
  <2>2. ASSUME NEW r \in RoomIds, RefusedJoin(c, u, r) PROVE [Floor!Next]_(Floor!floorVars)
    BY <1>2, <2>2 DEF RefusedJoin, places
  <2>3. ASSUME NEW r \in RoomIds, handle_join_room(c, u, r) PROVE [Floor!Next]_(Floor!floorVars)
    BY <1>1, <2>3, JoinMoves
  <2>4. CASE handle_leave_room(c, u)
    BY <1>3, <2>4 DEF handle_leave_room
  <2>5. ASSUME NEW muted \in BOOLEAN, handle_mute(c, u, muted) PROVE UNCHANGED Floor!floorVars
    BY <2>5, MuteStutters DEF handle_mute
  <2>6. ASSUME NEW with_audio \in BOOLEAN, ShareStart(c, u, with_audio)
        PROVE  [Floor!Next]_(Floor!floorVars)
    BY <2>6, ShareStartTakes
  <2>7. CASE ShareStop(c, u)
    BY <1>1, <2>7, ShareStopWithdraws
  <2>8. CASE handle_change_password(c, u)
    BY <1>3, <2>8 DEF handle_change_password, EndSessionsOf
  <2>9. QED
    BY <1>5, <2>1, <2>2, <2>3, <2>4, <2>5, <2>6, <2>7, <2>8 DEF ParticipantNext
<1>6. ASSUME NEW c \in Connections, NEW u \in Users, AdministratorNext(c, u)
      PROVE  [Floor!Next]_(Floor!floorVars)
  <2>1. ASSUME NEW target \in Users,
               \/ handle_kick(c, u, target)
               \/ handle_end_session(c, u, target)
               \/ handle_delete_user(c, u, target)
        PROVE  Floor!Next
    BY <1>3, <2>1 DEF handle_kick, handle_end_session, handle_delete_user, Evict, EndSessionsOf
  <2>2. ASSUME NEW target \in Users, NEW muted \in BOOLEAN, handle_force_mute(c, u, target, muted)
        PROVE  UNCHANGED Floor!floorVars
    BY <2>2, MuteStutters DEF handle_force_mute
  <2>3. ASSUME NEW target \in Users, NEW after \in Takeable, handle_restrict_user(c, u, target, after)
        PROVE  Floor!Next
    BY <1>1, <2>3, RestrictWithdraws
  <2>4. ASSUME NEW r \in RoomIds, handle_delete_room(c, u, r) PROVE Floor!Next
    <3> DEFINE inside == {v \in Users : user_to_room[v] = r}
    <3>1. inside \in SUBSET Users /\ Evict(inside)
      BY <2>4 DEF handle_delete_room
    <3> HIDE DEF inside
    <3>2. QED
      BY <1>3, <3>1 DEF Evict
  <2>5. CASE UNCHANGED <<people, user_to_room>>
    BY <1>2, <2>5
  <2>6. QED
    BY <1>6, <2>1, <2>2, <2>3, <2>4, <2>5
    DEF AdministratorNext, handle_create_user, handle_update_user, handle_update_room, places
<1>7. ASSUME NEW u \in Users, DbadminNext(u) PROVE UNCHANGED Floor!floorVars
  BY <1>2, <1>7 DEF DbadminNext, DbadminRestrict, DbadminRemove, DbadminEndSession, places
<1>8. CASE UNCHANGED vars
  BY <1>2, <1>8 DEF vars
<1>9. QED
  BY <1>1, <1>4, <1>5, <1>6, <1>7, <1>8, TickWithdraws, RestartWithdraws DEF Next

(* The Hub implements the screen floor, for every value of the constants:  *)
(* whatever arrives, drops, is taken away or written by dbadmin, somebody  *)
(* is in one room at most, a room shows one screen at most, and it is free *)
(* before anybody else takes it.                                           *)
THEOREM HubImplementsFloor == Spec => ImplementsFloor
<1>1. Presence /\ Told /\ [Next]_vars => Told'
  BY StepTold
<1>2. QED
  BY InitPresence, StepKeepsPresence, InitTold, FloorInit, FloorStep, <1>1, PTL
  DEF Spec, ImplementsFloor, Floor!Spec
=============================================================================
