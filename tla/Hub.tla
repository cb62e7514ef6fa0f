-------------------------------- MODULE Hub --------------------------------
(***************************************************************************)
(* dv::server::Hub: who is signed in on which socket, who is in which      *)
(* room, and what an administrator has taken from whom.                    *)
(*                                                                         *)
(* The signaling server calls the Hub under one mutex, so a frame, a       *)
(* socket closing and a heartbeat are one action each.  What is concurrent *)
(* is outside: sockets come, go and are displaced by a second login of the *)
(* same account, and dbadmin writes the accounts the Hub keeps copies of.  *)
(*                                                                         *)
(* `roster` adds up what the Hub announced to each socket of the room its  *)
(* person is in, for a reader that starts over whenever it is signed in,   *)
(* is out of a room or is shown another.  The life of a room in its store  *)
(* is RoomManager.tla's; here a room is created and closed, and survives a *)
(* restart.                                                                *)
(***************************************************************************)
EXTENDS Rooms

CONSTANTS
  Connections,      \* sockets
  NoConnection,     \* "no socket has signed in as this account"
  Closed,           \* the state of a socket that is not open
  Unborn, Removed,  \* an account not created yet, and one deleted
  InitialAccounts,  \* what the accounts may be when the server first starts
  InitialRooms,     \* the rooms it may load then
  SecondLogins,     \* whether a signed-in socket may authenticate again
  MaxOpenRows,      \* bound on the session rows one account has open
  Capacities,       \* the sizes asked for a room
  Takeable,         \* the restrictions an account may be put under
  DbadminWrites     \* what dbadmin does: of {"restrict", "remove", "end_session"}

Restrictions == [banned : BOOLEAN, muted : BOOLEAN, screen_share_blocked : BOOLEAN]

Unrestricted == [banned |-> FALSE, muted |-> FALSE, screen_share_blocked |-> FALSE]

Account ==
  [admin : BOOLEAN, restrictions : Restrictions, session_end_requested : BOOLEAN]

(* An open socket: the identity it authenticated as, and the restrictions  *)
(* cached with it.                                                         *)
Connection == [user : Users \cup {Nobody}, known : Restrictions]

ASSUME HubAssumption ==
  /\ NoConnection \notin Connections
  /\ Closed \notin Connection
  /\ {Unborn, Removed} \cap Account = {}
  /\ InitialAccounts \subseteq [Users -> Account \cup {Unborn}]
  /\ InitialRooms \subseteq [RoomIds -> RoomRecord \cup {NoRoom}]
  /\ SecondLogins \in BOOLEAN
  /\ MaxOpenRows \in Nat
  /\ Capacities \subseteq Nat
  /\ Takeable \subseteq Restrictions
  /\ DbadminWrites \subseteq {"restrict", "remove", "end_session"}

VARIABLES
  accounts,            \* the user store
  connections,         \* connections_
  user_to_connection,  \* user_to_connection_
  open_rows,           \* the session store: how many rows each account has open
  rooms,               \* rooms_: the description of every live room
  people,              \* rooms_: the participants of every live room
  user_to_room,        \* rooms_: user id to room id
  roster               \* history: what each socket was told of its room

presence == <<connections, user_to_connection, open_rows>>
places == <<people, user_to_room>>
vars == <<accounts, connections, user_to_connection, open_rows, rooms, people,
          user_to_room, roster>>
-----------------------------------------------------------------------------
(* Who is who.                                                             *)

Exists(u) == accounts[u] \notin {Unborn, Removed}

(* current_role and restrictions_of: an account that is not there is an    *)
(* ordinary one with nothing taken from it.                                *)
IsAdmin(u) == Exists(u) /\ accounts[u].admin
RestrictionsOf(u) == IF Exists(u) THEN accounts[u].restrictions ELSE Unrestricted

IsOpen(c) == connections[c] # Closed
SignedIn(c, u) == IsOpen(c) /\ connections[c].user = u /\ u # Nobody
IsSignedIn(u) == \E c \in Connections : SignedIn(c, u)
Administers(c, u) == SignedIn(c, u) /\ IsAdmin(u)

Anonymous == [user |-> Nobody, known |-> Unrestricted]

Administrators == {u \in Users : IsAdmin(u)}

MayTakeFromAnybody(actor, target) ==                                 \* a slip
  IsAdmin(target) => Cardinality(Administrators) > 1

(* The refusals of restrict_user, update_user and delete_user: not         *)
(* oneself, and not the last administrator.                                *)
MayTakeFrom(actor, target) ==
  /\ actor # target
  /\ IsAdmin(target) => Cardinality(Administrators) > 1
-----------------------------------------------------------------------------
(* What is announced: the sum of the messages a socket was sent since its  *)
(* person signed in, or entered the room.                                  *)

Nothing == [room |-> Nowhere, members |-> {}, screen |-> Nobody, has_audio |-> FALSE]

NewScreen(told, u, has_audio) == [told EXCEPT !.screen = u, !.has_audio = has_audio]

(* screen_share_stopped, which is about whoever's screen is shown.         *)
WithoutScreenOf(told, S) ==
  IF told.screen \in S THEN NewScreen(told, Nobody, FALSE) ELSE told

(* user_left, ahead of it the end of the share.                            *)
WithoutMembers(told, S) == [WithoutScreenOf(told, S) EXCEPT !.members = @ \ S]

(* The sockets a broadcast to room r reaches, somebody excepted.           *)
Reached(room_of, r, except) ==
  {user_to_connection[u] : u \in {v \in Users \ except : room_of[v] = r}} \ {NoConnection}

(* The whole picture: what a newcomer to room r is sent.                   *)
Picture(inside, r) ==
  LET sharer == screen_sharer(inside, r)
  IN [room |-> r, members |-> Occupants(inside, r), screen |-> sharer,
      has_audio |-> sharer # Nobody /\ inside[r][sharer].sharing_audio]
-----------------------------------------------------------------------------
(* Departures.  S is whoever leaves the room they are in, all at once.     *)

PeopleWithout(S) ==
  [r \in RoomIds |-> [u \in Users |-> IF u \in S /\ user_to_room[u] = r THEN Absent
                                      ELSE people[r][u]]]

RoomsWithout(S) == [u \in Users |-> IF u \in S THEN Nowhere ELSE user_to_room[u]]

RostersUnchanged(S) == roster                                        \* a slip

(* announce_departure, to those who stay.                                  *)
RostersWithout(S) ==
  [c \in Connections |->
     IF \E u \in S : user_to_room[u] # Nowhere /\ c \in Reached(user_to_room, user_to_room[u], S)
     THEN WithoutMembers(roster[c], S) ELSE roster[c]]

(* Sockets whose person is out of the room, and told so or gone.           *)
Blanked(rosters, C) == [c \in Connections |-> IF c \in C THEN Nothing ELSE rosters[c]]

ConnectionsOf(S) == {user_to_connection[u] : u \in S} \ {NoConnection}

(* end_session_of, for everybody in S: out of the room, and the socket     *)
(* stays open with nobody on it.                                           *)
SignedOut(S) ==
  [c \in Connections |-> IF c \in ConnectionsOf(S) THEN Anonymous ELSE connections[c]]

Unmapped(S) == [u \in Users |-> IF u \in S THEN NoConnection ELSE user_to_connection[u]]

RowsKept(S) == open_rows                                             \* a slip

(* close_session, on the socket of everybody in S who has one.             *)
RowsWithout(S) ==
  [u \in Users |-> IF u \in S /\ user_to_connection[u] # NoConnection /\ open_rows[u] > 0
                   THEN open_rows[u] - 1 ELSE open_rows[u]]

EndSessionsOf(S) ==
  /\ people' = PeopleWithout(S)
  /\ user_to_room' = RoomsWithout(S)
  /\ connections' = SignedOut(S)
  /\ user_to_connection' = Unmapped(S)
  /\ open_rows' = RowsWithout(S)
  /\ roster' = Blanked(RostersWithout(S), ConnectionsOf(S))

(* evict: out of the room, still signed in.                                *)
Evict(S) ==
  /\ people' = PeopleWithout(S)
  /\ user_to_room' = RoomsWithout(S)
  /\ roster' = Blanked(RostersWithout(S), ConnectionsOf(S))
-----------------------------------------------------------------------------
(* Sockets and identities.                                                 *)

Init ==
  /\ accounts \in InitialAccounts
  /\ connections = [c \in Connections |-> Closed]
  /\ user_to_connection = [u \in Users |-> NoConnection]
  /\ open_rows = [u \in Users |-> 0]
  /\ rooms \in InitialRooms
  /\ people = [r \in RoomIds |-> Empty]
  /\ user_to_room = [u \in Users |-> Nowhere]
  /\ roster = [c \in Connections |-> Nothing]

on_connect(c) ==
  /\ ~IsOpen(c)
  /\ connections' = [connections EXCEPT ![c] = Anonymous]
  /\ UNCHANGED <<accounts, user_to_connection, open_rows, rooms, places, roster>>

DisplacedNobody(u, c) == {}                                          \* a slip

(* Whom a login of u on c takes off another socket: u, or nobody.          *)
Displaced(u, c) == IF user_to_connection[u] \in {NoConnection, c} THEN {} ELSE {u}

(* A request for the session of u to end, written before this login, is    *)
(* about another one.                                                      *)
RequestDiscarded(S) ==
  [u \in Users |-> IF u \in S /\ Exists(u)
                   THEN [accounts[u] EXCEPT !.session_end_requested = FALSE]
                   ELSE accounts[u]]

(* The interface offers a signed-in person no sign-in form, but its button *)
(* is live until `authenticated` arrives: pressed twice, the same account  *)
(* authenticates again before it enters a room.                            *)
MayAuthenticate(c, u) ==
  \/ connections[c].user = Nobody
  \/ /\ SecondLogins
     /\ connections[c].user = u
     /\ user_to_room[u] = Nowhere
     /\ open_rows[u] < MaxOpenRows

handle_authenticate(c, u) ==
  /\ IsOpen(c)
  /\ MayAuthenticate(c, u)
  /\ Exists(u)
  /\ ~RestrictionsOf(u).banned
  /\ LET old == Displaced(u, c)
     IN /\ people' = PeopleWithout(old)
        /\ user_to_room' = RoomsWithout(old)
        /\ connections' = [SignedOut(old) EXCEPT
                             ![c] = [user |-> u, known |-> RestrictionsOf(u)]]
        /\ roster' = Blanked(RostersWithout(old), ConnectionsOf(old) \cup {c})
        /\ open_rows' = [RowsWithout(old) EXCEPT ![u] = @ + 1]
  /\ user_to_connection' = [user_to_connection EXCEPT ![u] = c]
  /\ accounts' = RequestDiscarded({u})
  /\ UNCHANGED rooms

on_disconnect(c) ==
  /\ IsOpen(c)
  /\ LET gone == {u \in Users : SignedIn(c, u)}
     IN /\ people' = PeopleWithout(gone)
        /\ user_to_room' = RoomsWithout(gone)
        /\ roster' = Blanked(RostersWithout(gone), {c})
        /\ open_rows' = [u \in Users |-> IF u \in gone /\ open_rows[u] > 0
                                         THEN open_rows[u] - 1 ELSE open_rows[u]]
        /\ user_to_connection' = [u \in Users |-> IF u \in gone /\ user_to_connection[u] = c
                                                  THEN NoConnection ELSE user_to_connection[u]]
  /\ connections' = [connections EXCEPT ![c] = Closed]
  /\ UNCHANGED <<accounts, rooms>>
-----------------------------------------------------------------------------
(* What a participant asks for.  u is the identity of the socket c.        *)

handle_create_room(c, u, r, capacity) ==
  /\ SignedIn(c, u)
  /\ IsAdmin(u) \/ room_owned_by(rooms, u) = {}
  /\ r \in FreeIds(rooms, rooms, Untyped)
  /\ Grantable(capacity)
  /\ rooms' = [rooms EXCEPT ![r] = [name |-> r, owner |-> u, capacity |-> capacity]]
  /\ UNCHANGED <<accounts, presence, places, roster>>

(* RoomManager::join lets u in.                                            *)
Admits(r, u) ==
  /\ rooms[r] # NoRoom
  /\ ~contains(people, r, u)
  /\ ~is_full(people, r, rooms[r].capacity)

(* The cached restrictions are brought up to date before anything else is  *)
(* looked at, a refusal included.                                          *)
Refreshed(c, u) == [connections EXCEPT ![c].known = RestrictionsOf(u)]

RefusedJoin(c, u, r) ==
  /\ SignedIn(c, u)
  /\ RestrictionsOf(u).banned \/ ~Admits(r, u)
  /\ connections' = Refreshed(c, u)
  /\ UNCHANGED <<accounts, user_to_connection, open_rows, rooms, places, roster>>

ArrivedUnmuted(r, u) == Moved(people, user_to_room[u], r, u)         \* a slip

(* The people once u is inside r, muted already if the account is.         *)
Arrived(r, u) ==
  LET inside == Moved(people, user_to_room[u], r, u)
  IN IF RestrictionsOf(u).muted
     THEN Set(inside, r, u, MuteSet(inside[r][u], TRUE, TRUE)) ELSE inside

handle_join_room(c, u, r) ==
  /\ SignedIn(c, u)
  /\ ~RestrictionsOf(u).banned
  /\ Admits(r, u)
  /\ people' = Arrived(r, u)
  /\ user_to_room' = [user_to_room EXCEPT ![u] = r]
  /\ connections' = Refreshed(c, u)
  /\ roster' =
       LET left == RostersWithout({u})
           met == Reached(user_to_room, r, {u})
       IN [d \in Connections |->
             IF d = c THEN Picture(people', r)
             ELSE IF d \in met THEN [left[d] EXCEPT !.members = @ \cup {u}] ELSE left[d]]
  /\ UNCHANGED <<accounts, user_to_connection, open_rows, rooms>>

handle_leave_room(c, u) ==
  /\ SignedIn(c, u)
  /\ user_to_room[u] # Nowhere
  /\ people' = PeopleWithout({u})
  /\ user_to_room' = RoomsWithout({u})
  /\ roster' = Blanked(RostersWithout({u}), {c})
  /\ UNCHANGED <<accounts, presence, rooms>>

(* u's entry in the room it is in, replaced.                               *)
Becomes(u, entry) == Set(people, user_to_room[u], u, entry)
EntryOf(u) == people[user_to_room[u]][u]
Roommates(u) == Reached(user_to_room, user_to_room[u], {})

(* The room is told that u shows its screen, or that it no longer does.    *)
ScreenShown(u, has_audio) ==
  [c \in Connections |-> IF c \in Roommates(u) THEN NewScreen(roster[c], u, has_audio)
                         ELSE roster[c]]
ScreenHidden(u) ==
  [c \in Connections |-> IF c \in Roommates(u) THEN WithoutScreenOf(roster[c], {u})
                         ELSE roster[c]]

handle_mute(c, u, muted) ==
  /\ SignedIn(c, u)
  /\ user_to_room[u] # Nowhere
  /\ MayBeMuted(EntryOf(u), muted, FALSE)
  /\ people' = Becomes(u, MuteSet(EntryOf(u), muted, FALSE))
  /\ UNCHANGED <<accounts, presence, rooms, user_to_room, roster>>

ShareStart(c, u, with_audio) ==
  /\ SignedIn(c, u)
  /\ ~RestrictionsOf(u).screen_share_blocked
  /\ user_to_room[u] # Nowhere
  /\ ~ScreenBusy(people, user_to_room[u], u)
  /\ people' = Becomes(u, ShareStarted(EntryOf(u), with_audio))
  /\ roster' = ScreenShown(u, with_audio)
  /\ UNCHANGED <<accounts, presence, rooms, user_to_room>>

ShareStop(c, u) ==
  /\ SignedIn(c, u)
  /\ user_to_room[u] # Nowhere
  /\ people' = Becomes(u, ShareStopped(EntryOf(u)))
  /\ roster' = ScreenHidden(u)
  /\ UNCHANGED <<accounts, presence, rooms, user_to_room>>

handle_change_password(c, u) ==
  /\ SignedIn(c, u)
  /\ Exists(u)
  /\ EndSessionsOf({u})
  /\ UNCHANGED <<accounts, rooms>>
-----------------------------------------------------------------------------
(* What an administrator asks for.                                         *)

handle_kick(c, actor, target) ==
  /\ Administers(c, actor)
  /\ actor # target
  /\ user_to_room[target] # Nowhere
  /\ Evict({target})
  /\ UNCHANGED <<accounts, presence, rooms>>

(* A forced unmute does not overrule a restriction of the account.         *)
handle_force_mute(c, actor, target, muted) ==
  /\ Administers(c, actor)
  /\ muted \/ ~RestrictionsOf(target).muted
  /\ user_to_room[target] # Nowhere
  /\ people' = Becomes(target, MuteSet(EntryOf(target), muted, TRUE))
  /\ UNCHANGED <<accounts, presence, rooms, user_to_room, roster>>

handle_end_session(c, actor, target) ==
  /\ Administers(c, actor)
  /\ actor # target
  /\ user_to_connection[target] # NoConnection
  /\ EndSessionsOf({target})
  /\ UNCHANGED <<accounts, rooms>>

handle_delete_user(c, actor, target) ==
  /\ Administers(c, actor)
  /\ Exists(target)
  /\ MayTakeFrom(actor, target)
  /\ EndSessionsOf({target})
  /\ accounts' = [accounts EXCEPT ![target] = Removed]
  /\ UNCHANGED rooms

handle_create_user(c, actor, fresh, admin) ==
  /\ Administers(c, actor)
  /\ accounts[fresh] = Unborn
  /\ accounts' = [accounts EXCEPT ![fresh] =
                    [admin |-> admin, restrictions |-> Unrestricted,
                     session_end_requested |-> FALSE]]
  /\ UNCHANGED <<presence, rooms, places, roster>>

(* update_user, of which the role is what anything here depends on.        *)
handle_update_user(c, actor, target) ==
  /\ Administers(c, actor)
  /\ Exists(target)
  /\ MayTakeFrom(actor, target)
  /\ accounts' = [accounts EXCEPT ![target].admin = ~@]
  /\ UNCHANGED <<presence, rooms, places, roster>>

handle_delete_room(c, actor, r) ==
  /\ Administers(c, actor)
  /\ rooms[r] # NoRoom
  /\ Evict({u \in Users : user_to_room[u] = r})
  /\ rooms' = [rooms EXCEPT ![r] = NoRoom]
  /\ UNCHANGED <<accounts, presence>>

handle_update_room(c, actor, r, capacity) ==
  /\ Administers(c, actor)
  /\ rooms[r] # NoRoom
  /\ Grantable(capacity)
  /\ rooms' = [rooms EXCEPT ![r].capacity = capacity]
  /\ UNCHANGED <<accounts, presence, places, roster>>
-----------------------------------------------------------------------------
(* Restrictions, whoever writes them.                                      *)

(* enforce, on the participant of an account whose restrictions go from    *)
(* `before` to `after`.                                                    *)
Enforced(entry, before, after) ==
  LET muted == IF after.muted # before.muted THEN MuteSet(entry, after.muted, TRUE) ELSE entry
  IN IF after.screen_share_blocked /\ ~before.screen_share_blocked
     THEN ShareStopped(muted) ELSE muted

(* enforce, for everybody in `changed`, of whom those in `ended` are       *)
(* signed out; `before` and `after` give each one's restrictions.          *)
Enforce(changed, ended, before, after) ==
  LET hidden == {u \in changed \ ended : after[u].screen_share_blocked /\ ~before[u].screen_share_blocked}
  IN /\ people' =
          LET left == PeopleWithout(ended)
          IN [r \in RoomIds |-> [u \in Users |->
                IF u \in changed \ ended /\ user_to_room[u] = r
                THEN Enforced(left[r][u], before[u], after[u]) ELSE left[r][u]]]
     /\ user_to_room' = RoomsWithout(ended)
     /\ connections' =
          [c \in Connections |->
             IF \E u \in changed \ ended : user_to_connection[u] = c /\ SignedIn(c, u)
             THEN [connections[c] EXCEPT !.known = after[connections[c].user]]
             ELSE SignedOut(ended)[c]]
     /\ user_to_connection' = Unmapped(ended)
     /\ open_rows' = RowsWithout(ended)
     /\ roster' =
          LET left == Blanked(RostersWithout(ended), ConnectionsOf(ended))
          IN [c \in Connections |-> WithoutScreenOf(left[c], hidden)]

(* handle_restrict_user: `after` is what the request makes of what the     *)
(* store holds.                                                            *)
handle_restrict_user(c, actor, target, after) ==
  /\ Administers(c, actor)
  /\ Exists(target)
  /\ actor # target
  /\ after # RestrictionsOf(target)
  /\ after.banned /\ ~RestrictionsOf(target).banned => MayTakeFrom(actor, target)
  /\ accounts' = [accounts EXCEPT ![target].restrictions = after]
  /\ Enforce({target},
             IF after.banned /\ ~RestrictionsOf(target).banned THEN {target} ELSE {},
             [u \in Users |-> RestrictionsOf(u)], [u \in Users |-> after])
  /\ UNCHANGED rooms

(* StoreRestrictionSource::poll, of the accounts somebody is signed in as. *)
Watched == {u \in Users : IsSignedIn(u)}
KnownOf == [u \in Users |-> IF u \in Watched
                            THEN connections[CHOOSE c \in Connections : SignedIn(c, u)].known
                            ELSE Unrestricted]

PolledChanges == {u \in Watched : Exists(u) /\ RestrictionsOf(u) # KnownOf[u]}
PolledGone == {u \in Watched : ~Exists(u)}

PolledRequestsOfTheChanged ==                                        \* a slip
  {u \in PolledChanges : accounts[u].session_end_requested}

PolledRequests == {u \in Watched : Exists(u) /\ accounts[u].session_end_requested}

EndedUnasked(changed, gone, requested) ==                            \* a slip
  gone \cup {u \in changed : RestrictionsOf(u).banned /\ ~KnownOf[u].banned}

(* Whose session one heartbeat ends.                                       *)
EndedBy(changed, gone, requested) ==
  gone \cup requested
       \cup {u \in changed : RestrictionsOf(u).banned /\ ~KnownOf[u].banned}

(* One heartbeat.  Pings and rows touched leave nothing behind here.       *)
tick ==
  /\ Enforce(PolledChanges, EndedBy(PolledChanges, PolledGone, PolledRequests),
             KnownOf, [u \in Users |-> RestrictionsOf(u)])
  /\ accounts' = RequestDiscarded(PolledRequests)
  /\ UNCHANGED rooms
-----------------------------------------------------------------------------
(* What happens outside.                                                   *)

(* The process ends and another starts on the same database: every socket  *)
(* is lost, and the rows it left open are closed.                          *)
Restart ==
  /\ connections' = [c \in Connections |-> Closed]
  /\ user_to_connection' = [u \in Users |-> NoConnection]
  /\ open_rows' = [u \in Users |-> 0]
  /\ people' = [r \in RoomIds |-> Empty]
  /\ user_to_room' = [u \in Users |-> Nowhere]
  /\ roster' = [c \in Connections |-> Nothing]
  /\ UNCHANGED <<accounts, rooms>>

(* dbadmin spares the last administrator too, and asks for no session to   *)
(* end where none is open.                                                 *)
LastAdministrator(u) == IsAdmin(u) /\ Cardinality(Administrators) <= 1

DbadminRestrict(u, after) ==
  /\ "restrict" \in DbadminWrites
  /\ Exists(u)
  /\ after # RestrictionsOf(u)
  /\ after.banned /\ ~RestrictionsOf(u).banned => ~LastAdministrator(u)
  /\ accounts' = [accounts EXCEPT ![u].restrictions = after]
  /\ UNCHANGED <<presence, rooms, places, roster>>

DbadminRemove(u) ==
  /\ "remove" \in DbadminWrites
  /\ Exists(u)
  /\ ~LastAdministrator(u)
  /\ accounts' = [accounts EXCEPT ![u] = Removed]
  /\ UNCHANGED <<presence, rooms, places, roster>>

DbadminEndSession(u) ==
  /\ "end_session" \in DbadminWrites
  /\ Exists(u)
  /\ open_rows[u] > 0
  /\ accounts' = [accounts EXCEPT ![u].session_end_requested = TRUE]
  /\ UNCHANGED <<presence, rooms, places, roster>>
-----------------------------------------------------------------------------
SocketNext(c) ==
  \/ on_connect(c)
  \/ on_disconnect(c)
  \/ \E u \in Users : handle_authenticate(c, u)

ParticipantNext(c, u) ==
  \/ \E r \in RoomIds, capacity \in Capacities : handle_create_room(c, u, r, capacity)
  \/ \E r \in RoomIds : RefusedJoin(c, u, r)
  \/ \E r \in RoomIds : handle_join_room(c, u, r)
  \/ handle_leave_room(c, u)
  \/ \E muted \in BOOLEAN : handle_mute(c, u, muted)
  \/ \E with_audio \in BOOLEAN : ShareStart(c, u, with_audio)
  \/ ShareStop(c, u)
  \/ handle_change_password(c, u)

AdministratorNext(c, actor) ==
  \/ \E target \in Users : handle_kick(c, actor, target)
  \/ \E target \in Users, muted \in BOOLEAN : handle_force_mute(c, actor, target, muted)
  \/ \E target \in Users : handle_end_session(c, actor, target)
  \/ \E target \in Users : handle_delete_user(c, actor, target)
  \/ \E fresh \in Users, admin \in BOOLEAN : handle_create_user(c, actor, fresh, admin)
  \/ \E target \in Users : handle_update_user(c, actor, target)
  \/ \E target \in Users, after \in Takeable : handle_restrict_user(c, actor, target, after)
  \/ \E r \in RoomIds : handle_delete_room(c, actor, r)
  \/ \E r \in RoomIds, capacity \in Capacities : handle_update_room(c, actor, r, capacity)

DbadminNext(u) ==
  \/ \E after \in Takeable : DbadminRestrict(u, after)
  \/ DbadminRemove(u)
  \/ DbadminEndSession(u)

Next ==
  \/ \E c \in Connections : SocketNext(c)
  \/ \E c \in Connections, u \in Users : ParticipantNext(c, u)
  \/ \E c \in Connections, u \in Users : AdministratorNext(c, u)
  \/ \E u \in Users : DbadminNext(u)
  \/ tick
  \/ Restart

Spec == Init /\ [][Next]_vars

(* heartbeat_loop calls tick for as long as the server runs.               *)
LiveSpec == Spec /\ WF_vars(tick)
-----------------------------------------------------------------------------
(* Properties.                                                             *)

Roster == [room : RoomIds \cup {Nowhere}, members : SUBSET Users,
           screen : Users \cup {Nobody}, has_audio : BOOLEAN]

(* Every variable has its shape.                                           *)
TypeOK ==
  /\ accounts \in [Users -> Account \cup {Unborn, Removed}]
  /\ connections \in [Connections -> Connection \cup {Closed}]
  /\ user_to_connection \in [Users -> Connections \cup {NoConnection}]
  /\ open_rows \in [Users -> Nat]
  /\ rooms \in [RoomIds -> RoomRecord \cup {NoRoom}]
  /\ people \in [RoomIds -> [Users -> Participant \cup {Absent}]]
  /\ user_to_room \in [Users -> RoomIds \cup {Nowhere}]
  /\ roster \in [Connections -> Roster]

(* "One identity, one connection" (hub.cpp:470): the socket an account is  *)
(* mapped to is the one socket signed in as it.                            *)
IdentitiesAgree ==
  \A c \in Connections, u \in Users : SignedIn(c, u) <=> user_to_connection[u] = c

(* Nobody is left in a room without a socket: the "participant nobody      *)
(* could see leave" of hub.cpp:477, holding the room's one screen.         *)
NoGhosts ==
  \A u \in Users, r \in RoomIds :
    contains(people, r, u) =>
      /\ user_to_room[u] = r
      /\ rooms[r] # NoRoom
      /\ \E c \in Connections : SignedIn(c, u)

(* The three indexes of who is here, sockets, accounts and rooms, agree    *)
(* across displacements, evictions and restarts, with the types of all.    *)
PresenceAgrees == TypeOK /\ IdentitiesAgree /\ NoGhosts

(* The announcements add up to what the room is: who is inside, whose      *)
(* screen is shown and with what sound.  A departure nobody announced      *)
(* would leave every other client refusing to share (evict,                *)
(* announce_departure).                                                    *)
RostersAgree ==
  \A c \in Connections, u \in Users :
    SignedIn(c, u) =>
      roster[c] = IF user_to_room[u] = Nowhere THEN Nothing ELSE Picture(people, user_to_room[u])

(* While the server is the only one to write accounts, what an             *)
(* administrator took is gone: a banned or deleted account is signed in    *)
(* nowhere, a muted one is muted by the administrator in whatever room it  *)
(* is, a blocked one shows no screen (restrict_user, enforce, join_room).  *)
RestrictionsHold ==
  \A c \in Connections, u \in Users :
    SignedIn(c, u) =>
      /\ Exists(u)
      /\ ~RestrictionsOf(u).banned
      /\ \A r \in RoomIds :
           contains(people, r, u) =>
             /\ RestrictionsOf(u).muted => people[r][u].muted_by_admin
             /\ RestrictionsOf(u).screen_share_blocked => ~people[r][u].sharing_screen

(* The refusals of restrict_user, update_user and delete_user leave an     *)
(* administrator who can sign in: "a system nobody can administer" is what *)
(* each of them names (hub.cpp:1657, 2011).                                *)
SomebodyCanAdminister ==
  \E u \in Users : IsAdmin(u) /\ ~RestrictionsOf(u).banned

(* "One account, one open session" (hub.cpp:492).                          *)
OneOpenSession ==
  \A u \in Users : open_rows[u] = IF user_to_connection[u] = NoConnection THEN 0 ELSE 1

(* "A running server picks the change up within one heartbeat"             *)
(* (docs/05-administration.md:222), "sessions already open [...] are all   *)
(* reached": nobody stays banned and signed in.                            *)
BansReachOpenSessions ==
  \A u \in Users :
    RestrictionsOf(u).banned ~> ~(RestrictionsOf(u).banned /\ IsSignedIn(u))

Requested(u) == Exists(u) /\ accounts[u].session_end_requested

(* A request of dbadmin for somebody's session to end is not spent for     *)
(* nothing: when it goes, the socket it was about is signed in no more,    *)
(* because the heartbeat ended it or a newer login took its place.         *)
RequestsAreNotWasted ==
  [][\A u \in Users, c \in Connections :
       Requested(u) /\ Exists(u)' /\ ~Requested(u)' /\ SignedIn(c, u) => ~SignedIn(c, u)']_vars

(* What dbadmin writes reaches a running server: a request for a session   *)
(* to end, and a deletion, after which nobody is signed in as the account  *)
(* that is gone, nor in a room.                                            *)
RequestsAreHonoured ==
  \A u \in Users :
    /\ Requested(u) ~> ~(Requested(u) /\ IsSignedIn(u))
    /\ accounts[u] = Removed ~> ~IsSignedIn(u)

Floor ==
  INSTANCE ScreenFloor
    WITH room_of <- user_to_room,
         sharer <- [r \in RoomIds |-> screen_sharer(people, r)]

(* Whatever sockets, administrators and heartbeats do, the shared screen   *)
(* is that of ScreenFloor.tla.                                             *)
ImplementsFloor == Floor!Spec
=============================================================================
