# PartyShare in TLA+

Specifications of PartyShare, the voice and screen sharing server and client of
this repository, checked with TLC on small instances and, where the result
matters for every instance, proved with TLAPS. Paths are relative to the
repository; `hub.cpp:470` is a line of `server/src/signaling/hub.cpp`.

1. [The system](#1-the-system), 2. [the modules](#2-the-modules),
3. [the runs](#3-the-runs), 4. [the proofs](#4-the-proofs),
5. [what the code does otherwise](#5-what-the-code-does-otherwise),
6. [not modelled, and the plan](#6-not-modelled-and-the-plan).

## 1. The system

| Component | Code | State it keeps | What is hard |
|---|---|---|---|
| **RoomManager** | `server/src/rooms` | `rooms_`, `user_to_room_`, and behind it a room store and a chat store | two indexes rewritten by six operations; one screen per room; a store that fails or applies a write without answering; rooms deleted underneath it |
| **Hub** | `server/src/signaling/hub.*` | `connections_`, `user_to_connection_`, the restrictions cached on a connection, session rows | sockets that come, go and displace one another; seven ways out of a room; what an administrator took must hold everywhere; accounts rewritten by another process |
| **Authenticator** | `authenticator.*` | tokens and their expiry | revocation with the session |
| **SignalingServer** | `server.*` | sockets, one mutex, the heartbeat thread, the thread that accepts connections | timeouts against late frames; lock order with the router; a stop that waits for two threads |
| **Stores** | `server/src/store` | accounts, rooms, chat, notices, sessions, audit; in memory or in MongoDB | whole accounts written over partial writes; errors read as absence; rows of who is here that nothing else corrects |
| **MediaRouter** | `server/src/sfu/media_router.*` | a peer connection per participant, tracks, pending renegotiation, viewers' ceilings | a worker thread, callbacks of libdatachannel, departures in between |
| **Stream repair** | `sfu/video_stitcher`, `loss_repair`, `video_feedback`, `bandwidth_estimator` | sequence numbers, offsets, holes | wrap-around, reordering, loss |
| **CallSession** | `client/src/app` | the client's picture of its room, its credentials, the room to return to, its media session | messages in flight while the person leaves, joins, reconnects |
| **SignalingClient** | `client/src/network` | the socket, its retries, the state shown | three kinds of thread, no mutex across two of their steps |
| **Client media** | `client/src/{media,webrtc,audio,video}` | captures of the screen and of its sound, encoders, devices, volumes | threads that stop themselves and each other; queues at their limit; devices that refuse |
| **Client interface** | `client/src/ui` | the administration table, the conversation panel, notices, settings | event loops inside menus and questions; answers that redraw what is being asked about |
| **dbadmin** | `tools/dbadmin` | a terminal's screen; writes the database of a running server | commands answered in any order; every check-then-act of it races the server |
| **Protocol, configuration** | `shared/src` | none; files | other versions; several copies of the client saving one file |

How they interact. A client's frame reaches `SignalingServer::onMessage`, which
takes the server's mutex and calls `Hub::on_message`; the Hub calls the
RoomManager and the stores and returns the messages to send, which are sent
under the same mutex. A socket closing and a heartbeat take the same mutex. So
a frame, a closing and a heartbeat are each **one action** of `Hub`, and what
interleaves is what is outside the mutex: sockets, people, the database,
dbadmin, and the life of the process. The Hub tells the MediaRouter who joined
and left; the MediaRouter sends its offers back through the server. dbadmin
shares nothing with the server but the database, which the heartbeat polls. In
the client there is no such mutex: a call of the interface, a callback of the
socket and the media threads meet in fields that each protects for a moment.

What makes each correct:

- *Rooms*: the two indexes agree; nobody enters a full room; one screen; a
  forced mute is not undone by its owner; no failure of the store loses a room
  in use; a closed room's conversation goes with it.
- *Hub*: one identity, one socket, one open session row; nobody in a room
  without a socket; everybody told who is inside and whose screen is shown;
  restrictions in force; somebody left who can administer; whatever dbadmin
  wrote reaches the sessions it is about.
- *Server*: no threads wait for one another in a circle, and nothing that hangs
  up is forgotten.
- *Stores*: what one program decided about an account the other does not undo;
  notices are read; a conversation is one, whoever reads it; the rows of who is
  connected tell it as it is.
- *SFU*: whoever comes in is heard by everybody; the forwarded stream has no
  repetition its source did not have; what was lost is asked for, and nothing
  else; the sharer is held to the slowest viewer.
- *Client*: what it believes of its room is what the server announced of *that*
  room; its media session belongs to the stay it was built in; the state of the
  link is true; the room is told of a shared screen exactly while one is
  captured; a call runs as was chosen.
- *Tools and wire*: an administrator asks for what they read; a message says no
  more than its sender meant; a save changes what was saved, and the client
  still starts.

## 2. The modules

| Module | Models | Actions stand for |
|---|---|---|
| `Rooms` | `models/room.hpp`, `user.hpp`, the rules of `room_manager.cpp` | operators shared by all the modules that keep rooms |
| `ScreenFloor` | nothing: an abstract specification | `Move`, `Take`, `Withdraw`: who is where and whose screen is shown |
| `RoomManager` | `room_manager.cpp`, its stores, dbadmin's `DeleteRoom` | one operation each, with the store's outcome; kill and restart |
| `Hub` | `hub.cpp`, `restriction_source.cpp`, dbadmin's account writes | one message each, plus sockets, heartbeat, restart |
| `SignalingServer` | the threads and locks of `server.cpp`, `media_router.cpp` and libdatachannel | one step of a thread: take, call, close, put somebody out, hang up, accept, wait for a thread's end, give back |
| `Accounts` | accounts read, changed and written back by the server; `store.go`'s writes of single fields | a read, a count, a write, refused or unacknowledged |
| `Chat` | `handle_chat`, `handle_nudge`, the chat stores, the panel of `main_window.cpp` | saying, storing, announcing, reading |
| `Sessions` | the rows of who is connected: `hub.cpp`'s opening, touching and closing of them, both stores, the page read of them | a call of the Hub with the store's outcome; kill, restart, the clock |
| `Notices` | `send_notice`, delivery, acknowledgement, the boxes, dbadmin's notices | writing, handing over, dismissing, dropping |
| `MediaRouter` | `media_router.cpp`: sessions, offers, the worker | joins, leaves, answers, one task of the worker |
| `ViewerCeiling` | its viewers' reports and the cap on the sharer | each thread's step under `bandwidth_mutex_` and past it |
| `VideoStitcher`, `LossRepair` | the classes of those names over a network that loses and reorders | a packet arriving; a tick |
| `CallSession` | `call_session.cpp` against the part of the Hub one client can tell | a call of the interface, a message read by either end, a media session built |
| `SignalingClient` | `signaling_client.cpp` | what one thread does under one mutex |
| `ScreenShare` | starting, stopping, restarting and losing a capture (`libwebrtc_media_session.cpp`, the capturers, `call_session.cpp`) | a store to a flag, a join, a callback |
| `ScreenSound` | `screen_audio_mixer.cpp`, `loopback_capturer_windows.cpp`, `block_pacer.cpp` | a step of whoever starts or stops a share, of the capture's thread, a block mixed |
| `Encoder` | `hardware_encoder*.cpp` | a frame, a request, a rate, a breakdown |
| `MediaSession` | the settings, devices and mutes of a call | a change written down, told, read by the builder |
| `AdminPanel` | `admin_panel.cpp`, `table.cpp` | a click, an answer applied, a menu left open |
| `AdminConsole` | `tools/dbadmin/internal/ui` | a key, a command that reads, its message |
| `Codec` | `message.cpp` | writing, another version's hand, reading |
| `Settings`, `Config` | `config.cpp`, the dialogs that save | a start from the cascade, a save in its steps |
| `MCHub`, `MCRecords`, `MCParts`, `MCRecovery` | | instances for TLC |
| `RoomManagerProofs`, `HubProofs`, `MediaRouterProofs`, `SignalingServerProofs`, `CallMediaProofs`, `SignalingClientProofs`, `PartsProofs`, `RecoveryProofs` | | theorems, section 4 |

Correspondence with the code:

- `rooms` (descriptions) and `people` (participants) are two halves of `rooms_`;
  only the first is stored. A list of participants is a function from users to
  an entry or `Absent`: no rule reads the order of arrival.
- An action is a handler whole, with every call it makes that changes state. A
  request the code refuses without effect is no step; `RefusedJoin` is one,
  because `handle_join_room` writes the cached restrictions before it refuses.
- `RoomManager` gives every store write an outcome: `done`, `refused`, or
  `unacknowledged` (applied, but the reply was lost and the call reports
  failure). `CreateRoom` and `SetCapacity` change the live room only when
  `done`; `RemoveLiveRoom` goes on whatever the store answers. `LoadRooms` is a
  start of the process: `list()` gives what it read before failing.
- In `Hub`, rooms are not stored separately (that is `RoomManager`) and account
  writes succeed (that is `Accounts`). `PeopleWithout`, `RostersWithout`,
  `SignedOut` take a *set* of people, so that one heartbeat which ends several
  sessions is one action. An account starts `Unborn` or exists; a deleted
  identifier is `Removed` and never returns. `silenced` is left out: only chat
  reads it.
- `roster` is a history variable: the sum of what the Hub announced to a socket
  about its person's room, read from a clean start each time. What the client
  makes of the same messages is `CallSession`.
- A socket that signs in again as the *same* account is modelled
  (`SecondLogins`), since the sign-in button allows it before the answer comes
  (`call_session.cpp:110`). Signing in as another account on a signed-in socket
  is not.
- In the client and the SFU a thread's steps are separate actions wherever the
  code lets go of a mutex between them, and only there. A variable such as
  `doing`, `calling`, `at` or `interface` is where a thread is and what it has
  read so far.
- Some modules keep a history of what the code does not guard against
  (`crossed`, `raced`, `stale`, `early`, `excused`, `outdated`, `refused`,
  `unannounced`). A property that excepts one says so, and section 5 says what
  happens then. They are exceptions of the *statement*, never of the behaviour:
  the model goes on through them.

Definitions marked "a slip" are no part of a model: each is the definition
after it with a plausible mistake, used to show that the property listed with
it in PROJECT.json notices.

## 3. The runs

| Run | Instance | Checks |
|---|---|---|
| `hub_people` | two accounts, three sockets, two rooms, no dbadmin | `PresenceAgrees`, `RostersAgree`, `RestrictionsHold`, `SomebodyCanAdminister`, `OneOpenSession`, `ImplementsFloor` |
| `hub_elsewhere` | two accounts, two sockets, every write of dbadmin, a fair heartbeat | `RequestsAreNotWasted`, `RequestsAreHonoured` |
| `parts` | the modules that stand by themselves, one in each behaviour | `PartsTypeOK`; `EveryoneIsHeard` (MediaRouter); `StreamIsWhole` (`OneStream` of VideoStitcher, `EveryHoleIsAskedFor` of LossRepair), `AsksOnlyForMissing` (LossRepair); `LocksAreLetGo` (SignalingServer); `RoomIsTold` (ScreenShare); `SoundIsTrue` (ScreenSound); `EncodesAsTold` (Encoder); `CallRunsAsChosen` (MediaSession); `DecisionsStand` (Accounts); `OneConversation` (Chat); `AskedIsRead` (AdminPanel, AdminConsole); `SettingsLast`, `SavesKeepItStarting` (Config); `ViewsAgree`, `ForcedMuteHolds`, `NobodySqueezedIn`, `ImplementsFloor` (RoomManager) |
| `recovery` | the parts where something must come right again, or is written down and read by another | `RecordsTypeOK`; `ClientAgrees` (`PictureAgrees`, `ServerAgrees`, `OffersAreAnswered`), `CaptureHasTheFloor`, `BackInTheRoom` (CallSession); `LinkAgrees`, `DroppedIsReplaced` (SignalingClient); `PresenceIsTrue` (Sessions); `OnlyWatchersCount`, `SlowestViewerLimits` (ViewerCeiling); `EverythingIsRead` (Notices); `NoRoomIsLost`, `NamesCollideOnlyOnLoad` (RoomManager); `SaysNoMore` (Codec) |
| `hub_ban_missed` | dbadmin bans somebody signed in | **violated**: `BansReachOpenSessions` |
| `hub_second_login` | sign-in pressed twice | **violated**: `OneOpenSession` |
| `hub_no_administrator` | two administrators, dbadmin bans | **violated**: `SomebodyCanAdminister` |
| `client_forced_mute` | a client in a room, muted by an administrator | **violated**: `ForcedMuteSilences` |
| `sfu_departure` | two people of one room, one of whom leaves | **violated**: `DepartedAreNotExpected` |
| `sessions_page` | one account, a page of one row, MongoDB | **violated**: `TheNewestAreListed` |
| `sound_capture_lost` | one capture of a share's sound that ends by itself | **violated**: `ThreadsAreJoined` |
| `server_stop` | a server that is stopped while somebody connects | **violated**: `NobodyWaitsInACircle` |

`MCParts` and `MCRecovery` hold several specifications, each with variables of
its own, and `MCRecords` is `MCRecovery` with two more. The variable `part` says which one a behaviour is of; the others stay
in one initial state. So a run checks the union of the parts' state spaces, and
never their product, and a property of one part is about its behaviours only.

Bounds and why they are enough:

- `rooms` in `parts`: three people are a sharer, somebody who wants to share,
  and somebody who makes the room full; a size lowered from 3 to 2 with three
  inside is the case `NobodySqueezedIn` is about. Two rooms: a move has a place
  to come from and a place to go. Nothing is said there (`NothingSaid`).
- `rooms` in `recovery`: an empty database and one from before names were unique,
  rooms nobody named and a typed name that is another room's identifier, every
  failure of the store, a kill inside `remove_room`, and dbadmin; a size left to
  the server, one it refuses and one it grants. Nobody is inside: the store never
  sees people.
- `wire`: every message, blank, full, and with any one field otherwise (a number
  too wide among them); one field of it left out, null or of another type, a type
  or role nobody knows, or the text cut short.
- Two accounts in `hub_people`: whoever acts and whoever is acted on, in either
  direction once the second is promoted or created. Three sockets: one each,
  and one for the second login that displaces. Sockets and rooms are
  interchangeable there, and TLC is told so (`Symmetry`); people are not. No
  symmetry is used where liveness is checked.
- `hub_elsewhere` has an identifier and no room: a heartbeat ends a session in a
  room as `hub_people` shows an administrator ending it, and the liveness
  graph stays small. A room no one can enter keeps `RefusedJoin`, the step that
  refreshes a cache without enforcing it. `MaxOpenRows` bounds the rows one
  account leaves open and only stops further second logins.
- MediaRouter: three people, two stays each and three tasks queued: a join while
  two offers are outstanding, and a return while the departure is still queued.
- VideoStitcher and LossRepair: numbers modulo 16 for 65536, with the distances
  in proportion, started at 14 so that the first handover or hole crosses the
  wrap; packets in flight bounded by two, enough for one to be late by a whole
  handover.
- ScreenShare: three captures are one that ends by itself, the one that replaces
  it and the one a restart makes. Encoder: a queue of two where the code has
  its own depth, so that it overflows. SignalingServer: two connections of one
  room and three events, which is a frame, a report and a hang-up at once; the
  accepting thread, the heartbeat and the one that stops them are there besides.
- ScreenSound: a block is two frames and the watermark three, so that a ring both
  starves and overflows; two captures, for what is left of the first when the
  second starts; two drivers, the interface and whoever ends the share.
- Sessions: two people, a page of one row out of at most two, a collection that
  keeps one (so that a row is evicted) and a clock of two instants: before and
  after whatever is compared.
- Accounts: two accounts for the last administrator, and three decisions: one
  read over, one that crosses it, one that undoes it. Chat: two rooms' lines in
  one panel, a history shorter than what was said.
- CallSession: `MaxStays` and `MaxQueue` bound what a person does, not what is
  delivered. Everything the person and the room may do at once is too much for
  one run, so a behaviour picks one of seven sets of acts (`Everyday`): every
  property has a set in which nothing it excepts happens, and every pair that
  crosses dangerously (leave and drop, kick and share, end of session and
  sign-out) is in one.
- SignalingClient: three sockets (one going, one in place, one being opened),
  two addresses, one probe, and a count of drops that stops at one
  (`MaxAttempts` bounds the delay, which is time and not modelled).
- Config: two copies, files that differ where something could go wrong
  (`BesideIt`, `ByHand`, `Otherwise`), three turns.

Fairness, and what justifies it:

- `Hub`: `WF_vars(tick)`. `heartbeat_loop` (`server.cpp:194`) calls `tick` for
  as long as the server runs. No person, socket or dbadmin is assumed to act.
- `CallSession`: a dropped socket is opened again (the retry never gives up,
  `signaling_client.cpp`), both ends read what was sent, and a call or the
  building of a session, once begun, returns. The person owes nothing.
- `SignalingClient`: its retry thread, the callbacks and a call already begun
  go on. The network owes nothing: a socket may open or fail at any time.
- `Notices`: the heartbeat, and a person who dismisses the box in front.

### What the violated properties show

1. `hub_ban_missed`. `handle_join_room` refreshes the restrictions cached on the
   connection before it looks at the ban, and enforces nothing
   (`hub.cpp:747`). The heartbeat looks for differences with that cache. Banned
   by dbadmin and trying any room before the next heartbeat, somebody stays
   signed in until the socket closes. Mutes and blocks are lost the same way.
2. `hub_no_administrator`. The guard on the last administrator counts banned
   administrators (`store.go:341`), so the second of two can be banned too.
3. `hub_second_login`. The second `authenticate` on a socket overwrites the
   identifier of the row the first opened, which stays open until a restart.
4. `client_forced_mute`. One click on unmute opens the microphone of somebody an
   administrator has muted (`call_session.cpp:267`); the server refuses the
   request and nothing closes the microphone, against `docs/06-protocol.md:358`.
5. `sfu_departure`. A departure is renegotiated only if something else was
   pending (`media_router.cpp:385`, `666`), against the comment at 373.
6. `sessions_page`. MongoDB is asked for the sessions in the order of `ended_at`
   (`mongo_store.cpp:902`): the open ones come first, as they should, and then
   those that ended *first*. A page of a long history never reaches the last
   ones, against `session_store.hpp:135`.
7. `sound_capture_lost`. A stream that ends by itself takes `running_` down;
   `stop()` then returns without joining the thread
   (`loopback_capturer_windows.cpp:228`), and destroying the capturer destroys a
   joinable `std::thread`, which ends the client.
8. `server_stop`. `stop()` calls `server_->stop()` under `mutex_`
   (`server.cpp:58`, `60`), which waits for the library's accepting thread;
   `on_client`, on that thread, takes the same mutex (`server.cpp:97`) without
   asking whether the server still runs. With a connection in hand at that
   moment the two wait for each other, and the server never stops. The comment
   at 65 says why the sockets, a few lines below, are closed outside the lock.
   That `WebSocketServer::stop` joins its thread is the library's, and external.

## 4. The proofs

For every value of the constants that the assumption of a module allows: any
sets of people, rooms, accounts, sockets, captures, any bounds, any initial
database. The assumptions are the ones TLC evaluates in the runs; beyond them a
theorem states its own hypotheses. Each component has one inductive invariant,
checked with TLC on its run's instance before it was proved; a lemma per
operation (`JoinSafe`, `SwappingSafe` and the like) shows that it is kept, and
a `StepSafe` puts them together over `Next`.

| Module | Theorems | Hypotheses |
|---|---|---|
| `RoomManagerProofs` | `RoomsAreConsistent` (`TypeOK`, `ViewsAgree`, `OneSharer`, `ForcedMuteHolds`), `ForcedMutesStand`, `JoinsRespectCapacity` (`NobodySqueezedIn`), `NoLiveRoomIsLost` (`NoRoomIsLost`), `NamesCollideOnlyAtAStart` (`NamesCollideOnlyOnLoad`), `RoomsImplementFloor` (`ImplementsFloor`) | none |
| | `ConversationsDieWithTheirRooms` (`ConversationDiesWithRoom`) | `ConversationsAreCleared` |
| `HubProofs` | `IndexesAgree` (`PresenceAgrees`), `EverybodyIsTold` (`RostersAgree`), `HubImplementsFloor` (`ImplementsFloor`) | none |
| | `RowsMatchSockets` (`OneOpenSession`), `NoRequestIsWasted` (`RequestsAreNotWasted`) | `SecondLogins = FALSE` |
| | `RestrictionsStand` (`RestrictionsHold`) | `ServerWritesAlone` |
| | `SomebodyAlwaysAdministers` (`SomebodyCanAdminister`) | `ServerWritesAlone`, an unbanned administrator to begin with |
| `MediaRouterProofs` | `TracksAreOfTheRoom`, `EverybodyIsHeard` (`EveryoneIsHeard`) | none |
| `SignalingServerProofs` | `ServerIsTyped`, `NobodyWaitsForever` (`LocksAreLetGo`) | none |
| `CallMediaProofs` | of ScreenShare: `SharesAreTyped`, `TheRoomIsTold` (`RoomIsTold`); of ScreenSound: `SoundInShare` (`SoundIsTrue`); of MediaSession: `CallsAreTyped`, `CallsRunAsChosen` (`CallRunsAsChosen`); of Encoder: `PicturesEncodeAsTold` (`EncodesAsTold`) | none |
| `SignalingClientProofs` | `LinksAreTyped`, `TheStateIsTrue`, `TheLinkIsOfItsSignIn` (the two halves of `LinkAgrees`) | none |
| `PartsProofs` | of Accounts: `AccountsAreTyped`, `WhatWasDecidedStands` (`DecisionsStand`) | none |
| | of `MCParts` itself: `EverybodyIsHeard` (`EveryoneIsHeard`), `TheRoomIsTold` (`RoomIsTold`), `LocksAreKeptLetGo` (`LocksAreLetGo`), `DecisionsAreKept` (`DecisionsStand`), `CallsAreKeptAsChosen` (`CallRunsAsChosen`), `SoundIsKeptTrue` (`SoundIsTrue`), `PicturesAreKeptAsTold` (`EncodesAsTold`) | none |
| `RecoveryProofs` | of ViewerCeiling: `NobodyCountsWhoDoesNotWatch` (`OnlyWatchersCount`), `TheSlowestViewerLimits` (`SlowestViewerLimits`); of Sessions: `PresenceIsKept`, `HereIsKeptOnThePage` (the two halves of `PresenceIsTrue`) | none |
| | of `MCRecovery` itself: `PresenceIsTold` (`PresenceIsTrue`), `TheLinkAgrees` (`LinkAgrees`) | none |

The theorems of `MCParts` and `MCRecovery` themselves are about the very
properties the runs check. Each is short: a step of the whole is a step of the
component or leaves its variables alone, so a behaviour of the whole, read
through the component's variables, is one of the component's, and the
component's theorem applies. `CallMediaProofs` speaks of ScreenSound,
MediaSession and Encoder by instances of its own, and three lemmas for each say
that its first states, its steps and its promise are the run's.

**RoomManager.** `IInv` is the conjunction of the four invariants: `OneSharer`
needs `ViewsAgree` (an arrival is not already in the list under another room),
`ViewsAgree` needs the types (an entry is a participant or `Absent`, never
both). `NobodySqueezedIn`: `OnlyJoinAdds` shows no other operation brings
anybody in, `JoinFits` counts. `NoRoomIsLost` is inductive over `IInv`, and is
what the order "record first, live room after" of `create_room` and
`set_capacity` is for. `NamesCollideOnlyOnLoad` is a fact about each step: a name
written is one nobody has. `ConversationDiesWithRoom` is false in general, and
the theorem says exactly when it is true: no clearing is refused; no removal is
applied and reported as failed (`remove_room` of a room only the store knows
then returns before it clears); nobody kills the server between the two writes;
and dbadmin deletes no room (section 5). It leans on
`NoRoomIsLost`: a live room that a restart did not find would leave its
conversation. The refinement is a step simulation, one lemma per operation; the
mapping chooses *the* sharer, which `OneSharer` makes unique.

**Hub.** `PresenceAgrees` is not inductive. It says that whoever is inside a room
is indexed there and has a socket; a departure takes somebody out of the room
the index names. `Presence` adds the converse, that the index names no room its
user is not in. `Told` says of everybody inside whether the screen they show is
the one a socket was told of, and `RostersAgree`, which names one sharer by a
CHOOSE, follows. `Restrained` ties the restrictions cached on a connection to
the account and to the room's entry. Its hypothesis, `ServerWritesAlone`, is
that dbadmin asks for sessions to end and writes nothing else: with more,
`hub_ban_missed` and `hub_no_administrator` show the properties to be false, and
`hub_elsewhere` checks what is left. `SecondLogins = FALSE` is likewise what
`hub_second_login` breaks.

**Accounts.** A hand keeps a copy of what it read until it writes. The invariant
(`Kept`, `Holding`, `Histories`, `DecisionsStand`) says what the copy may be
trusted for: it is of an account that was once there, the edit is one of those
the hand makes, and a hand that has counted takes nobody's role unless it
counted two. `LastOne` is a cardinality, so the accounts are finite.

**MediaRouter.** `EveryoneIsHeard` speaks of rest and says nothing of how it is
reached. The invariant says of each session what keeps it going while its
tracks and what its client heard of them differ: `HeardOf`, `InTheOffer`, and a
task in the worker's queue (`ToLookAt`, `ToOffer`), wherever in the queue it is.

**SignalingServer.** A deadlock is a circle of threads, and circles have any
length. `Circle` says it without walking one: a set of waiting threads each of
which is waited for by one of the set, be it for a lock it holds or for its end.
`NobodyWaitsInACircle` is that only the empty set is one, and `server_stop`
refutes it. `LocksAreLetGo` is what is true and proved: the one other circle is
`stop()` in its wait for the accepting thread, with that thread, and no frame,
heartbeat, candidate, task or hang-up makes another. The proof gives the locks
an order. The invariant is about what a thread still has to do: the router's
lock is taken before all that is done under it, once, and given back before the
next person is put out (`Ordered`); what is held is given back before anybody is
hung up on (`GivesBack`); a peer connection's lock is held by its own callback,
which then asks for nothing, the accepting thread holds none and the stopping
one the mutex only while it waits (`Owned`); the accepting thread has one
connection in hand at most (`InHand`); a socket first says that it has opened and last
that it has closed (`Hears`); and whom `stop()` took out of the map it is still
to hang up on (`Pending`). So whoever else holds the server's lock waits for the
router's or a connection's, whoever holds the router's waits for a connection's,
whoever holds that waits for nothing: take those away, and what is left of a
circle is the two.

**ScreenSound.** `SoundCore` says in whose hands the capture is at each step of
`start` and `stop`, and of which capture each ring is. It is said of behaviours
in which no two calls met and the process is alive, which is what `SoundIsTrue`
excepts too; `sound_capture_lost` is how the process may die.

**Sessions.** `Accounted` says of each row who holds it or why nobody does, and
`Timed` that what is written lies between coming and leaving. `HereIsOnThePage`
counts: a page with a row missing that precedes one on it would hold more recent
rows than there are, for which `Recent` must be finite and its cardinality
compared.

**ViewerCeiling.** `Shape`, `Calls`, `Counted` and `Capped`: between the report a
thread has folded in and the cap it is about to apply, who still owes what.
What `Smallest` returns matters to neither property and is not proved.

**ScreenShare.** In whose hands the one living capture is, from `capturer_` to
the interface to its own thread, each change of hands being one step under no
lock; what the room is told follows from who is left to say so (`Owed`). All of
it is said of behaviours in which no capture ended under the call that starts
it (`~raced`, section 5); the types are said of all.

**MediaSession.** `CallRunsAsChosen` speaks of a call in which nothing is under
way, and `CallHolds` of every other moment. `ToBeSaid` says of a setting who has
still to say it to the session: the interface that wrote it down, the signaling
thread that heard of a mute, the builder before it has come to it; in force is
what was chosen, but for those (`CallInForce`). What each of them carries is what
was chosen last, unless a change went past him (`CallCarries`), which is where
`lost` comes from. The microphone's track follows as long as one thread at a
time has read what to set it to (`TrackFollows`), and the first in a room
records because the engine's own choices are undone in `start`, after the
connection that makes them (`CallRecords`). A device that was chosen and then
given back to the system is `Stuck`, excepted, and a finding of its own.

**Encoder.** A frame that was taken is in one of five places: with the event
thread on its way out, in the transform, with the event thread on its way in,
with the encoder thread, or in the queue. `LineInOrder` says that each holds its
frames in the order they were taken and that all of one place come before all of
the next, so none overtakes another, although two threads feed them. What keeps
it is `NeitherWaits`: the encoder thread feeds only while nothing is queued, the
event thread only while no request is kept, so the two never feed at once; it is
also why no request waits beside a frame. `RequestsCounted` follows a request
through the event queue, the count and the hand that answers it, and needs
frames that fail (`lost`) for the one case in which fewer are kept than were
made; `FramesKnown` says whose metadata is kept. A frame that comes out, a
session that is released and a transform that breaks down are then cases of
these. `RatesHeld` says of the card that its fields are those the session was
opened with and last told, and that the mode and the peak were set before the
types were.

**SignalingClient.** `Measures` (the round trip and the address) holds always.
`Orderly` holds until `disconnect()` overlaps another thread (`~crossed`), and
says of each stretch of a sign-in what is done and what is owed: `Quiet` before
`connect` and while its socket is opened, `Kept` while the link is wanted,
`Left` while `disconnect()` runs. `Living` makes it inductive: a socket that can
still call back is in place or in one thread's hand.

What the attempts found. `AfterWrite` of `Accounts`, `RatesHold` of `Encoder`
(an NVENC session has no mode to constrain), and four operators of `AdminPanel`,
`Config` and `Codec`, were CASEs whose guards overlapped: TLC takes
the first that is true, the language leaves it open, and no proof goes through.
They are exclusive now. The heartbeat of `SignalingServer` once put people out by
one queue flattened from several, about which nothing can be proved without an
induction; it is one step a person now, as the loop of `tick` is, and the steps
in between are ones another thread may come into.

What is only model-checked, and why:

- Liveness (`BackInTheRoom`, `DroppedIsReplaced`, `EverythingIsRead`,
  `RequestsAreHonoured`): the prover does not do fairness.
- `SaysNoMore`, `SettingsLast`, `SavesKeepItStarting`: `Codec` and `Settings` are
  tables and files read by recursion.
- `StreamIsWhole`, `AsksOnlyForMissing`: arithmetic modulo the width of a number,
  where the arguments are about windows; the provers decide none of it for a
  symbolic modulus.
- `ClientAgrees`: what two ends believe after any queue of messages in flight is
  a fold over that queue, which is induction over data. `OneConversation`: what a
  panel shows is a selection from the sequence of what was said, the same.
- `CaptureHasTheFloor`, `AskedIsRead`: not proved; section 6.

## 5. What the code does otherwise

The cases the properties except, met while modelling. Each is a behaviour of the
model; none is a run of its own.

**Client, `CallSession`.** `leave()` clears the participants and not the sharer
(`call_session.cpp:228`). Signing out keeps `muted_`; the echo of a mute past a
leave mutes the next room. An offer in flight past a leave builds a media
session for a stay that is over. A kick that crosses a leave and a join puts the
client out of the room it has just entered; a second join, or a refused one,
leaves `room_` at what was asked last. A form submitted twice can be read on
either side of the end of a session. A capture is not stopped when the share is
refused or blocked. `rejoin_muted_` is read and sent later. A `Failed` media
state hides the room page. A newcomer is told nothing of others' mutes
(`hub.cpp:797`).

**Client, `SignalingClient`** (history `crossed`). `disconnect()` that overlaps a
callback or the retry thread past its check leaves the state at Reconnecting,
Connected, Connecting or Failed with no socket and nothing scheduled, and the
next sign-in waits for a link that is not coming (`call_session.cpp:119`). Or a
socket opens after `disconnect()`, and `connect()` answers `already_connected`
leaving `wanted_` false. A failure told as an error and a close counts as two
drops.

**Client, screen share** (history `raced`). A capture that fails between
`capturer->start` and `sharing_.store(true)` (`libwebrtc_media_session.cpp:1030`
to 1047) tells the room "stopped" before "started". One that fails while
`set_capture_options` restarts it (1129 to 1164) leaves a captured screen the
room was told is over. The interface and the capture's thread may both join
`pump_thread_` (1051). `ScreenAudioMixer::stop` is called from both threads, and
a loopback that fails before `active_` is set is overwritten.

**Client, encoder.** A request for a key frame that is dropped with the oldest
queued frame is lost (receivers ask again). After a transform's error event
nothing listens while `Encode` goes on answering OK, with no fallback. A refused
`ProcessInput` loses the transform's request and leaves its metadata. A rate the
driver refuses is remembered and not asked again (history `refused`). `SetRates`
writes `codec_api_` without `transform_mutex_`, though its comment says every
call is serialised through it. Media Foundation takes frames to be of the
session's size, where NVENC checks. Key frames themselves are left out: they are
forced with their frame, under the transform's lock.

**Client, media session** (histories `lost`, `raced`, `silenced`). Settings
changed while a session is being built are kept and not applied; a mute, volume
or device set between the builder's copy and its apply is overwritten by the
older value. A capture quality whose restart is refused is kept by the session
and not by `CallSession`, against `call_session.cpp:573`. A refused input device
is written down all the same, and capture stays stopped. The system default
device cannot be returned to: `select_device("")` answers `device_not_found`,
whose result the dialog ignores, against `settings_dialog.cpp:57`
(`MediaSession!DefaultComesBack` states it, and TLC finds it violated with
`SPECIFICATION Spec`, `Voices = {v}`, `MaxChanges = 2`, `MaxBuilds = 2`; it has
no run here). `apply_track_enabled` reads and then sets, unlocked, from three
threads. `close()` resets `connection_` while `stats_loop` or `levels_loop` may
be past its check, a data race that is not modelled. An out-of-range volume is
stored before the session refuses it.

**SFU.** `negotiate` clears the pending flag before `setLocalDescription` may
throw. A ceiling is worked out under `bandwidth_mutex_` and applied past it, so
two may be applied in the other order (history `stale`). A newcomer's feedback
has no ceiling until the next report. A stitched stream may reuse a number when
the first packets of a sharer arrive reordered (history `early`), and a restart
of the same person within `kMaxOrdinaryJump` or `kMaxOrdinaryRewind` cannot be
told from loss. `LossRepair` is deaf to a source that restarts backwards under
one ssrc until it has caught up.

**Notices.** `MongoNoticeStore::acknowledge` says "only when it is still
outstanding", but filters on nothing of the kind: a second acknowledgement
stamps it again. With more pending than `kMaxPendingPerDelivery`, a new notice
is handed over before older ones. An acknowledgement the store refuses leaves
the notice unread until the next sign-in (`refused`).

**Accounts** (histories `crossed`, `outdated`). "What lands here is what was
there" (`mongo_store.cpp:377`) is not so when dbadmin writes between the read and
the write. A count of administrators may be outdated by the time of the write,
and leave none. dbadmin's form of restrictions writes all four flags as they
were when it was opened. A heartbeat query that fails reads as an account that
does not exist and signs its person out. `delete_user` (`hub.cpp:2090`) signs out
before a removal that may be refused.

**Chat.** A message stored without an answer is never announced
(`unannounced`). A failed read gives an empty history, which replaces the panel.
The cooldown of nudges is of the connection, not of the person. A refused
message's text is gone from the box. Mongo's conversation is ordered by seconds.

**Administration.** When the selected account is deleted elsewhere, the row stays
and is the next account's, against `table.cpp:44` and `admin_panel.cpp:453`: a
role or password picked from a menu that was open meanwhile goes to another
account. A toggle from such a menu may do the opposite of its label. Questions
(delete, ban) always name their target. Boxes ticked and not applied are reset
by a refresh; Apply sends all four. In dbadmin a read started before another
may arrive after it and leave the list stale until the next refresh (`excused`);
a stale list consumes the focus meant for the fresh one.

**Wire and settings.** An integer wider than 32 bits is truncated. `update_user`
with a role the server does not know demotes, against `docs/06-protocol.md:136`.
Two copies of the client share `config.ini` and its `.tmp`: overlapping saves
lose one, and the second rename may fail (`crossed`). A file that is valid over
the defaults may be refused together with the machine's (`FloorBeside`), against
`config.cpp:1302`. Settings are saved to the person's file even where `--config`
replaces the cascade. The environment ignores what it cannot read; a file and
the arguments refuse it. `parse_json` narrows ports modulo 65536; `to_json`
leaves out five settings.

**Rooms and dbadmin.** A room dbadmin deleted under a running server is written
back whole by its next `update_room`, against `store.go:787`, and its messages
stay, against `docs/06-protocol.md:293`. `RoomManager!DeletedStaysGone` and
`RoomManager!ConversationDiesWithRoom` state the two, and TLC finds both violated
of `RoomManager`'s own `Spec`, with the values `recovery` gives its constants;
they have no run here.

**Presence.** The clock of `Sessions` is taken not to go back; where it does, a
stay may end before it began. An account that signs in again on its own socket,
an insert that is not acknowledged and a close that is refused each leave a row
open until the next start (history `forgotten`).

## 6. Not modelled, and the plan

Not modelled: tokens expiring by the clock, password hashing, the audit log, the
nudge's cooldown, the pages an administrator reads, ICE candidates, packets
forwarded (they change counters), statistics and quality, bandwidth estimation
(arithmetic over a clock), the noise gate (arithmetic over samples), capture devices, codecs and libwebrtc themselves, layout and wording,
the text of JSON and SDP, logging, crash reports, start-up, the server's
`UnknownOptions::Reject`, the build and the vendored code. A room's `persistent`
flag is always true (`room_manager.cpp:142`, `194`) and is left out; the memory
store's eviction of old notices is too. A database read that fails is modelled
where its caller can tell it from an answer, and otherwise named above.

What could still be proved, most important first:

1. `CallSession`: `ClientAgrees` for queues of any length needs an induction
   principle the provers can instantiate; without one, an invariant about the
   last message of each kind in flight for `OffersAreAnswered` and
   `CaptureHasTheFloor`.
2. `AdminPanel` and `AdminConsole`, whose lists are redrawn underneath.
