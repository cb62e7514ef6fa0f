------------------------------- MODULE MCRecovery ------------------------------
(* The parts in which something must come right again, on small instances,*)
(* one at a time: a client whose socket drops (CallSession), the link     *)
(* below it that is built anew (SignalingClient), notices that wait for   *)
(* their reader (Notices), the rows that say who is connected (Sessions), *)
(* and the cap that follows the slowest viewer, whatever threads do at    *)
(* once (ViewerCeiling).  A behaviour runs one of them; the others stay as*)
(* they start, where nothing of them is owed.                             *)
EXTENDS TLC, FiniteSets, Sequences, ViewerCeiling

CONSTANTS
  Parts,                                     \* which of them are run
  TypedNames, Untyped, NoRoom, Absent, MaxParticipantsPerRoom, Me, Places, Capacity,
  MaxStays, MaxQueue, Scenarios,             \* CallSession's
  Urls, MaxSockets, MaxAttempts, MaxNonce,   \* SignalingClient's
  NoticeSockets, MaxNotices, kMaxPendingPerDelivery, MaxSignIns, MaxRefusals,
                                             \* Notices'
  NoConnection, Stores, Requested, kDefaultLimit, kMaxLimit, kCapacity, MaxOpened, MaxTime
                                             \* Sessions'

VARIABLES
  part,          \* which of them this behaviour is of
  acts, link, state, local_user, pending, room_id, participants, sharer, muted, audio,
  connected, microphone, capturing, building, calling, to_server, to_client, account,
  people, sfu, wanted, asked,
  l_state, l_wanted, l_attempts, l_retry_at, l_socket, l_wire, l_told, l_reached, l_url,
  l_next_url, l_sent, l_nonce, l_measured, l_pongs, l_interface, l_retrying, l_calling,
  l_placed, l_crossed,
  n_written, n_acknowledged, n_joined, n_identified, n_delivered, n_down, n_up, n_boxes,
  n_sign_ins, n_refused,
  s_store, s_rows, s_opened, s_now, s_running, s_user, s_connection_of, s_session_id,
  s_left, s_beat, s_late, s_forgotten

session_vars == <<acts, link, state, local_user, pending, room_id, participants, sharer,
  muted, audio, connected, microphone, capturing, building, calling, to_server, to_client,
  account, people, sfu, wanted, asked>>
l_vars == <<l_state, l_wanted, l_attempts, l_retry_at, l_socket, l_wire, l_told,
  l_reached, l_url, l_next_url, l_sent, l_nonce, l_measured, l_pongs, l_interface,
  l_retrying, l_calling, l_placed, l_crossed>>
n_vars == <<n_written, n_acknowledged, n_joined, n_identified, n_delivered, n_down, n_up,
  n_boxes, n_sign_ins, n_refused>>
s_vars == <<s_store, s_rows, s_opened, s_now, s_running, s_user, s_connection_of,
  s_session_id, s_left, s_beat, s_late, s_forgotten>>

Session == INSTANCE CallSession WITH RoomIds <- Places

Link == INSTANCE SignalingClientProofs WITH
  state <- l_state, wanted <- l_wanted, attempts <- l_attempts, retry_at <- l_retry_at,
  socket <- l_socket, wire <- l_wire, told <- l_told, reached <- l_reached, url <-
  l_url, next_url <- l_next_url, sent <- l_sent, nonce <- l_nonce, measured <-
  l_measured, pongs <- l_pongs, interface <- l_interface, retrying <- l_retrying,
  calling <- l_calling, placed <- l_placed, crossed <- l_crossed

Mail == INSTANCE Notices WITH
  Sockets <- NoticeSockets, written <- n_written, acknowledged <- n_acknowledged,
  joined <- n_joined, identified <- n_identified, delivered <- n_delivered,
  down <- n_down, up <- n_up, boxes <- n_boxes, sign_ins <- n_sign_ins,
  refused <- n_refused

Who == INSTANCE Sessions WITH
  Sockets <- NoticeSockets, store <- s_store, rows <- s_rows, opened <- s_opened,
  now <- s_now, running <- s_running, user <- s_user, connection_of <- s_connection_of,
  session_id <- s_session_id, left <- s_left, beat <- s_beat, late <- s_late,
  forgotten <- s_forgotten

ASSUME PartsAssumption ==
  /\ Session!CallSessionAssumption
  /\ Link!SignalingClientAssumption
  /\ Mail!NoticesAssumption
  /\ Who!SessionsAssumption

(* Each property has a scenario that excepts none of what it is about.     *)
Everyday ==
  {{"leave", "drop", "company", "company_shares"},
   {"leave", "drop", "join_again"},
   {"leave", "drop", "share", "kick"},
   {"drop", "mute", "kick"},
   {"drop", "mute", "sign_in_again"},
   {"drop", "force_mute", "company"},
   {"leave", "drop", "sign_out", "end_session"}}

MuteAndForce == {{"mute", "force_mute"}}

(* What does not run stays as it starts.                                   *)
PartsInit ==
  /\ Session!Init /\ Link!Init /\ Mail!Init /\ Who!Init /\ Init
  /\ part \in Parts
  /\ part # "session" => acts = CHOOSE s \in Scenarios : TRUE
  /\ part # "rows" => s_store = CHOOSE s \in Stores : TRUE

PartsNext ==
  /\ UNCHANGED part
  /\ IF part = "session" THEN Session!Next ELSE UNCHANGED session_vars
  /\ IF part = "link" THEN Link!Next ELSE UNCHANGED l_vars
  /\ IF part = "notices" THEN Mail!Next ELSE UNCHANGED n_vars
  /\ IF part = "rows" THEN Who!Next ELSE UNCHANGED s_vars
  /\ IF part = "ceiling" THEN Next ELSE UNCHANGED vars

PartsSpec ==
  /\ PartsInit
  /\ [][PartsNext]_<<part, session_vars, l_vars, n_vars, s_vars, vars>>
  /\ Session!Fairness /\ Link!Fairness /\ Mail!Fairness

(* The types of every part.                                                *)
PartsTypeOK ==
  /\ part = "session" => Session!TypeOK
  /\ part = "link" => Link!TypeOK
  /\ part = "notices" => Mail!TypeOK
  /\ part = "rows" => Who!TypeOK
  /\ part = "ceiling" => TypeOK

(* CallSession: once everything is read, the client and the server agree   *)
(* about the room, the account and the mute, and the client does not miss  *)
(* anybody in its room, nor the screen shared there; and every offer is    *)
(* answered by a session of the stay it is of.                             *)
ClientAgrees ==
  Session!PictureAgrees /\ Session!ServerAgrees /\ Session!OffersAreAnswered

(* CallSession: the screen is captured only for a room that gave its floor.*)
CaptureHasTheFloor == Session!CaptureHasTheFloor

(* CallSession: whoever goes on asking for a room is back in it, however   *)
(* often the socket drops.                                                 *)
BackInTheRoom == Session!BackInTheRoom

(* CallSession: what docs/06-protocol.md:358 says of a forced mute, that   *)
(* one click does not undo it.                                             *)
ForcedMuteSilences == Session!ForcedMuteSilences

(* SignalingClient: what the state says of the socket and of the retry is  *)
(* so, for the calls that decide by it; the round trip shown was measured  *)
(* on the socket in place, and a retry knocks at the address of the        *)
(* sign-in, across drops, retries and whatever is typed meanwhile.         *)
LinkAgrees == Link!StateTellsTheTruth /\ Link!LinkIsOfThisSignIn

(* SignalingClient: a socket that dropped and is still wanted is replaced, *)
(* whichever thread was doing what when it did.                            *)
DroppedIsReplaced == Link!DroppedIsReplaced

(* Sessions: what the store says of who is connected, and since when, is   *)
(* so, across failed writes and restarts; and who is connected is on the   *)
(* first page that is read of it.                                          *)
PresenceIsTrue == Who!PresenceIsTrue /\ Who!HereIsOnThePage

(* Notices: what administrators wrote is read by whoever stays signed in,  *)
(* across lost connections, second sign-ins and a store with more pending  *)
(* than one delivery carries.                                              *)
EverythingIsRead == Mail!EverythingIsRead
=============================================================================
