---------------------------- MODULE CallSession ----------------------------
(***************************************************************************)
(* dv::client::app::CallSession: what one client believes of its sign-in,  *)
(* of its room and of its media, against what the server knows, with the   *)
(* messages of both in flight between them.                                *)
(*                                                                         *)
(* Three threads of the client step here: the interface's (what the person *)
(* does, as main_window.cpp lets them), the socket's (one message, or one  *)
(* change of the link, at a time) and the media's.  A call or a handler is *)
(* one action, except where it does something slow outside the mutex: a    *)
(* media session is built, and a capture or a microphone switched, between *)
(* two of its steps.  SignalingClient.tla has the link's own threads; here *)
(* the link is up, down or coming back.                                    *)
(*                                                                         *)
(* The server is the part of Hub.tla one client can tell from any other:   *)
(* the same handlers on one account, Me, and on people who only enter,     *)
(* leave and share.  What changes nothing at the client (a refusal, the    *)
(* lists, the chat) is not sent.  A stay names one arrival of Me: the SFU  *)
(* makes a peer connection for each, and the media session of another stay *)
(* cannot answer its offers.                                               *)
(***************************************************************************)
EXTENDS Rooms, Sequences

LOCAL INSTANCE SequencesExt

CONSTANTS
  Me,            \* the account of this client; the other Users are company
  Capacity,      \* the size of every room
  MaxStays,      \* bound on the stays something still remembers at once
  MaxQueue,      \* bound on the messages in flight when somebody acts
  Scenarios      \* what may happen, beyond signing in and entering a room

AllActs ==
  {"leave", "sign_out", "sign_in_again", "join_again", "drop", "mute", "share",
   "company", "company_shares", "kick", "force_mute", "end_session"}

Company == Users \ {Me}
Stays == 1 .. MaxStays
NoStay == 0      \* no media session, no peer connection
Rooms_ == RoomIds \cup {Nowhere}

States == {"Idle", "Connecting", "Authenticated", "InCall"}
Links == {"disconnected", "connecting", "connected", "reconnecting"}

ToServer ==
  [type : {"authenticate", "join_room", "leave_room", "mute", "unmute",
           "screen_share_started", "screen_share_stopped", "answer"},
   room : Rooms_, stay : Stays \cup {NoStay}]

ToClient ==
  [type : {"authenticated", "user_joined", "user_left", "user_kicked", "mute", "unmute",
           "screen_share_started", "screen_share_stopped", "session_ended", "offer"},
   user : Users \cup {Nobody}, stay : Stays \cup {NoStay}]

(* A call of the interface that has read what it needs under the mutex.    *)
Call == [what : {"mute", "unmute", "share"}, room : RoomIds, session : Stays \cup {NoStay}]

CallSessionAssumption ==
  /\ Me \in Users
  /\ Capacity \in Nat /\ MaxStays \in Nat /\ MaxQueue \in Nat
  /\ Scenarios \subseteq SUBSET AllActs

VARIABLES
  acts,           \* the scenario
  link,           \* signaling_.state()
  state,          \* state_
  local_user,     \* whether local_user_ is set
  pending,        \* whether credentials wait for a socket (pending_username_)
  room_id,        \* room_id_
  participants,   \* the identifiers in participants_
  sharer,         \* screen_sharer_
  muted,          \* muted_
  audio,          \* audio_: the stay its first offer was of
  connected,      \* whether that session has reported Connected
  microphone,     \* whether its microphone is open
  capturing,      \* whether it captures the screen
  building,       \* the offer a session is being built for, outside the mutex
  calling,        \* the call the interface's thread is in the middle of
  to_server, to_client,   \* the socket
  account,        \* where the server has Me: "nowhere", on the "socket", or on
                  \* one that has dropped and that it still takes for open
  people,         \* the participants of every room
  sfu,            \* Me's peer connection: its stay, and its negotiation
  wanted,         \* history: the person asked to be signed in
  asked           \* history: the room the person asked to be in

client == <<local_user, pending, room_id, participants, sharer, muted>>
media == <<audio, connected, microphone, capturing>>
socket == <<to_server, to_client>>
server == <<account, people, sfu>>
history == <<wanted, asked>>
vars == <<acts, link, state, client, media, building, calling, socket, server, history>>
-----------------------------------------------------------------------------
(* Where the server has people, and what it sends.                         *)

Place(u) ==
  IF \E r \in RoomIds : contains(people, r, u)
  THEN CHOOSE r \in RoomIds : contains(people, r, u) ELSE Nowhere

ToC(type, u) == [type |-> type, user |-> u, stay |-> NoStay]
ToS(type, r) == [type |-> type, room |-> r, stay |-> NoStay]

(* Sent on the socket Me is signed in on.                                  *)
Told(messages) == IF account = "socket" THEN to_client \o messages ELSE to_client

(* Broadcast to room r.                                                    *)
ToldIn(r, messages) == IF Place(Me) = r THEN Told(messages) ELSE to_client

Quiet == Len(to_server) + Len(to_client) < MaxQueue

NoPeer == [stay |-> NoStay, phase |-> "idle", answered |-> FALSE]

(* Somebody's track added (MediaRouter.tla): one offer at a time, the next *)
(* one owed after it.  A track that goes is not offered again.             *)
Renegotiated(peer) ==
  [peer EXCEPT !.phase = IF peer.stay = NoStay THEN @
                         ELSE IF @ \in {"outstanding", "again"} THEN "again" ELSE "owed"]

(* A stay that nothing remembers.                                          *)
FreshStays ==
  {s \in Stays : /\ s \notin {audio, building, sfu.stay}
                 /\ \A i \in DOMAIN to_client : to_client[i].stay # s
                 /\ \A i \in DOMAIN to_server : to_server[i].stay # s
                 /\ \A call \in calling : call.session # s}

PeopleWithoutMe == [r \in RoomIds |-> [people[r] EXCEPT ![Me] = Absent]]
-----------------------------------------------------------------------------
Init ==
  /\ acts \in Scenarios
  /\ link = "disconnected" /\ state = "Idle"
  /\ local_user = FALSE /\ pending = FALSE
  /\ room_id = Nowhere /\ participants = {} /\ sharer = Nobody
  /\ muted = FALSE
  /\ audio = NoStay /\ connected = FALSE /\ microphone = FALSE /\ capturing = FALSE
  /\ building = NoStay /\ calling = {}
  /\ to_server = <<>> /\ to_client = <<>>
  /\ account = "nowhere" /\ people = [r \in RoomIds |-> Empty] /\ sfu = NoPeer
  /\ wanted = FALSE /\ asked = Nowhere

(* SignalingClient::send: refused unless the socket is open.               *)
Sent(message) == IF link = "connected" THEN Append(to_server, message) ELSE to_server

(* What can be pressed: main_window.cpp's pages, with the interface's      *)
(* thread free.                                                            *)
OnLoginPage == state # "InCall" /\ ~local_user /\ calling = {}
OnHomePage == state # "InCall" /\ local_user /\ calling = {}
OnRoomPage == state = "InCall" /\ calling = {}

SessionGoneScreenLeft ==                                             \* a slip
  /\ audio' = NoStay /\ connected' = FALSE
  /\ microphone' = FALSE /\ UNCHANGED capturing

(* audio_ swapped out, and closed: its devices with it.                    *)
NoSession ==
  /\ audio' = NoStay /\ connected' = FALSE
  /\ microphone' = FALSE /\ capturing' = FALSE
-----------------------------------------------------------------------------
(* What the person does.                                                   *)

connect_and_authenticate ==
  /\ OnLoginPage /\ state # "Authenticated" /\ Quiet
  /\ pending => "sign_in_again" \in acts
  /\ pending' = TRUE
  /\ state' = "Connecting"
  /\ link' = IF link = "disconnected" THEN "connecting" ELSE link
  /\ to_server' = Sent(ToS("authenticate", Nowhere))
  /\ wanted' = TRUE
  /\ UNCHANGED <<acts, local_user, room_id, participants, sharer, muted, media,
                 building, calling, to_client, server, asked>>

(* The login screen knocks without signing in.                             *)
probe_server ==
  /\ link = "disconnected" /\ OnLoginPage
  /\ link' = "connecting"
  /\ UNCHANGED <<acts, state, client, media, building, calling, socket, server, history>>

(* The room is written before the server answers.  Until the first answer  *)
(* has become a call the buttons are live, and may be pressed again.       *)
join(r) ==
  /\ OnHomePage /\ state = "Authenticated" /\ Quiet
  /\ room_id # Nowhere => "join_again" \in acts
  /\ room_id' = r
  /\ to_server' = Sent(ToS("join_room", r))
  /\ asked' = r
  /\ UNCHANGED <<acts, link, state, local_user, pending, participants, sharer, muted,
                 media, building, calling, to_client, server, wanted>>

RoomAfterLeave(r) == Nowhere

(* screen_sharer_ stays.                                                   *)
leave ==
  /\ "leave" \in acts
  /\ OnRoomPage /\ Quiet
  /\ room_id' = RoomAfterLeave(room_id)
  /\ participants' = {} /\ muted' = FALSE
  /\ NoSession
  /\ asked' = Nowhere
  /\ IF room_id = Nowhere THEN UNCHANGED <<state, to_server>>
     ELSE state' = "Authenticated" /\ to_server' = Sent(ToS("leave_room", room_id))
  /\ UNCHANGED <<acts, link, local_user, pending, sharer, building, calling,
                 to_client, server, wanted>>

(* The flag, under the mutex; the microphone and the message come after.   *)
set_muted ==
  /\ "mute" \in acts
  /\ OnRoomPage /\ room_id # Nowhere
  /\ muted' = ~muted
  /\ calling' = {[what |-> IF muted THEN "unmute" ELSE "mute", room |-> room_id,
                  session |-> audio]}
  /\ UNCHANGED <<acts, link, state, local_user, pending, room_id, participants, sharer,
                 media, building, socket, server, history>>

start_screen_share ==
  /\ "share" \in acts
  /\ OnRoomPage /\ ~capturing
  /\ sharer \in {Nobody, Me}
  /\ room_id # Nowhere /\ audio # NoStay
  /\ calling' = {[what |-> "share", room |-> room_id, session |-> audio]}
  /\ UNCHANGED <<acts, link, state, client, media, building, socket, server, history>>

(* The rest of either, on the session that was read then.                  *)
CallEnds(call) ==
  /\ Quiet
  /\ microphone' = IF call.session = audio /\ audio # NoStay /\ call.what # "share"
                   THEN call.what = "unmute" ELSE microphone
  /\ capturing' = (capturing \/ (/\ call.what = "share" /\ call.session = audio
                                 /\ link = "connected"))
  /\ to_server' = Sent(ToS(IF call.what = "share" THEN "screen_share_started" ELSE call.what,
                           call.room))
  /\ calling' = {}
  /\ UNCHANGED <<acts, link, state, client, audio, connected, building, to_client, server,
                 history>>

stop_screen_share ==
  /\ OnRoomPage /\ capturing /\ Quiet
  /\ capturing' = FALSE
  /\ to_server' = IF room_id = Nowhere THEN to_server
                  ELSE Sent(ToS("screen_share_stopped", room_id))
  /\ UNCHANGED <<acts, link, state, client, audio, connected, microphone, building, calling,
                 to_client, server, history>>

PendingAfterSignOutKept == pending                                   \* a slip
PendingAfterSignOut == FALSE

(* Signing out: identity, credentials and room go, and the socket with     *)
(* whatever it carried.  muted_ and screen_sharer_ stay.                   *)
disconnect ==
  /\ "sign_out" \in acts
  /\ OnHomePage
  /\ NoSession
  /\ participants' = {} /\ room_id' = Nowhere
  /\ local_user' = FALSE /\ pending' = PendingAfterSignOut
  /\ state' = "Idle" /\ link' = "disconnected"
  /\ to_server' = <<>> /\ to_client' = <<>>
  /\ account' = IF account = "socket" THEN "dropped" ELSE account
  /\ wanted' = FALSE /\ asked' = Nowhere
  /\ UNCHANGED <<acts, sharer, muted, building, calling, people, sfu>>
-----------------------------------------------------------------------------
(* The link, as handle_signaling_state is told of it.                      *)

SocketOpens ==
  /\ link \in {"connecting", "reconnecting"}
  /\ link' = "connected"
  /\ to_server' = IF pending THEN <<ToS("authenticate", Nowhere)>> ELSE <<>>
  /\ UNCHANGED <<acts, state, client, media, building, calling, to_client, server, history>>

(* What was in flight is lost, and the server may take a while to notice.  *)
SocketDrops ==
  /\ "drop" \in acts
  /\ link = "connected" /\ building = NoStay
  /\ link' = "reconnecting"
  /\ state' = IF pending \/ local_user THEN "Connecting" ELSE state
  /\ to_server' = <<>> /\ to_client' = <<>>
  /\ account' = IF account = "socket" THEN "dropped" ELSE account
  /\ UNCHANGED <<acts, client, media, building, calling, people, sfu, history>>
-----------------------------------------------------------------------------
(* What the client does with a message.                                    *)

Receive(type) ==
  /\ to_client # <<>> /\ Head(to_client).type = type
  /\ building = NoStay
  /\ to_client' = Tail(to_client)

SessionAfterSignInKept == UNCHANGED media                            \* a slip

(* Dropped, so that the next offer builds a fresh one.                     *)
SessionAfterSignIn == NoSession

RejoinsNowhere == <<>>                                               \* a slip

RejoinsUnmuted == IF room_id = Nowhere THEN <<>>                     \* a slip
                  ELSE <<ToS("join_room", room_id)>>

(* Walking back in, and saying the mute again behind the join.             *)
Rejoins ==
  IF room_id = Nowhere THEN <<>>
  ELSE <<ToS("join_room", room_id)>> \o (IF muted THEN <<ToS("mute", room_id)>> ELSE <<>>)

Authenticated ==
  /\ Receive("authenticated")
  /\ local_user' = TRUE
  /\ participants' = {} /\ sharer' = Nobody
  /\ SessionAfterSignIn
  /\ state' = "Authenticated"
  /\ to_server' = to_server \o Rejoins
  /\ UNCHANGED <<acts, link, pending, room_id, muted, building, calling, server, history>>

ParticipantsFromOurJoin(u) ==                                        \* a slip
  IF u = Me THEN {u} ELSE participants \cup {u}
ParticipantsWith(u) == participants \cup {u}

UserJoined ==
  /\ Receive("user_joined")
  /\ participants' = ParticipantsWith(Head(to_client).user)
  /\ UNCHANGED <<acts, link, state, local_user, pending, room_id, sharer, muted, media,
                 building, calling, to_server, server, history>>

UserLeft ==
  /\ Receive("user_left")
  /\ LET u == Head(to_client).user
     IN /\ participants' = participants \ {u}
        /\ sharer' = IF sharer = u THEN Nobody ELSE sharer
  /\ UNCHANGED <<acts, link, state, local_user, pending, room_id, muted, media, building,
                 calling, to_server, server, history>>

MicrophoneAfterEcho(flag) == IF audio = NoStay THEN microphone ELSE ~flag

(* Mute and Unmute, of Me: whoever asked for it.                           *)
MuteChanged(type) ==
  /\ Receive(type)
  /\ muted' = (type = "mute")
  /\ microphone' = MicrophoneAfterEcho(type = "mute")
  /\ UNCHANGED <<acts, link, state, local_user, pending, room_id, participants, sharer,
                 audio, connected, capturing, building, calling, to_server, server, history>>

(* Of Me; anybody else's is a departure.  A kick about a stranger, or read *)
(* after session_ended, concerns nobody here.                              *)
UserKicked ==
  /\ Receive("user_kicked")
  /\ IF local_user
     THEN /\ room_id' = Nowhere /\ participants' = {} /\ sharer' = Nobody
          /\ muted' = FALSE
          /\ NoSession
          /\ state' = "Authenticated"
          /\ asked' = Nowhere
     ELSE /\ participants' = participants \ {Me}
          /\ sharer' = IF sharer = Me THEN Nobody ELSE sharer
          /\ UNCHANGED <<room_id, muted, media, state, asked>>
  /\ UNCHANGED <<acts, link, local_user, pending, building, calling, to_server, server, wanted>>

PendingAfterEnd == FALSE

SessionEnded ==
  /\ Receive("session_ended")
  /\ local_user' = FALSE /\ pending' = PendingAfterEnd
  /\ room_id' = Nowhere /\ participants' = {} /\ sharer' = Nobody
  /\ muted' = FALSE
  /\ NoSession
  /\ state' = "Idle"
  /\ wanted' = FALSE /\ asked' = Nowhere
  /\ UNCHANGED <<acts, link, building, calling, to_server, server>>

ScreenShareStarted ==
  /\ Receive("screen_share_started")
  /\ sharer' = Head(to_client).user
  /\ UNCHANGED <<acts, link, state, local_user, pending, room_id, participants, muted, media,
                 building, calling, to_server, server, history>>

(* The flag of whoever it is about; the capture, if it is Me's, goes on.   *)
ScreenShareStopped ==
  /\ Receive("screen_share_stopped")
  /\ sharer' = IF sharer = Head(to_client).user THEN Nobody ELSE sharer
  /\ UNCHANGED <<acts, link, state, local_user, pending, room_id, participants, muted, media,
                 building, calling, to_server, server, history>>

Answer(s) == [type |-> "answer", room |-> room_id, stay |-> s]

(* handle_offer.  A session of this stay answers, one of another cannot    *)
(* ("the order of m-lines"), and where there is none one is built.         *)
handle_offer ==
  /\ Receive("offer")
  /\ LET stay == Head(to_client).stay
     IN /\ building' = IF audio = NoStay THEN stay ELSE NoStay
        /\ to_server' = IF audio = stay THEN Sent(Answer(stay)) ELSE to_server
  /\ UNCHANGED <<acts, link, state, client, media, calling, server, history>>

BuiltOpen == TRUE                                                    \* a slip
BuiltMicrophone == ~muted

(* ensure_media_session, back under the mutex.                             *)
SessionBuilt ==
  /\ building # NoStay
  /\ audio' = building /\ connected' = FALSE /\ capturing' = FALSE
  /\ microphone' = BuiltMicrophone
  /\ building' = NoStay
  /\ to_server' = Sent(Answer(building))
  /\ UNCHANGED <<acts, link, state, client, calling, to_client, server, history>>

(* on_state: the peer connections found each other.                        *)
MediaConnects ==
  /\ audio # NoStay /\ audio = sfu.stay /\ sfu.answered /\ ~connected
  /\ connected' = TRUE
  /\ state' = "InCall"
  /\ UNCHANGED <<acts, link, client, audio, microphone, capturing, building, calling, socket,
                 server, history>>
-----------------------------------------------------------------------------
(* The server: one frame of Me's, in the order they were sent.             *)

Read(type) ==
  /\ to_server # <<>> /\ Head(to_server).type = type
  /\ to_server' = Tail(to_server)

ServerStep == UNCHANGED <<acts, link, state, client, media, building, calling, history>>

(* A frame that is answered by an error, or about nothing.                 *)
InItsRoom == account = "socket" /\ Head(to_server).room \in RoomIds
             /\ Place(Me) = Head(to_server).room

(* A login displaces the socket the account was on.                        *)
handle_authenticate ==
  /\ Read("authenticate")
  /\ account' = "socket"
  /\ to_client' = Append(to_client, ToC("authenticated", Me))
  /\ IF account = "dropped" THEN people' = PeopleWithoutMe /\ sfu' = NoPeer
     ELSE UNCHANGED <<people, sfu>>
  /\ ServerStep

Admitted(r) ==
  account = "socket" /\ Place(Me) # r /\ ~is_full(people, r, Capacity)

(* A share already in progress is announced to the newcomer.               *)
PictureOfScreen(r) ==
  IF Sharers(people, r) \ {Me} = {} THEN <<>>
  ELSE <<ToC("screen_share_started", screen_sharer(people, r))>>

(* Everyone already inside, then the joiner, then the screen.              *)
handle_join_room ==
  /\ Read("join_room")
  /\ FreshStays # {}
  /\ LET r == Head(to_server).room
     IN IF Admitted(r)
        THEN /\ people' = Moved(people, Place(Me), r, Me)
             /\ to_client' = to_client
                  \o [i \in 1 .. Cardinality(Occupants(people, r)) |->
                        ToC("user_joined", SetToSeq(Occupants(people, r))[i])]
                  \o <<ToC("user_joined", Me)>> \o PictureOfScreen(r)
             /\ \E s \in {t \in FreshStays : \A u \in FreshStays : t <= u} :
                  sfu' = [stay |-> s, phase |-> "owed", answered |-> FALSE]
        ELSE UNCHANGED <<people, to_client, sfu>>
  /\ UNCHANGED account
  /\ ServerStep

handle_leave_room ==
  /\ Read("leave_room")
  /\ IF InItsRoom THEN people' = PeopleWithoutMe /\ sfu' = NoPeer
     ELSE UNCHANGED <<people, sfu>>
  /\ UNCHANGED <<account, to_client>>
  /\ ServerStep

handle_mute(type) ==
  /\ Read(type)
  /\ IF InItsRoom /\ MayBeMuted(people[Place(Me)][Me], type = "mute", FALSE)
     THEN /\ people' = Set(people, Place(Me), Me,
                           MuteSet(people[Place(Me)][Me], type = "mute", FALSE))
          /\ to_client' = Append(to_client, ToC(type, Me))
     ELSE UNCHANGED <<people, to_client>>
  /\ UNCHANGED <<account, sfu>>
  /\ ServerStep

handle_screen_share(type) ==
  /\ Read(type)
  /\ LET starts == type = "screen_share_started"
     IN IF InItsRoom /\ (starts => ~ScreenBusy(people, Place(Me), Me))
        THEN /\ people' = Set(people, Place(Me), Me,
                  IF starts THEN ShareStarted(people[Place(Me)][Me], FALSE)
                  ELSE ShareStopped(people[Place(Me)][Me]))
             /\ to_client' = Append(to_client, ToC(type, Me))
        ELSE UNCHANGED <<people, to_client>>
  /\ UNCHANGED <<account, sfu>>
  /\ ServerStep

(* handle_relay, to the SFU; the next offer is made once this one is in.   *)
handle_answer ==
  /\ Read("answer")
  /\ sfu' = IF InItsRoom /\ Head(to_server).stay = sfu.stay
               /\ sfu.phase \in {"outstanding", "again"}
            THEN [sfu EXCEPT !.answered = TRUE,
                             !.phase = IF @ = "again" THEN "owed" ELSE "idle"]
            ELSE sfu
  /\ UNCHANGED <<account, people, to_client>>
  /\ ServerStep

(* The router's worker hands an offer to the socket as soon as it exists.  *)
SfuOffers ==
  /\ sfu.phase = "owed" /\ account = "socket"
  /\ sfu' = [sfu EXCEPT !.phase = "outstanding"]
  /\ to_client' = Append(to_client, [type |-> "offer", user |-> Nobody, stay |-> sfu.stay])
  /\ UNCHANGED <<account, people, to_server>>
  /\ ServerStep

(* on_disconnect, or the heartbeat, of a socket that went before.          *)
on_disconnect ==
  /\ account = "dropped"
  /\ account' = "nowhere" /\ people' = PeopleWithoutMe /\ sfu' = NoPeer
  /\ UNCHANGED socket
  /\ ServerStep
-----------------------------------------------------------------------------
(* Everybody else.                                                         *)

CompanyStep ==
  /\ UNCHANGED <<acts, link, state, client, media, building, calling, to_server, account>>

CompanyEnters(u, r) ==
  /\ "company" \in acts /\ Quiet
  /\ Place(u) = Nowhere /\ ~is_full(people, r, Capacity)
  /\ people' = Set(people, r, u, Newcomer)
  /\ to_client' = ToldIn(r, <<ToC("user_joined", u)>>)
  /\ sfu' = IF Place(Me) = r THEN Renegotiated(sfu) ELSE sfu
  /\ CompanyStep /\ UNCHANGED history

CompanyLeaves(u) ==
  /\ "company" \in acts /\ Quiet
  /\ Place(u) # Nowhere
  /\ people' = Out(people, Place(u), u)
  /\ to_client' = ToldIn(Place(u),
       (IF Shares(people, Place(u), u) THEN <<ToC("screen_share_stopped", u)>> ELSE <<>>)
         \o <<ToC("user_left", u)>>)
  /\ CompanyStep /\ UNCHANGED <<sfu, history>>

CompanyShares(u) ==
  /\ "company_shares" \in acts /\ Quiet
  /\ Place(u) # Nowhere /\ ~Shares(people, Place(u), u) /\ ~ScreenBusy(people, Place(u), u)
  /\ people' = Set(people, Place(u), u, ShareStarted(people[Place(u)][u], FALSE))
  /\ to_client' = ToldIn(Place(u), <<ToC("screen_share_started", u)>>)
  /\ CompanyStep /\ UNCHANGED <<sfu, history>>

CompanyStopsSharing(u) ==
  /\ "company_shares" \in acts /\ Quiet
  /\ Place(u) # Nowhere /\ Shares(people, Place(u), u)
  /\ people' = Set(people, Place(u), u, ShareStopped(people[Place(u)][u]))
  /\ to_client' = ToldIn(Place(u), <<ToC("screen_share_stopped", u)>>)
  /\ CompanyStep /\ UNCHANGED <<sfu, history>>

handle_kick ==
  /\ "kick" \in acts /\ Quiet
  /\ Place(Me) # Nowhere
  /\ people' = PeopleWithoutMe /\ sfu' = NoPeer
  /\ to_client' = Told(<<ToC("user_kicked", Me)>>)
  /\ asked' = IF asked = Place(Me) THEN Nowhere ELSE asked
  /\ CompanyStep /\ UNCHANGED wanted

handle_force_mute(silent) ==
  /\ "force_mute" \in acts /\ Quiet
  /\ Place(Me) # Nowhere
  /\ people[Place(Me)][Me].muted_by_admin # silent
  /\ people' = Set(people, Place(Me), Me, MuteSet(people[Place(Me)][Me], silent, TRUE))
  /\ to_client' = Told(<<ToC(IF silent THEN "mute" ELSE "unmute", Me)>>)
  /\ CompanyStep /\ UNCHANGED <<sfu, history>>

(* end_session_of: the session first, then the room, and the socket stays. *)
handle_end_session ==
  /\ "end_session" \in acts /\ Quiet
  /\ account = "socket"
  /\ people' = PeopleWithoutMe /\ sfu' = NoPeer
  /\ to_client' = to_client \o <<ToC("session_ended", Nobody)>>
                    \o (IF Place(Me) = Nowhere THEN <<>> ELSE <<ToC("user_kicked", Me)>>)
  /\ account' = "nowhere"
  /\ asked' = Nowhere
  /\ UNCHANGED <<acts, link, state, client, media, building, calling, to_server, wanted>>
-----------------------------------------------------------------------------
PersonNext ==
  \/ connect_and_authenticate \/ probe_server \/ disconnect
  \/ \E r \in RoomIds : join(r)
  \/ leave \/ set_muted \/ start_screen_share \/ stop_screen_share

ClientReads ==
  \/ Authenticated \/ UserJoined \/ UserLeft \/ UserKicked \/ SessionEnded
  \/ \E type \in {"mute", "unmute"} : MuteChanged(type)
  \/ ScreenShareStarted \/ ScreenShareStopped
  \/ handle_offer

CallReturns == \E call \in calling : CallEnds(call)

ServerReads ==
  \/ handle_authenticate \/ handle_join_room \/ handle_leave_room \/ handle_answer
  \/ \E type \in {"mute", "unmute"} : handle_mute(type)
  \/ \E type \in {"screen_share_started", "screen_share_stopped"} : handle_screen_share(type)

OthersNext ==
  \/ \E u \in Company, r \in RoomIds : CompanyEnters(u, r)
  \/ \E u \in Company : CompanyLeaves(u) \/ CompanyShares(u) \/ CompanyStopsSharing(u)
  \/ handle_kick \/ handle_end_session
  \/ \E silent \in BOOLEAN : handle_force_mute(silent)

Next ==
  \/ PersonNext \/ CallReturns
  \/ SocketOpens \/ SocketDrops \/ ClientReads \/ SessionBuilt \/ MediaConnects
  \/ ServerReads \/ SfuOffers \/ on_disconnect
  \/ OthersNext

(* The socket is retried for ever, both ends read what arrives, and a      *)
(* session that is being built or a call that is being made ends.          *)
Fairness ==
  /\ WF_vars(SocketOpens) /\ WF_vars(ClientReads) /\ WF_vars(SessionBuilt)
  /\ WF_vars(CallReturns) /\ WF_vars(ServerReads)

Spec == Init /\ [][Next]_vars /\ Fairness
-----------------------------------------------------------------------------
(* Properties.                                                             *)

(* Every variable has its shape.                                           *)
TypeOK ==
  /\ acts \in Scenarios
  /\ link \in Links /\ state \in States
  /\ local_user \in BOOLEAN /\ pending \in BOOLEAN /\ muted \in BOOLEAN
  /\ room_id \in Rooms_ /\ participants \subseteq Users
  /\ sharer \in Users \cup {Nobody}
  /\ audio \in Stays \cup {NoStay} /\ building \in Stays \cup {NoStay}
  /\ connected \in BOOLEAN /\ microphone \in BOOLEAN /\ capturing \in BOOLEAN
  /\ audio = NoStay => ~connected /\ ~microphone /\ ~capturing
  /\ calling \subseteq Call /\ Cardinality(calling) <= 1
  /\ to_server \in Seq(ToServer) /\ to_client \in Seq(ToClient)
  /\ account \in {"nowhere", "socket", "dropped"}
  /\ people \in [RoomIds -> [Users -> Participant \cup {Absent}]]
  /\ sfu \in [stay : Stays \cup {NoStay}, phase : {"idle", "owed", "outstanding", "again"},
              answered : BOOLEAN]
  /\ wanted \in BOOLEAN /\ asked \in Rooms_

(* Nothing is in flight, and nobody is in the middle of anything.          *)
Settled ==
  /\ link = "connected" /\ account = "socket"
  /\ to_server = <<>> /\ to_client = <<>>
  /\ building = NoStay /\ calling = {}

InARoom == Settled /\ room_id # Nowhere /\ Place(Me) = room_id

(* Once everything is read, a client does not miss anybody who is in its   *)
(* room, nor the screen shared there, whatever it left, was thrown out of  *)
(* or reconnected to before: the picture is cleared in five places and     *)
(* announced in two (call_session.cpp:228, 812, 1099, 1359, 1401; hub.cpp: *)
(* 797), and a floor not seen is a share offered and refused.              *)
PictureAgrees ==
  InARoom =>
    /\ Occupants(people, Place(Me)) \subseteq participants
    /\ Sharers(people, Place(Me)) # {} => sharer = screen_sharer(people, Place(Me))

(* The room the client is in is the room the server has it in: nobody is a *)
(* participant who cannot leave, or sits alone in a room that was left.  A *)
(* kick that crosses a leave and a join is the exception: see README.md.   *)
RoomAgrees ==
  Settled /\ "kick" \notin acts => Place(Me) = room_id

(* "The next socket to open must not sign this person straight back in to  *)
(* a server that just signed them out" (call_session.cpp:1407, 821): the   *)
(* server has nobody signed in who signed out, or was told they were.  A   *)
(* form submitted twice can be read on either side of the end.             *)
SignedInAsAsked ==
  Settled /\ ~({"sign_in_again", "end_session"} \subseteq acts) => wanted

(* "Everyone has to agree about who is muted" (call_session.cpp:274): the  *)
(* button, the microphone and the room say the same, whatever was dropped, *)
(* rejoined, kicked or forced in between.  Leaving or signing out with a   *)
(* mute in flight, and a forced mute one answers, are the exceptions.      *)
MuteAgrees ==
  InARoom /\ audio # NoStay
    /\ ("mute" \in acts => {"leave", "sign_out", "force_mute"} \cap acts = {})
  => /\ muted = people[Place(Me)][Me].muted
     /\ microphone = ~muted

(* The client and the server agree about the room, the account and the     *)
(* mute.                                                                   *)
ServerAgrees == RoomAgrees /\ SignedInAsAsked /\ MuteAgrees

(* Every offer of the SFU is answered, by a session of the stay it is of:  *)
(* what comes back after a drop is audible, and not "everybody in the      *)
(* participant list and nobody audible" (call_session.cpp:1109).  Of a     *)
(* person who stays: an offer in flight past a leave is in README.md.      *)
OffersAreAnswered ==
  InARoom /\ {"leave", "sign_out", "kick", "join_again", "end_session"} \cap acts = {} =>
    /\ sfu.phase \in {"idle", "owed"}
    /\ sfu.phase = "idle" => audio = sfu.stay

(* The screen is captured only for a room that gave its floor, as long as  *)
(* nobody else takes it first: "or the frames keep coming" (hub.cpp:968).  *)
CaptureHasTheFloor ==
  Settled /\ capturing /\ "company_shares" \notin acts =>
    \E r \in RoomIds : Shares(people, r, Me)

(* "What makes a server restart look like a pause rather than the end of   *)
(* the call" (call_session.cpp:1133): once the link stays up, whoever goes *)
(* on asking for a room is in it, and nobody puts them out again.          *)
BackInTheRoom ==
  \A r \in RoomIds :
    <>[](link = "connected" /\ asked = r) => <>[](Place(Me) = r)

(* "A forced mute is advice, undone by one click on the button that        *)
(* appears to have turned itself off" is what docs/06-protocol.md:358 says *)
(* the server's rule prevents: whoever an administrator has muted does not *)
(* transmit.                                                               *)
ForcedMuteSilences ==
  InARoom /\ people[Place(Me)][Me].muted_by_admin => ~microphone
=============================================================================
