-------------------------------- MODULE MCParts -------------------------------
(* The parts of the system that stand by themselves, on small instances,  *)
(* one at a time: the SFU's peer connections (MediaRouter) and a stream   *)
(* through it (VideoStitcher, LossRepair); the locks of the server        *)
(* (SignalingServer); the capture of a screen and of its sound, its       *)
(* encoder and what a call runs with (ScreenShare, ScreenSound, Encoder,  *)
(* MediaSession); accounts, the people of two rooms and their             *)
(* conversations (Accounts, RoomManager, Chat); the two tools of          *)
(* administrators (AdminPanel, AdminConsole); and the settings (Settings, *)
(* Config).  A behaviour runs one of them; the others stay as they start, *)
(* where nothing of them is owed.                                         *)
EXTENDS TLC, Sequences, RoomManager, Settings

CONSTANTS
  Parts,                                     \* which of them are run
  Callers, Floors, MaxTasks, MaxCallerStays, \* MediaRouter's
  Senders, SeqModulus, StampModulus, kMaxOrdinaryJump, kMaxOrdinaryRewind,
  kHandoverTicks, FrameTicks, Starts, StampStarts, MaxSent, MaxInFlight,
                                             \* VideoStitcher's
  max_gap, max_requests, retry_after, give_up_after, Firsts, MaxIndex, MaxSources,
                                             \* LossRepair's
  Connections, MaxEvents,                    \* SignalingServer's
  MaxCaptures,                               \* ScreenShare's
  Drivers, Block, High, TargetFrames, Prime, CaptureHigh, CaptureTarget, CapturePrime,
  Packets,
  MaxLoopbacks,                              \* ScreenSound's
  Accounts, Terminals, Passwords, Flags, MaxDecisions,
                                             \* Accounts'
  Talkers, kDefaultLimit, MaxSaid, MaxMoves,
                                             \* Chat's
  Listed, MaxChanges, MaxRequests, MaxAnswers,
                                             \* AdminPanel's
  Documents, Screens, Filters, MaxPresses, MaxAsked,
                                             \* AdminConsole's
  Copies, MachineFiles, OwnFiles, Circumstances, Picked, Levels, Ranges, Qualities,
  Addresses, MaxTurns,
                                             \* Config's
  Machines, Openings, Rates, MaxFrames, MaxSessions, MaxLost, Depth,
                                             \* Encoder's
  Voices, MaxChosen, MaxBuilds               \* MediaSession's

VARIABLES
  part,          \* which of them this behaviour is of
  r_sessions, r_tasks,
  s_source, s_last_in, s_last_out, s_offset, s_encoder, s_sent, s_in_flight, s_base,
  s_passed,
  p_ssrc, p_started, p_expected, p_missing, p_sender, p_sent, p_in_flight, p_arrived,
  p_since, p_asked,
  t_running, t_socket, t_heard, t_sockets, t_connections, t_inside, t_media, t_tasks,
  t_owner, t_doing, t_events,
  c_sharing, c_pumping, c_pump, c_capturer, c_running, c_thread, c_at, c_call, c_taken,
  c_told, c_raced,
  a_accounts, a_doing, a_decided, a_decisions, a_crossed, a_outdated,
  talk_chat, talk_room, talk_page, talk_online, talk_up, talk_down, talk_lines,
  talk_said, talk_moves, talk_unannounced, talk_given,
  panel_accounts, panel_answers, panel_accounts_, panel_row, panel_pane, panel_open,
  panel_requests, panel_changes, panel_picked, panel_asked,
  console_screen, console_stored, console_list, console_shown, console_page,
  console_filter, console_cursor, console_mode, console_target, console_focus,
  console_reading, console_doing, console_answers, console_started, console_presses,
  console_changes, console_latest, console_asked, console_excused,
  n_active, n_capturer, n_ring, n_paced, n_running, n_thread, n_opened, n_at, n_starting,
  n_made, n_played, n_early, n_raced, n_crashed,
  k_machine, k_own, k_temporary, k_copies, k_kept, k_crossed, k_turns,
  e_made, e_at, e_session, e_card, e_transform, e_queued, e_requests, e_metadata, e_hand,
  e_event, e_frames, e_out, e_lost, e_told, e_sessions, e_refused,
  m_chosen, m_audio, m_building, m_calling, m_engine, m_in_force, m_heard, m_enabled,
  m_computed, m_active, m_negotiated, m_recording, m_changes, m_builds, m_hearing, m_lost,
  m_raced, m_silenced

r_vars == <<r_sessions, r_tasks>>
s_vars == <<s_source, s_last_in, s_last_out, s_offset, s_encoder, s_sent, s_in_flight,
  s_base, s_passed>>
p_vars == <<p_ssrc, p_started, p_expected, p_missing, p_sender, p_sent, p_in_flight,
  p_arrived, p_since, p_asked>>
t_vars == <<t_running, t_socket, t_heard, t_sockets, t_connections, t_inside, t_media,
  t_tasks, t_owner, t_doing, t_events>>
c_vars == <<c_sharing, c_pumping, c_pump, c_capturer, c_running, c_thread, c_at, c_call,
  c_taken, c_told, c_raced>>
a_vars == <<a_accounts, a_doing, a_decided, a_decisions, a_crossed, a_outdated>>
talk_vars == <<talk_chat, talk_room, talk_page, talk_online, talk_up, talk_down,
  talk_lines, talk_said, talk_moves, talk_unannounced, talk_given>>
panel_vars == <<panel_accounts, panel_answers, panel_accounts_, panel_row, panel_pane,
  panel_open, panel_requests, panel_changes, panel_picked, panel_asked>>
console_vars == <<console_screen, console_stored, console_list, console_shown,
  console_page, console_filter, console_cursor, console_mode, console_target,
  console_focus, console_reading, console_doing, console_answers, console_started,
  console_presses, console_changes, console_latest, console_asked, console_excused>>
n_vars == <<n_active, n_capturer, n_ring, n_paced, n_running, n_thread, n_opened, n_at,
  n_starting, n_made, n_played, n_early, n_raced, n_crashed>>
k_vars == <<k_machine, k_own, k_temporary, k_copies, k_kept, k_crossed, k_turns>>
e_vars == <<e_made, e_at, e_session, e_card, e_transform, e_queued, e_requests,
  e_metadata, e_hand, e_event, e_frames, e_out, e_lost, e_told, e_sessions, e_refused>>
m_vars == <<m_chosen, m_audio, m_building, m_calling, m_engine, m_in_force, m_heard,
  m_enabled, m_computed, m_active, m_negotiated, m_recording, m_changes, m_builds,
  m_hearing, m_lost, m_raced, m_silenced>>

Router == INSTANCE MediaRouterProofs WITH
  Users <- Callers, RoomIds <- Floors, MaxStays <- MaxCallerStays, sessions <-
  r_sessions, tasks <- r_tasks

Stitcher == INSTANCE VideoStitcher WITH
  source <- s_source, last_in <- s_last_in, last_out <- s_last_out,
  offset <- s_offset, encoder <- s_encoder, sent <- s_sent, in_flight <- s_in_flight,
  base <- s_base, passed <- s_passed

Repair == INSTANCE LossRepair WITH
  ssrc <- p_ssrc, started <- p_started, expected <- p_expected, missing <- p_missing,
  sender <- p_sender, sent <- p_sent, in_flight <- p_in_flight, arrived <- p_arrived,
  since <- p_since, asked <- p_asked

Locks == INSTANCE SignalingServerProofs WITH
  running <- t_running, socket <- t_socket, heard <- t_heard, sockets <- t_sockets,
  connections <- t_connections, inside <- t_inside, media <- t_media, tasks <- t_tasks,
  owner <- t_owner, doing <- t_doing, events <- t_events

Capture == INSTANCE CallMediaProofs WITH
  sharing <- c_sharing, pumping <- c_pumping, pump <- c_pump, capturer <- c_capturer,
  running <- c_running, thread <- c_thread, at <- c_at, call <- c_call, taken <- c_taken,
  told <- c_told, raced <- c_raced

Roll == INSTANCE Accounts WITH
  accounts <- a_accounts, doing <- a_doing, decided <- a_decided, decisions <- a_decisions,
  crossed <- a_crossed, outdated <- a_outdated

Talk == INSTANCE Chat WITH
  Users <- Talkers, chat <- talk_chat, room <- talk_room, page <- talk_page,
  online <- talk_online, up <- talk_up, down <- talk_down, lines <- talk_lines,
  said <- talk_said, moves <- talk_moves, unannounced <- talk_unannounced,
  given <- talk_given

Panel == INSTANCE AdminPanel WITH
  Accounts <- Listed, accounts <- panel_accounts, answers <- panel_answers,
  accounts_ <- panel_accounts_, row <- panel_row, pane <- panel_pane,
  open <- panel_open, requests <- panel_requests, changes <- panel_changes,
  picked <- panel_picked, asked <- panel_asked

NoRecords == {[r \in RoomIds |-> NoRoom]}

Console == INSTANCE AdminConsole WITH
  Items <- Documents, MaxChanges <- MaxAsked, screen <- console_screen,
  stored <- console_stored, list <- console_list, shown <- console_shown,
  page <- console_page, filter <- console_filter, cursor <- console_cursor,
  mode <- console_mode, target <- console_target, focus <- console_focus,
  reading <- console_reading, doing <- console_doing, answers <- console_answers,
  started <- console_started, presses <- console_presses, changes <- console_changes,
  latest <- console_latest, asked <- console_asked, excused <- console_excused

Sound == INSTANCE ScreenSound WITH
  MaxCaptures <- MaxLoopbacks, active <- n_active, capturer <- n_capturer,
  ring <- n_ring, paced <- n_paced, running <- n_running, thread <- n_thread,
  opened <- n_opened, at <- n_at, starting <- n_starting, made <- n_made,
  played <- n_played, early <- n_early, raced <- n_raced, crashed <- n_crashed

Kept == INSTANCE Config WITH
  machine <- k_machine, own <- k_own, temporary <- k_temporary, copies <- k_copies,
  kept <- k_kept, crossed <- k_crossed, turns <- k_turns

Pictures == INSTANCE Encoder WITH
  made <- e_made, at <- e_at, session <- e_session, card <- e_card,
  transform <- e_transform, queued <- e_queued, requests <- e_requests,
  metadata <- e_metadata, hand <- e_hand, event <- e_event, frames <- e_frames,
  out <- e_out, lost <- e_lost, told <- e_told, sessions <- e_sessions,
  refused <- e_refused

Call == INSTANCE MediaSession WITH
  MaxChanges <- MaxChosen, chosen <- m_chosen, audio <- m_audio, building <- m_building,
  calling <- m_calling, engine <- m_engine, in_force <- m_in_force, heard <- m_heard,
  enabled <- m_enabled, computed <- m_computed, active <- m_active,
  negotiated <- m_negotiated, recording <- m_recording, changes <- m_changes,
  builds <- m_builds, hearing <- m_hearing, lost <- m_lost, raced <- m_raced,
  silenced <- m_silenced

(* Files and starts that differ where something could go wrong: a floor    *)
(* beside the executable, a section in two places and a key in both, a     *)
(* setting under no section; another file named, an environment that       *)
(* cannot be read, an argument that asks for a database that is none.      *)
Says(key, value) == Line("setting", key, value, FALSE)
FloorOf(n) == Says("floor_bitrate_kbps", Number(n))
BesideIt == {NoFile, Ini(<<Header("video"), FloorOf(1000)>>)}
ByHand ==
  {Ini(<<Header("audio"), Says("input_device", Text("desk")), Blank,
              Header("video"), FloorOf(1200), Blank,
              Header("audio"), Says("input_device", Text("head"))>>),
   Ini(<<Comment, Says("width", Number(640))>>)}
BeginAndEnd == {"network_ice_port_range_begin", "network_ice_port_range_end"}
Otherwise ==
  {Plain,
   [Plain EXCEPT !.named =
      File("json", <<>>, "video_floor_bitrate_kbps" :> Number(100))],
   [Plain EXCEPT !.environment = ("video_fps" :> Text("many"))
                                        @@ [n \in BeginAndEnd |-> Number(70000)]],
   [Plain EXCEPT !.arguments = <<[option |-> "database_uri", value |-> Text("")]>>]}
Devices == {Setting("audio", "input_device", [Text("desk") EXCEPT !.edge = "space"])}
GateOff == {<<"voice_gate", "off">>}
LowRange == {<<800, 1400>>}
FullHd == {<<1920, 1080, 60>>}

ASSUME PartsAssumption ==
  /\ Router!MediaRouterAssumption
  /\ Stitcher!VideoStitcherAssumption
  /\ Repair!LossRepairAssumption
  /\ Locks!SignalingServerAssumption
  /\ Capture!ScreenShareAssumption
  /\ Roll!AccountsAssumption
  /\ Talk!ChatAssumption
  /\ Panel!AdminPanelAssumption
  /\ Console!AdminConsoleAssumption
  /\ Sound!ScreenSoundAssumption
  /\ Pictures!EncoderAssumption
  /\ Call!MediaSessionAssumption

(* Machines that have everything, lack a driver or a transform, are told   *)
(* which to take, or prefer none; and what an encoder is started with.     *)
Nvidia == {"cuda", "its symbols", "matching driver", "device", "encode library",
           "entry point", "new enough", "functions"}
Windows == {"mfplat", "its entry points", "started", "enumerates", "hardware transform"}
Machine(has, wanted, prefers, encodes) ==
  [has |-> has, wanted |-> wanted, prefers |-> prefers, encodes |-> encodes]
AnyMachine ==
  {Machine(Nvidia \cup Windows, wanted, TRUE, {"H264", "VP8"}) : wanted \in {"", "none"}}
    \cup {Machine(Windows \cup (Nvidia \ {"device"}), "", TRUE, {"H264", "VP8"}),
          Machine(Nvidia \cup (Windows \ {"started"}), "mediafoundation", TRUE, {"VP8"}),
          Machine(Windows, "mediafoundation", TRUE, {"VP8"}),
          Machine(Windows, "", FALSE, {"VP8"})}
AnyOpening == {[size |-> 1, start |-> 1, max |-> 2], [size |-> 2, start |-> 0, max |-> 0]}

(* The conversations of rooms decide nothing about their people.           *)
NothingSaid == chat' = {}

(* What does not run stays as it starts.                                   *)
PartsInit ==
  /\ Init /\ Router!Init /\ Stitcher!Init /\ Repair!Init
  /\ Locks!Init /\ Capture!Init /\ Roll!Init
  /\ Talk!Init
  /\ Panel!Init
  /\ Console!Init
  /\ Sound!Init
  /\ Kept!Init
  /\ Pictures!Init
  /\ Call!Init
  /\ part \in Parts
  /\ part # "accounts" => a_accounts[CHOOSE u \in Accounts : TRUE].exists
  /\ part # "repair" => p_sender.first = CHOOSE f \in Firsts : TRUE
  /\ part # "stitcher" =>
       /\ s_encoder.who = CHOOSE u \in Senders : TRUE
       /\ s_encoder.next.sequence = CHOOSE s \in Starts : TRUE
       /\ s_encoder.next.timestamp = CHOOSE t \in StampStarts : TRUE
  /\ part # "console" => console_screen = CHOOSE s \in Screens : TRUE
  /\ part # "settings" => k_machine = NoFile /\ k_own = NoFile

PartsNext ==
  /\ UNCHANGED part
  /\ IF part = "router" THEN Router!Next ELSE UNCHANGED r_vars
  /\ IF part = "stitcher" THEN Stitcher!Next ELSE UNCHANGED s_vars
  /\ IF part = "repair" THEN Repair!Next ELSE UNCHANGED p_vars
  /\ IF part = "server" THEN Locks!Next ELSE UNCHANGED t_vars
  /\ IF part = "share" THEN Capture!Next ELSE UNCHANGED c_vars
  /\ IF part = "accounts" THEN Roll!Next ELSE UNCHANGED a_vars
  /\ IF part = "chat" THEN Talk!Next ELSE UNCHANGED talk_vars
  /\ IF part = "panel" THEN Panel!Next ELSE UNCHANGED panel_vars
  /\ IF part = "rooms" THEN Next /\ NothingSaid ELSE UNCHANGED vars
  /\ IF part = "console" THEN Console!Next ELSE UNCHANGED console_vars
  /\ IF part = "sound" THEN Sound!Next ELSE UNCHANGED n_vars
  /\ IF part = "settings" THEN Kept!Next ELSE UNCHANGED k_vars
  /\ IF part = "encoder" THEN Pictures!Next ELSE UNCHANGED e_vars
  /\ IF part = "media" THEN Call!Next ELSE UNCHANGED m_vars

PartsSpec ==
  /\ PartsInit
  /\ [][PartsNext]_<<part, r_vars, s_vars, p_vars, t_vars, c_vars, a_vars, talk_vars,
                    panel_vars, vars, console_vars, n_vars, k_vars, e_vars, m_vars>>

(* The types of every part.                                                *)
PartsTypeOK ==
  /\ part = "router" => Router!TypeOK
  /\ part = "stitcher" => Stitcher!TypeOK
  /\ part = "repair" => Repair!TypeOK
  /\ part = "server" => Locks!TypeOK
  /\ part = "share" => Capture!TypeOK
  /\ part = "accounts" => Roll!TypeOK
  /\ part = "chat" => Talk!TypeOK
  /\ part = "panel" => Panel!TypeOK
  /\ part = "rooms" => TypeOK
  /\ part = "console" => Console!TypeOK
  /\ part = "sound" => Sound!TypeOK
  /\ part = "settings" => Kept!TypeOK
  /\ part = "encoder" => Pictures!TypeOK
  /\ part = "media" => Call!TypeOK

(* MediaRouter: whoever comes in is heard by everybody else once the offers*)
(* and answers are over, whatever joins and leaves come between.           *)
EveryoneIsHeard == part = "router" => Router!EveryoneIsHeard

(* LossRepair: what is asked for was sent and has not arrived, and is not  *)
(* asked for without end.                                                  *)
AsksOnlyForMissing == Repair!AsksOnlyForMissing

(* VideoStitcher, LossRepair: no two packets go out under one number and   *)
(* the clock of a track does not go back while its numbers go on, across   *)
(* handovers, restarts and losses; and of what was sent to the server and  *)
(* has not arrived, nothing is overlooked.                                 *)
StreamIsWhole ==
  /\ part = "stitcher" => Stitcher!OneStream
  /\ part = "repair" => Repair!EveryHoleIsAskedFor

(* SignalingServer: no thread waits for a lock while it holds, however far *)
(* around, what lets it go, but for stop() and the thread that accepts     *)
(* connections (NobodyWaitsInACircle has those); and whoever is in the Hub *)
(* can be hung up on, has been, or will be by stop().                      *)
LocksAreLetGo == part = "server" => Locks!LocksAreLetGo

(* ScreenShare: the room is told of a shared screen exactly while one is   *)
(* captured, and no thread of a capture is left behind, whichever thread   *)
(* ended it.                                                               *)
RoomIsTold == part = "share" => Capture!RoomIsTold

(* ScreenSound: what is waiting to be played is of the share in place, and *)
(* not more of it than may be; and the mixer says that it captures exactly *)
(* while it does.                                                          *)
SoundIsTrue == part = "sound" => Sound!SoundIsTrue

(* Accounts: a restriction, a role, a password or a request stands against *)
(* the writes of whoever changes something else of the account; and some-  *)
(* body administers, unless a count had changed when it was acted upon.    *)
DecisionsStand == part = "accounts" => Roll!DecisionsStand

(* Chat: whoever is in a room reads the conversation everybody else there  *)
(* does, whatever they left, dropped out of or were put out of before.     *)
OneConversation == part = "chat" => Talk!OneConversation

(* AdminPanel, AdminConsole: an administrator asks for what they read, of  *)
(* the account that was named, however the list was redrawn underneath;    *)
(* and a terminal shows, in the end, what it has changed.                  *)
AskedIsRead ==
  /\ part = "panel" => Panel!AskedIsRead
  /\ part = "console" => Console!AskedIsShown

(* Config: what was saved, and nothing else of the file, is different; and *)
(* a copy of the client with nothing to save runs with what the next start *)
(* would.                                                                  *)
SettingsLast == part = "settings" => Kept!SettingsLast

(* Config: a save does not keep the client from starting, unless the floor *)
(* beside the executable is above the range that was saved.                *)
SavesKeepItStarting == Kept!SavesKeepItStarting

(* Encoder: frames of a shared screen go in and come out in their order,   *)
(* neither the encoder thread nor the transform waits for the other, and   *)
(* the driver goes by the rates it is told.                                *)
EncodesAsTold == part = "encoder" => Pictures!EncodesAsTold

(* MediaSession: the call runs with the settings, devices, volumes and     *)
(* mute that were chosen before it and during it.                          *)
CallRunsAsChosen == part = "media" => Call!CallRunsAsChosen
=============================================================================
