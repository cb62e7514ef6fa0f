------------------------------ MODULE MediaSession -----------------------------
(* What a call runs with: the settings CallSession keeps, the engine every *)
(* session of the process shares and the session of this stay.  Settings   *)
(* are changed from the interface while an offer has the session built on  *)
(* the signaling thread, while a share's sound starts and stops, voices    *)
(* come and go and devices refuse.  libwebrtc's voice engine and the       *)
(* devices are external, as the code uses them.                            *)
EXTENDS Integers

CONSTANTS Voices, MaxChanges, MaxBuilds

(* A voice is known by who it is of, and nobody has a setting's name.      *)
MediaSessionAssumption ==
  /\ {MaxChanges, MaxBuilds} \subseteq Nat \ {0}
  /\ Voices \cap {"processing", "voice_gate", "screen_audio_volume", "video_range",
                  "capture", "input", "output", "muted", "none"} = {}

VARIABLES chosen,       \* CallSession: options_.media, volumes_, muted_
          audio,        \* audio_ is there
          building,     \* ensure_media_session: where it is, and what it read
          calling,      \* the interface, between writing down and telling
          engine,       \* [ready, platform, agc1]
          in_force,     \* what engine and session go by
          heard,        \* the volume of each voice that has a track
          enabled,      \* the microphone's track
          computed,     \* apply_track_enabled, read and not yet set
          active,       \* the mixer has a capture
          negotiated, recording, changes, builds,
          hearing,      \* the mute the signaling thread was told of
          lost,         \* history: settings changed past their reader
          raced,        \* history: two threads were in apply_track_enabled
          silenced      \* history: a device or its canceller refused
vars == <<chosen, audio, building, calling, engine, in_force, heard, enabled, computed,
          active, negotiated, recording, changes, builds, hearing, lost, raced, silenced>>
call == <<audio, building, hearing, negotiated, builds, engine>>
track == <<enabled, computed, raced>>
sound == <<active, recording, silenced, heard>>

EngineSettings == {"processing", "voice_gate", "screen_audio_volume"}
TrackSettings == {"video_range", "capture"}
Seeded == EngineSettings \cup TrackSettings          \* read before audio_ is there
Devices == {"input", "output"}
Later == Devices \cup Voices                         \* and after
Settings == Seeded \cup Later \cup {"muted"}

NotSet == 0
Undone == 2
Threads == {"interface", "signaling", "capture"}
Waiting == [at |-> "waits", options |-> [s \in Settings |-> NotSet]]
NoCall == [setting |-> "none", value |-> NotSet, session |-> FALSE, told |-> FALSE]
Nothing == "nothing"
-------------------------------------------------------------------------------
(* Building.  The voice engine initialises with the first connection: it   *)
(* takes the platform's canceller, turns AEC3 off and the first gain       *)
(* controller on, whatever was done before.                                *)
CreatesConnection(e) ==
  IF e.on.ready THEN e
  ELSE [e EXCEPT !.on = [ready |-> TRUE, platform |-> TRUE, agc1 |-> TRUE],
                 !.force.processing = Undone]

decline_platform_echo_canceller(e, declines) ==
  [e EXCEPT !.on.platform = @ /\ ~declines]

set_audio_processing(e, value) ==
  [e EXCEPT !.on.agc1 = FALSE, !.force.processing = value]

(* The rest is seeded from the options the session was built with; a new   *)
(* session knows no voice.                                                 *)
Opens(e, options) ==
  [e EXCEPT !.force = [s \in Settings |->
     CASE s \in Seeded \ {"processing"} -> options[s]
       [] s \in Voices -> NotSet
       [] OTHER -> e.force[s]]]

DeclinesFirst(e, options, declines) ==                                  \* a slip
  Opens(set_audio_processing(
    CreatesConnection(decline_platform_echo_canceller(e, declines)),
    options.processing), options)

start(e, options, declines) ==
  Opens(set_audio_processing(
    decline_platform_echo_canceller(CreatesConnection(e), declines),
    options.processing), options)
-------------------------------------------------------------------------------
Init ==
  /\ chosen = [s \in Settings |-> NotSet] /\ in_force = [s \in Settings |-> NotSet]
  /\ audio = FALSE /\ building = Waiting /\ calling = NoCall
  /\ engine = [ready |-> FALSE, platform |-> FALSE, agc1 |-> FALSE]
  /\ heard = [p \in {} |-> NotSet]
  /\ enabled = FALSE /\ computed = [t \in Threads |-> Nothing]
  /\ active = FALSE /\ negotiated = FALSE /\ recording = FALSE
  /\ hearing = NoCall /\ changes = 0 /\ builds = 0 /\ lost = {} /\ raced = FALSE /\ silenced = FALSE

(* apply_track_enabled reads the mute and the mixer, then sets the track.  *)
Reads(thread, muted, sounding) ==
  /\ computed[thread] = Nothing
  /\ computed' = [computed EXCEPT ![thread] = IF muted = NotSet \/ sounding
                                                  THEN "TRUE" ELSE "FALSE"]
  /\ raced' = (raced \/ \E t \in Threads : computed[t] # Nothing)

Sets(thread) ==
  /\ computed[thread] # Nothing
  /\ enabled' = (computed[thread] = "TRUE")
  /\ computed' = [computed EXCEPT ![thread] = Nothing]
  /\ UNCHANGED <<chosen, call, calling, in_force, sound, changes, lost, raced>>

(* An offer with no session has one built; the options are read now.       *)
handle_offer ==
  /\ ~audio /\ building = Waiting /\ hearing = NoCall /\ builds < MaxBuilds
  /\ building' = [at |-> "starts", options |-> chosen]
  /\ builds' = builds + 1
  /\ UNCHANGED <<chosen, audio, calling, engine, in_force, track, sound, negotiated, hearing,
                 changes, lost>>

Fails ==
  /\ building.at = "starts" /\ building' = Waiting
  /\ \/ UNCHANGED <<engine, in_force>>                       \* no connection
     \/ LET opened == start([on |-> engine, force |-> in_force], building.options, TRUE) IN
        engine' = opened.on /\ in_force' = opened.force      \* no source, no track
  /\ lost' = {}
  /\ UNCHANGED <<chosen, audio, calling, track, sound, negotiated, hearing, builds, changes>>

(* The session is published and the mute read in one critical section.     *)
Publishes ==
  /\ building.at = "starts"
  /\ \E declines \in BOOLEAN :
       LET opened == start([on |-> engine, force |-> in_force], building.options, declines) IN
       /\ engine' = opened.on /\ in_force' = opened.force
       /\ silenced' = (silenced \/ (~declines /\ opened.on.platform))
  /\ audio' = TRUE /\ enabled' = TRUE
  /\ building' = [at |-> "mutes", options |-> chosen]
  /\ UNCHANGED <<chosen, calling, computed, raced, active, recording, heard, negotiated, hearing,
                 builds, changes, lost>>

Mutes ==
  /\ building.at = "mutes"
  /\ in_force' = [in_force EXCEPT !["muted"] = building.options.muted]
  /\ Reads("signaling", building.options.muted, active)
  /\ building' = [building EXCEPT !.at = "reads"]
  /\ UNCHANGED <<chosen, audio, calling, engine, enabled, sound, negotiated, hearing, builds,
                 changes, lost>>

ReadsLater ==
  /\ building.at = "reads" /\ computed["signaling"] = Nothing
  /\ building' = [at |-> "applies", options |-> chosen]
  /\ UNCHANGED <<chosen, audio, calling, engine, in_force, track, sound, negotiated, hearing,
                 builds, changes, lost>>

(* A device: one that is not found is refused, and nothing has no name of  *)
(* a device; one that the platform will not take, or not start, leaves the *)
(* capture stopped.                                                        *)
Found(value) == value # NotSet
Switches(device, value) ==
  /\ Found(value) /\ in_force' = [in_force EXCEPT ![device] = value]
  /\ lost' = (IF value = chosen[device] THEN lost \ {device} ELSE lost)
  /\ UNCHANGED <<recording, silenced>>

Refuses(device, value) ==
  /\ UNCHANGED in_force /\ lost' = lost \cup {device}
  /\ \/ UNCHANGED <<recording, silenced>>
     \/ Found(value) /\ device = "input" /\ recording' = FALSE /\ silenced' = TRUE

VolumesIn(force) == [p \in DOMAIN heard |-> force[p]]

AppliesVolumes ==
  /\ building.at = "applies"
  /\ in_force' = [s \in Settings |-> IF s \in Voices THEN building.options[s] ELSE in_force[s]]
  /\ heard' = VolumesIn(in_force')
  /\ building' = [building EXCEPT !.at = "input"]
  /\ UNCHANGED <<chosen, audio, calling, engine, track, active, recording, silenced, negotiated,
                 hearing, builds, changes, lost>>

AppliesDevice(device) ==
  LET value == building.options[device] IN
  /\ building.at = device
  /\ IF value = NotSet THEN UNCHANGED <<in_force, recording, silenced, lost>>
     ELSE Switches(device, value) \/ Refuses(device, value)
  /\ building' = IF device = "input" THEN [building EXCEPT !.at = "output"] ELSE Waiting
  /\ UNCHANGED <<chosen, audio, calling, engine, track, active, heard, negotiated, hearing,
                 builds, changes>>

(* The offer is applied and answered: recording starts with the first      *)
(* stream that sends, is tried once, and the platform's canceller will not *)
(* record while nothing plays.                                             *)
on_local_description_set ==
  /\ audio /\ building = Waiting /\ ~negotiated
  /\ negotiated' = TRUE
  /\ recording' = (~silenced /\ (~engine.platform \/ DOMAIN heard # {}))
  /\ UNCHANGED <<chosen, audio, building, hearing, builds, engine, calling, in_force, track,
                 active, silenced, heard, changes, lost>>
-------------------------------------------------------------------------------
(* The interface.  Between a read of a setting by the builder and what it  *)
(* does with it, a change goes past it.                                    *)
Passes(s) ==
  \/ s \in Seeded /\ building.at = "starts"
  \/ s = "muted" /\ building.at = "mutes"
  \/ s \in Voices /\ building.at = "applies"
  \/ s \in Devices /\ building.at \in {"applies", "input", "output"}
  \/ s = hearing.setting \/ s = calling.setting

Choose(s) ==
  /\ calling = NoCall /\ computed["interface"] = Nothing /\ changes < MaxChanges
  /\ s # "capture"
  /\ changes' = changes + 1
  /\ chosen' = [chosen EXCEPT ![s] = 1 - @]
  /\ calling' = [setting |-> s, value |-> 1 - chosen[s], session |-> audio, told |-> FALSE]
  /\ lost' = IF Passes(s) THEN lost \cup {s} ELSE lost
  /\ UNCHANGED <<call, in_force, track, sound>>

(* The quality is told first and kept second: the session may refuse it,   *)
(* and by then has kept it itself.                                         *)
set_video_quality ==
  /\ calling = NoCall /\ computed["interface"] = Nothing /\ changes < MaxChanges
  /\ changes' = changes + 1
  /\ calling' = [setting |-> "capture", value |-> 1 - chosen.capture, session |-> audio,
                 told |-> FALSE]
  /\ UNCHANGED <<chosen, call, in_force, track, sound, lost>>

Told == calling' = IF calling.setting = "capture" THEN [calling EXCEPT !.told = TRUE] ELSE NoCall

TellsNobody ==
  /\ calling # NoCall /\ ~calling.told /\ ~calling.session /\ Told
  /\ UNCHANGED <<chosen, call, in_force, track, sound, changes, lost>>

OnItsOwn(s) == building = Waiting /\ {calling.setting, hearing.setting} # {s}

(* set_participant_volume, set_video_bitrate, set_capture_options and the  *)
(* setters of the engine.                                                  *)
ForgottenUntilHeard(s, value) ==                                        \* a slip
  /\ in_force' = IF s \in Voices \ DOMAIN heard THEN in_force
                 ELSE [in_force EXCEPT ![s] = value]
  /\ heard' = VolumesIn(in_force')
  /\ lost' = IF value = chosen[s] /\ OnItsOwn(s) THEN lost \ {s} ELSE lost

KeptInForce(s, value) ==
  /\ in_force' = [in_force EXCEPT ![s] = value]
  /\ heard' = VolumesIn(in_force')
  /\ lost' = IF value = chosen[s] /\ OnItsOwn(s) THEN lost \ {s} ELSE lost

Tells ==
  LET s == calling.setting
      value == calling.value IN
  /\ calling # NoCall /\ ~calling.told /\ calling.session
  /\ \/ /\ s \notin Devices \cup {"muted"} /\ Told
        /\ KeptInForce(s, value) /\ UNCHANGED <<recording, silenced, track>>
     \/ /\ s = "muted" /\ Told
        /\ KeptInForce(s, value) /\ Reads("interface", value, active)
        /\ UNCHANGED <<recording, silenced, enabled>>
     \/ /\ s \in Devices /\ Told
        /\ Switches(s, value) \/ Refuses(s, value)
        /\ UNCHANGED <<heard, track>>
     \/ /\ s = "capture" /\ calling' = NoCall                  \* kept by it, and refused
        /\ in_force' = [in_force EXCEPT ![s] = value] /\ lost' = lost \cup {s}
        /\ UNCHANGED <<recording, silenced, heard, track>>
  /\ UNCHANGED <<chosen, call, active, changes>>

(* A mute and its end, as the server sends them: an administrator's, and   *)
(* the echo of one's own.                                                  *)
HearsOfMute(value) ==
  /\ hearing = NoCall /\ building = Waiting /\ computed["signaling"] = Nothing
  /\ changes < MaxChanges /\ changes' = changes + 1
  /\ chosen' = [chosen EXCEPT !["muted"] = value]
  /\ hearing' = [setting |-> "muted", value |-> value, session |-> audio, told |-> FALSE]
  /\ lost' = IF Passes("muted") THEN lost \cup {"muted"} ELSE lost
  /\ UNCHANGED <<audio, building, negotiated, builds, engine, calling, in_force, track, sound>>

MutesAsHeard ==
  /\ hearing # NoCall /\ hearing' = NoCall
  /\ IF hearing.session
       THEN /\ KeptInForce("muted", hearing.value) /\ Reads("signaling", hearing.value, active)
            /\ UNCHANGED enabled
       ELSE UNCHANGED <<in_force, heard, lost, track>>
  /\ UNCHANGED <<chosen, audio, building, negotiated, builds, engine, calling, active, recording,
                 silenced, changes>>

Keeps ==
  /\ calling.told /\ calling' = NoCall
  /\ chosen' = [chosen EXCEPT !.capture = calling.value]
  /\ lost' = IF calling.session THEN lost \ {"capture"}
             ELSE IF audio \/ building # Waiting THEN lost \cup {"capture"} ELSE lost
  /\ UNCHANGED <<call, in_force, track, sound, changes>>

(* A share's sound, from the interface and from the capture's thread; the  *)
(* sound of a capture that fails is only no longer mixed.                  *)
Mixes(thread, on) ==
  /\ audio /\ active' = on /\ Reads(thread, in_force.muted, on)
  /\ UNCHANGED <<chosen, call, calling, in_force, enabled, recording, silenced, heard, changes,
                 lost>>

start_screen_audio == calling = NoCall /\ ~active /\ Mixes("interface", TRUE)
stop_screen_audio ==
  /\ active
  /\ \/ calling = NoCall /\ Mixes("interface", FALSE)
     \/ Mixes("capture", FALSE)

note_failure ==
  /\ active /\ active' = FALSE
  /\ UNCHANGED <<chosen, call, calling, in_force, track, recording, silenced, heard, changes,
                 lost>>

(* Voices, as the server names them in what it sends.                      *)
OnTrack(p) ==
  /\ negotiated /\ p \notin DOMAIN heard
  /\ heard' = [q \in DOMAIN heard \cup {p} |-> IF q = p THEN in_force[p] ELSE heard[q]]
  /\ UNCHANGED <<chosen, call, calling, in_force, track, active, recording, silenced, changes,
                 lost>>

OnRemoveTrack(p) ==
  /\ p \in DOMAIN heard
  /\ heard' = [q \in DOMAIN heard \ {p} |-> heard[q]]
  /\ UNCHANGED <<chosen, call, calling, in_force, track, active, recording, silenced, changes,
                 lost>>

(* Leaving takes the session down and clears the mute; a reconnection      *)
(* takes it down and keeps the mute, which is announced again.             *)
close(leaving) ==
  /\ audio /\ building = Waiting /\ calling = NoCall /\ hearing = NoCall
  /\ \A t \in Threads : computed[t] = Nothing
  /\ audio' = FALSE /\ active' = FALSE /\ enabled' = FALSE /\ negotiated' = FALSE
  /\ recording' = FALSE /\ heard' = [p \in {} |-> NotSet]
  /\ chosen' = IF leaving THEN [chosen EXCEPT !["muted"] = NotSet] ELSE chosen
  /\ lost' = {} /\ raced' = FALSE /\ silenced' = FALSE
  /\ UNCHANGED <<building, hearing, builds, engine, calling, in_force, computed, changes>>
-------------------------------------------------------------------------------
Next ==
  \/ handle_offer \/ Fails \/ Publishes \/ Mutes \/ ReadsLater \/ AppliesVolumes
  \/ \E device \in Devices : AppliesDevice(device)
  \/ \E value \in {NotSet, 1} : HearsOfMute(value)
  \/ MutesAsHeard
  \/ on_local_description_set
  \/ \E leaving \in BOOLEAN : close(leaving)
  \/ \E s \in Settings : Choose(s)
  \/ set_video_quality \/ TellsNobody \/ Tells \/ Keeps
  \/ start_screen_audio \/ stop_screen_audio \/ note_failure
  \/ \E t \in Threads : Sets(t)
  \/ \E p \in Voices : OnTrack(p) \/ OnRemoveTrack(p)

Spec == Init /\ [][Next]_vars
-------------------------------------------------------------------------------
TypeOK ==
  /\ chosen \in [Settings -> {NotSet, 1}] /\ in_force \in [Settings -> {NotSet, 1, Undone}]
  /\ building.at \in {"waits", "starts", "mutes", "reads", "applies"} \cup Devices
  /\ {calling.setting, hearing.setting} \subseteq Settings \cup {"none"}
  /\ DOMAIN heard \subseteq Voices /\ lost \subseteq Settings
  /\ computed \in [Threads -> {Nothing, "TRUE", "FALSE"}]
  /\ {audio, enabled, active, negotiated, recording, raced, silenced} \subseteq BOOLEAN
  /\ changes \in 0..MaxChanges /\ builds \in 0..MaxBuilds

Settled ==
  /\ audio /\ building = Waiting /\ calling = NoCall /\ hearing = NoCall
  /\ \A t \in Threads : computed[t] = Nothing

(* What of the microphone leaves: the track carries it when it is enabled, *)
(* and the mixer lets it through.                                          *)
VoiceLeaves == enabled /\ in_force.muted = NotSet

(* No way leads back to the device the system decides on: see              *)
(* DefaultComesBack.                                                       *)
Stuck == {device \in Devices : chosen[device] = NotSet}

(* Once nothing is under way, the call runs with what was chosen, before   *)
(* it and during it, except for a setting that was changed past the        *)
(* builder, or a device that refused; who is muted is not heard, even      *)
(* where a share keeps the track going, and a mute does not cut the share  *)
(* off; the voice engine's own choices are undone, and the first in a room *)
(* has a microphone.                                                       *)
CallRunsAsChosen ==
  Settled =>
    /\ \A s \in Settings \ (lost \cup Stuck) : in_force[s] = chosen[s]
    /\ \A p \in DOMAIN heard \ lost : heard[p] = chosen[p]
    /\ "muted" \notin lost /\ chosen.muted # NotSet => ~VoiceLeaves
    /\ ~raced /\ "muted" \notin lost /\ (chosen.muted = NotSet \/ active) => enabled
    /\ ~engine.agc1
    /\ negotiated /\ ~silenced => recording

(* "First, and always offered: an empty setting means the system decides,  *)
(* and that has to stay reachable."  Once the dialog has put the input     *)
(* back to it, and nothing crossed it, the call captures from it.          *)
DefaultComesBack ==
  Settled /\ chosen["input"] = NotSet => in_force["input"] = NotSet
===============================================================================
