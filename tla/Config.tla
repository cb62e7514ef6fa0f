-------------------------------- MODULE Config --------------------------------
(* The configuration of a client (config.cpp) and what is kept of it: the  *)
(* settings dialog (settings_dialog.cpp) and the address of the server     *)
(* (main_window.cpp) are written into the person's own file, and the next  *)
(* start reads that file over the one beside the executable, then the      *)
(* environment, then the arguments.  Copies of the client share the file   *)
(* and the temporary one that replaces it.                                 *)
EXTENDS Settings

CONSTANTS
  Copies,         \* the copies of the client one person may run
  MachineFiles,   \* what may be beside the executable
  OwnFiles,       \* what the person may write by hand
  Circumstances,  \* of a start: the file --config names (NoFile when none is), what
                  \* the environment sets, and the command line
  Picked,         \* what may be picked of the settings that stand alone
  Levels,         \* and of the two that have a level: it, or "off"
  Ranges, Qualities, Addresses,
  MaxTurns        \* bounds starts, edits, choices and sign-ins

VARIABLES
  machine,        \* the file beside the executable
  own,            \* the person's own file
  temporary,      \* own's .tmp
  copies,         \* each copy: its configuration in use and what it has to save
  kept,           \* history: what own should read as
  crossed,        \* history: two writers of own overlap
  turns

vars == <<machine, own, temporary, copies, kept, crossed, turns>>
-------------------------------------------------------------------------------
(* Starting. *)
(* A file that is named replaces the two others. *)
Layered(mine, named) ==
  LET beside == read_config_file(machine, Defaults, FALSE) IN
  IF named # NoFile THEN read_config_file(named, Defaults, TRUE)
  ELSE IF beside.ok THEN read_config_file(mine, beside.config, FALSE)
  ELSE beside

(* The last argument that sets something stands. *)
load(mine, with) ==
  LET files == Layered(mine, with.named)
      known == SelectSeq(with.arguments, Known)
      sets == [i \in DOMAIN known |-> Given(known[i])]
      names == UNION {DOMAIN sets[i] : i \in DOMAIN sets}
      LastOf(n) == Max({i \in DOMAIN sets : n \in DOMAIN sets[i]})
      config == [n \in names |-> sets[LastOf(n)][n]]
                  @@ apply_environment(files.config, with.environment)
  IN [ok |-> /\ files.ok /\ validate(config)
             /\ \A i \in DOMAIN known : Takeable(known[i]),
      config |-> config]

Cascade == load(own, Plain)
-------------------------------------------------------------------------------
(* A copy of the client. *)
recommended_max_bitrate_kbps(width, height, fps) ==
  LET base == (5 * width * height) \div 1536        \* 3000 kbps for 1280 by 720
      scaled == (base * (60 + Max({0, fps - 30}))) \div 60
  IN Max({500, Min({8000, scaled})})

recommended_bitrate_kbps(config) ==
  LET lowest == Max({1, config.video_floor_bitrate_kbps.n})
      maximum == Max({lowest, recommended_max_bitrate_kbps(config.video_width.n,
                   config.video_height.n, config.video_fps.n)})
  IN <<Max({lowest, Min({maximum, maximum \div 2})}), maximum>>

Automatic(config) == config.video_auto_bitrate = Flag(TRUE)

InUse(config) ==
  LET range == recommended_bitrate_kbps(config) IN
  IF ~Automatic(config) THEN config
  ELSE [config EXCEPT !.video_min_bitrate_kbps = Number(range[1]),
                      !.video_max_bitrate_kbps = Number(range[2])]

NoJob == [at |-> "none", of |-> "", settings |-> <<>>, lines |-> <<>>]
Off == [is |-> "off", config |-> Nothing, pending |-> <<>>, remembered |-> "",
        job |-> NoJob, loose |-> FALSE]

Running(c) == copies[c].is = "running" /\ copies[c].job = NoJob
Saving == {c \in Copies : copies[c].job # NoJob}
Turn == turns < MaxTurns /\ turns' = turns + 1

(* The dialog keeps what to save once for each setting. *)
Staged(pending, settings) ==
  LET New(setting) == Of(pending, Name(setting)) = {}
      Latest(setting) == IF Of(settings, Name(setting)) = {} THEN setting
                         ELSE CHOOSE other \in Of(settings, Name(setting)) : TRUE
  IN [i \in DOMAIN pending |-> Latest(pending[i])] \o SelectSeq(settings, New)

Taking(config, settings) ==
  [n \in {Name(setting) : setting \in ToSet(settings)} |->
     (CHOOSE setting \in Of(settings, n) : TRUE).value] @@ config

Current(config, section, keys) ==
  [i \in DOMAIN keys |-> Setting(section, keys[i], config[NameOf(section, keys[i])])]

bitrate_settings(config) ==
  Current(config, "video", <<"auto_bitrate", "min_bitrate_kbps", "max_bitrate_kbps">>)

Chosen(c, config, settings) ==
  /\ copies' = [copies EXCEPT ![c].config = config,
                              ![c].pending = Staged(@, settings)]
  /\ Turn /\ UNCHANGED <<machine, own, temporary, kept, crossed>>

Init ==
  /\ machine \in MachineFiles /\ own \in OwnFiles \cup {NoFile} /\ temporary = NoFile
  /\ copies = [c \in Copies |-> Off]
  /\ kept = read_config_file(own, Nothing, FALSE)
  /\ crossed = FALSE /\ turns = 0

(* run: the person's own file is made of the template when there is none,  *)
(* which may fail.                                                         *)
Launches(c, with) ==
  \E file \in IF own = NoFile THEN {NoFile, Template} ELSE {own} :
    LET read == load(file, with) IN
    /\ copies[c] = Off /\ own' = file
    /\ copies' = [copies EXCEPT ![c] =
         IF ~read.ok THEN Off
         ELSE [Off EXCEPT !.is = "running", !.config = InUse(read.config),
                          !.remembered = read.config.network_signaling_url.word,
                          !.loose = with # Plain]]
    /\ Turn /\ UNCHANGED <<machine, temporary, kept, crossed>>

(* on_input_changed, on_output_changed, on_room_sounds_changed,            *)
(* on_screen_audio_changed, on_screen_volume_changed                       *)
Picks(c, setting) ==
  /\ Running(c) /\ copies[c].config[Name(setting)] # setting.value
  /\ Chosen(c, Taking(copies[c].config, <<setting>>), <<setting>>)

(* on_noise_suppression_changed, on_voice_gate_changed *)
PicksLevel(c, which, choice) ==
  LET config == copies[c].config
      settings == IF choice = "off" THEN <<Setting("audio", which, Flag(FALSE))>>
                  ELSE <<Setting("audio", which, Flag(TRUE)),
                         Setting("audio", which \o "_level", Text(choice))>>
  IN Running(c) /\ Chosen(c, Taking(config, settings), settings)

on_bitrate_changed(c, range) ==
  LET config == [copies[c].config EXCEPT !.video_min_bitrate_kbps = Number(range[1]),
                                         !.video_max_bitrate_kbps = Number(range[2])]
      lowest == Max({200, config.video_floor_bitrate_kbps.n})
  IN /\ Running(c) /\ ~Automatic(config)
     /\ range[1] \in lowest..8000 /\ range[2] \in range[1]..8000
     /\ Chosen(c, config, bitrate_settings(config))

on_auto_bitrate_changed(c) ==
  LET config == InUse([copies[c].config EXCEPT !.video_auto_bitrate =
                         Flag(~Automatic(copies[c].config))])
  IN Running(c) /\ Chosen(c, config, bitrate_settings(config))

on_quality_changed(c, width, height, fps) ==
  LET config == InUse([copies[c].config EXCEPT !.video_width = Number(width),
                         !.video_height = Number(height),
                         !.video_fps = Number(fps)])
      size == Current(config, "video", <<"width", "height", "fps">>)
  IN /\ Running(c)
     /\ Chosen(c, config, IF Automatic(config) THEN size \o bitrate_settings(config) ELSE size)
-------------------------------------------------------------------------------
(* save_ini_settings in its steps: it reads, it writes beside, it renames. *)
Reading(c, settings, of) ==
  LET lines == Rebuilt(own.lines, settings) IN
  IF Writable(settings) /\ Acceptable(lines)
    THEN [at |-> "writes", of |-> of, settings |-> settings, lines |-> lines]
    ELSE NoJob

on_save(c) ==
  /\ Running(c) /\ copies[c].pending # <<>>
  /\ \E job \in {Reading(c, copies[c].pending, "dialog")} \ {NoJob} :
       copies' = [copies EXCEPT ![c].job = job]
  /\ crossed' = (crossed \/ Saving # {})
  /\ UNCHANGED <<machine, own, temporary, kept, turns>>

(* on_connect: the address signed in to is kept, unless it is the one that *)
(* was.                                                                    *)
on_connect(c, url) ==
  LET settings == <<Setting("network", "signaling_url", Text(url))>>
      job == IF url = copies[c].remembered THEN NoJob ELSE Reading(c, settings, "address")
  IN /\ Running(c) /\ Turn
     /\ copies' = [copies EXCEPT ![c].config.network_signaling_url = Text(url),
                                 ![c].job = job]
     /\ crossed' = (crossed \/ (job # NoJob /\ Saving # {}))
     /\ UNCHANGED <<machine, own, temporary, kept>>

Writes(c) ==
  /\ copies[c].job.at = "writes"
  /\ temporary' = Ini(copies[c].job.lines)
  /\ copies' = [copies EXCEPT ![c].job.at = "renames"]
  /\ UNCHANGED <<machine, own, kept, crossed, turns>>

Released(c) == crossed' = (crossed /\ Saving \ {c} # {})

(* A disk that is full, a file another program holds: what was to be saved *)
(* is kept.                                                                *)
Fails(c) ==
  /\ copies[c].job # NoJob /\ temporary' = NoFile
  /\ copies' = [copies EXCEPT ![c].job = NoJob]
  /\ Released(c) /\ UNCHANGED <<machine, own, kept, turns>>

Renames(c) ==
  LET job == copies[c].job IN
  /\ job.at = "renames" /\ temporary # NoFile
  /\ own' = temporary /\ temporary' = NoFile
  /\ copies' = [d \in Copies |->
       IF d # c THEN [copies[d] EXCEPT !.loose = TRUE]
       ELSE [copies[c] EXCEPT
               !.job = NoJob, !.loose = @ \/ crossed,
               !.pending = IF job.of = "dialog" THEN <<>> ELSE @,
               !.remembered = IF job.of = "address" THEN job.settings[1].value.word ELSE @]]
  /\ kept' = IF crossed THEN read_config_file(own', Nothing, FALSE)
             ELSE [kept EXCEPT !.config = Taking(@, job.settings)]
  /\ Released(c) /\ UNCHANGED <<machine, turns>>

(* The dialog is closed without saving. *)
Discards(c) ==
  /\ Running(c) /\ copies[c].pending # <<>>
  /\ copies' = [copies EXCEPT ![c].pending = <<>>, ![c].loose = TRUE]
  /\ UNCHANGED <<machine, own, temporary, kept, crossed, turns>>

(* It ends, or is killed, in the middle of a save too. *)
Ends(c) ==
  /\ copies[c] # Off /\ copies' = [copies EXCEPT ![c] = Off]
  /\ Released(c) /\ UNCHANGED <<machine, own, temporary, kept, turns>>

(* The person writes the file by hand. *)
WritesByHand(file) ==
  /\ own' = file /\ own # file /\ Turn
  /\ kept' = read_config_file(file, Nothing, FALSE) /\ crossed' = (Saving # {})
  /\ copies' = [c \in Copies |-> [copies[c] EXCEPT !.loose = copies[c] # Off]]
  /\ UNCHANGED <<machine, temporary>>

Next ==
  \/ \E c \in Copies :
       \/ on_auto_bitrate_changed(c) \/ on_save(c) \/ Writes(c) \/ Fails(c)
       \/ Renames(c) \/ Discards(c) \/ Ends(c)
       \/ \E with \in Circumstances : Launches(c, with)
       \/ \E setting \in Picked : Picks(c, setting)
       \/ \E pick \in Levels : PicksLevel(c, pick[1], pick[2])
       \/ \E range \in Ranges : on_bitrate_changed(c, range)
       \/ \E quality \in Qualities : on_quality_changed(c, quality[1], quality[2], quality[3])
       \/ \E url \in Addresses : on_connect(c, url)
  \/ \E file \in OwnFiles : WritesByHand(file)

Spec == Init /\ [][Next]_vars
-------------------------------------------------------------------------------
(* What a copy runs with can be run with. *)
TypeOK ==
  /\ \A c \in Copies : copies[c].is \in {"off", "running"}
  /\ \A c \in Copies : copies[c].is = "running" =>
       \A n \in Ports : copies[c].config[n].n \in 0..65535
  /\ turns \in 0..MaxTurns

(* What was saved, and nothing else, is different in the file; and a copy  *)
(* that has nothing to save runs with what the next start would.           *)
SettingsLast ==
  /\ ~crossed => read_config_file(own, Nothing, FALSE) = kept
  /\ \A c \in Copies :
       Running(c) /\ copies[c].pending = <<>> /\ ~copies[c].loose
         /\ copies[c].remembered = copies[c].config.network_signaling_url.word =>
           Cascade.ok /\ InUse(Cascade.config) = copies[c].config

(* A save does not keep the client from starting, unless the floor beside  *)
(* the executable is above the range that was saved.                       *)
FloorBeside ==
  LET beside == read_config_file(machine, Defaults, FALSE).config.video_floor_bitrate_kbps
      mine == read_config_file(own, Defaults, FALSE).config
  IN beside.n > mine["video_min_bitrate_kbps"].n

SavesKeepItStarting ==
  [][own' # own /\ ~crossed /\ (\E c \in Copies : Renames(c)) /\ Cascade.ok =>
       Cascade'.ok \/ FloorBeside']_vars
=============================================================================
