------------------------------- MODULE Settings -------------------------------
(* What config.cpp makes of a configuration: the settings and their first  *)
(* values, what a line of a file, the environment or an argument can say   *)
(* of them, what the client starts with, and how a file is written over.   *)
EXTENDS Integers, Sequences, FiniteSetsExt, SequencesExt, TLC

(* Values, as they are written: an edge is white space at an end, or a     *)
(* quote at both; a line break cannot be written.                          *)
Value(is, word, n) == [is |-> is, word |-> word, n |-> n, edge |-> "none"]
Number(n) == Value("number", "", n)
Flag(on) == Value("flag", IF on THEN "true" ELSE "false", 0)
Text(word) == Value("text", word, 0)

Defaults ==
  [video_width |-> Number(1280), video_height |-> Number(720), video_fps |-> Number(30),
   video_auto_bitrate |-> Flag(FALSE), video_min_bitrate_kbps |-> Number(1500),
   video_max_bitrate_kbps |-> Number(3000), video_floor_bitrate_kbps |-> Number(300),
   video_codec |-> Text("H264"),
   screen_audio_mode |-> Text("system"), screen_audio_volume_percent |-> Number(100),
   screen_audio_limiter |-> Flag(TRUE),
   audio_sample_rate_hz |-> Number(48000), audio_channels |-> Number(1),
   audio_bitrate_kbps |-> Number(128), audio_redundancy |-> Flag(TRUE),
   audio_retransmission |-> Flag(TRUE), audio_adaptive |-> Flag(FALSE),
   audio_frame_duration_ms |-> Number(20), audio_echo_cancellation |-> Flag(TRUE),
   audio_noise_suppression |-> Flag(TRUE),
   audio_noise_suppression_level |-> Text("high"),
   audio_automatic_gain_control |-> Flag(TRUE), audio_voice_gate |-> Flag(TRUE),
   audio_voice_gate_level |-> Text("moderate"), audio_input_device |-> Text(""),
   audio_output_device |-> Text(""),
   network_signaling_url |-> Text("ws://here"), network_stun_servers |-> Text("stun"),
   network_turn_url |-> Text(""), network_turn_username |-> Text(""),
   network_turn_password |-> Text(""), network_ice_port_range_begin |-> Number(0),
   network_ice_port_range_end |-> Number(0),
   network_reconnect_initial_delay_ms |-> Number(500),
   network_reconnect_max_delay_ms |-> Number(30000),
   logging_level |-> Text("info"), logging_file_path |-> Text(""),
   logging_log_to_console |-> Flag(TRUE), logging_crash_directory |-> Text(""),
   logging_crash_reports |-> Flag(TRUE),
   ui_room_sounds |-> Flag(TRUE), ui_check_for_updates |-> Flag(TRUE),
   server_bind_address |-> Text("0.0.0.0"), server_port |-> Number(8080),
   server_max_participants_per_room |-> Number(20),
   server_heartbeat_interval_ms |-> Number(5000),
   server_heartbeat_timeout_ms |-> Number(15000), server_users_file |-> Text(""),
   database_enabled |-> Flag(FALSE), database_uri |-> Text("mongodb"),
   database_name |-> Text("partyshare"), database_timeout_ms |-> Number(2000)]

Names == DOMAIN Defaults
Ports == {"network_ice_port_range_begin", "network_ice_port_range_end", "server_port"}
LevelNames == {"audio_noise_suppression_level", "audio_voice_gate_level"}

AddressWords == {"ws://here", "wss://there"}
LevelWords == {"low", "moderate", "high", "very_high"}
AnyNumber(v) == v.is = "number"                                         \* a slip
IsPort(v) == v.is = "number" /\ v.n \in 0..65535

(* Whether the text v can be a value of the setting n. *)
Understood(n, v) ==
  \/ Defaults[n].is = "text" /\ n \notin LevelNames
  \/ n \in LevelNames /\ v.word \in LevelWords
  \/ v.edge = "none" /\ v.is = Defaults[n].is /\ (n \in Ports => IsPort(v))
-------------------------------------------------------------------------------
(* Files.  A line is a header, a setting, a comment, blank or broken.      *)
Line(is, of, value, quoted) == [is |-> is, of |-> of, value |-> value, quoted |-> quoted]
Blank == Line("blank", "", Text(""), FALSE)
Comment == Line("comment", "", Text(""), FALSE)
Broken == Line("broken", "", Text(""), FALSE)
Header(section) == Line("header", section, Text(""), FALSE)

read_value(line) == IF line.quoted THEN line.value ELSE [line.value EXCEPT !.edge = "none"]

format_ini_value(key, v) == Line("setting", key, v, v.edge # "none" \/ v = Text(""))

Nothing == [n \in {} |-> Text("")]
File(is, lines, fields) == [is |-> is, lines |-> lines, fields |-> fields]
NoFile == File("none", <<>>, Nothing)
Ini(lines) == File("ini", lines, Nothing)

(* A start with nothing named, set or asked. *)
Plain == [named |-> NoFile, environment |-> Nothing, arguments |-> <<>>]

(* config.ini as shipped: its examples are all commented out. *)
Template == Ini(<<Comment, Header("network"), Comment, Header("video"), Comment>>)

SectionAt(lines, i) ==
  LET headers == {j \in 1..i : lines[j].is = "header"} IN
  IF headers = {} THEN "" ELSE lines[Max(headers)].of

NameOf(section, key) == section \o "_" \o key
NameAt(lines, i) == NameOf(SectionAt(lines, i), lines[i].of)
SettingLines(lines) == {i \in DOMAIN lines : lines[i].is = "setting"}
SetBy(lines, n) == {i \in SettingLines(lines) : NameAt(lines, i) = n}

(* One line that cannot be read refuses the file; of two that set the same *)
(* the last one stands.                                                    *)
parse_ini(lines, base) ==
  LET names == {NameAt(lines, i) : i \in SettingLines(lines)} IN
  [ok |-> /\ \A i \in DOMAIN lines : /\ lines[i].is # "broken"
                                    /\ lines[i].is = "header" => lines[i].of # ""
          /\ names \subseteq Names
          /\ \A i \in SettingLines(lines) : Understood(NameAt(lines, i), read_value(lines[i])),
   config |-> [n \in names |-> read_value(lines[Max(SetBy(lines, n))])] @@ base]

(* A number too wide for a port is narrowed; no word is refused here. *)
parse_json(fields, base) ==
  LET Narrowed(n, v) == IF n \in Ports THEN Number(v.n % 65536) ELSE v
  IN [ok |-> \A n \in DOMAIN fields : fields[n].is = Defaults[n].is,
      config |-> [n \in DOMAIN fields |-> Narrowed(n, fields[n])] @@ base]

read_config_file(file, base, required) ==
  CASE file.is = "none" -> [ok |-> ~required, config |-> base]
    [] file.is = "ini" -> parse_ini(file.lines, base)
    [] file.is = "json" -> parse_json(file.fields, base)
-------------------------------------------------------------------------------
(* Starting. *)
EnvironmentNames ==
  Names \ {"screen_audio_mode", "screen_audio_volume_percent", "screen_audio_limiter",
           "network_stun_servers", "network_reconnect_initial_delay_ms",
           "network_reconnect_max_delay_ms", "logging_log_to_console", "ui_room_sounds",
           "ui_check_for_updates", "server_heartbeat_interval_ms",
           "server_heartbeat_timeout_ms"}

(* What cannot be read of the environment is passed over. *)
apply_environment(config, environment) ==
  LET Taken(n) == /\ environment[n] # Text("")
                  /\ n \in LevelNames \/ Understood(n, environment[n])
                  /\ n = "server_port" => environment[n].n > 0
      taken == {n \in DOMAIN environment \cap EnvironmentNames : Taken(n)}
  IN [n \in taken |-> environment[n]] @@ config

Options ==
  [log_level |-> "logging_level", log_file |-> "logging_file_path",
   signaling_url |-> "network_signaling_url",
   bind_address |-> "server_bind_address", users_file |-> "server_users_file",
   database_uri |-> "database_uri", database_name |-> "database_name",
   database_enabled |-> "database_enabled", input_device |-> "audio_input_device",
   output_device |-> "audio_output_device", codec |-> "video_codec",
   port |-> "server_port", fps |-> "video_fps",
   max_participants |-> "server_max_participants_per_room"]

(* One --option=value; an option of nobody's is Qt's. *)
Known(argument) == argument.option \in DOMAIN Options

Given(argument) ==
  LET n == Options[argument.option]
      enabled == "database_enabled"
  IN CASE argument.option = "database_uri" -> (n :> argument.value) @@ (enabled :> Flag(TRUE))
       [] n = enabled /\ argument.value.is # "flag" -> n :> Flag(TRUE)
       [] OTHER -> n :> argument.value

Takeable(argument) ==
  /\ \A n \in DOMAIN Given(argument) : Understood(n, Given(argument)[n])
  /\ argument.option = "port" => argument.value.n > 0

validate(config) ==
  LET begin == config.network_ice_port_range_begin.n
      end == config.network_ice_port_range_end.n
  IN /\ \A side \in {config.video_width.n, config.video_height.n} : side > 0 /\ side % 2 = 0
     /\ config.video_fps.n \in 1..120
     /\ config.video_min_bitrate_kbps.n > 0
     /\ config.video_max_bitrate_kbps.n >= config.video_min_bitrate_kbps.n
     /\ config.video_floor_bitrate_kbps.n > 0
     /\ config.video_floor_bitrate_kbps.n <= config.video_min_bitrate_kbps.n
     /\ config.audio_sample_rate_hz.n \in {8000, 12000, 16000, 24000, 48000}
     /\ config.audio_channels.n \in 1..2
     /\ config.audio_frame_duration_ms.n \in {5, 10, 20, 40, 60}
     /\ config.audio_bitrate_kbps.n \in 6..510
     /\ config.audio_noise_suppression_level.word \in LevelWords
     /\ config.audio_voice_gate_level.word \in LevelWords
     /\ config.screen_audio_mode.word \in {"none", "system", "process"}
     /\ config.screen_audio_volume_percent.n \in 0..200
     /\ config.database_enabled = Flag(TRUE) => /\ config.database_uri.word # ""
                                     /\ config.database_name.word # ""
                                     /\ config.database_timeout_ms.n > 0
     /\ config.network_signaling_url.word \in AddressWords
     /\ config.network_reconnect_initial_delay_ms.n > 0
     /\ config.network_reconnect_max_delay_ms.n >= config.network_reconnect_initial_delay_ms.n
     /\ (begin # 0) = (end # 0)
     /\ begin # 0 => begin <= end
     /\ config.server_port.n # 0
     /\ config.server_max_participants_per_room.n \in 2..50
     /\ config.server_heartbeat_timeout_ms.n > config.server_heartbeat_interval_ms.n
-------------------------------------------------------------------------------
(* Saving: save_ini_settings up to where it touches the disk.              *)
Setting(section, key, value) == [section |-> section, key |-> key, value |-> value]
Name(setting) == NameOf(setting.section, setting.key)
Spelled(setting) == format_ini_value(setting.key, setting.value)
Of(settings, n) == {setting \in ToSet(settings) : Name(setting) = n}

OnlyTheFirst(lines, settings) ==                                        \* a slip
  [i \in DOMAIN lines |->
     IF /\ lines[i].is = "setting" /\ Of(settings, NameAt(lines, i)) # {}
        /\ i = Min(SetBy(lines, NameAt(lines, i)))
       THEN Spelled(CHOOSE setting \in Of(settings, NameAt(lines, i)) : TRUE) ELSE lines[i]]

(* A key the file sets is written over wherever it is set: the last one    *)
(* is the one that is read.                                                *)
WrittenOver(lines, settings) ==
  [i \in DOMAIN lines |->
     IF lines[i].is = "setting" /\ Of(settings, NameAt(lines, i)) # {}
       THEN Spelled(CHOOSE setting \in Of(settings, NameAt(lines, i)) : TRUE) ELSE lines[i]]

(* One it does not set goes to the end of its section, after the last line *)
(* with something on it; a section it does not have goes to the end.       *)
Within(lines, section) ==
  {i \in DOMAIN lines : SectionAt(lines, i) = section /\ lines[i].is # "blank"}

Rebuilt(lines, settings) ==
  LET written == WrittenOver(lines, settings)
      NotThere(setting) == SetBy(lines, Name(setting)) = {}
      absent == SelectSeq(settings, NotThere)
      Under(section) == LET Is(setting) == setting.section = section
                            here == SelectSeq(absent, Is)
                        IN [i \in DOMAIN here |-> Spelled(here[i])]
      After(i) == LET section == SectionAt(lines, i) IN
                  IF Within(lines, section) # {} /\ i = Max(Within(lines, section))
                    THEN Under(section) ELSE <<>>
      New(i) == LET section == absent[i].section IN
                /\ Within(lines, section) = {}
                /\ \A j \in 1 .. i - 1 : absent[j].section # section
      Separated(i) == \/ lines # <<>> /\ Last(lines).is # "blank"
                      \/ \E j \in 1 .. i - 1 : New(j)
      Appended(i) == IF ~New(i) THEN <<>>
                     ELSE (IF Separated(i) THEN <<Blank>> ELSE <<>>)
                            \o <<Header(absent[i].section)>> \o Under(absent[i].section)
  IN FlattenSeq([i \in DOMAIN lines |-> <<written[i]>> \o After(i)])
       \o FlattenSeq([i \in DOMAIN absent |-> Appended(i)])

JustParsed(lines) == parse_ini(lines, Defaults).ok                      \* a slip

(* What the client would not start with over its defaults is not written.  *)
Acceptable(lines) ==
  LET read == parse_ini(lines, Defaults) IN read.ok /\ validate(read.config)

Writable(settings) == \A setting \in ToSet(settings) : setting.value.edge # "line break"
===============================================================================
