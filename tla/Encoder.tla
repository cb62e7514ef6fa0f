-------------------------------- MODULE Encoder --------------------------------
(* The hardware encoder of a shared screen: which one the machine gets, an *)
(* NVENC session, which answers on the spot, and a Media Foundation        *)
(* transform, which asks for frames and hands them back on threads of its  *)
(* own.  libwebrtc's encoder thread and its software fallback, the driver  *)
(* and the transform are external, as the code uses them.                  *)
EXTENDS Integers, Sequences, FiniteSetsExt, SequencesExt

CONSTANTS Machines,                  \* what a machine has, asks for and prefers
          Openings,                    \* sizes and rates an encoder is started with
          Rates, MaxFrames, MaxSessions, MaxLost, Depth

EncoderAssumption ==
  /\ Openings \subseteq [size : Nat \ {0}, start : Nat, max : Nat] /\ Openings # {}
  /\ Rates \subseteq Nat \ {0} /\ MaxLost \in Nat
  /\ {MaxFrames, MaxSessions, Depth} \subseteq Nat \ {0}

VARIABLES made,          \* what the factory handed out: a backend, a fallback
          at,            \* "unmade", "off", "hardware", "software" or "failed"
          session,       \* the encoder's own members
          card,          \* what the driver holds of them
          transform,     \* [asked, inside, ready, events]
          queued, requests, metadata,                  \* under mutex_
          hand,          \* the frame the encoder thread feeds, outside it
          event,         \* the event thread, inside Invoke
          frames,        \* so many have been taken
          out,           \* the last that came out
          lost, told, sessions,
          refused        \* history: a rate the driver did not take
vars == <<made, at, session, card, transform, queued, requests, metadata, hand, event,
          frames, out, lost, told, sessions, refused>>
line == <<queued, requests, metadata, hand, event>>
counts == <<frames, out, lost>>

kMaxQueuedFrames == 3
NoFrame == 0
-------------------------------------------------------------------------------
(* Which one.  A probe gives up at the first thing that is missing.        *)
compiled_backends == <<"nvenc", "mediafoundation">>

Needs(backend) ==
  CASE backend = "nvenc" -> {"cuda", "its symbols", "matching driver", "device",
                             "encode library", "entry point", "new enough", "functions"}
    [] backend = "mediafoundation" -> {"mfplat", "its entry points", "started",
                                       "enumerates", "hardware transform"}

probe(backend, machine) == Needs(backend) \subseteq machine.has

Chosen(machine) ==
  LET Tried(backend) == machine.wanted \in {"", backend} /\ probe(backend, machine)
      working == SelectSeq(compiled_backends, Tried)
  IN IF machine.wanted = "none" \/ working = <<>> THEN "none" ELSE Head(working)

Create(machine, format) ==
  [backend |-> IF machine.prefers /\ format = "H264" THEN Chosen(machine) ELSE "none",
   software |-> format \in machine.encodes]

Make(machine, format) ==
  /\ at = "unmade"
  /\ made' = Create(machine, format) /\ at' = "off"
  /\ UNCHANGED <<session, card, transform, line, counts, told, sessions, refused>>
-------------------------------------------------------------------------------
(* Configuring a transform.  Of the properties it has, the mode and the    *)
(* peak are read when the output type is set and never again.              *)
Own == 0
Fresh == [typed |-> FALSE, mode |-> "own", mean |-> Own, peak |-> Own]
Fixed == {"mode", "peak"}
set_codec_value(on, property, value) ==
  IF on.typed /\ property \in Fixed THEN on ELSE [on EXCEPT ![property] = value]

apply_static_codec_settings(on, s) ==
  LET moded == set_codec_value(on, "mode", IF s.constrained THEN "constrained" ELSE "constant")
      meant == set_codec_value(moded, "mean", s.bitrate)
  IN CASE ~s.steered -> on
       [] s.steered /\ s.constrained -> set_codec_value(meant, "peak", s.peak)
       [] OTHER -> meant

set_types(on, s) ==
  [on EXCEPT !.typed = TRUE, !.mean = IF @ = Own THEN s.bitrate ELSE @]

TypesFirst(s) == apply_static_codec_settings(set_types(Fresh, s), s)    \* a slip
configure(s) == set_types(apply_static_codec_settings(Fresh, s), s)

apply_rate_control(on, bitrate) ==
  [on EXCEPT !.mode = "variable", !.mean = bitrate, !.peak = bitrate]
-------------------------------------------------------------------------------
NoSession == [size |-> 0, bitrate |-> 0, peak |-> 0, steered |-> FALSE, constrained |-> FALSE]
Idle == [asked |-> 0, inside |-> <<>>, ready |-> 0, events |-> <<>>]
Listening == [doing |-> "listens", frame |-> NoFrame]
Deaf == [doing |-> "nothing", frame |-> NoFrame]

Init ==
  /\ made = [backend |-> "none", software |-> FALSE] /\ at = "unmade"
  /\ session = NoSession /\ card = Fresh /\ transform = Idle
  /\ queued = <<>> /\ requests = 0 /\ metadata = {} /\ hand = NoFrame /\ event = Deaf
  /\ frames = 0 /\ out = NoFrame /\ lost = {} /\ told = 0 /\ sessions = 0 /\ refused = FALSE

Encoding(backend) == at = "hardware" /\ made.backend = backend

(* A frame is lost where the driver fails with it. *)
Loses(f) == Cardinality(lost) < MaxLost /\ lost' = lost \cup {f}

(* libwebrtc's encoder thread calls nothing while a call of its is under   *)
(* way, and detach waits for an event that is being handled.               *)
Free == hand = NoFrame
Detached == Free /\ event.doing \in {"nothing", "listens"}

(* Release: nothing of the line survives it. *)
Cleared ==
  /\ transform' = Idle /\ queued' = <<>> /\ requests' = 0 /\ metadata' = {}
  /\ hand' = NoFrame

(* What the wrapper does with an encoder that will not: the other one.     *)
FallsBack ==
  /\ at' = (IF made.software THEN "software" ELSE "failed")
  /\ session' = NoSession /\ card' = Fresh /\ event' = Deaf

Release ==
  /\ at \in {"hardware", "software"} /\ Detached
  /\ Cleared /\ at' = "off" /\ session' = NoSession /\ card' = Fresh /\ event' = Deaf
  /\ UNCHANGED <<made, counts, told, sessions, refused>>

Opened(offer) ==
  LET first == IF offer.start > 0 THEN offer.start ELSE offer.max
      bitrate == IF first = 0 THEN 1500 ELSE first
  IN [NoSession EXCEPT !.size = offer.size, !.bitrate = bitrate,
                           !.peak = Max({bitrate, offer.max})]

(* Whether its rate can be set at all, and whether it takes the mode.      *)
Probed(s, steered, constrained) ==
  [s EXCEPT !.steered = steered, !.constrained = steered /\ constrained]

StartsOn(s) ==
  LET bitrate == s.bitrate IN
  /\ at' = "hardware" /\ session' = s /\ told' = bitrate
  /\ \/ /\ made.backend = "nvenc"
        /\ card' = apply_rate_control([Fresh EXCEPT !.typed = TRUE], bitrate)
        /\ event' = Deaf
     \/ /\ made.backend = "mediafoundation"
        /\ card' = configure(s) /\ event' = Listening

(* Activating, unlocking, configuring and starting may each fail.          *)
InitEncode(offer) ==
  /\ at \notin {"unmade", "failed"} /\ Detached /\ sessions < MaxSessions
  /\ sessions' = sessions + 1
  /\ Cleared /\ refused' = FALSE /\ lost' = {}
  /\ \/ /\ made.backend # "none"
        /\ \E steered, constrained \in BOOLEAN :
             StartsOn(Probed(Opened(offer), steered, constrained))
     \/ FallsBack /\ UNCHANGED told
  /\ UNCHANGED <<made, frames, out>>
-------------------------------------------------------------------------------
(* NVENC: a frame is encoded when nvEncEncodePicture returns.              *)
EncodesAtOnce(size) ==
  /\ Encoding("nvenc") /\ frames < MaxFrames
  /\ frames' = frames + 1
  /\ \/ /\ size = session.size /\ out' = frames'
        /\ UNCHANGED <<at, session, card, event, lost>>
     \/ /\ size = session.size /\ Loses(frames')
        /\ UNCHANGED <<at, session, card, event, out>>
     \/ /\ size # session.size /\ FallsBack
        /\ UNCHANGED <<out, lost>>
  /\ UNCHANGED <<made, transform, queued, requests, metadata, hand, told, sessions, refused>>

(* Media Foundation: a frame waits until it is asked for, the oldest makes *)
(* room for it; one that was asked for is fed after the lock.              *)
Queue(f) ==
  LET full == Len(queued) >= kMaxQueuedFrames IN
  /\ queued' = Append(IF full THEN Tail(queued) ELSE queued, f)
  /\ metadata' = (metadata \ (IF full THEN {Head(queued)} ELSE {})) \cup {f}
  /\ UNCHANGED <<requests, hand>>

Take(f) ==
  /\ requests' = requests - 1 /\ hand' = f /\ metadata' = metadata \cup {f}
  /\ UNCHANGED queued

Encode ==
  /\ Encoding("mediafoundation") /\ Free /\ frames < MaxFrames
  /\ frames' = frames + 1
  /\ IF requests = 0 THEN Queue(frames') ELSE Take(frames')
  /\ UNCHANGED <<made, at, session, card, transform, event, out, lost, told, sessions, refused>>

(* feed: under transform_mutex_, whichever thread it is.                   *)
feed(f) ==
  \/ /\ transform' = [transform EXCEPT !.inside = Append(@, f), !.asked = @ - 1]
     /\ UNCHANGED lost
  \/ Loses(f) /\ UNCHANGED transform

Feeds ==
  /\ ~Free /\ feed(hand) /\ hand' = NoFrame
  /\ UNCHANGED <<made, at, session, card, queued, requests, metadata, event, frames, out,
                 told, sessions, refused>>

SetRates(bitrate) ==
  /\ at = "hardware" /\ Free
  /\ made.backend = "mediafoundation" => session.steered
  /\ bitrate # session.bitrate
  /\ told' = bitrate /\ session' = [session EXCEPT !.bitrate = bitrate]
  /\ \/ /\ made.backend = "nvenc" /\ card' = apply_rate_control(card, bitrate)
        /\ UNCHANGED refused
     \/ /\ made.backend = "mediafoundation" /\ card' = set_codec_value(card, "mean", bitrate)
        /\ UNCHANGED refused
     \/ refused' = TRUE /\ UNCHANGED card
  /\ UNCHANGED <<made, at, transform, line, counts, sessions>>
-------------------------------------------------------------------------------
(* The transform asks while it has room, and says when a frame is ready;   *)
(* it may also break down.                                                 *)
Running == Encoding("mediafoundation") /\ event.doing # "nothing"
Says(what) == [transform EXCEPT !.events = Append(@, what)]
Speaks(by) ==
  /\ Running /\ transform' = by
  /\ UNCHANGED <<made, at, session, card, line, counts, told, sessions, refused>>

Asks == /\ transform.asked + Len(transform.inside) < Depth
        /\ Speaks([Says("need") EXCEPT !.asked = @ + 1])
IsReady == /\ transform.ready < Len(transform.inside)
           /\ Speaks([Says("have") EXCEPT !.ready = @ + 1])
BreaksDown == "error" \notin ToSet(transform.events) /\ Speaks(Says("error"))

(* Invoke: one event at a time; it listens again when it has handled it.   *)
Invoke(what) ==
  /\ event = Listening /\ transform.events # <<>> /\ Head(transform.events) = what
  /\ UNCHANGED <<made, at, session, card, hand, frames, out, told, sessions, refused>>
Heard == [transform EXCEPT !.events = Tail(@)]

ForgetsTheRequest ==                                                    \* a slip
  /\ Invoke("need") /\ transform' = Heard
  /\ IF queued = <<>> THEN UNCHANGED <<queued, event>>
     ELSE /\ event' = [doing |-> "feeds", frame |-> Head(queued)]
          /\ queued' = Tail(queued)
  /\ UNCHANGED <<requests, metadata, lost>>

on_need_input ==
  /\ Invoke("need") /\ transform' = Heard
  /\ IF queued = <<>>
       THEN requests' = requests + 1 /\ UNCHANGED <<queued, event>>
       ELSE /\ event' = [doing |-> "feeds", frame |-> Head(queued)]
            /\ queued' = Tail(queued) /\ UNCHANGED requests
  /\ UNCHANGED <<metadata, lost>>

EventFeeds ==
  /\ event.doing = "feeds" /\ feed(event.frame) /\ event' = Listening
  /\ UNCHANGED <<made, at, session, card, queued, requests, metadata, hand, frames, out,
                 told, sessions, refused>>

on_have_output ==
  LET f == Head(transform.inside) IN
  /\ Invoke("have")
  /\ transform' = [Heard EXCEPT !.inside = Tail(@), !.ready = @ - 1]
  /\ \/ event' = [doing |-> "delivers", frame |-> f] /\ UNCHANGED lost
     \/ Loses(f) /\ UNCHANGED event
  /\ UNCHANGED <<queued, requests, metadata>>

(* What libwebrtc must know of the frame is found by its sample time.      *)
deliver ==
  /\ event.doing = "delivers"
  /\ metadata' = metadata \ {event.frame} /\ event' = Listening
  /\ \/ out' = event.frame /\ UNCHANGED lost
     \/ Loses(event.frame) /\ UNCHANGED out
  /\ UNCHANGED <<made, at, session, card, transform, queued, requests, hand, frames, told,
                 sessions, refused>>

(* Nothing listens after an error, and Encode goes on answering OK.        *)
GoesQuiet ==
  /\ Invoke("error") /\ transform' = Heard /\ event' = Deaf
  /\ UNCHANGED <<queued, requests, metadata, lost>>
-------------------------------------------------------------------------------
Next ==
  \/ \E machine \in Machines, format \in {"H264", "VP8"} : Make(machine, format)
  \/ \E offer \in Openings : InitEncode(offer)
  \/ \E offer \in Openings : EncodesAtOnce(offer.size)
  \/ \E bitrate \in Rates : SetRates(bitrate)
  \/ Release \/ Encode \/ Feeds
  \/ Asks \/ IsReady \/ BreaksDown
  \/ on_need_input \/ EventFeeds \/ on_have_output \/ deliver \/ GoesQuiet

Spec == Init /\ [][Next]_vars
-------------------------------------------------------------------------------
TypeOK ==
  /\ made \in [backend : {"none", "nvenc", "mediafoundation"}, software : BOOLEAN]
  /\ at \in {"unmade", "off", "hardware", "software", "failed"}
  /\ transform.asked \in 0..Depth /\ transform.ready \in 0..Len(transform.inside)
  /\ requests \in 0..Depth /\ frames \in 0..MaxFrames /\ sessions \in 0..MaxSessions
  /\ {hand, event.frame} \subseteq 0..frames /\ metadata \cup lost \subseteq 1..frames
  /\ out \in 0..frames
  /\ refused \in BOOLEAN

When(doing) == IF event.doing = doing THEN <<event.frame>> ELSE <<>>
InHand == IF Free THEN <<>> ELSE <<hand>>
Line == When("delivers") \o transform.inside \o When("feeds") \o InHand \o queued
NeedsTold == {i \in DOMAIN transform.events : transform.events[i] = "need"}

(* However the encoder thread and the transform's threads take their turns *)
(* with the queue between them: no request waits beside a waiting frame,   *)
(* so neither side waits for the other; each request of the transform is   *)
(* somewhere, and one that was answered is not answered again; frames go   *)
(* in and come out in the order they were taken; and what libwebrtc must   *)
(* know of a frame is there when the frame comes out.                      *)
FramesFlow ==
  LET kept == requests + Cardinality(NeedsTold) + Len(InHand) + Len(When("feeds")) IN
  Encoding("mediafoundation") =>
    /\ requests > 0 => queued = <<>>
    /\ kept <= transform.asked /\ (lost = {} => kept = transform.asked)
    /\ \A i \in DOMAIN Line : out < Line[i] /\ (i > 1 => Line[i - 1] < Line[i])
    /\ ToSet(Line) \subseteq metadata /\ metadata \subseteq ToSet(Line) \cup lost
    /\ Len(queued) <= kMaxQueuedFrames

(* The driver encodes at the rate congestion control allows now, in the    *)
(* mode and under the ceiling the encoder goes by: nothing it was told     *)
(* came too late for it to take.  A rate it refuses is not asked of it     *)
(* again.                                                                  *)
RatesHold ==
  at = "hardware" /\ ~refused /\ (made.backend = "mediafoundation" => session.steered) =>
    /\ card.typed /\ card.mean = told
    /\ CASE made.backend = "nvenc" -> card.mode = "variable" /\ card.peak = told
         [] made.backend # "nvenc" /\ session.constrained ->
              card.mode = "constrained" /\ card.peak = session.peak
         [] OTHER -> card.mode = "constant"

(* A frame put in comes out in its order, at the rate in force.            *)
EncodesAsTold == FramesFlow /\ RatesHold
===============================================================================
