----------------------------- MODULE ScreenSound -----------------------------
(***************************************************************************)
(* The sound that goes with a shared screen: a capture of what the machine *)
(* plays (WindowsLoopbackCapturer), the mixer that adds it to the micro-   *)
(* phone (ScreenAudioMixer), and the ring between the two clocks (Block-   *)
(* Pacer), of which the capture has one of its own.                        *)
(*                                                                         *)
(* Three kinds of thread meet here.  Whoever drives the share starts and   *)
(* stops the mixer, in the steps the others can come between; a capture    *)
(* has a thread that opens the stream, goes round and may end by itself,   *)
(* when the device goes away; and libwebrtc's takes a block of the ring    *)
(* for every frame of the microphone.  The mixer has no lock of its own:   *)
(* two calls of start or stop at once are undefined, and nothing is said   *)
(* of what follows.  Nor of what follows std::terminate.  Samples are      *)
(* counted, in frames, and known by the capture they came from.            *)
(***************************************************************************)
EXTENDS Integers, FiniteSets

CONSTANTS
  Drivers,                    \* threads that start and stop a share
  Block,                      \* kFramesPerBlock
  High, TargetFrames, Prime,        \* kPacing, of the mixer's ring
  CaptureHigh, CaptureTarget, CapturePrime,     \* BlockPacer::Options
  Packets,                    \* the frames Windows hands over at once
  MaxCaptures                 \* bound on the captures made

ScreenSoundAssumption ==
  /\ Block \in Nat \ {0}
  /\ {High, TargetFrames, Prime} \subseteq Nat /\ TargetFrames <= High
  /\ {CaptureHigh, CaptureTarget, CapturePrime} \subseteq Nat
  /\ CaptureTarget <= CaptureHigh
  /\ Packets \subseteq Nat /\ MaxCaptures \in Nat

NoCapture == 0
Captures == 1 .. MaxCaptures

VARIABLES
  active,        \* active_
  capturer,      \* capturer_: which capture is in place
  ring,          \* pacer_ of the mixer
  paced,         \* pacer_ of the capture
  running,       \* running_ of the capture
  thread,        \* where the capture's thread is
  opened,        \* the promise its opening keeps
  at,            \* where each driver is in start or stop
  starting,      \* whether it goes on to start another
  made,          \* how many captures there have been
  played,        \* of the last block mixed: where its sound was from
  early,         \* history: the capture ended before start said it ran
  raced,         \* history: two calls of start or stop met
  crashed        \* std::terminate has been called

vars == <<active, capturer, ring, paced, running, thread, opened, at, starting, made,
          played, early, raced, crashed>>

Ring == [frames : Nat, primed : BOOLEAN, of : SUBSET Captures]
Empty == [frames |-> 0, primed |-> FALSE, of |-> {}]

Init ==
  /\ active = FALSE /\ capturer = NoCapture
  /\ ring = Empty /\ paced = Empty
  /\ running = FALSE /\ thread = "none" /\ opened = "not yet"
  /\ at = [d \in Drivers |-> "free"] /\ starting = [d \in Drivers |-> FALSE]
  /\ made = 0 /\ played = {} /\ early = FALSE /\ raced = FALSE /\ crashed = FALSE
-----------------------------------------------------------------------------
(* BlockPacer.  Too full means late: the oldest is thrown away.            *)
push(r, c, frames, high, target) ==
  LET all == r.frames + frames
  IN [r EXCEPT !.frames = IF all > high THEN target ELSE all, !.of = @ \cup {c}]

(* Too empty means silence, until the ring has filled again.               *)
Gives(r, prime) == (r.primed \/ r.frames >= prime) /\ r.frames >= Block

take(r, prime) ==
  IF Gives(r, prime)
  THEN [frames |-> r.frames - Block, primed |-> TRUE,
        of |-> IF r.frames = Block THEN {} ELSE r.of]
  ELSE [r EXCEPT !.primed = FALSE]
-----------------------------------------------------------------------------
(* What drives the share: ScreenAudioMixer::start and stop.                *)
Free(d) == at[d] = "free"
GoesTo(d, where) == at' = [at EXCEPT ![d] = where]

(* Either begins as stop does.  CallSession starts when a share begins     *)
(* and stops it with the share; the media session stops it as it closes.   *)
Enters(d, what) ==
  /\ Free(d)
  /\ raced' = (\E other \in Drivers : ~Free(other))
  /\ active' = FALSE /\ early' = FALSE
  /\ starting' = [starting EXCEPT ![d] = (what = "start")]
  /\ GoesTo(d, IF capturer # NoCapture THEN "stopping" ELSE "clearing")
  /\ UNCHANGED <<capturer, ring, paced, running, thread, opened, made, played, crashed>>

(* WindowsLoopbackCapturer::stop, which waits for the thread only where it *)
(* is the one that stopped it.                                             *)
StopsCapture(d) ==
  /\ at[d] = "stopping"
  /\ running' = FALSE
  /\ GoesTo(d, IF running THEN "joining" ELSE "releasing")
  /\ UNCHANGED <<active, capturer, ring, paced, thread, opened, starting, made, played,
                 early, raced, crashed>>

Joins(d) ==
  /\ at[d] = "joining" /\ thread = "returned"
  /\ thread' = "none"
  /\ GoesTo(d, "releasing")
  /\ UNCHANGED <<active, capturer, ring, paced, running, opened, starting, made, played,
                 early, raced, crashed>>

(* capturer_.reset(): a thread nobody waited for ends the process.  What   *)
(* could not be opened has put nothing into the ring.                      *)
Releases(d) ==
  /\ at[d] = "releasing"
  /\ IF thread # "none" THEN crashed' = TRUE /\ UNCHANGED <<capturer, at>>
     ELSE /\ capturer' = NoCapture /\ UNCHANGED crashed
          /\ GoesTo(d, IF opened = "refused" THEN "free" ELSE "clearing")
  /\ UNCHANGED <<active, ring, paced, running, thread, opened, starting, made, played,
                 early, raced>>

ClearsForTheNext(d) ==                                               \* a slip
  /\ at[d] = "clearing"
  /\ ring' = IF starting[d] THEN Empty ELSE ring
  /\ GoesTo(d, IF starting[d] THEN "creating" ELSE "free")
  /\ UNCHANGED <<active, capturer, paced, running, thread, opened, starting, made, played,
                 early, raced, crashed>>

Clears(d) ==
  /\ at[d] = "clearing"
  /\ ring' = Empty
  /\ GoesTo(d, IF starting[d] THEN "creating" ELSE "free")
  /\ UNCHANGED <<active, capturer, paced, running, thread, opened, starting, made, played,
                 early, raced, crashed>>

(* There may be no capturer for this system, or none for what is asked of  *)
(* it: a process that is none, or a Windows that is too old.               *)
CreationFails(d) ==
  /\ at[d] = "creating" /\ GoesTo(d, "free")
  /\ starting' = [starting EXCEPT ![d] = FALSE]
  /\ UNCHANGED <<active, capturer, ring, paced, running, thread, opened, made, played,
                 early, raced, crashed>>

Creates(d) ==
  /\ at[d] = "creating" /\ made < MaxCaptures
  /\ made' = made + 1 /\ capturer' = made + 1
  /\ paced' = Empty /\ running' = TRUE /\ thread' = "opening" /\ opened' = "not yet"
  /\ starting' = [starting EXCEPT ![d] = FALSE]
  /\ GoesTo(d, "awaiting")
  /\ UNCHANGED <<active, ring, played, early, raced, crashed>>

(* start waits for the stream to be open, or for the reason it is not.     *)
Opens(d) ==
  /\ at[d] = "awaiting" /\ opened # "not yet"
  /\ GoesTo(d, IF opened = "open" THEN "activating" ELSE "joining")
  /\ running' = (running /\ opened = "open")
  /\ UNCHANGED <<active, capturer, ring, paced, thread, opened, starting, made, played,
                 early, raced, crashed>>

Activates(d) ==
  /\ at[d] = "activating"
  /\ active' = TRUE
  /\ GoesTo(d, "free")
  /\ UNCHANGED <<capturer, ring, paced, running, thread, opened, starting, made, played,
                 early, raced, crashed>>
-----------------------------------------------------------------------------
(* The thread of the capture: WindowsLoopbackCapturer::run.                *)
ThreadGoesTo(where) == thread' = where

StreamOpens ==
  /\ thread = "opening"
  /\ opened' = "open" /\ ThreadGoesTo("looping")
  /\ UNCHANGED <<active, capturer, ring, paced, running, at, starting, made, played,
                 early, raced, crashed>>

StreamIsRefused ==
  /\ thread = "opening"
  /\ opened' = "refused" /\ ThreadGoesTo("refused")
  /\ UNCHANGED <<active, capturer, ring, paced, running, at, starting, made, played,
                 early, raced, crashed>>

Gone ==
  /\ thread = "refused" \/ (thread = "looping" /\ ~running)
  /\ running' = FALSE /\ ThreadGoesTo("returned")
  /\ UNCHANGED <<active, capturer, ring, paced, opened, at, starting, made, played,
                 early, raced, crashed>>

(* A pass of the loop that has begun goes on where running_ is taken down  *)
(* meanwhile: every packet there is, silent ones too, and the blocks due.  *)
drain(frames) ==
  /\ thread = "looping"
  /\ paced' = push(paced, capturer, frames, CaptureHigh, CaptureTarget)
  /\ UNCHANGED <<active, capturer, ring, running, thread, opened, at, starting, made,
                 played, early, raced, crashed>>

(* Every 10 ms, a block of silence where there is nothing else.            *)
Delivers ==
  /\ thread = "looping"
  /\ paced' = take(paced, CapturePrime)
  /\ ring' = push(ring, capturer, Block, High, TargetFrames)
  /\ UNCHANGED <<active, capturer, running, thread, opened, at, starting, made, played,
                 early, raced, crashed>>

(* The stream ended.  The mixer is told after running_ is down.            *)
fail ==
  /\ thread = "looping"
  /\ running' = FALSE /\ ThreadGoesTo("failing")
  /\ UNCHANGED <<active, capturer, ring, paced, opened, at, starting, made, played,
                 early, raced, crashed>>

note_failure ==
  /\ thread = "failing"
  /\ active' = FALSE /\ ThreadGoesTo("returned")
  /\ early' = (\E d \in Drivers : at[d] \in {"awaiting", "activating"})
  /\ UNCHANGED <<capturer, ring, paced, running, opened, at, starting, made, played,
                 raced, crashed>>
-----------------------------------------------------------------------------
(* libwebrtc's thread.  Sound that is left is played whether or not a      *)
(* capture goes on, and a running capture keeps the output stereo.         *)
mix ==
  IF active \/ ring.frames > 0
  THEN /\ ring' = take(ring, Prime)
       /\ played' = IF Gives(ring, Prime) THEN ring.of ELSE {}
  ELSE UNCHANGED ring /\ played' = {}

(* A frame the device left empty goes on as it is; any other is brought to *)
(* one block first, whatever its rate and channels are.                    *)
Process ==
  /\ mix
  /\ UNCHANGED <<active, capturer, paced, running, thread, opened, at, starting, made,
                 early, raced, crashed>>

Next ==
  /\ ~raced /\ ~crashed
  /\ \/ \E d \in Drivers :
          \/ Enters(d, "start") \/ Enters(d, "stop")
          \/ StopsCapture(d) \/ Joins(d) \/ Releases(d) \/ Clears(d)
          \/ CreationFails(d) \/ Creates(d) \/ Opens(d) \/ Activates(d)
     \/ StreamOpens \/ StreamIsRefused \/ Gone
     \/ \E frames \in Packets : drain(frames)
     \/ Delivers \/ fail \/ note_failure
     \/ Process

Spec == Init /\ [][Next]_vars
-----------------------------------------------------------------------------
TypeOK ==
  /\ {active, running, early, raced, crashed} \subseteq BOOLEAN
  /\ capturer \in Captures \cup {NoCapture} /\ made \in Captures \cup {NoCapture}
  /\ ring \in Ring /\ paced \in Ring /\ played \subseteq Captures
  /\ thread \in {"none", "opening", "refused", "looping", "failing", "returned"}
  /\ opened \in {"not yet", "open", "refused"}
  /\ at \in [Drivers -> {"free", "stopping", "joining", "releasing", "clearing",
                         "creating", "awaiting", "activating"}]
  /\ starting \in [Drivers -> BOOLEAN]

(* "Audio waiting in a buffer is latency and nothing else" (audio/block_-  *)
(* pacer.hpp:34): neither ring holds more than its watermark.              *)
SoundIsNotLate == ring.frames <= High /\ paced.frames <= CaptureHigh

(* What is waiting to be played is of the capture in place: nobody hears   *)
(* of a share what was left of the one before it.                          *)
SoundIsOfThisShare ==
  /\ (\A d \in Drivers : at[d] # "clearing") => ring.of \subseteq {capturer}
  /\ paced.of \subseteq {capturer} \/ thread = "none"

(* Between two calls the mixer says that it is capturing exactly while it  *)
(* is, but for a capture that ended before start could say that it ran.    *)
ActiveIsCaptured ==
  (\A d \in Drivers : Free(d)) =>
    /\ running => active
    /\ active => capturer # NoCapture /\ (running \/ early \/ thread = "failing")

(* The three of them, as long as what the code does is defined.            *)
SoundIsTrue ==
  ~raced /\ ~crashed => SoundIsNotLate /\ SoundIsOfThisShare /\ ActiveIsCaptured

(* "Stops capturing and joins the capture thread. Safe to call when not    *)
(* running" (audio/loopback_capturer.hpp:88): no capture is taken down     *)
(* with a thread that nobody has waited for.                               *)
ThreadsAreJoined == ~crashed
=============================================================================
