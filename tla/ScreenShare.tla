----------------------------- MODULE ScreenShare -----------------------------
(***************************************************************************)
(* The share of one's own screen: LibWebRtcMediaSession, the capturer      *)
(* under it and what CallSession tells the room.  The interface's thread   *)
(* starts, stops and restarts it; each capture has a thread, which may end *)
(* on its own (a window closed, a permission refused) and then runs the    *)
(* same stop from inside itself; a pump thread feeds the encoder.  Threads *)
(* meet in flags and joins, with no lock around a whole call.              *)
(***************************************************************************)
EXTENDS Integers

CONSTANT MaxCaptures    \* captures there may be, one after another

ScreenShareAssumption == MaxCaptures \in Nat

Captures == 1 .. MaxCaptures
Interface == 0          \* its thread; and "no capture"
Threads == {Interface} \cup Captures

VARIABLES
  sharing, pumping,   \* sharing_, pumping_
  pump,               \* pump_thread_: "none", "runs" or "ended" (to be joined)
  capturer,           \* capturer_: a capture, or 0
  running,            \* of each capture, running_
  thread,             \* of each capture: "unborn", "runs", "ended" or "gone"
  at,                 \* where each thread is
  call,               \* which call the interface's thread is in
  taken,              \* the capturer a thread has taken out, to stop it
  told,               \* the last the room was told: a screen is shared
  raced               \* history: a capture ended under a start, see README.md

flags == <<sharing, pumping>>
vars == <<flags, pump, capturer, running, thread, at, call, taken, told, raced>>

Init ==
  /\ sharing = FALSE /\ pumping = FALSE /\ pump = "none" /\ capturer = 0
  /\ running = [k \in Captures |-> FALSE] /\ thread = [k \in Captures |-> "unborn"]
  /\ at = [t \in Threads |-> "idle"] /\ call = "none"
  /\ taken = [t \in Threads |-> 0] /\ told = FALSE /\ raced = FALSE

Goes(t, place) == at' = [at EXCEPT ![t] = place]
Reporting(k) == at[k] # "idle"
-----------------------------------------------------------------------------
(* LibWebRtcMediaSession::stop_screen_share, by whichever thread.          *)
Lowered(t) ==
  /\ at[t] = "stop" /\ sharing' = FALSE /\ pumping' = FALSE
  /\ Goes(t, IF pump = "none" THEN "take" ELSE "join")
  /\ UNCHANGED <<pump, capturer, running, thread, call, taken, told, raced>>

(* Two threads may both find the pump's to join; the second fails.         *)
JoinsPump(t) ==
  /\ at[t] = "join" /\ pump # "runs" /\ pump' = "none" /\ Goes(t, "take")
  /\ raced' = (raced \/ pump = "none")
  /\ UNCHANGED <<flags, capturer, running, thread, call, taken, told>>

Takes(t) ==
  /\ at[t] = "take" /\ taken' = [taken EXCEPT ![t] = capturer] /\ capturer' = 0
  /\ Goes(t, IF capturer = 0 THEN "stopped" ELSE "lower")
  /\ UNCHANGED <<flags, pump, running, thread, call, told, raced>>

(* LibwebrtcScreenCapturer::stop: "the thread is what decides whether there*)
(* is anything to do"; "a thread cannot join itself", and is let go.       *)
LowersCapture(t) ==
  /\ at[t] = "lower" /\ running' = [running EXCEPT ![taken[t]] = FALSE]
  /\ Goes(t, IF taken[t] = t THEN "stopped" ELSE "wait")
  /\ UNCHANGED <<flags, pump, capturer, thread, call, taken, told, raced>>

JoinsCapture(t) ==
  /\ at[t] = "wait" /\ thread[taken[t]] = "ended"
  /\ thread' = [thread EXCEPT ![taken[t]] = "gone"] /\ Goes(t, "stopped")
  /\ UNCHANGED <<flags, pump, capturer, running, call, taken, told, raced>>

Stopping(t) ==
  Lowered(t) \/ JoinsPump(t) \/ Takes(t) \/ LowersCapture(t) \/ JoinsCapture(t)

pump_loop ==
  /\ pump = "runs" /\ ~pumping /\ pump' = "ended"
  /\ UNCHANGED <<flags, capturer, running, thread, at, call, taken, told, raced>>
-----------------------------------------------------------------------------
(* The interface's calls: start, stop, and new options while sharing, each *)
(* of which stops first.                                                   *)
Calls(which) ==
  /\ at[Interface] = "idle" /\ sharing = (which # "start")
  /\ call' = which /\ Goes(Interface, "stop")
  /\ raced' = (raced \/ (which # "stop" /\ \E k \in Captures : Reporting(k)))
  /\ UNCHANGED <<flags, pump, capturer, running, thread, taken, told>>

(* The room is told of a stop that it was asked for, or that was not: not  *)
(* of one that clears the way for a start, or undoes one.                  *)
InterfaceStopped ==
  /\ at[Interface] = "stopped"
  /\ CASE call \in {"start", "restart"} ->
            Goes(Interface, "create") /\ UNCHANGED <<call, told>>
       [] call = "undo" -> Goes(Interface, "idle") /\ call' = "none" /\ UNCHANGED told
       [] OTHER -> Goes(Interface, "idle") /\ call' = "none" /\ told' = FALSE
  /\ UNCHANGED <<flags, pump, capturer, running, thread, taken, raced>>

(* A capture that the system refuses leaves no thread.                     *)
RestartRefusedQuietly ==                                             \* a slip
  Goes(Interface, "idle") /\ call' = "none"

(* "Out through the same door a capture that dies on its own uses."        *)
RestartRefused == Goes(Interface, "stop") /\ call' = "stop"

CaptureRefused ==
  /\ at[Interface] = "create"
  /\ IF call = "restart" THEN RestartRefused ELSE Goes(Interface, "idle") /\ call' = "none"
  /\ UNCHANGED <<flags, pump, capturer, running, thread, taken, told, raced>>

CaptureStarts ==
  /\ at[Interface] = "create"
  /\ \E k \in Captures :
       /\ thread[k] = "unborn" /\ \A j \in 1 .. k - 1 : thread[j] # "unborn"
       /\ running' = [running EXCEPT ![k] = TRUE] /\ thread' = [thread EXCEPT ![k] = "runs"]
       /\ taken' = [taken EXCEPT ![Interface] = k]
  /\ Goes(Interface, "install")
  /\ UNCHANGED <<flags, pump, capturer, call, told, raced>>

Installs ==
  /\ at[Interface] = "install" /\ capturer' = taken[Interface] /\ Goes(Interface, "raise")
  /\ UNCHANGED <<flags, pump, running, thread, call, taken, told, raced>>

Raises ==
  /\ at[Interface] = "raise" /\ sharing' = TRUE /\ pumping' = TRUE /\ pump' = "runs"
  /\ IF call = "start" THEN Goes(Interface, "tell") /\ UNCHANGED call
     ELSE Goes(Interface, "idle") /\ call' = "none"
  /\ UNCHANGED <<capturer, running, thread, taken, told, raced>>

(* "Capture first, announcement second"; one that cannot be sent is undone.*)
Tells ==
  /\ at[Interface] = "tell"
  /\ \/ told' = TRUE /\ Goes(Interface, "idle") /\ call' = "none"
     \/ UNCHANGED told /\ Goes(Interface, "stop") /\ call' = "undo"
  /\ UNCHANGED <<flags, pump, capturer, running, thread, taken, raced>>

InterfaceGoesOn ==
  InterfaceStopped \/ CaptureRefused \/ CaptureStarts \/ Installs \/ Raises \/ Tells
-----------------------------------------------------------------------------
(* A capture's own thread.                                                 *)
capture_loop(k) ==
  /\ thread[k] = "runs" /\ at[k] = "idle" /\ ~running[k]
  /\ thread' = [thread EXCEPT ![k] = "ended"]
  /\ UNCHANGED <<flags, pump, capturer, running, at, call, taken, told, raced>>

(* It ends on its own, even as it is being stopped, and says so.           *)
fail(k) ==
  /\ thread[k] = "runs" /\ at[k] = "idle"
  /\ running' = [running EXCEPT ![k] = FALSE] /\ Goes(k, "stop")
  /\ raced' = (raced \/ call \in {"start", "restart"})
  /\ UNCHANGED <<flags, pump, capturer, thread, call, taken, told>>

(* on_screen_share_ended: "telling it is what keeps every client's view of *)
(* who holds the floor right".                                             *)
CaptureStopped(k) ==
  /\ at[k] = "stopped" /\ told' = FALSE /\ Goes(k, "idle")
  /\ thread' = [thread EXCEPT ![k] = IF taken[k] = k THEN "gone" ELSE "ended"]
  /\ UNCHANGED <<flags, pump, capturer, running, call, taken, raced>>

Next ==
  \/ \E which \in {"start", "stop", "restart"} : Calls(which)
  \/ InterfaceGoesOn \/ pump_loop
  \/ \E t \in Threads : Stopping(t)
  \/ \E k \in Captures : capture_loop(k) \/ fail(k) \/ CaptureStopped(k)

Spec == Init /\ [][Next]_vars
-----------------------------------------------------------------------------
(* Every variable has its shape.                                           *)
TypeOK ==
  /\ flags \in BOOLEAN \X BOOLEAN /\ pump \in {"none", "runs", "ended"}
  /\ capturer \in Threads /\ running \in [Captures -> BOOLEAN]
  /\ thread \in [Captures -> {"unborn", "runs", "ended", "gone"}]
  /\ taken \in [Threads -> Threads] /\ told \in BOOLEAN /\ raced \in BOOLEAN
  /\ call \in {"none", "start", "stop", "restart", "undo"}

(* With every thread back from its calls, the room is told a screen is     *)
(* shared exactly while one is captured and encoded, and no thread is left *)
(* to be joined by nobody: whatever ended of its own accord meanwhile, but *)
(* for a capture that ends under the call that starts it.                  *)
RoomIsTold ==
  ~raced /\ (\A t \in Threads : at[t] = "idle") =>
    /\ told = sharing
    /\ sharing => capturer # 0 /\ thread[capturer] = "runs" /\ pump = "runs"
    /\ ~sharing => capturer = 0 /\ pump = "none"
    /\ \A k \in Captures \ {capturer} : thread[k] \in {"unborn", "gone"}
=============================================================================
