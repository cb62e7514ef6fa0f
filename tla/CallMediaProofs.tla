--------------------------- MODULE CallMediaProofs ---------------------------
(***************************************************************************)
(* What the media of a call guarantees: ScreenShare, for any number of     *)
(* captures, one after another; ScreenSound (here Sound), for any drivers, *)
(* packets and watermarks; MediaSession (here Call), for any voices and    *)
(* any number of changes and of sessions built; and Encoder (here          *)
(* Pictures), for any machines, openings, rates and any number of frames.  *)
(*                                                                         *)
(* ScreenShare: the inductive invariant, IInv, says in whose hands the one *)
(* living capture is: the session's (capturer_), the interface's, which    *)
(* installs or stops it, or its own, once it stops itself.  It changes     *)
(* hands in one step each time, under no lock; what the room is told       *)
(* follows from who is left to say so.  All of it is said of behaviours in *)
(* which no capture ended under the call that starts it (~raced), and      *)
(* those two threads do not both join the pump: what a start finds is then *)
(* that nobody is on the way out (Undisturbed).                            *)
(*                                                                         *)
(* ScreenSound: the invariant says, for wherever a driver is in start or   *)
(* stop, which of the capture's thread, its flags and the ring it may find *)
(* there.  It holds as long as no two drivers are in them at once and the  *)
(* process is alive; of the rest only the types and the watermarks are     *)
(* left.                                                                   *)
(*                                                                         *)
(* MediaSession: once nothing is under way the call runs with what was     *)
(* chosen.  Until then CallHolds says, for each setting, who has still to  *)
(* say it to the session and that what he carries is what was chosen last, *)
(* unless a change went past him.                                          *)
(*                                                                         *)
(* Encoder: LineHolds says where a frame may be, on the encoder thread, in *)
(* the queue, in the transform or on the event thread, and that frames are *)
(* in order from each of these places to the next; that requests and       *)
(* frames do not wait beside each other; and that the transform's requests *)
(* are those that were kept or are being answered.  RatesHeld says what    *)
(* the card was last told.                                                 *)
(***************************************************************************)
EXTENDS ScreenShare, FiniteSetTheorems, SequenceTheorems, TLAPS

Stops == {"stop", "join", "take", "lower", "wait", "stopped"}
Starting == {"create", "install", "raise", "tell"}

Placed == at \in [Threads -> {"idle"} \cup Stops \cup Starting]

(* Where the interface is, by its call; a capture only stops.              *)
Places ==
  /\ call = "none" <=> at[Interface] = "idle"
  /\ at[Interface] \in {"create", "install", "raise"} => call \in {"start", "restart"}
  /\ at[Interface] = "tell" => call = "start"
  /\ \A k \in Captures : at[k] \in {"idle"} \cup (Stops \ {"wait"})

(* Nobody reports under a call that starts a capture.                      *)
Undisturbed == call \in {"start", "restart"} => \A k \in Captures : ~Reporting(k)

(* The session's flags, and who has yet to bring pump and capture down.    *)
FlagsAgree ==
  /\ pumping = sharing
  /\ sharing => /\ pump = "runs" /\ capturer # 0
                /\ at[Interface] \in {"idle", "stop", "tell"}
                /\ \A k \in Captures : at[k] \in {"idle", "stop"}
  /\ at[Interface] = "tell" => sharing
  /\ ~sharing /\ pump # "none" => \E t \in Threads : at[t] = "join"
  /\ ~sharing /\ capturer # 0 =>
       at[Interface] = "raise" \/ \E t \in Threads : at[t] \in {"join", "take"}

Living(k) == thread[k] \in {"runs", "ended"}
WithInterface(k) == at[Interface] \in {"lower", "wait", "install"} /\ taken[Interface] = k
WithItself(k) == at[k] \in {"lower", "stopped"} /\ taken[k] = k

(* The one living capture is in one pair of hands.                         *)
Hands ==
  /\ \A k \in Captures : Living(k) <=> capturer = k \/ WithInterface(k) \/ WithItself(k)
  /\ \A k \in Captures : ~(WithInterface(k) /\ WithItself(k))
  /\ \A j, k \in Captures : Living(j) /\ Living(k) => j = k
  /\ capturer # 0 => /\ at[Interface] \notin {"lower", "wait", "stopped", "create", "install"}
                     /\ \A k \in Captures : at[k] \notin {"lower", "stopped"}
  /\ at[Interface] = "raise" => capturer # 0

(* What each hand holds still runs, or does not.                           *)
Held ==
  /\ \A k \in Captures : capturer = k =>
       thread[k] = "runs" /\ (at[k] = "idle" => running[k])
  /\ at[Interface] \in {"lower", "wait", "install"} => taken[Interface] \in Captures
  /\ at[Interface] = "install" =>
       thread[taken[Interface]] = "runs" /\ running[taken[Interface]]
  /\ \A k \in Captures :
       /\ Reporting(k) => thread[k] = "runs"
       /\ at[k] = "lower" => taken[k] = k
       /\ at[k] = "stopped" => taken[k] \in {0, k}

(* Whatever the room was told, somebody is on the way to put it right.     *)
Owed ==
  /\ call \in {"start", "undo"} => ~told
  /\ call = "restart" => told
  /\ sharing /\ call \notin {"start", "undo"} => told
  /\ told /\ ~sharing => call \in {"stop", "restart"} \/ \E k \in Captures : Reporting(k)

Whole == Places /\ Undisturbed /\ FlagsAgree /\ Hands /\ Held /\ Owed

IInv == TypeOK /\ Placed /\ (~raced => Whole)
-----------------------------------------------------------------------------
LEMMA Apart ==
  ASSUME ScreenShareAssumption
  PROVE  /\ 0 \notin Captures
         /\ Threads = {0} \cup Captures
  BY DEF ScreenShareAssumption, Captures, Threads, Interface

LEMMA CallsSafe ==
  ASSUME ScreenShareAssumption, IInv, NEW which \in {"start", "stop", "restart"}, Calls(which)
  PROVE  IInv'
<1> USE Apart DEF Interface
<1>1. TypeOK /\ Placed
  BY DEF IInv
<1>2. TypeOK'
  BY <1>1 DEF TypeOK, Calls
<1>3. Placed'
  BY <1>1 DEF Placed, Stops, Calls, Goes
<1>4. ASSUME ~raced' PROVE Whole'
  <2>1. ~raced
    BY <1>1, <1>4 DEF Calls
  <2>2. Places /\ Undisturbed /\ FlagsAgree /\ Hands /\ Held /\ Owed
    BY <2>1 DEF IInv, Whole
  <2>3. Places'
    BY <1>1, <1>4, <2>2 DEF Placed, Places, Calls, Goes
  <2>4. Undisturbed'
    <3>1. call' = which
      BY DEF Calls
    <3>2. \A k \in Captures : at'[k] = at[k]
      BY <1>1 DEF Placed, Calls, Goes
    <3>3. which # "stop" => \A k \in Captures : ~Reporting(k)
      BY <1>4 DEF Calls
    <3> QED  BY <3>1, <3>2, <3>3 DEF Undisturbed, Reporting
  <2>5. FlagsAgree'
    BY <1>1, <1>4, <2>2 DEF FlagsAgree, Calls, flags, Goes
  <2>6. Hands'
    BY <1>1, <1>4, <2>2 DEF Hands, Living, WithInterface, WithItself, Calls,
       Goes
  <2>7. Held'
    BY <1>1, <1>4, <2>2 DEF Held, Reporting, Calls, Goes
  <2>8. Owed'
    BY <1>1, <1>4, <2>2 DEF Places, Owed, Calls
  <2> QED  BY <2>3, <2>4, <2>5, <2>6, <2>7, <2>8 DEF Whole
<1> QED  BY <1>2, <1>3, <1>4 DEF IInv

LEMMA LoweredSafe ==
  ASSUME ScreenShareAssumption, IInv, NEW t \in Threads, Lowered(t)
  PROVE  IInv'
<1> USE Apart DEF Interface
<1>1. TypeOK /\ Placed
  BY DEF IInv
<1>2. TypeOK'
  BY <1>1 DEF TypeOK, Lowered, flags
<1>3. Placed'
  BY <1>1 DEF Placed, Stops, Lowered, Goes
<1>4. ASSUME ~raced' PROVE Whole'
  <2>1. ~raced
    BY <1>1, <1>4 DEF Lowered
  <2>2. Places /\ Undisturbed /\ FlagsAgree /\ Hands /\ Held /\ Owed
    BY <2>1 DEF IInv, Whole
  <2>3. Places'
    BY <1>1, <1>4, <2>2 DEF Places, Stops, Lowered, Goes
  <2>4. Undisturbed'
    BY <1>1, <1>4, <2>2 DEF Undisturbed, Reporting, Lowered, Goes
  <2>5. FlagsAgree'
    <3>1. /\ sharing' = FALSE /\ pumping' = FALSE /\ pump' = pump /\ capturer' = capturer
          /\ at[t] = "stop"
      BY DEF Lowered
    <3>2. at'[t] = (IF pump = "none" THEN "take" ELSE "join")
      BY <1>1 DEF Placed, Lowered, Goes
    <3>3. at'[Interface] # "tell"
      <4>1. CASE t = Interface
        BY <3>2, <4>1
      <4>2. CASE t \in Captures
        BY <1>1, <2>2, <3>1, <4>2
        DEF Placed, Places, Undisturbed, Reporting, Lowered, Goes
      <4> QED  BY <4>1, <4>2
    <3>4. pump = "none" \/ at'[t] = "join"
      BY <3>2
    <3>5. at'[t] \in {"take", "join"}
      BY <3>2
    <3> QED  BY <3>1, <3>3, <3>4, <3>5 DEF FlagsAgree
  <2>6. Hands'
    BY <1>1, <1>4, <2>2 DEF Hands, Living, WithInterface, WithItself, Lowered,
       Goes
  <2>7. Held'
    BY <1>1, <1>4, <2>2 DEF Held, Reporting, Lowered, Goes
  <2>8. Owed'
    BY <1>1, <1>4, <2>2 DEF TypeOK, Places, Owed, Reporting, Lowered, Goes
  <2> QED  BY <2>3, <2>4, <2>5, <2>6, <2>7, <2>8 DEF Whole
<1> QED  BY <1>2, <1>3, <1>4 DEF IInv

LEMMA JoinsPumpSafe ==
  ASSUME ScreenShareAssumption, IInv, NEW t \in Threads, JoinsPump(t)
  PROVE  IInv'
<1> USE Apart DEF Interface
<1>1. TypeOK /\ Placed
  BY DEF IInv
<1>2. TypeOK'
  BY <1>1 DEF TypeOK, JoinsPump
<1>3. Placed'
  BY <1>1 DEF Placed, Stops, JoinsPump, Goes
<1>4. ASSUME ~raced' PROVE Whole'
  <2>1. ~raced
    BY <1>1, <1>4 DEF JoinsPump
  <2>2. Places /\ Undisturbed /\ FlagsAgree /\ Hands /\ Held /\ Owed
    BY <2>1 DEF IInv, Whole
  <2>3. Places'
    BY <1>1, <1>4, <2>2 DEF Places, Stops, JoinsPump, Goes
  <2>4. Undisturbed'
    BY <1>1, <1>4, <2>2 DEF Undisturbed, Reporting, JoinsPump, Goes
  <2>5. FlagsAgree'
    BY <1>1, <1>4, <2>2 DEF FlagsAgree, JoinsPump, flags, Goes
  <2>6. Hands'
    BY <1>1, <1>4, <2>2 DEF Hands, Living, WithInterface, WithItself,
       JoinsPump, Goes
  <2>7. Held'
    BY <1>1, <1>4, <2>2 DEF Held, Reporting, JoinsPump, Goes
  <2>8. Owed'
    BY <1>1, <1>4, <2>2 DEF Owed, Reporting, JoinsPump, flags, Goes
  <2> QED  BY <2>3, <2>4, <2>5, <2>6, <2>7, <2>8 DEF Whole
<1> QED  BY <1>2, <1>3, <1>4 DEF IInv

LEMMA TakesSafe ==
  ASSUME ScreenShareAssumption, IInv, NEW t \in Threads, Takes(t)
  PROVE  IInv'
<1> USE Apart DEF Interface
<1>1. TypeOK /\ Placed
  BY DEF IInv
<1>2. TypeOK'
  BY <1>1 DEF TypeOK, Takes
<1>3. Placed'
  BY <1>1 DEF Placed, Stops, Takes, Goes
<1>4. ASSUME ~raced' PROVE Whole'
  <2>1. ~raced
    BY <1>1, <1>4 DEF Takes
  <2>2. Places /\ Undisturbed /\ FlagsAgree /\ Hands /\ Held /\ Owed
    BY <2>1 DEF IInv, Whole
  <2>3. Places'
    BY <1>1, <1>4, <2>2 DEF Places, Stops, Takes, Goes
  <2>4. Undisturbed'
    BY <1>1, <1>4, <2>2 DEF Undisturbed, Reporting, Takes, Goes
  <2>5. FlagsAgree'
    BY <1>1, <1>4, <2>2 DEF FlagsAgree, Takes, flags, Goes
  <2>6. Hands'
    BY <1>1, <1>4, <2>2 DEF TypeOK, Placed, Places, Undisturbed, Hands, Held,
       Living, WithInterface, WithItself, Reporting, Takes, Goes
  <2>7. Held'
    BY <1>1, <1>4, <2>2 DEF TypeOK, Hands, Held, Living, Reporting, Takes,
       Goes
  <2>8. Owed'
    BY <1>1, <1>4, <2>2 DEF Owed, Reporting, Takes, flags, Goes
  <2> QED  BY <2>3, <2>4, <2>5, <2>6, <2>7, <2>8 DEF Whole
<1> QED  BY <1>2, <1>3, <1>4 DEF IInv

LEMMA LowersCaptureSafe ==
  ASSUME ScreenShareAssumption, IInv, NEW t \in Threads, LowersCapture(t)
  PROVE  IInv'
<1> USE Apart DEF Interface
<1>1. TypeOK /\ Placed
  BY DEF IInv
<1>2. TypeOK'
  BY <1>1 DEF TypeOK, LowersCapture
<1>3. Placed'
  BY <1>1 DEF Placed, Stops, LowersCapture, Goes
<1>4. ASSUME ~raced' PROVE Whole'
  <2>1. ~raced
    BY <1>1, <1>4 DEF LowersCapture
  <2>2. Places /\ Undisturbed /\ FlagsAgree /\ Hands /\ Held /\ Owed
    BY <2>1 DEF IInv, Whole
  <2>3. Places'
    BY <1>1, <1>4, <2>2 DEF Places, Held, Stops, LowersCapture, Goes
  <2>4. Undisturbed'
    BY <1>1, <1>4, <2>2 DEF Undisturbed, Reporting, LowersCapture, Goes
  <2>5. FlagsAgree'
    BY <1>1, <1>4, <2>2 DEF FlagsAgree, LowersCapture, flags, Goes
  <2>6. Hands'
    BY <1>1, <1>4, <2>2 DEF Hands, Living, WithInterface, WithItself,
       LowersCapture, Goes
  <2>7. Held'
    BY <1>1, <1>4, <2>2 DEF Hands, Held, WithInterface, WithItself, Reporting,
       LowersCapture, Goes
  <2>8. Owed'
    BY <1>1, <1>4, <2>2 DEF Owed, Reporting, LowersCapture, flags, Goes
  <2> QED  BY <2>3, <2>4, <2>5, <2>6, <2>7, <2>8 DEF Whole
<1> QED  BY <1>2, <1>3, <1>4 DEF IInv

LEMMA JoinsCaptureSafe ==
  ASSUME ScreenShareAssumption, IInv, NEW t \in Threads, JoinsCapture(t)
  PROVE  IInv'
<1> USE Apart DEF Interface
<1>1. TypeOK /\ Placed
  BY DEF IInv
<1>2. TypeOK'
  BY <1>1 DEF TypeOK, JoinsCapture
<1>3. Placed'
  BY <1>1 DEF Placed, Stops, JoinsCapture, Goes
<1>4. ASSUME ~raced' PROVE Whole'
  <2>1. ~raced
    BY <1>1, <1>4 DEF JoinsCapture
  <2>2. Places /\ Undisturbed /\ FlagsAgree /\ Hands /\ Held /\ Owed
    BY <2>1 DEF IInv, Whole
  <2>3. Places'
    BY <1>1, <1>4, <2>2 DEF Places, JoinsCapture, Goes
  <2>4. Undisturbed'
    BY <1>1, <1>4, <2>2 DEF Undisturbed, Reporting, JoinsCapture, Goes
  <2>5. FlagsAgree'
    BY <1>1, <1>4, <2>2 DEF FlagsAgree, JoinsCapture, flags, Goes
  <2>6. Hands'
    BY <1>1, <1>4, <2>2 DEF TypeOK, Placed, Places, Hands, Living,
       WithInterface, WithItself, JoinsCapture, Goes
  <2>7. Held'
    BY <1>1, <1>4, <2>2 DEF TypeOK, Hands, Held, Living, Reporting,
       JoinsCapture, Goes
  <2>8. Owed'
    BY <1>1, <1>4, <2>2 DEF Owed, Reporting, JoinsCapture, flags, Goes
  <2> QED  BY <2>3, <2>4, <2>5, <2>6, <2>7, <2>8 DEF Whole
<1> QED  BY <1>2, <1>3, <1>4 DEF IInv

LEMMA pump_loopSafe ==
  ASSUME ScreenShareAssumption, IInv, pump_loop
  PROVE  IInv'
<1> USE Apart DEF Interface
<1>1. TypeOK /\ Placed
  BY DEF IInv
<1>2. TypeOK'
  BY <1>1 DEF TypeOK, pump_loop
<1>3. Placed'
  BY <1>1 DEF Placed, pump_loop
<1>4. ASSUME ~raced' PROVE Whole'
  <2>1. ~raced
    BY <1>1, <1>4 DEF pump_loop
  <2>2. Places /\ Undisturbed /\ FlagsAgree /\ Hands /\ Held /\ Owed
    BY <2>1 DEF IInv, Whole
  <2>3. Places'
    BY <1>1, <1>4, <2>2 DEF Places, pump_loop
  <2>4. Undisturbed'
    BY <1>1, <1>4, <2>2 DEF Undisturbed, Reporting, pump_loop
  <2>5. FlagsAgree'
    BY <1>1, <1>4, <2>2 DEF FlagsAgree, pump_loop, flags
  <2>6. Hands'
    BY <1>1, <1>4, <2>2 DEF Hands, Living, WithInterface, WithItself,
       pump_loop
  <2>7. Held'
    BY <1>1, <1>4, <2>2 DEF Held, Reporting, pump_loop
  <2>8. Owed'
    BY <1>1, <1>4, <2>2 DEF Owed, Reporting, pump_loop, flags
  <2> QED  BY <2>3, <2>4, <2>5, <2>6, <2>7, <2>8 DEF Whole
<1> QED  BY <1>2, <1>3, <1>4 DEF IInv

LEMMA InterfaceStoppedSafe ==
  ASSUME ScreenShareAssumption, IInv, InterfaceStopped
  PROVE  IInv'
<1> USE Apart DEF Interface
<1>1. TypeOK /\ Placed
  BY DEF IInv
<1>2. TypeOK'
  BY <1>1 DEF TypeOK, InterfaceStopped
<1>3. Placed'
  BY <1>1 DEF Placed, Starting, InterfaceStopped, Goes
<1>4. ASSUME ~raced' PROVE Whole'
  <2>1. ~raced
    BY <1>1, <1>4 DEF InterfaceStopped
  <2>2. Places /\ Undisturbed /\ FlagsAgree /\ Hands /\ Held /\ Owed
    BY <2>1 DEF IInv, Whole
  <2>3. Places'
    BY <1>1, <1>4, <2>2 DEF Placed, Places, InterfaceStopped, Goes
  <2>4. Undisturbed'
    BY <1>1, <1>4, <2>2 DEF Placed, Undisturbed, Reporting, InterfaceStopped,
       Goes
  <2>5. FlagsAgree'
    BY <1>1, <1>4, <2>2 DEF Placed, FlagsAgree, InterfaceStopped, flags, Goes
  <2>6. Hands'
    BY <1>1, <1>4, <2>2 DEF Placed, Hands, Living, WithInterface, WithItself,
       InterfaceStopped, Goes
  <2>7. Held'
    BY <1>1, <1>4, <2>2 DEF Placed, Held, Reporting, InterfaceStopped, Goes
  <2>8. Owed'
    BY <1>1, <1>4, <2>2 DEF FlagsAgree, Owed, InterfaceStopped, flags
  <2> QED  BY <2>3, <2>4, <2>5, <2>6, <2>7, <2>8 DEF Whole
<1> QED  BY <1>2, <1>3, <1>4 DEF IInv

LEMMA CaptureRefusedSafe ==
  ASSUME ScreenShareAssumption, IInv, CaptureRefused
  PROVE  IInv'
<1> USE Apart DEF Interface
<1>1. TypeOK /\ Placed
  BY DEF IInv
<1>2. TypeOK'
  BY <1>1 DEF TypeOK, CaptureRefused, RestartRefused
<1>3. Placed'
  BY <1>1 DEF Placed, Stops, CaptureRefused, RestartRefused, Goes
<1>4. ASSUME ~raced' PROVE Whole'
  <2>1. ~raced
    BY <1>1, <1>4 DEF CaptureRefused
  <2>2. Places /\ Undisturbed /\ FlagsAgree /\ Hands /\ Held /\ Owed
    BY <2>1 DEF IInv, Whole
  <2>3. Places'
    BY <1>1, <1>4, <2>2 DEF Placed, Places, CaptureRefused, RestartRefused,
       Goes
  <2>4. Undisturbed'
    BY <1>1, <1>4, <2>2 DEF Undisturbed, CaptureRefused, RestartRefused
  <2>5. FlagsAgree'
    BY <1>1, <1>4, <2>2 DEF Placed, FlagsAgree, CaptureRefused, RestartRefused,
       flags, Goes
  <2>6. Hands'
    BY <1>1, <1>4, <2>2 DEF Placed, Hands, Living, WithInterface, WithItself,
       CaptureRefused, RestartRefused, Goes
  <2>7. Held'
    BY <1>1, <1>4, <2>2 DEF Placed, Held, Reporting, CaptureRefused,
       RestartRefused, Goes
  <2>8. Owed'
    BY <1>1, <1>4, <2>2 DEF Places, FlagsAgree, Owed, CaptureRefused,
       RestartRefused, flags
  <2> QED  BY <2>3, <2>4, <2>5, <2>6, <2>7, <2>8 DEF Whole
<1> QED  BY <1>2, <1>3, <1>4 DEF IInv

LEMMA CaptureStartsSafe ==
  ASSUME ScreenShareAssumption, IInv, CaptureStarts
  PROVE  IInv'
<1> USE Apart DEF Interface
<1>1. TypeOK /\ Placed
  BY DEF IInv
<1>2. TypeOK'
  BY <1>1 DEF TypeOK, CaptureStarts
<1>3. Placed'
  BY <1>1 DEF Placed, Starting, CaptureStarts, Goes
<1>4. ASSUME ~raced' PROVE Whole'
  <2>1. ~raced
    BY <1>1, <1>4 DEF CaptureStarts
  <2>2. Places /\ Undisturbed /\ FlagsAgree /\ Hands /\ Held /\ Owed
    BY <2>1 DEF IInv, Whole
  <2>3. Places'
    BY <1>1, <1>4, <2>2 DEF Places, CaptureStarts, Goes
  <2>4. Undisturbed'
    BY <1>1, <1>4, <2>2 DEF Undisturbed, Reporting, CaptureStarts, Goes
  <2>5. FlagsAgree'
    BY <1>1, <1>4, <2>2 DEF FlagsAgree, CaptureStarts, flags, Goes
  <2>6. Hands'
    BY <1>1, <1>4, <2>2 DEF TypeOK, Placed, Places, Undisturbed, Hands,
       Living, WithInterface, WithItself, Reporting, CaptureStarts, Goes
  <2>7. Held'
    BY <1>1, <1>4, <2>2 DEF TypeOK, Held, Reporting, CaptureStarts, Goes
  <2>8. Owed'
    BY <1>1, <1>4, <2>2 DEF Owed, Reporting, CaptureStarts, flags, Goes
  <2> QED  BY <2>3, <2>4, <2>5, <2>6, <2>7, <2>8 DEF Whole
<1> QED  BY <1>2, <1>3, <1>4 DEF IInv

LEMMA InstallsSafe ==
  ASSUME ScreenShareAssumption, IInv, Installs
  PROVE  IInv'
<1> USE Apart DEF Interface
<1>1. TypeOK /\ Placed
  BY DEF IInv
<1>2. TypeOK'
  BY <1>1 DEF TypeOK, Installs
<1>3. Placed'
  BY <1>1 DEF Placed, Starting, Installs, Goes
<1>4. ASSUME ~raced' PROVE Whole'
  <2>1. ~raced
    BY <1>1, <1>4 DEF Installs
  <2>2. Places /\ Undisturbed /\ FlagsAgree /\ Hands /\ Held /\ Owed
    BY <2>1 DEF IInv, Whole
  <2>3. Places'
    BY <1>1, <1>4, <2>2 DEF Places, Installs, Goes
  <2>4. Undisturbed'
    BY <1>1, <1>4, <2>2 DEF Undisturbed, Reporting, Installs, Goes
  <2>5. FlagsAgree'
    BY <1>1, <1>4, <2>2 DEF Placed, FlagsAgree, Installs, flags, Goes
  <2>6. Hands'
    BY <1>1, <1>4, <2>2 DEF Placed, Places, Undisturbed, Hands, Held, Living,
       WithInterface, WithItself, Reporting, Installs, Goes
  <2>7. Held'
    BY <1>1, <1>4, <2>2 DEF Held, Reporting, Installs, Goes
  <2>8. Owed'
    BY <1>1, <1>4, <2>2 DEF Owed, Reporting, Installs, flags, Goes
  <2> QED  BY <2>3, <2>4, <2>5, <2>6, <2>7, <2>8 DEF Whole
<1> QED  BY <1>2, <1>3, <1>4 DEF IInv

LEMMA RaisesSafe ==
  ASSUME ScreenShareAssumption, IInv, Raises
  PROVE  IInv'
<1> USE Apart DEF Interface
<1>1. TypeOK /\ Placed
  BY DEF IInv
<1>2. TypeOK'
  BY <1>1 DEF TypeOK, Raises, flags
<1>3. Placed'
  BY <1>1 DEF Placed, Starting, Raises, Goes
<1>4. ASSUME ~raced' PROVE Whole'
  <2>1. ~raced
    BY <1>1, <1>4 DEF Raises
  <2>2. Places /\ Undisturbed /\ FlagsAgree /\ Hands /\ Held /\ Owed
    BY <2>1 DEF IInv, Whole
  <2>3. Places'
    BY <1>1, <1>4, <2>2 DEF Placed, Places, Raises, Goes
  <2>4. Undisturbed'
    BY <1>1, <1>4, <2>2 DEF Placed, Undisturbed, Reporting, Raises, Goes
  <2>5. FlagsAgree'
    BY <1>1, <1>4, <2>2 DEF Placed, Places, Undisturbed, FlagsAgree, Hands,
       Reporting, Raises, Goes
  <2>6. Hands'
    BY <1>1, <1>4, <2>2 DEF Placed, Hands, Living, WithInterface, WithItself,
       Raises, Goes
  <2>7. Held'
    BY <1>1, <1>4, <2>2 DEF Placed, Held, Reporting, Raises, Goes
  <2>8. Owed'
    BY <1>1, <1>4, <2>2 DEF Places, Owed, Raises
  <2> QED  BY <2>3, <2>4, <2>5, <2>6, <2>7, <2>8 DEF Whole
<1> QED  BY <1>2, <1>3, <1>4 DEF IInv

LEMMA TellsSafe ==
  ASSUME ScreenShareAssumption, IInv, Tells
  PROVE  IInv'
<1> USE Apart DEF Interface
<1>1. TypeOK /\ Placed
  BY DEF IInv
<1>2. TypeOK'
  BY <1>1 DEF TypeOK, Tells
<1>3. Placed'
  BY <1>1 DEF Placed, Stops, Tells, Goes
<1>4. ASSUME ~raced' PROVE Whole'
  <2>1. ~raced
    BY <1>1, <1>4 DEF Tells
  <2>2. Places /\ Undisturbed /\ FlagsAgree /\ Hands /\ Held /\ Owed
    BY <2>1 DEF IInv, Whole
  <2>3. Places'
    BY <1>1, <1>4, <2>2 DEF Placed, Places, Tells, Goes
  <2>4. Undisturbed'
    BY <1>1, <1>4, <2>2 DEF Undisturbed, Tells
  <2>5. FlagsAgree'
    BY <1>1, <1>4, <2>2 DEF Placed, FlagsAgree, Tells, flags, Goes
  <2>6. Hands'
    BY <1>1, <1>4, <2>2 DEF Placed, Hands, Living, WithInterface, WithItself,
       Tells, Goes
  <2>7. Held'
    BY <1>1, <1>4, <2>2 DEF Placed, Held, Reporting, Tells, Goes
  <2>8. Owed'
    BY <1>1, <1>4, <2>2 DEF Places, FlagsAgree, Owed, Tells, flags
  <2> QED  BY <2>3, <2>4, <2>5, <2>6, <2>7, <2>8 DEF Whole
<1> QED  BY <1>2, <1>3, <1>4 DEF IInv

LEMMA capture_loopSafe ==
  ASSUME ScreenShareAssumption, IInv, NEW k \in Captures, capture_loop(k)
  PROVE  IInv'
<1> USE Apart DEF Interface
<1>1. TypeOK /\ Placed
  BY DEF IInv
<1>2. TypeOK'
  BY <1>1 DEF TypeOK, capture_loop
<1>3. Placed'
  BY <1>1 DEF Placed, capture_loop
<1>4. ASSUME ~raced' PROVE Whole'
  <2>1. ~raced
    BY <1>1, <1>4 DEF capture_loop
  <2>2. Places /\ Undisturbed /\ FlagsAgree /\ Hands /\ Held /\ Owed
    BY <2>1 DEF IInv, Whole
  <2>3. Places'
    BY <1>1, <1>4, <2>2 DEF Places, capture_loop
  <2>4. Undisturbed'
    BY <1>1, <1>4, <2>2 DEF Undisturbed, Reporting, capture_loop
  <2>5. FlagsAgree'
    BY <1>1, <1>4, <2>2 DEF FlagsAgree, capture_loop, flags
  <2>6. Hands'
    BY <1>1, <1>4, <2>2 DEF Hands, Living, WithInterface, WithItself,
       capture_loop
  <2>7. Held'
    BY <1>1, <1>4, <2>2 DEF Held, Reporting, capture_loop
  <2>8. Owed'
    BY <1>1, <1>4, <2>2 DEF Owed, Reporting, capture_loop, flags
  <2> QED  BY <2>3, <2>4, <2>5, <2>6, <2>7, <2>8 DEF Whole
<1> QED  BY <1>2, <1>3, <1>4 DEF IInv

LEMMA failSafe ==
  ASSUME ScreenShareAssumption, IInv, NEW k \in Captures, fail(k)
  PROVE  IInv'
<1> USE Apart DEF Interface
<1>1. TypeOK /\ Placed
  BY DEF IInv
<1>2. TypeOK'
  BY <1>1 DEF TypeOK, fail
<1>3. Placed'
  BY <1>1 DEF Placed, Stops, fail, Goes
<1>4. ASSUME ~raced' PROVE Whole'
  <2>1. ~raced
    BY <1>1, <1>4 DEF fail
  <2>2. Places /\ Undisturbed /\ FlagsAgree /\ Hands /\ Held /\ Owed
    BY <2>1 DEF IInv, Whole
  <2>3. Places'
    BY <1>1, <1>4, <2>2 DEF Places, Stops, fail, Goes
  <2>4. Undisturbed'
    BY <1>1, <1>4, <2>2 DEF Undisturbed, fail
  <2>5. FlagsAgree'
    BY <1>1, <1>4, <2>2 DEF FlagsAgree, fail, flags, Goes
  <2>6. Hands'
    BY <1>1, <1>4, <2>2 DEF Hands, Living, WithInterface, WithItself, fail,
       Goes
  <2>7. Held'
    BY <1>1, <1>4, <2>2 DEF TypeOK, Placed, Places, Held, fail, Goes,
       Reporting
  <2>8. Owed'
    BY <1>1, <1>4, <2>2 DEF Owed, fail, flags, Goes, Reporting
  <2> QED  BY <2>3, <2>4, <2>5, <2>6, <2>7, <2>8 DEF Whole
<1> QED  BY <1>2, <1>3, <1>4 DEF IInv

LEMMA CaptureStoppedSafe ==
  ASSUME ScreenShareAssumption, IInv, NEW k \in Captures, CaptureStopped(k)
  PROVE  IInv'
<1> USE Apart DEF Interface
<1>1. TypeOK /\ Placed
  BY DEF IInv
<1>2. TypeOK'
  BY <1>1 DEF TypeOK, CaptureStopped
<1>3. Placed'
  BY <1>1 DEF Placed, CaptureStopped, Goes
<1>4. ASSUME ~raced' PROVE Whole'
  <2>1. ~raced
    BY <1>1, <1>4 DEF CaptureStopped
  <2>2. Places /\ Undisturbed /\ FlagsAgree /\ Hands /\ Held /\ Owed
    BY <2>1 DEF IInv, Whole
  <2>3. Places'
    BY <1>1, <1>4, <2>2 DEF Places, CaptureStopped, Goes
  <2>4. Undisturbed'
    BY <1>1, <1>4, <2>2 DEF Undisturbed, Reporting, CaptureStopped
  <2>5. FlagsAgree'
    BY <1>1, <1>4, <2>2 DEF FlagsAgree, CaptureStopped, flags, Goes
  <2>6. Hands'
    BY <1>1, <1>4, <2>2 DEF TypeOK, Placed, Hands, Held, Living,
       WithInterface, WithItself, Reporting, CaptureStopped, Goes
  <2>7. Held'
    BY <1>1, <1>4, <2>2 DEF Placed, Places, Undisturbed, Hands, Held,
       Reporting, CaptureStopped, Goes
  <2>8. Owed'
    BY <1>1, <1>4, <2>2 DEF Undisturbed, FlagsAgree, Owed, Reporting,
       CaptureStopped, flags
  <2> QED  BY <2>3, <2>4, <2>5, <2>6, <2>7, <2>8 DEF Whole
<1> QED  BY <1>2, <1>3, <1>4 DEF IInv
-----------------------------------------------------------------------------
LEMMA InitSafe ==
  ASSUME ScreenShareAssumption, Init
  PROVE  IInv
<1> USE Apart DEF Interface
<1>1. TypeOK /\ Placed
  BY DEF Init, TypeOK, Placed, flags
<1>2. Whole
  BY DEF Init, Whole, Places, Undisturbed, FlagsAgree, Hands, Held, Owed, Living, WithInterface,
         WithItself, Reporting
<1> QED  BY <1>1, <1>2 DEF IInv

LEMMA NextSafe ==
  ASSUME ScreenShareAssumption, IInv, [Next]_vars
  PROVE  IInv'
<1>1. CASE \E which \in {"start", "stop", "restart"} : Calls(which)
  BY <1>1, CallsSafe
<1>2. CASE InterfaceGoesOn
  BY <1>2, InterfaceStoppedSafe, CaptureRefusedSafe, CaptureStartsSafe, InstallsSafe,
     RaisesSafe, TellsSafe DEF InterfaceGoesOn
<1>3. CASE pump_loop
  BY <1>3, pump_loopSafe
<1>4. CASE \E t \in Threads : Stopping(t)
  BY <1>4, LoweredSafe, JoinsPumpSafe, TakesSafe, LowersCaptureSafe, JoinsCaptureSafe
  DEF Stopping
<1>5. CASE \E k \in Captures : capture_loop(k) \/ fail(k) \/ CaptureStopped(k)
  BY <1>5, capture_loopSafe, failSafe, CaptureStoppedSafe
<1>6. CASE UNCHANGED vars
  BY <1>6 DEF vars, flags, IInv, TypeOK, Placed, Whole, Places, Undisturbed, FlagsAgree, Hands,
              Held, Owed, Living, WithInterface, WithItself, Reporting
<1> QED  BY <1>1, <1>2, <1>3, <1>4, <1>5, <1>6 DEF Next

LEMMA AlwaysSafe == ScreenShareAssumption => (Spec => []IInv)
<1> SUFFICES ASSUME ScreenShareAssumption PROVE Spec => []IInv
  OBVIOUS
<1>1. Init => IInv
  BY InitSafe
<1>2. IInv /\ [Next]_vars => IInv'
  BY NextSafe
<1> QED  BY <1>1, <1>2, PTL DEF Spec

(* Every variable keeps its shape, however the threads meet.               *)
THEOREM SharesAreTyped == ScreenShareAssumption => (Spec => []TypeOK)
<1>1. IInv => TypeOK
  BY DEF IInv
<1> QED  BY <1>1, AlwaysSafe, PTL

(* CallSession tells the room of a shared screen exactly while one is      *)
(* captured and encoded, and leaves no thread behind, however many shares  *)
(* and failures came before and wherever a capture that ended on its own   *)
(* met the interface's stop: the stop of on_screen_share_ended and the     *)
(* one asked for take one capture and one pump down between them.          *)
THEOREM TheRoomIsTold == ScreenShareAssumption => (Spec => []RoomIsTold)
<1> SUFFICES ASSUME ScreenShareAssumption PROVE Spec => []RoomIsTold
  OBVIOUS
<1>1. ASSUME IInv PROVE RoomIsTold
  <2> SUFFICES ASSUME ~raced, \A t \in Threads : at[t] = "idle" PROVE RoomIsTold
    BY DEF RoomIsTold
  <2>1. TypeOK /\ Places /\ FlagsAgree /\ Hands /\ Held /\ Owed
    BY <1>1 DEF IInv, Whole
  <2>2. at[Interface] = "idle" /\ \A k \in Captures : at[k] = "idle"
    BY Apart DEF Interface
  <2>3. told = sharing
    BY <2>1, <2>2 DEF TypeOK, flags, Places, Owed, Reporting
  <2>4. sharing => capturer # 0 /\ thread[capturer] = "runs" /\ pump = "runs"
    BY <2>1, Apart DEF TypeOK, FlagsAgree, Held, Interface
  <2>5. ~sharing => capturer = 0 /\ pump = "none"
    BY <2>1, <2>2 DEF FlagsAgree
  <2>6. \A k \in Captures \ {capturer} : thread[k] \in {"unborn", "gone"}
    BY <2>1, <2>2 DEF TypeOK, Hands, Living, WithInterface, WithItself
  <2> QED  BY <2>3, <2>4, <2>5, <2>6 DEF RoomIsTold
<1> QED  BY <1>1, AlwaysSafe, PTL
-----------------------------------------------------------------------------
(* The sound of a shared screen, beside the capture of its picture.        *)
CONSTANTS Drivers, Block, High, TargetFrames, Prime, CaptureHigh, CaptureTarget,
          CapturePrime, Packets, MaxLoopbacks      \* ScreenSound's

VARIABLES
  n_active, n_capturer, n_ring, n_paced, n_running, n_thread, n_opened, n_at, n_starting,
  n_made, n_played, n_early, n_raced, n_crashed

Sound == INSTANCE ScreenSound WITH
  MaxCaptures <- MaxLoopbacks, active <- n_active, capturer <- n_capturer,
  ring <- n_ring, paced <- n_paced, running <- n_running, thread <- n_thread,
  opened <- n_opened, at <- n_at, starting <- n_starting, made <- n_made,
  played <- n_played, early <- n_early, raced <- n_raced, crashed <- n_crashed

(* A capture is in place whose stream has opened, whether or not it is     *)
(* over.                                                                   *)
Playing ==
  n_capturer # Sound!NoCapture /\ n_opened = "open" /\
    n_thread \in {"looping", "failing", "returned"}

(* No capture is in place.                                                 *)
Silent == n_capturer = Sound!NoCapture /\ n_thread = "none" /\ ~n_running

(* Where a driver is in start or stop, and what it has left so far.        *)
Driving(d) ==
  /\ n_at[d] # "free" => ~n_active
  /\ n_at[d] \in {"stopping", "activating"} => Playing
  /\ n_at[d] \in {"joining", "releasing"} => n_capturer # Sound!NoCapture /\ ~n_running
  /\ n_at[d] = "joining" =>
       Playing \/ (n_opened = "refused" /\ n_thread \in {"refused", "returned"})
  /\ n_at[d] = "releasing" => n_thread = "none" \/ Playing
  /\ n_at[d] \in {"clearing", "creating"} => Silent
  /\ n_at[d] = "creating" => n_ring.of = {}
  /\ n_at[d] = "awaiting" =>
       /\ n_capturer # Sound!NoCapture
       /\ n_opened = "not yet" => n_thread = "opening"
       /\ n_opened = "open" => Playing
       /\ n_opened = "refused" => n_thread \in {"refused", "returned"}
  /\ n_at[d] \in {"awaiting", "activating"} /\ n_opened = "open" /\ ~n_running =>
       n_thread = "failing" \/ n_early

(* One driver at a time is in start or stop.                               *)
OneDrives == \A d, e \in Drivers : ~Sound!Free(d) /\ ~Sound!Free(e) => d = e

(* Between two calls there is no capture, or one that has opened; and it   *)
(* runs only where the mixer says so.                                      *)
Resting == (\A d \in Drivers : Sound!Free(d)) => (Silent \/ Playing) /\ (n_running => n_active)

(* Where the capture's thread is, and what that says of the flags.         *)
Captured ==
  /\ n_thread # "none" => n_capturer # Sound!NoCapture /\ n_paced.of \subseteq {n_capturer}
  /\ n_running => n_thread \in {"opening", "refused", "looping"}
  /\ n_thread = "opening" => n_running /\ n_opened = "not yet"
  /\ n_thread = "looping" =>
       n_opened = "open" /\ (n_running \/ \E d \in Drivers : n_at[d] = "joining")
  /\ n_active => n_capturer # Sound!NoCapture /\ (n_running \/ n_early \/ n_thread = "failing")

(* What waits in the ring is of the capture in place, and of none that has *)
(* not opened.                                                             *)
Heard ==
  (\A d \in Drivers : n_at[d] # "clearing") =>
    /\ n_ring.of \subseteq {n_capturer}
    /\ n_capturer = Sound!NoCapture \/ n_opened # "open" => n_ring.of = {}

(* What holds as long as what the code does is defined.                    *)
SoundCore ==
  /\ OneDrives /\ Resting /\ Captured /\ Heard
  /\ \A d \in Drivers : Driving(d)

(* The invariant of the sound.                                             *)
SoundHolds == Sound!TypeOK /\ Sound!SoundIsNotLate /\ (~n_raced /\ ~n_crashed => SoundCore)

(* BlockPacer::push, for a ring of any size and a packet of any length.    *)
LEMMA PushIs ==
  ASSUME NEW r \in Sound!Ring, NEW c \in Sound!Captures, NEW frames \in Nat,
         NEW high \in Nat,
         NEW target \in Nat, target <= high
  PROVE  /\ Sound!push(r, c, frames, high, target) \in Sound!Ring
         /\ Sound!push(r, c, frames, high, target).frames <= high
         /\ Sound!push(r, c, frames, high, target).of = r.of \cup {c}
<1>1. /\ Sound!push(r, c, frames, high, target).frames =
           IF r.frames + frames > high THEN target ELSE r.frames + frames
      /\ Sound!push(r, c, frames, high, target).of = r.of \cup {c}
      /\ Sound!push(r, c, frames, high, target).primed = r.primed
  BY DEF Sound!push, Sound!Ring
<1>3. r.frames \in Nat /\ r.primed \in BOOLEAN /\ r.of \subseteq Sound!Captures
  BY DEF Sound!Ring
<1>4. Sound!push(r, c, frames, high, target) \in Sound!Ring
  <2>. DEFINE n == IF r.frames + frames > high THEN target ELSE r.frames + frames
              of == r.of \cup {c}
  <2>1. n \in Nat /\ of \in SUBSET Sound!Captures
    BY <1>3
  <2>2. [r EXCEPT !.frames = n, !.of = of] \in Sound!Ring
    <3>. HIDE DEF n, of
    <3>. QED BY <2>1 DEF Sound!Ring
  <2>3. Sound!push(r, c, frames, high, target) = [r EXCEPT !.frames = n, !.of = of]
    BY DEF Sound!push
  <2>. QED BY <2>2, <2>3
<1>. QED BY <1>1, <1>3, <1>4

(* BlockPacer::take: it only ever takes away.                              *)
LEMMA TakeIs ==
  ASSUME Sound!ScreenSoundAssumption, NEW r \in Sound!Ring, NEW prime
  PROVE  /\ Sound!take(r, prime) \in Sound!Ring
         /\ Sound!take(r, prime).frames <= r.frames
         /\ Sound!take(r, prime).of \subseteq r.of
<1>1. r.frames \in Nat /\ r.primed \in BOOLEAN /\ r.of \subseteq Sound!Captures /\ Block \in Nat
  BY DEF Sound!Ring, Sound!ScreenSoundAssumption
<1>2. CASE Sound!Gives(r, prime)
  <2>1. Sound!take(r, prime) = [frames |-> r.frames - Block, primed |-> TRUE,
                          of |-> IF r.frames = Block THEN {} ELSE r.of]
    BY <1>2 DEF Sound!take
  <2>2. r.frames >= Block
    BY <1>2 DEF Sound!Gives
  <2>. QED BY <2>1, <2>2, <1>1 DEF Sound!Ring
<1>3. CASE ~Sound!Gives(r, prime)
  <2>1. Sound!take(r, prime) = [frames |-> r.frames, primed |-> FALSE, of |-> r.of]
    BY <1>3 DEF Sound!take, Sound!Ring
  <2>. QED BY <2>1, <1>1 DEF Sound!Ring
<1>. QED BY <1>2, <1>3

(* Nothing is captured, and nothing waits.                                 *)
LEMMA SoundHoldsAtFirst == Sound!ScreenSoundAssumption /\ Sound!Init => SoundHolds
<1>. SUFFICES ASSUME Sound!ScreenSoundAssumption, Sound!Init PROVE SoundHolds
  OBVIOUS
<1>1. Sound!Empty \in Sound!Ring /\ Sound!Empty.frames = 0 /\ Sound!Empty.of = {}
  BY DEF Sound!Empty, Sound!Ring
<1>2. Sound!TypeOK
  <2>1. /\ n_active \in BOOLEAN /\ n_running \in BOOLEAN /\ n_early \in BOOLEAN
        /\ n_raced \in BOOLEAN /\ n_crashed \in BOOLEAN
    BY DEF Sound!Init
  <2>2. /\ n_at = [d \in Drivers |-> "free"] /\ n_starting = [d \in Drivers |-> FALSE]
        /\ n_thread = "none" /\ n_opened = "not yet"
    BY DEF Sound!Init
  <2>3. /\ n_capturer = Sound!NoCapture /\ n_made = Sound!NoCapture /\ n_ring \in Sound!Ring /\
             n_paced \in Sound!Ring
        /\ n_played = {}
    BY <1>1 DEF Sound!Init, Sound!NoCapture
  <2>. QED BY <2>1, <2>2, <2>3 DEF Sound!TypeOK
<1>3. Sound!SoundIsNotLate
  <2>1. High \in Nat /\ CaptureHigh \in Nat
    BY DEF Sound!ScreenSoundAssumption
  <2>2. n_ring.frames = 0 /\ n_paced.frames = 0
    BY <1>1 DEF Sound!Init
  <2>. QED BY <2>1, <2>2 DEF Sound!SoundIsNotLate
<1>4. SoundCore
  BY <1>1 DEF Sound!Init, SoundCore, OneDrives, Sound!Free, Resting, Silent, Captured,
     Heard, Driving
<1>. QED BY <1>2, <1>3, <1>4 DEF SoundHolds

(* What a driver does: nobody else is in start or stop.                    *)
LEMMA DriverHolds ==
  ASSUME Sound!ScreenSoundAssumption, SoundHolds, ~n_raced, ~n_crashed, NEW d \in Drivers,
         \/ Sound!Enters(d, "start") \/ Sound!Enters(d, "stop") \/ Sound!StopsCapture(d) \/
              Sound!Joins(d)
         \/ Sound!Releases(d) \/ Sound!Clears(d) \/ Sound!CreationFails(d) \/
              Sound!Creates(d) \/ Sound!Opens(d)
         \/ Sound!Activates(d)
  PROVE  SoundHolds'
<1>1. Sound!TypeOK /\ Sound!SoundIsNotLate /\ SoundCore
  BY DEF SoundHolds
<1>e. Sound!Empty \in Sound!Ring /\ Sound!Empty.frames = 0 /\ Sound!Empty.of = {}
  BY DEF Sound!Empty, Sound!Ring
<1>a. ASSUME NEW e \in Drivers, e # d, ~Sound!Free(d) PROVE Sound!Free(e)
  BY <1>1, <1>a DEF SoundCore, OneDrives
<1>t. /\ n_active \in BOOLEAN /\ n_running \in BOOLEAN /\ n_early \in BOOLEAN
      /\ n_raced \in BOOLEAN /\ n_crashed \in BOOLEAN
      /\ n_capturer \in Sound!Captures \cup {Sound!NoCapture} /\
           n_made \in Sound!Captures \cup {Sound!NoCapture}
      /\ n_at \in [Drivers -> {"free", "stopping", "joining", "releasing", "clearing",
                             "creating", "awaiting", "activating"}]
      /\ n_starting \in [Drivers -> BOOLEAN]
  BY <1>1 DEF Sound!TypeOK
<1>b. /\ n_ring' = n_ring \/ n_ring' = Sound!Empty
      /\ n_paced' = n_paced \/ n_paced' = Sound!Empty
  BY DEF Sound!Enters, Sound!StopsCapture, Sound!Joins, Sound!Releases, Sound!Clears,
     Sound!CreationFails, Sound!Creates, Sound!Opens, Sound!Activates
<1>2. Sound!TypeOK'
  <2>1. /\ n_active' \in BOOLEAN /\ n_running' \in BOOLEAN /\ n_early' \in BOOLEAN
        /\ n_raced' \in BOOLEAN /\ n_crashed' \in BOOLEAN
    BY <1>t DEF Sound!Enters, Sound!StopsCapture, Sound!Joins, Sound!Releases,
       Sound!Clears, Sound!CreationFails, Sound!Creates, Sound!Opens,
       Sound!Activates
  <2>2. /\ n_at' \in [Drivers -> {"free", "stopping", "joining", "releasing", "clearing",
                                "creating", "awaiting", "activating"}]
        /\ n_starting' \in [Drivers -> BOOLEAN]
    BY <1>t DEF Sound!Enters, Sound!StopsCapture, Sound!Joins, Sound!Releases,
       Sound!Clears, Sound!CreationFails, Sound!Creates, Sound!Opens,
       Sound!Activates, Sound!GoesTo
  <2>3. /\ n_capturer' \in Sound!Captures \cup {Sound!NoCapture} /\
             n_made' \in Sound!Captures \cup {Sound!NoCapture}
    <3>1. CASE Sound!Creates(d)
      <4>0. MaxLoopbacks \in Nat /\ n_made < MaxLoopbacks
        BY <3>1 DEF Sound!Creates, Sound!ScreenSoundAssumption
      <4>1. n_made \in 0 .. MaxLoopbacks
        BY <1>t, <4>0 DEF Sound!Captures, Sound!NoCapture
      <4>2. n_made + 1 \in 1 .. MaxLoopbacks
        BY <4>0, <4>1
      <4>. QED BY <3>1, <4>2 DEF Sound!Creates, Sound!Captures
    <3>2. CASE ~Sound!Creates(d)
      BY <3>2, <1>t DEF Sound!Enters, Sound!StopsCapture, Sound!Joins, Sound!Releases,
         Sound!Clears, Sound!CreationFails, Sound!Opens,
         Sound!Activates
    <3>. QED BY <3>1, <3>2
  <2>4. /\ n_thread' \in {"none", "opening", "refused", "looping", "failing", "returned"}
        /\ n_opened' \in {"not yet", "open", "refused"} /\ n_played' \subseteq Sound!Captures
    BY <1>1 DEF Sound!TypeOK, Sound!Enters, Sound!StopsCapture, Sound!Joins,
       Sound!Releases, Sound!Clears, Sound!CreationFails, Sound!Creates,
       Sound!Opens, Sound!Activates
  <2>. QED BY <2>1, <2>2, <2>3, <2>4, <1>1, <1>b, <1>e DEF Sound!TypeOK
<1>3. Sound!SoundIsNotLate'
  BY <1>1, <1>b, <1>e DEF Sound!SoundIsNotLate, Sound!ScreenSoundAssumption
<1>f. \A e \in Drivers : e # d => n_at'[e] = n_at[e]
  BY <1>t DEF Sound!Enters, Sound!StopsCapture, Sound!Joins, Sound!Releases, Sound!Clears,
     Sound!CreationFails, Sound!Creates, Sound!Opens,
     Sound!Activates, Sound!GoesTo
<1>4. ASSUME ~n_raced', ~n_crashed' PROVE SoundCore'
  <2>1. CASE Sound!Enters(d, "start")
    <3>1. \A e \in Drivers : Sound!Free(e)
      BY <2>1, <1>4 DEF Sound!Enters
    <3>2. n_at'[d] = IF n_capturer # Sound!NoCapture THEN "stopping" ELSE "clearing"
      BY <2>1, <1>t DEF Sound!Enters, Sound!GoesTo
    <3>3. ~n_active' /\ UNCHANGED <<n_capturer, n_ring, n_paced, n_running, n_thread, n_opened>>
      BY <2>1 DEF Sound!Enters
    <3>. QED BY <1>1, <1>f, <3>1, <3>2, <3>3 DEF SoundCore, OneDrives, Sound!Free, Resting,
                Silent, Playing,
                Captured, Heard, Driving
  <2>2. CASE Sound!Enters(d, "stop")
    <3>1. \A e \in Drivers : Sound!Free(e)
      BY <2>2, <1>4 DEF Sound!Enters
    <3>2. n_at'[d] = IF n_capturer # Sound!NoCapture THEN "stopping" ELSE "clearing"
      BY <2>2, <1>t DEF Sound!Enters, Sound!GoesTo
    <3>3. ~n_active' /\ UNCHANGED <<n_capturer, n_ring, n_paced, n_running, n_thread, n_opened>>
      BY <2>2 DEF Sound!Enters
    <3>. QED BY <1>1, <1>f, <3>1, <3>2, <3>3 DEF SoundCore, OneDrives, Sound!Free, Resting,
                Silent, Playing,
                Captured, Heard, Driving
  <2>3. CASE Sound!StopsCapture(d)
    <3>1. n_at[d] = "stopping" /\ \A e \in Drivers : e # d => n_at[e] = "free"
      BY <2>3, <1>a DEF Sound!StopsCapture, Sound!Free
    <3>2. /\ ~n_running' /\ n_at'[d] = IF n_running THEN "joining" ELSE "releasing"
          /\ UNCHANGED <<n_active, n_capturer, n_ring, n_paced, n_thread, n_opened, n_early>>
      BY <2>3, <1>t, <1>e, <1>4 DEF Sound!StopsCapture, Sound!GoesTo
    <3>3. /\ ~n_active
          /\ Playing
      BY <1>1, <3>1 DEF SoundCore, Driving
    <3>4. \A e \in Drivers : e # d => n_at'[e] = "free"
      BY <3>1, <1>f
    <3>5. Captured /\ Heard
      BY <1>1 DEF SoundCore
    <3>6. OneDrives' /\ Resting'
      BY <3>2, <3>3, <3>4 DEF OneDrives, Resting, Sound!Free, Silent, Playing
    <3>7. Captured'
      BY <3>1, <3>2, <3>3, <3>4, <3>5 DEF Captured, Silent, Playing
    <3>8. Heard'
      BY <3>1, <3>2, <3>3, <3>4, <3>5 DEF Heard, Silent
    <3>9. ASSUME NEW e \in Drivers PROVE Driving(e)'
      <4>1. CASE e = d
        BY <4>1, <3>2, <3>3 DEF Driving, Playing, Silent
      <4>2. CASE e # d
        BY <4>2, <3>1, <3>2, <3>3, <3>4 DEF Driving
      <4>. QED BY <4>1, <4>2
    <3>. QED BY <3>6, <3>7, <3>8, <3>9 DEF SoundCore
  <2>4. CASE Sound!Joins(d)
    <3>1. n_at[d] = "joining" /\ \A e \in Drivers : e # d => n_at[e] = "free"
      BY <2>4, <1>a DEF Sound!Joins, Sound!Free
    <3>2. /\ n_thread = "returned" /\ n_thread' = "none" /\ n_at'[d] = "releasing"
          /\ UNCHANGED <<n_active, n_capturer, n_ring, n_paced, n_running, n_opened, n_early>>
      BY <2>4, <1>t, <1>e, <1>4 DEF Sound!Joins, Sound!GoesTo
    <3>3. /\ ~n_active
          /\ n_capturer # Sound!NoCapture
          /\ ~n_running
      BY <1>1, <3>1 DEF SoundCore, Driving
    <3>4. \A e \in Drivers : e # d => n_at'[e] = "free"
      BY <3>1, <1>f
    <3>5. Captured /\ Heard
      BY <1>1 DEF SoundCore
    <3>6. OneDrives' /\ Resting'
      BY <3>2, <3>3, <3>4 DEF OneDrives, Resting, Sound!Free, Silent, Playing
    <3>7. Captured'
      BY <3>1, <3>2, <3>3, <3>4, <3>5 DEF Captured, Silent, Playing
    <3>8. Heard'
      BY <3>1, <3>2, <3>3, <3>4, <3>5 DEF Heard, Silent
    <3>9. ASSUME NEW e \in Drivers PROVE Driving(e)'
      <4>1. CASE e = d
        BY <4>1, <3>2, <3>3 DEF Driving, Playing, Silent
      <4>2. CASE e # d
        BY <4>2, <3>1, <3>2, <3>3, <3>4 DEF Driving
      <4>. QED BY <4>1, <4>2
    <3>. QED BY <3>6, <3>7, <3>8, <3>9 DEF SoundCore
  <2>5. CASE Sound!Releases(d)
    <3>1. n_at[d] = "releasing" /\ \A e \in Drivers : e # d => n_at[e] = "free"
      BY <2>5, <1>a DEF Sound!Releases, Sound!Free
    <3>2. /\ n_thread = "none" /\ n_capturer' = Sound!NoCapture
          /\ n_at'[d] = IF n_opened = "refused" THEN "free" ELSE "clearing"
          /\ UNCHANGED <<n_active, n_ring, n_paced, n_running, n_thread, n_opened, n_early>>
      BY <2>5, <1>t, <1>e, <1>4 DEF Sound!Releases, Sound!GoesTo
    <3>3. /\ ~n_active
          /\ ~n_running
      BY <1>1, <3>1 DEF SoundCore, Driving
    <3>4. \A e \in Drivers : e # d => n_at'[e] = "free"
      BY <3>1, <1>f
    <3>5. Captured /\ Heard
      BY <1>1 DEF SoundCore
    <3>6. OneDrives' /\ Resting'
      BY <3>2, <3>3, <3>4 DEF OneDrives, Resting, Sound!Free, Silent, Playing
    <3>7. Captured'
      BY <3>1, <3>2, <3>3, <3>4, <3>5 DEF Captured, Silent, Playing
    <3>8. Heard'
      BY <3>1, <3>2, <3>3, <3>4, <3>5 DEF Heard, Silent
    <3>9. ASSUME NEW e \in Drivers PROVE Driving(e)'
      <4>1. CASE e = d
        BY <4>1, <3>2, <3>3 DEF Driving, Playing, Silent
      <4>2. CASE e # d
        BY <4>2, <3>1, <3>2, <3>3, <3>4 DEF Driving
      <4>. QED BY <4>1, <4>2
    <3>. QED BY <3>6, <3>7, <3>8, <3>9 DEF SoundCore
  <2>6. CASE Sound!Clears(d)
    <3>1. n_at[d] = "clearing" /\ \A e \in Drivers : e # d => n_at[e] = "free"
      BY <2>6, <1>a DEF Sound!Clears, Sound!Free
    <3>2. /\ n_ring'.of = {} /\ n_at'[d] \in {"creating", "free"}
          /\ UNCHANGED <<n_active, n_capturer, n_paced, n_running, n_thread, n_opened, n_early>>
      BY <2>6, <1>t, <1>e, <1>4 DEF Sound!Clears, Sound!GoesTo
    <3>3. /\ ~n_active
          /\ Silent
      BY <1>1, <3>1 DEF SoundCore, Driving
    <3>4. \A e \in Drivers : e # d => n_at'[e] = "free"
      BY <3>1, <1>f
    <3>5. Captured /\ Heard
      BY <1>1 DEF SoundCore
    <3>6. OneDrives' /\ Resting'
      BY <3>2, <3>3, <3>4 DEF OneDrives, Resting, Sound!Free, Silent, Playing
    <3>7. Captured'
      BY <3>1, <3>2, <3>3, <3>4, <3>5 DEF Captured, Silent, Playing
    <3>8. Heard'
      BY <3>1, <3>2, <3>3, <3>4, <3>5 DEF Heard, Silent
    <3>9. ASSUME NEW e \in Drivers PROVE Driving(e)'
      <4>1. CASE e = d
        BY <4>1, <3>2, <3>3 DEF Driving, Playing, Silent
      <4>2. CASE e # d
        BY <4>2, <3>1, <3>2, <3>3, <3>4 DEF Driving
      <4>. QED BY <4>1, <4>2
    <3>. QED BY <3>6, <3>7, <3>8, <3>9 DEF SoundCore
  <2>7. CASE Sound!CreationFails(d)
    <3>1. n_at[d] = "creating" /\ \A e \in Drivers : e # d => n_at[e] = "free"
      BY <2>7, <1>a DEF Sound!CreationFails, Sound!Free
    <3>2. /\ n_at'[d] = "free"
          /\ UNCHANGED <<n_active, n_capturer, n_ring, n_paced, n_running, n_thread, n_opened, n_early>>
      BY <2>7, <1>t, <1>e, <1>4 DEF Sound!CreationFails, Sound!GoesTo
    <3>3. /\ ~n_active
          /\ Silent
          /\ n_ring.of = {}
      BY <1>1, <3>1 DEF SoundCore, Driving
    <3>4. \A e \in Drivers : e # d => n_at'[e] = "free"
      BY <3>1, <1>f
    <3>5. Captured /\ Heard
      BY <1>1 DEF SoundCore
    <3>6. OneDrives' /\ Resting'
      BY <3>2, <3>3, <3>4 DEF OneDrives, Resting, Sound!Free, Silent, Playing
    <3>7. Captured'
      BY <3>1, <3>2, <3>3, <3>4, <3>5 DEF Captured, Silent, Playing
    <3>8. Heard'
      BY <3>1, <3>2, <3>3, <3>4, <3>5 DEF Heard, Silent
    <3>9. ASSUME NEW e \in Drivers PROVE Driving(e)'
      <4>1. CASE e = d
        BY <4>1, <3>2, <3>3 DEF Driving, Playing, Silent
      <4>2. CASE e # d
        BY <4>2, <3>1, <3>2, <3>3, <3>4 DEF Driving
      <4>. QED BY <4>1, <4>2
    <3>. QED BY <3>6, <3>7, <3>8, <3>9 DEF SoundCore
  <2>8. CASE Sound!Creates(d)
    <3>1. \A e \in Drivers \ {d} : Sound!Free(e)
      BY <2>8, <1>a DEF Sound!Creates, Sound!Free
    <3>2. /\ Silent /\ n_ring.of = {} /\ ~n_active
      BY <1>1, <2>8 DEF Sound!Creates, SoundCore, Driving
    <3>3. n_capturer' # Sound!NoCapture
      <4>1. n_made \in Nat
        BY <1>t DEF Sound!Captures, Sound!NoCapture
      <4>2. n_capturer' = n_made + 1
        BY <2>8 DEF Sound!Creates
      <4>. QED BY <4>1, <4>2 DEF Sound!NoCapture
    <3>4. /\ n_active' = FALSE /\ n_ring'.of = {} /\ n_paced'.of = {} /\ n_running' = TRUE
          /\ n_thread' = "opening" /\ n_opened' = "not yet" /\ n_at'[d] = "awaiting"
      BY <2>8, <1>e, <1>t, <3>2 DEF Sound!Creates, Sound!GoesTo
    <3>5. \A e \in Drivers : e # d => n_at'[e] = "free"
      BY <3>1, <1>f DEF Sound!Free
    <3>6. OneDrives' /\ Resting'
      BY <3>4, <3>5 DEF OneDrives, Resting, Sound!Free
    <3>7. Captured'
      BY <3>3, <3>4, <3>5 DEF Captured
    <3>8. Heard'
      BY <3>4 DEF Heard
    <3>9. ASSUME NEW e \in Drivers PROVE Driving(e)'
      <4>1. CASE e = d
        BY <4>1, <3>3, <3>4 DEF Driving
      <4>2. CASE e # d
        BY <4>2, <3>4, <3>5 DEF Driving
      <4>. QED BY <4>1, <4>2
    <3>. QED BY <3>6, <3>7, <3>8, <3>9 DEF SoundCore
  <2>9. CASE Sound!Opens(d)
    <3>1. \A e \in Drivers \ {d} : Sound!Free(e)
      BY <2>9, <1>a DEF Sound!Opens, Sound!Free
    <3>2. /\ ~n_active /\ n_capturer # Sound!NoCapture
          /\ n_opened = "open" => Playing
          /\ n_opened = "refused" => n_thread \in {"refused", "returned"}
          /\ n_opened = "open" /\ ~n_running => n_thread = "failing" \/ n_early
          /\ n_opened \in {"open", "refused"}
      BY <1>1, <2>9 DEF Sound!Opens, SoundCore, Driving, Sound!TypeOK
    <3>3. /\ UNCHANGED <<n_active, n_capturer, n_ring, n_paced, n_thread, n_opened, n_early>>
          /\ n_running' = (n_running /\ n_opened = "open")
          /\ n_at'[d] = IF n_opened = "open" THEN "activating" ELSE "joining"
      BY <2>9, <1>t DEF Sound!Opens, Sound!GoesTo
    <3>5. \A e \in Drivers : e # d => n_at'[e] = "free"
      BY <3>1, <1>f DEF Sound!Free
    <3>6. OneDrives' /\ Resting'
      BY <3>3, <3>5 DEF OneDrives, Resting, Sound!Free
    <3>7. Captured'
      <4>1. \A e \in Drivers : n_at[e] # "joining"
        BY <2>9, <3>1 DEF Sound!Opens, Sound!Free
      <4>2. n_thread # "opening" /\ (n_thread = "looping" => n_opened = "open" /\ n_running)
        BY <1>1, <3>2, <4>1 DEF SoundCore, Captured
      <4>. QED BY <1>1, <3>2, <3>3, <4>2 DEF SoundCore, Captured
    <3>8. Heard'
      <4>1. \A e \in Drivers : n_at[e] # "clearing"
        BY <2>9, <3>1 DEF Sound!Opens, Sound!Free
      <4>. QED BY <1>1, <4>1, <3>3 DEF SoundCore, Heard
    <3>9. ASSUME NEW e \in Drivers PROVE Driving(e)'
      <4>1. CASE e = d
        BY <4>1, <3>2, <3>3 DEF Driving, Playing
      <4>2. CASE e # d
        BY <4>2, <3>2, <3>3, <3>5 DEF Driving
      <4>. QED BY <4>1, <4>2
    <3>. QED BY <3>6, <3>7, <3>8, <3>9 DEF SoundCore
  <2>10. CASE Sound!Activates(d)
    <3>1. n_at[d] = "activating" /\ \A e \in Drivers : e # d => n_at[e] = "free"
      BY <2>10, <1>a DEF Sound!Activates, Sound!Free
    <3>2. /\ n_active' /\ n_at'[d] = "free"
          /\ UNCHANGED <<n_capturer, n_ring, n_paced, n_running, n_thread, n_opened, n_early>>
      BY <2>10, <1>t, <1>e, <1>4 DEF Sound!Activates, Sound!GoesTo
    <3>3. /\ ~n_active
          /\ Playing
          /\ n_opened = "open" /\ ~n_running => n_thread = "failing" \/ n_early
      BY <1>1, <3>1 DEF SoundCore, Driving
    <3>4. \A e \in Drivers : e # d => n_at'[e] = "free"
      BY <3>1, <1>f
    <3>5. Captured /\ Heard
      BY <1>1 DEF SoundCore
    <3>6. OneDrives' /\ Resting'
      BY <3>2, <3>3, <3>4 DEF OneDrives, Resting, Sound!Free, Silent, Playing
    <3>7. Captured'
      BY <3>1, <3>2, <3>3, <3>4, <3>5 DEF Captured, Silent, Playing
    <3>8. Heard'
      BY <3>1, <3>2, <3>3, <3>4, <3>5 DEF Heard, Silent
    <3>9. ASSUME NEW e \in Drivers PROVE Driving(e)'
      <4>1. CASE e = d
        BY <4>1, <3>2, <3>3 DEF Driving, Playing, Silent
      <4>2. CASE e # d
        BY <4>2, <3>1, <3>2, <3>3, <3>4 DEF Driving
      <4>. QED BY <4>1, <4>2
    <3>. QED BY <3>6, <3>7, <3>8, <3>9 DEF SoundCore
  <2>. QED BY <2>1, <2>2, <2>3, <2>4, <2>5, <2>6, <2>7, <2>8, <2>9, <2>10
<1>. QED BY <1>2, <1>3, <1>4 DEF SoundHolds

(* What the thread of the capture does: a driver may be anywhere.          *)
LEMMA ThreadHolds ==
  ASSUME Sound!ScreenSoundAssumption, SoundHolds, ~n_raced, ~n_crashed,
         \/ Sound!StreamOpens \/ Sound!StreamIsRefused \/ Sound!Gone
         \/ \E frames \in Packets : Sound!drain(frames)
         \/ Sound!Delivers \/ Sound!fail \/ Sound!note_failure
  PROVE  SoundHolds'
<1>1. Sound!TypeOK /\ Sound!SoundIsNotLate /\ SoundCore
  BY DEF SoundHolds
<1>n. /\ Block \in Nat /\ High \in Nat /\ TargetFrames \in Nat /\ TargetFrames <= High
      /\ CaptureHigh \in Nat /\ CaptureTarget \in Nat /\ CaptureTarget <= CaptureHigh
      /\ Packets \subseteq Nat
  BY DEF Sound!ScreenSoundAssumption
<1>u. UNCHANGED <<n_capturer, n_at, n_starting, n_made, n_played, n_raced, n_crashed>>
  BY DEF Sound!StreamOpens, Sound!StreamIsRefused, Sound!Gone, Sound!drain, Sound!Delivers,
     Sound!fail, Sound!note_failure
<1>c. n_capturer \in Sound!Captures /\ n_paced.of \subseteq {n_capturer}
  <2>1. n_thread # "none"
    BY DEF Sound!StreamOpens, Sound!StreamIsRefused, Sound!Gone, Sound!drain,
       Sound!Delivers, Sound!fail, Sound!note_failure
  <2>. QED BY <2>1, <1>1 DEF SoundCore, Captured, Sound!TypeOK
<1>r. n_ring \in Sound!Ring /\ n_paced \in Sound!Ring /\ n_ring.frames <= High /\
        n_paced.frames <= CaptureHigh
  BY <1>1 DEF Sound!TypeOK, Sound!SoundIsNotLate
<1>2. CASE \E frames \in Packets : Sound!drain(frames)
  <2>. PICK frames \in Packets : Sound!drain(frames)
    BY <1>2
  <2>1. /\ n_paced' \in Sound!Ring /\ n_paced'.frames <= CaptureHigh
        /\ n_paced'.of \subseteq {n_capturer}
    <3>1. frames \in Nat
      BY <1>n
    <3>2. n_paced' = Sound!push(n_paced, n_capturer, frames, CaptureHigh, CaptureTarget)
      BY DEF Sound!drain
    <3>3. /\ Sound!push(n_paced, n_capturer, frames, CaptureHigh, CaptureTarget) \in Sound!Ring
          /\ Sound!push(n_paced, n_capturer, frames, CaptureHigh,
               CaptureTarget).frames <= CaptureHigh
          /\ Sound!push(n_paced, n_capturer, frames, CaptureHigh, CaptureTarget).of =
               n_paced.of \cup {n_capturer}
      <4>1. /\ CaptureHigh \in Nat /\ CaptureTarget \in Nat /\ CaptureTarget <= CaptureHigh
        BY <1>n
      <4>2. n_capturer \in Sound!Captures /\ n_paced \in Sound!Ring
        BY <1>c, <1>r
      <4>. QED BY <3>1, <4>1, <4>2, PushIs
    <3>. QED BY <3>2, <3>3, <1>c
  <2>2. UNCHANGED <<n_active, n_ring, n_running, n_thread, n_opened, n_early>>
    BY DEF Sound!drain
  <2>3. Sound!TypeOK' /\ Sound!SoundIsNotLate'
    BY <1>1, <1>u, <2>1, <2>2 DEF Sound!TypeOK, Sound!SoundIsNotLate
  <2>4. SoundCore'
    BY <1>1, <1>u, <2>1, <2>2 DEF SoundCore, OneDrives, Sound!Free, Resting, Silent,
       Playing, Captured,
       Heard, Driving
  <2>. QED BY <2>3, <2>4 DEF SoundHolds
<1>3. CASE Sound!Delivers
  <2>1. n_thread = "looping" /\ UNCHANGED <<n_active, n_running, n_thread, n_opened, n_early>>
    BY <1>3 DEF Sound!Delivers
  <2>2. /\ n_paced' \in Sound!Ring /\ n_paced'.frames <= CaptureHigh
        /\ n_paced'.of \subseteq {n_capturer}
    <3>1. n_paced' = Sound!take(n_paced, CapturePrime)
      BY <1>3 DEF Sound!Delivers
    <3>2. /\ Sound!take(n_paced, CapturePrime) \in Sound!Ring
          /\ Sound!take(n_paced, CapturePrime).frames <= n_paced.frames
          /\ Sound!take(n_paced, CapturePrime).of \subseteq n_paced.of
      BY <1>r, TakeIs
    <3>3. Sound!take(n_paced, CapturePrime).frames \in Nat /\ n_paced.frames \in Nat
      BY <1>r, <3>2 DEF Sound!Ring
    <3>. QED BY <3>1, <3>2, <3>3, <1>c, <1>r, <1>n
  <2>3. n_ring' \in Sound!Ring /\ n_ring'.frames <= High /\
          n_ring'.of = n_ring.of \cup {n_capturer}
    <3>1. n_ring' = Sound!push(n_ring, n_capturer, Block, High, TargetFrames)
      BY <1>3 DEF Sound!Delivers
    <3>2. /\ Block \in Nat /\ High \in Nat /\ TargetFrames \in Nat /\ TargetFrames <= High
      BY <1>n
    <3>3. n_capturer \in Sound!Captures /\ n_ring \in Sound!Ring
      BY <1>c, <1>r
    <3>4. /\ Sound!push(n_ring, n_capturer, Block, High, TargetFrames) \in Sound!Ring
          /\ Sound!push(n_ring, n_capturer, Block, High, TargetFrames).frames <= High
          /\ Sound!push(n_ring, n_capturer, Block, High,
               TargetFrames).of = n_ring.of \cup {n_capturer}
      BY <3>2, <3>3, PushIs
    <3>. QED BY <3>1, <3>4
  <2>4. Sound!TypeOK' /\ Sound!SoundIsNotLate'
    BY <1>1, <1>u, <2>1, <2>2, <2>3 DEF Sound!TypeOK, Sound!SoundIsNotLate
  <2>5. n_opened = "open" /\ n_capturer # Sound!NoCapture
    BY <1>1, <2>1 DEF SoundCore, Captured
  <2>6. \A d \in Drivers : n_at[d] \notin {"clearing", "creating"}
    BY <1>1, <2>1 DEF SoundCore, Driving, Silent
  <2>7. SoundCore'
    <3>1. OneDrives' /\ Resting' /\ Captured'
      BY <1>1, <1>u, <2>1, <2>2 DEF SoundCore, OneDrives, Sound!Free, Resting, Silent,
         Playing, Captured
    <3>2. Heard'
      BY <1>1, <1>u, <2>1, <2>3, <2>5, <2>6 DEF SoundCore, Heard
    <3>3. \A d \in Drivers : Driving(d)'
      BY <1>1, <1>u, <2>1, <2>6 DEF SoundCore, Driving, Silent, Playing
    <3>. QED BY <3>1, <3>2, <3>3 DEF SoundCore
  <2>. QED BY <2>4, <2>7 DEF SoundHolds
<1>4. CASE Sound!StreamOpens \/ Sound!StreamIsRefused \/ Sound!Gone \/ Sound!fail \/
             Sound!note_failure
  <2>1. UNCHANGED <<n_ring, n_paced>>
    BY <1>4 DEF Sound!StreamOpens, Sound!StreamIsRefused, Sound!Gone, Sound!fail,
       Sound!note_failure
  <2>2. Sound!TypeOK'
    <3>1. /\ n_active' \in BOOLEAN /\ n_running' \in BOOLEAN /\ n_early' \in BOOLEAN
      BY <1>1, <1>4 DEF Sound!TypeOK, Sound!StreamOpens, Sound!StreamIsRefused, Sound!Gone,
         Sound!fail, Sound!note_failure
    <3>2. /\ n_thread' \in {"none", "opening", "refused", "looping", "failing", "returned"}
          /\ n_opened' \in {"not yet", "open", "refused"}
      BY <1>1, <1>4 DEF Sound!TypeOK, Sound!StreamOpens, Sound!StreamIsRefused, Sound!Gone,
         Sound!fail, Sound!note_failure,
         Sound!ThreadGoesTo
    <3>. QED BY <1>1, <1>u, <2>1, <3>1, <3>2 DEF Sound!TypeOK
  <2>3. Sound!SoundIsNotLate'
    BY <1>1, <2>1 DEF Sound!SoundIsNotLate
  <2>4. SoundCore'
    <3>1. CASE Sound!StreamOpens
      <4>. QED BY <1>1, <1>u, <1>c, <2>1, <3>1 DEF Sound!StreamOpens, Sound!ThreadGoesTo,
                  SoundCore, OneDrives, Sound!Free,
             Resting, Silent, Playing, Captured, Heard, Driving, Sound!NoCapture
    <3>2. CASE Sound!StreamIsRefused
      <4>. QED BY <1>1, <1>u, <1>c, <2>1, <3>2 DEF Sound!StreamIsRefused,
                  Sound!ThreadGoesTo, SoundCore, OneDrives, Sound!Free,
             Resting, Silent, Playing, Captured, Heard, Driving, Sound!NoCapture
    <3>3. CASE Sound!Gone
      <4>. QED BY <1>1, <1>u, <1>c, <2>1, <3>3 DEF Sound!Gone, Sound!ThreadGoesTo,
                  SoundCore, OneDrives, Sound!Free,
             Resting, Silent, Playing, Captured, Heard, Driving, Sound!NoCapture
    <3>4. CASE Sound!fail
      <4>. QED BY <1>1, <1>u, <1>c, <2>1, <3>4 DEF Sound!fail, Sound!ThreadGoesTo,
                  SoundCore, OneDrives, Sound!Free,
             Resting, Silent, Playing, Captured, Heard, Driving, Sound!NoCapture
    <3>5. CASE Sound!note_failure
      <4>. QED BY <1>1, <1>u, <1>c, <2>1, <3>5 DEF Sound!note_failure, Sound!ThreadGoesTo,
                  SoundCore, OneDrives, Sound!Free,
             Resting, Silent, Playing, Captured, Heard, Driving, Sound!NoCapture
    <3>. QED BY <1>4, <3>1, <3>2, <3>3, <3>4, <3>5
  <2>. QED BY <2>2, <2>3, <2>4 DEF SoundHolds
<1>. QED BY <1>2, <1>3, <1>4

(* What libwebrtc's thread does: it only ever takes from the ring.         *)
LEMMA ProcessHolds ==
  ASSUME Sound!ScreenSoundAssumption, SoundHolds, ~n_raced, ~n_crashed, Sound!Process
    PROVE SoundHolds'
<1>1. Sound!TypeOK /\ Sound!SoundIsNotLate /\ SoundCore
  BY DEF SoundHolds
<1>u. UNCHANGED <<n_active, n_capturer, n_paced, n_running, n_thread, n_opened, n_at,
                  n_starting, n_made, n_early, n_raced, n_crashed>>
  BY DEF Sound!Process
<1>2. /\ n_ring' \in Sound!Ring /\ n_ring'.frames <= n_ring.frames /\
           n_ring'.of \subseteq n_ring.of
      /\ n_ring'.frames \in Nat /\ n_ring.frames \in Nat
  <2>1. n_ring \in Sound!Ring /\ n_ring.frames \in Nat
    BY <1>1 DEF Sound!TypeOK, Sound!Ring
  <2>2. n_ring' = Sound!take(n_ring, Prime) \/ n_ring' = n_ring
    BY DEF Sound!Process, Sound!mix
  <2>3. /\ Sound!take(n_ring, Prime) \in Sound!Ring /\
             Sound!take(n_ring, Prime).frames <= n_ring.frames
        /\ Sound!take(n_ring, Prime).of \subseteq n_ring.of
    BY <2>1, TakeIs
  <2>. QED BY <2>1, <2>2, <2>3 DEF Sound!Ring
<1>3. n_played' \subseteq Sound!Captures
  <2>1. n_played' = n_ring.of \/ n_played' = {}
    BY DEF Sound!Process, Sound!mix
  <2>2. n_ring.of \subseteq Sound!Captures
    BY <1>1 DEF Sound!TypeOK, Sound!Ring
  <2>. QED BY <2>1, <2>2
<1>4. Sound!TypeOK'
  BY <1>1, <1>u, <1>2, <1>3 DEF Sound!TypeOK
<1>5. Sound!SoundIsNotLate'
  BY <1>1, <1>u, <1>2 DEF Sound!SoundIsNotLate, Sound!ScreenSoundAssumption
<1>6. SoundCore'
  BY <1>1, <1>u, <1>2 DEF SoundCore, OneDrives, Sound!Free, Resting, Silent, Playing,
     Captured, Heard,
     Driving
<1>. QED BY <1>4, <1>5, <1>6 DEF SoundHolds

(* Any step.                                                               *)
LEMMA SoundHoldsOn == ASSUME Sound!ScreenSoundAssumption, SoundHolds, [Sound!Next]_(Sound!vars)
  PROVE SoundHolds'
<1>1. CASE Sound!Next
  BY <1>1, DriverHolds, ThreadHolds, ProcessHolds DEF Sound!Next
<1>2. CASE UNCHANGED (Sound!vars)
  BY <1>2 DEF Sound!vars, SoundHolds, Sound!TypeOK, Sound!SoundIsNotLate, SoundCore,
     OneDrives, Sound!Free, Resting, Silent,
     Playing, Captured, Heard, Driving
<1>. QED BY <1>1, <1>2

(* What is promised of the sound follows from the invariant.               *)
LEMMA SoundIsTrueThen == ASSUME SoundHolds PROVE Sound!SoundIsTrue
<1>. SUFFICES ASSUME ~n_raced, ~n_crashed
       PROVE Sound!SoundIsOfThisShare /\ Sound!ActiveIsCaptured
  BY DEF SoundHolds, Sound!SoundIsTrue
<1>1. Sound!SoundIsOfThisShare
  BY DEF SoundHolds, SoundCore, Heard, Captured, Sound!SoundIsOfThisShare
<1>2. Sound!ActiveIsCaptured
  BY DEF SoundHolds, SoundCore, Resting, Captured, Sound!ActiveIsCaptured
<1>. QED BY <1>1, <1>2

(* ScreenAudioMixer and WindowsLoopbackCapturer, for any drivers, packets  *)
(* and watermarks and any number of captures: neither ring is late, what   *)
(* waits to be played is of the share in place, and between two calls the  *)
(* mixer says that it captures exactly while it does.                      *)
THEOREM SoundInShare == ASSUME Sound!ScreenSoundAssumption PROVE Sound!Spec =>
  []Sound!SoundIsTrue
<1>1. Sound!Init => SoundHolds
  BY SoundHoldsAtFirst
<1>2. SoundHolds /\ [Sound!Next]_(Sound!vars) => SoundHolds'
  BY SoundHoldsOn
<1>3. SoundHolds => Sound!SoundIsTrue
  BY SoundIsTrueThen
<1>. QED BY <1>1, <1>2, <1>3, PTL DEF Sound!Spec
-----------------------------------------------------------------------------
(* A call with its settings, beside the shares.                            *)
CONSTANTS Voices, MaxChosen, MaxBuilds      \* MediaSession's

VARIABLES
  m_chosen, m_audio, m_building, m_calling, m_engine, m_in_force, m_heard, m_enabled,
  m_computed, m_active, m_negotiated, m_recording, m_changes, m_builds, m_hearing, m_lost,
  m_raced, m_silenced

Call == INSTANCE MediaSession WITH
  MaxChanges <- MaxChosen, chosen <- m_chosen, audio <- m_audio, building <- m_building,
  calling <- m_calling, engine <- m_engine, in_force <- m_in_force, heard <- m_heard,
  enabled <- m_enabled, computed <- m_computed, active <- m_active,
  negotiated <- m_negotiated, recording <- m_recording, changes <- m_changes,
  builds <- m_builds, hearing <- m_hearing, lost <- m_lost, raced <- m_raced,
  silenced <- m_silenced

(* What a setting is set to, where the builder is, and what is under way   *)
(* of a change.                                                            *)
CallValues == {Call!NotSet, 1}
CallStages == {"waits", "starts", "mutes", "reads", "applies", "input", "output"}
CallFlags ==
  [setting : Call!Settings \cup {"none"}, value : CallValues, session : BOOLEAN,
   told : BOOLEAN]

(* Every variable has its shape; the interface has told only a quality     *)
(* before it wrote it down, and a track plays what is in force of it.      *)
CallShape ==
  /\ m_chosen \in [Call!Settings -> CallValues]
  /\ m_in_force \in [Call!Settings -> CallValues \cup {Call!Undone}]
  /\ m_building \in [at : CallStages, options : [Call!Settings -> CallValues]]
  /\ m_building.at = "waits" => m_building = Call!Waiting
  /\ m_calling \in CallFlags /\ (m_calling.setting = "none" => m_calling = Call!NoCall)
  /\ m_calling.told => m_calling.setting = "capture"
  /\ m_hearing \in CallFlags /\ (m_hearing.setting = "none" => m_hearing = Call!NoCall)
  /\ m_hearing.setting \in {"none", "muted"}
  /\ m_engine \in [ready : BOOLEAN, platform : BOOLEAN, agc1 : BOOLEAN]
  /\ DOMAIN m_heard \subseteq Voices /\ m_heard = Call!VolumesIn(m_in_force)
  /\ m_computed \in [Call!Threads -> {Call!Nothing, "TRUE", "FALSE"}]
  /\ m_audio \in BOOLEAN /\ m_enabled \in BOOLEAN /\ m_active \in BOOLEAN
  /\ m_negotiated \in BOOLEAN /\ m_recording \in BOOLEAN
  /\ m_raced \in BOOLEAN /\ m_silenced \in BOOLEAN
  /\ m_lost \subseteq Call!Settings /\ m_changes \in 0 .. MaxChosen
  /\ m_builds \in 0 .. MaxBuilds

(* What there is while there is a session, and while one is built.         *)
CallOrdered ==
  /\ m_building.at = "starts" => ~m_audio
  /\ m_building.at \notin {"waits", "starts"} => m_audio
  /\ m_calling.session \/ m_hearing.session => m_audio
  /\ m_hearing.setting = "muted" => m_building.at = "waits"
  /\ ~m_audio => /\ DOMAIN m_heard = {} /\ ~m_negotiated /\ ~m_active
                 /\ \A t \in Call!Threads : m_computed[t] = Call!Nothing

(* The microphone's track: as long as one who at a time has read what   *)
(* to set it to, it has read what is in force.                             *)
TrackIsNeeded == m_in_force["muted"] = Call!NotSet \/ m_active
TrackFollows ==
  m_audio /\ ~m_raced =>
    /\ (\A t \in Call!Threads : m_computed[t] = Call!Nothing) /\ TrackIsNeeded => m_enabled
    /\ \A t \in Call!Threads : m_computed[t] # Call!Nothing =>
         /\ \A u \in Call!Threads : u # t => m_computed[u] = Call!Nothing
         /\ TrackIsNeeded => m_computed[t] = "TRUE"

(* The voice engine's own choices are undone, and so the first in a room   *)
(* can record.                                                             *)
CallRecords ==
  /\ ~m_engine.agc1
  /\ m_audio /\ ~m_silenced => ~m_engine.platform
  /\ m_negotiated /\ ~m_silenced => m_recording

(* What a who has written down, or read, and not said yet is what was   *)
(* chosen last, unless a change went past it.                              *)
CallCarries ==
  /\ m_calling.session /\ m_calling.setting \in Call!Settings \ {"capture", "muted"} =>
       m_calling.value = m_chosen[m_calling.setting]
  /\ m_calling.session /\ m_calling.setting = "muted" /\ "muted" \notin m_lost =>
       m_calling.value = m_chosen["muted"]
  /\ m_calling.session /\ m_calling.told => m_calling.value = m_in_force["capture"]
  /\ m_hearing.session /\ "muted" \notin m_lost => m_hearing.value = m_chosen["muted"]
  /\ m_building.at = "starts" =>
       \A s \in Call!Seeded \ m_lost : m_building.options[s] = m_chosen[s]
  /\ m_building.at = "mutes" /\ "muted" \notin m_lost =>
       m_building.options["muted"] = m_chosen["muted"]
  /\ m_building.at = "applies" => \A p \in Voices \ m_lost : m_building.options[p] = m_chosen[p]

(* Somebody has still to say this setting to the session.                  *)
ToBeSaid(s) ==
  \/ m_calling.setting = s /\ (m_calling.session \/ s = "capture")
  \/ m_hearing.setting = s /\ m_hearing.session
  \/ s = "muted" /\ m_building.at = "mutes"
  \/ s \in Voices /\ m_building.at \in {"mutes", "reads", "applies"}

(* The builder has not come to this device yet, and brings what was chosen.*)
BuilderBrings(device) ==
  \/ m_building.at \in {"mutes", "reads"}
  \/ /\ m_building.at \in {"applies", "input"} \cup
          (IF device = "output" THEN {"output"} ELSE {})
     /\ m_building.options[device] = m_chosen[device]

(* What the session goes by is what was chosen, but for what somebody has  *)
(* still to say.                                                           *)
CallInForce ==
  m_audio =>
    /\ \A s \in Call!Settings \ (Call!Devices \cup m_lost) : ~ToBeSaid(s) =>
         m_in_force[s] = m_chosen[s]
    /\ \A d \in Call!Devices \ m_lost :
         m_chosen[d] # Call!NotSet /\ ~ToBeSaid(d) =>
           m_in_force[d] = m_chosen[d] \/ BuilderBrings(d)

(* The invariant of the call.                                              *)
CallHolds == CallShape /\ CallOrdered /\ TrackFollows /\ CallRecords /\ CallCarries /\
  CallInForce

(* Who is not a name of a setting.                                         *)
LEMMA SettingsApart == ASSUME Call!MediaSessionAssumption
  PROVE  /\ Voices \cap (Call!Seeded \cup Call!Devices \cup {"muted", "none"}) = {}
         /\ Call!Settings = Call!Seeded \cup Call!Devices \cup {"muted"} \cup Voices
         /\ Call!Seeded \cap (Call!Devices \cup {"muted", "none"}) = {}
         /\ Call!Devices \cap {"muted", "none"} = {}
         /\ "none" \notin Call!Settings
BY DEF Call!MediaSessionAssumption, Call!Seeded, Call!Devices, Call!Settings, Call!Later,
   Call!EngineSettings, Call!TrackSettings

(* It holds before the first call.                                         *)
LEMMA CallHoldsAtFirst == ASSUME Call!MediaSessionAssumption, Call!Init PROVE CallHolds
<1>1. DOMAIN m_heard = {} /\ m_heard = Call!VolumesIn(m_in_force)
  <2>1. DOMAIN m_heard = {}
    BY DEF Call!Init
  <2>2. m_heard = [p \in {} |-> Call!NotSet] /\
          Call!VolumesIn(m_in_force) = [p \in {} |-> m_in_force[p]]
    BY <2>1 DEF Call!Init, Call!VolumesIn
  <2>. QED BY <2>1, <2>2
<1>2. m_chosen \in [Call!Settings -> CallValues] /\
        m_in_force \in [Call!Settings -> CallValues \cup {Call!Undone}]
  BY DEF Call!Init, CallValues
<1>3. m_building \in [at : CallStages, options : [Call!Settings -> CallValues]] /\
        Call!NoCall \in CallFlags
  BY DEF Call!Init, Call!Waiting, CallValues, CallStages, Call!NoCall, CallFlags
<1>4. 0 \in 0 .. MaxChosen /\ 0 \in 0 .. MaxBuilds /\
        m_computed \in [Call!Threads -> {Call!Nothing, "TRUE", "FALSE"}]
  BY DEF Call!Init, Call!MediaSessionAssumption
<1>5. m_engine \in [ready : BOOLEAN, platform : BOOLEAN, agc1 : BOOLEAN]
  BY DEF Call!Init
<1>6. Call!NoCall.setting = "none" /\ ~Call!NoCall.told /\ ~Call!NoCall.session
  BY DEF Call!NoCall
<1>7. CallShape
  BY <1>1, <1>2, <1>3, <1>4, <1>5, <1>6 DEF Call!Init, CallShape
<1>8. CallOrdered /\ TrackFollows /\ CallRecords /\ CallCarries /\ CallInForce
  BY <1>1 DEF Call!Init, CallOrdered, TrackFollows, CallRecords, CallCarries, CallInForce,
     Call!Waiting, Call!NoCall
<1>. QED BY <1>7, <1>8 DEF CallHolds

(* An offer comes: the builder reads what is chosen now.                   *)
LEMMA OfferKeeps ==
  ASSUME Call!MediaSessionAssumption, CallHolds, Call!handle_offer
  PROVE  CallHolds'
<1>1. CallShape'
  BY DEF Call!handle_offer, CallHolds, CallShape, CallStages, Call!VolumesIn, Call!track,
     Call!sound, Call!Waiting, Call!NoCall, CallFlags, Call!MediaSessionAssumption
<1>2. CallOrdered'
  BY DEF Call!handle_offer, CallHolds, CallShape, CallOrdered, Call!Waiting, Call!NoCall,
     Call!track, Call!sound
<1>3. TrackFollows' /\ CallRecords' /\ CallInForce'
  BY DEF Call!handle_offer, CallHolds, TrackFollows, TrackIsNeeded, CallRecords, CallInForce,
     Call!track, Call!sound
<1>4. CallCarries'
  BY DEF Call!handle_offer, CallHolds, CallCarries, Call!NoCall, Call!track, Call!sound
<1>. QED BY <1>1, <1>2, <1>3, <1>4 DEF CallHolds

(* What a session is started with, whatever became of the engine before.   *)
CallEngines == [ready : BOOLEAN, platform : BOOLEAN, agc1 : BOOLEAN]
CallForces == [Call!Settings -> CallValues \cup {Call!Undone}]

LEMMA StartGives ==
  ASSUME Call!MediaSessionAssumption, NEW was \in CallEngines, NEW force \in CallForces,
         NEW options \in [Call!Settings -> CallValues], NEW declines \in BOOLEAN
  PROVE  LET opened == Call!start([on |-> was, force |-> force], options, declines) IN
         /\ opened.on \in CallEngines /\ ~opened.on.agc1 /\ (declines => ~opened.on.platform)
         /\ opened.force \in CallForces
         /\ \A s \in Call!Seeded : opened.force[s] = options[s]
         /\ \A d \in Call!Devices \cup {"muted"} : opened.force[d] = force[d]
<1>. DEFINE e0 == [on |-> was, force |-> force]
            e1 == Call!CreatesConnection(e0)
            e2 == Call!decline_platform_echo_canceller(e1, declines)
            e3 == Call!set_audio_processing(e2, options.processing)
            e4 == Call!Opens(e3, options)
            Rest == Call!Devices \cup {"muted"}
<1>. "processing" \in Call!Settings /\ options["processing"] \in CallValues /\
       Rest \subseteq Call!Settings
     /\ Call!Seeded \subseteq Call!Settings /\ "processing" \notin Rest
  BY SettingsApart DEF Call!Seeded, Call!EngineSettings
<1>1. /\ e1 \in [on : CallEngines, force : CallForces]
      /\ \A d \in Rest : e1.force[d] = force[d]
  BY DEF Call!CreatesConnection, CallEngines, CallForces
<1>. HIDE DEF e1
<1>2. /\ e2 \in [on : CallEngines, force : CallForces] /\ e2.force = e1.force
      /\ declines => ~e2.on.platform
  BY <1>1 DEF Call!decline_platform_echo_canceller, CallEngines
<1>. HIDE DEF e2
<1>3. /\ e3 \in [on : CallEngines, force : CallForces]
      /\ ~e3.on.agc1 /\ e3.on.platform = e2.on.platform
      /\ e3.force["processing"] = options["processing"]
      /\ \A d \in Rest : e3.force[d] = force[d]
  BY <1>1, <1>2 DEF Call!set_audio_processing, CallEngines, CallForces
<1>. HIDE DEF e3
<1>4. /\ e4.on = e3.on /\ e4.force \in CallForces
      /\ \A s \in Call!Seeded : e4.force[s] = options[s]
      /\ \A d \in Rest : e4.force[d] = force[d]
  BY <1>3, SettingsApart DEF Call!Opens, CallForces, CallValues
<1>. QED BY <1>2, <1>3, <1>4 DEF Call!start, e1, e2, e3

(* No session comes of it, whatever was done to the engine first.          *)
LEMMA FailsKeeps == ASSUME Call!MediaSessionAssumption, CallHolds, Call!Fails PROVE CallHolds'
<1>. USE SettingsApart
<1>1. /\ m_engine' \in [ready : BOOLEAN, platform : BOOLEAN, agc1 : BOOLEAN] /\ ~m_engine'.agc1
      /\ m_in_force' \in [Call!Settings -> CallValues \cup {Call!Undone}]
  <2>1. m_engine \in CallEngines /\ m_in_force \in CallForces /\
          m_building.options \in [Call!Settings -> CallValues]
        /\ ~m_engine.agc1
    BY DEF CallHolds, CallShape, CallRecords, CallEngines, CallForces
  <2>. DEFINE opened(declines) ==
         Call!start([on |-> m_engine, force |-> m_in_force], m_building.options, declines)
  <2>2. PICK declines \in BOOLEAN :
          \/ UNCHANGED <<m_engine, m_in_force>>
          \/ /\ m_engine' = opened(declines).on
             /\ m_in_force' = opened(declines).force
    BY DEF Call!Fails
  <2>3. opened(declines).on \in CallEngines /\ ~opened(declines).on.agc1 /\
          opened(declines).force \in CallForces
    BY <2>1, StartGives
  <2>. HIDE DEF opened
  <2>. QED BY <2>1, <2>2, <2>3 DEF CallEngines, CallForces
<1>2. CallShape'
  BY <1>1 DEF Call!Fails, CallHolds, CallShape, CallOrdered, CallStages, Call!VolumesIn,
     Call!track, Call!sound, Call!Waiting, Call!NoCall, CallFlags, CallValues
<1>3. CallOrdered'
  BY DEF Call!Fails, CallHolds, CallShape, CallOrdered, Call!Waiting, Call!NoCall, Call!track,
     Call!sound
<1>4. TrackFollows' /\ CallRecords' /\ CallInForce'
  BY <1>1 DEF Call!Fails, CallHolds, CallOrdered, TrackFollows, TrackIsNeeded, CallRecords,
     CallInForce, Call!track, Call!sound
<1>5. CallCarries'
  BY DEF Call!Fails, CallHolds, CallOrdered, CallCarries, Call!NoCall, Call!track, Call!sound,
     Call!Waiting
<1>. QED BY <1>2, <1>3, <1>4, <1>5 DEF CallHolds

(* The session is there, and goes by what it was built with.               *)
LEMMA PublishesKeeps ==
  ASSUME Call!MediaSessionAssumption, CallHolds, Call!Publishes
  PROVE  CallHolds'
<1>. USE SettingsApart
<1>1. /\ m_engine' \in [ready : BOOLEAN, platform : BOOLEAN, agc1 : BOOLEAN] /\ ~m_engine'.agc1
      /\ m_in_force' \in [Call!Settings -> CallValues \cup {Call!Undone}]
      /\ \A s \in Call!Seeded : m_in_force'[s] = m_building.options[s]
      /\ \A d \in Call!Devices \cup {"muted"} : m_in_force'[d] = m_in_force[d]
      /\ ~m_silenced' => ~m_engine'.platform
  <2>1. m_engine \in CallEngines /\ m_in_force \in CallForces /\
          m_building.options \in [Call!Settings -> CallValues]
    BY DEF CallHolds, CallShape, CallEngines, CallForces
  <2>. DEFINE opened(declines) ==
         Call!start([on |-> m_engine, force |-> m_in_force], m_building.options, declines)
  <2>2. PICK declines \in BOOLEAN :
          /\ m_engine' = opened(declines).on /\ m_in_force' = opened(declines).force
          /\ m_silenced' = (m_silenced \/ (~declines /\ opened(declines).on.platform))
    BY DEF Call!Publishes
  <2>3. /\ opened(declines).on \in CallEngines /\ ~opened(declines).on.agc1
        /\ declines => ~opened(declines).on.platform
        /\ opened(declines).force \in CallForces
        /\ \A s \in Call!Seeded : opened(declines).force[s] = m_building.options[s]
        /\ \A d \in Call!Devices \cup {"muted"} : opened(declines).force[d] = m_in_force[d]
    BY <2>1, StartGives
  <2>. HIDE DEF opened
  <2>. QED BY <2>2, <2>3 DEF CallEngines, CallForces
<1>2. CallShape'
  BY <1>1 DEF Call!Publishes, CallHolds, CallShape, CallOrdered, CallStages, Call!VolumesIn,
     Call!track, Call!sound, Call!Waiting, Call!NoCall, CallFlags, CallValues
<1>3. CallOrdered'
  BY DEF Call!Publishes, CallHolds, CallShape, CallOrdered, Call!Waiting, Call!NoCall,
     Call!track, Call!sound
<1>4. TrackFollows' /\ CallRecords'
  BY <1>1 DEF Call!Publishes, CallHolds, CallOrdered, TrackFollows, TrackIsNeeded, CallRecords,
     Call!track, Call!sound
<1>5. CallCarries'
  BY DEF Call!Publishes, CallHolds, CallOrdered, CallCarries, Call!NoCall, Call!track,
     Call!sound, Call!Waiting
<1>6. CallInForce'
  BY <1>1 DEF Call!Publishes, CallHolds, CallOrdered, CallCarries, CallInForce, ToBeSaid,
     BuilderBrings, Call!Settings, Call!Later
<1>. QED BY <1>2, <1>3, <1>4, <1>5, <1>6 DEF CallHolds

(* The builder says the mute it read.                                      *)
LEMMA MutesKeeps == ASSUME Call!MediaSessionAssumption, CallHolds, Call!Mutes PROVE CallHolds'
<1>. USE SettingsApart
<1>1. /\ m_in_force' = [m_in_force EXCEPT !["muted"] = m_building.options["muted"]]
      /\ m_building' = [m_building EXCEPT !.at = "reads"]
      /\ m_building.at = "mutes" /\ m_computed["signaling"] = Call!Nothing
      /\ m_computed' = [m_computed EXCEPT !["signaling"] =
           IF m_building.options["muted"] = Call!NotSet \/ m_active THEN "TRUE" ELSE "FALSE"]
      /\ m_raced' = (m_raced \/ \E t \in Call!Threads : m_computed[t] # Call!Nothing)
  BY DEF Call!Mutes, Call!Reads
<1>2. m_building'.at = "reads" /\ m_building'.options = m_building.options
      /\ m_building' \in [at : CallStages, options : [Call!Settings -> CallValues]]
      /\ m_building.options["muted"] \in CallValues /\ "muted" \in Call!Settings
  BY <1>1 DEF CallHolds, CallShape, CallStages
<1>3. m_in_force' \in [Call!Settings -> CallValues \cup {Call!Undone}] /\
        m_in_force'["muted"] = m_building.options["muted"]
      /\ \A s \in Call!Settings \ {"muted"} : m_in_force'[s] = m_in_force[s]
  BY <1>1, <1>2 DEF CallHolds, CallShape
<1>4. m_heard' = Call!VolumesIn(m_in_force') /\
        Call!VolumesIn(m_in_force)' = Call!VolumesIn(m_in_force')
  BY <1>3 DEF Call!Mutes, CallHolds, CallShape, Call!VolumesIn, Call!sound
<1>5. CallShape'
  <2>1. m_computed' \in [Call!Threads -> {Call!Nothing, "TRUE", "FALSE"}]
    BY <1>1 DEF CallHolds, CallShape
  <2>2. m_raced' \in BOOLEAN
    BY <1>1
  <2>3. m_chosen' \in [Call!Settings -> CallValues] /\ (m_building'.at = "waits" =>
          m_building' = Call!Waiting)
    BY <1>2 DEF Call!Mutes, CallHolds, CallShape
  <2>4. DOMAIN m_heard' \subseteq Voices /\ m_heard' = Call!VolumesIn(m_in_force)'
    BY <1>4 DEF Call!Mutes, CallHolds, CallShape, Call!sound
  <2>5. UNCHANGED <<m_calling, m_hearing, m_engine, m_audio, m_enabled, m_active,
                    m_negotiated, m_recording, m_silenced, m_lost, m_changes, m_builds>>
    BY DEF Call!Mutes, Call!sound
  <2>. QED BY <1>2, <1>3, <2>1, <2>2, <2>3, <2>4, <2>5 DEF CallHolds, CallShape
<1>6. CallOrdered'
  BY <1>1, <1>2 DEF Call!Mutes, CallHolds, CallShape, CallOrdered, Call!sound
<1>7. TrackFollows'
  BY <1>1, <1>3 DEF Call!Mutes, CallHolds, CallShape, TrackFollows, TrackIsNeeded, Call!Threads,
     Call!Nothing, Call!sound
<1>8. CallRecords'
  BY DEF Call!Mutes, CallHolds, CallRecords, Call!sound
<1>9. CallCarries'
  BY <1>1, <1>2, <1>3 DEF Call!Mutes, CallHolds, CallShape, CallCarries
<1>10. CallInForce'
  BY <1>1, <1>2, <1>3 DEF Call!Mutes, CallHolds, CallShape, CallCarries, CallInForce, ToBeSaid,
     BuilderBrings, CallOrdered
<1>. QED BY <1>5, <1>6, <1>7, <1>8, <1>9, <1>10 DEF CallHolds

(* It reads the volumes and the devices.                                   *)
LEMMA ReadsLaterKeeps ==
  ASSUME Call!MediaSessionAssumption, CallHolds, Call!ReadsLater
  PROVE  CallHolds'
<1>. USE SettingsApart
<1>1. m_building' = [at |-> "applies", options |-> m_chosen] /\ m_building.at = "reads"
  BY DEF Call!ReadsLater
<1>2. CallShape'
  BY <1>1 DEF Call!ReadsLater, CallHolds, CallShape, CallStages, Call!VolumesIn, Call!track,
     Call!sound
<1>3. CallOrdered'
  BY <1>1 DEF Call!ReadsLater, CallHolds, CallShape, CallOrdered, Call!track, Call!sound
<1>4. TrackFollows' /\ CallRecords'
  BY DEF Call!ReadsLater, CallHolds, TrackFollows, TrackIsNeeded, CallRecords, Call!track,
     Call!sound
<1>5. CallCarries'
  BY <1>1 DEF Call!ReadsLater, CallHolds, CallCarries
<1>6. CallInForce'
  BY <1>1 DEF Call!ReadsLater, CallHolds, CallInForce, ToBeSaid, BuilderBrings
<1>. QED BY <1>2, <1>3, <1>4, <1>5, <1>6 DEF CallHolds

(* It says the volumes, of voices that have no track too.                  *)
LEMMA AppliesVolumesKeeps ==
  ASSUME Call!MediaSessionAssumption, CallHolds, Call!AppliesVolumes
  PROVE  CallHolds'
<1>. USE SettingsApart
<1>1. /\ m_building.at = "applies" /\ m_building' = [m_building EXCEPT !.at = "input"]
      /\ m_in_force' = [s \in Call!Settings |-> IF s \in Voices THEN m_building.options[s]
           ELSE m_in_force[s]]
      /\ m_heard' = Call!VolumesIn(m_in_force')
  BY DEF Call!AppliesVolumes
<1>2. m_building'.at = "input" /\ m_building'.options = m_building.options
      /\ m_building' \in [at : CallStages, options : [Call!Settings -> CallValues]]
      /\ m_building.options \in [Call!Settings -> CallValues]
  BY <1>1 DEF CallHolds, CallShape, CallStages
<1>3. m_in_force' \in [Call!Settings -> CallValues \cup {Call!Undone}]
      /\ \A s \in Call!Settings \ Voices : m_in_force'[s] = m_in_force[s]
      /\ \A p \in Voices : m_in_force'[p] = m_building.options[p]
  BY <1>1, <1>2 DEF CallHolds, CallShape
<1>4. DOMAIN m_heard' = DOMAIN m_heard /\
        Call!VolumesIn(m_in_force)' = Call!VolumesIn(m_in_force')
  BY <1>1 DEF Call!VolumesIn
<1>5. CallShape'
  BY <1>1, <1>2, <1>3, <1>4 DEF Call!AppliesVolumes, CallHolds, CallShape, Call!track
<1>6. CallOrdered'
  BY <1>1, <1>2, <1>4 DEF Call!AppliesVolumes, CallHolds, CallShape, CallOrdered, Call!track
<1>7. TrackFollows' /\ CallRecords'
  BY <1>3 DEF Call!AppliesVolumes, CallHolds, TrackFollows, TrackIsNeeded, CallRecords,
     Call!track
<1>8. CallCarries'
  BY <1>1, <1>2, <1>3 DEF Call!AppliesVolumes, CallHolds, CallShape, CallCarries, Call!Seeded,
     Call!TrackSettings
<1>9. CallInForce'
  <2>1. \A s \in Voices \ m_lost : m_building.options[s] = m_chosen[s]
    BY <1>1 DEF CallHolds, CallCarries
  <2>2. \A d \in Call!Devices : m_in_force'[d] = m_in_force[d] /\ (BuilderBrings(d) =>
          BuilderBrings(d)') /\ (ToBeSaid(d) <=> ToBeSaid(d)')
    BY <1>1, <1>2, <1>3 DEF Call!AppliesVolumes, BuilderBrings, ToBeSaid
  <2>3. \A s \in Call!Settings \ (Call!Devices \cup Voices) : m_in_force'[s] = m_in_force[s] /\
          (ToBeSaid(s) => ToBeSaid(s)')
    BY <1>1, <1>2, <1>3 DEF Call!AppliesVolumes, ToBeSaid
  <2>. QED BY <1>3, <2>1, <2>2, <2>3 DEF Call!AppliesVolumes, CallHolds, CallInForce
<1>. QED BY <1>5, <1>6, <1>7, <1>8, <1>9 DEF CallHolds

(* A device that is switched to, or refused.                               *)
LEMMA DeviceGives ==
  ASSUME Call!MediaSessionAssumption, CallHolds, NEW d \in Call!Devices,
         NEW value \in CallValues,
         Call!Switches(d, value) \/ Call!Refuses(d, value)
  PROVE  /\ m_in_force' \in [Call!Settings -> CallValues \cup {Call!Undone}]
         /\ \A s \in Call!Settings \ {d} : m_in_force'[s] = m_in_force[s]
         /\ m_lost' \subseteq Call!Settings /\
              \A s \in Call!Settings \ {d} : s \in m_lost' <=> s \in m_lost
         /\ d \notin m_lost' /\ m_chosen[d] # Call!NotSet => m_in_force'[d] = m_chosen[d]
         /\ m_recording' \in BOOLEAN /\ m_silenced' \in BOOLEAN
         /\ UNCHANGED <<m_recording, m_silenced>> \/ m_silenced'
<1>1. d \in Call!Settings /\ m_chosen[d] \in CallValues /\
        m_in_force \in [Call!Settings -> CallValues \cup {Call!Undone}]
      /\ m_lost \subseteq Call!Settings /\ m_recording \in BOOLEAN /\ m_silenced \in BOOLEAN
  BY SettingsApart DEF CallHolds, CallShape
<1>2. CASE Call!Switches(d, value)
  BY <1>1, <1>2 DEF Call!Switches, Call!Found, CallValues
<1>3. CASE Call!Refuses(d, value)
  <2>1. UNCHANGED m_in_force /\ m_lost' = m_lost \cup {d}
    BY <1>3 DEF Call!Refuses
  <2>2. UNCHANGED <<m_recording, m_silenced>> \/ (m_recording' = FALSE /\ m_silenced' = TRUE)
    BY <1>3 DEF Call!Refuses
  <2>. QED BY <1>1, <2>1, <2>2
<1>. QED BY <1>2, <1>3

(* It says a device, which may refuse.                                     *)
LEMMA AppliesDeviceKeeps ==
  ASSUME Call!MediaSessionAssumption, CallHolds, NEW d \in Call!Devices, Call!AppliesDevice(d)
  PROVE  CallHolds'
<1>. USE SettingsApart
<1>1. /\ m_building.at = d
      /\ m_building' = IF d = "input" THEN [m_building EXCEPT !.at = "output"] ELSE Call!Waiting
      /\ UNCHANGED <<m_chosen, m_audio, m_calling, m_engine, Call!track, m_active, m_heard,
                     m_negotiated, m_hearing, m_builds, m_changes>>
  BY DEF Call!AppliesDevice
<1>2. m_building.options[d] \in CallValues /\ d \in Call!Settings /\ d \notin Voices
  BY DEF CallHolds, CallShape
<1>3. /\ m_in_force' \in [Call!Settings -> CallValues \cup {Call!Undone}]
      /\ \A s \in Call!Settings \ {d} : m_in_force'[s] = m_in_force[s]
      /\ m_lost' \subseteq Call!Settings /\
           \A s \in Call!Settings \ {d} : s \in m_lost' <=> s \in m_lost
      /\ d \notin m_lost' /\ m_chosen[d] # Call!NotSet =>
           \/ m_in_force'[d] = m_chosen[d]
           \/ d \notin m_lost /\ m_building.options[d] = Call!NotSet /\
                m_in_force'[d] = m_in_force[d]
      /\ m_recording' \in BOOLEAN /\ m_silenced' \in BOOLEAN
      /\ UNCHANGED <<m_recording, m_silenced>> \/ m_silenced'
  <2>1. CASE m_building.options[d] = Call!NotSet /\
               UNCHANGED <<m_in_force, m_recording, m_silenced, m_lost>>
    BY <2>1 DEF CallHolds, CallShape
  <2>2. CASE Call!Switches(d, m_building.options[d]) \/ Call!Refuses(d, m_building.options[d])
    BY <2>2, <1>2, DeviceGives
  <2>. QED BY <2>1, <2>2 DEF Call!AppliesDevice
<1>4. /\ m_building' \in [at : CallStages, options : [Call!Settings -> CallValues]]
      /\ d = "input" => m_building'.at = "output" /\ m_building'.options = m_building.options
      /\ d = "output" => m_building' = Call!Waiting
      /\ Call!Waiting.at = "waits"
  BY <1>1 DEF CallHolds, CallShape, CallStages, Call!Waiting, CallValues
<1>5. CallShape'
  <2>1. Call!VolumesIn(m_in_force)' = m_heard
    BY <1>1, <1>2, <1>3 DEF CallHolds, CallShape, Call!VolumesIn, Call!Settings, Call!Later
  <2>. QED BY <1>1, <1>3, <1>4, <2>1 DEF CallHolds, CallShape, Call!track, Call!Devices
<1>6. CallOrdered'
  <2>1. m_audio /\ m_audio' /\ m_hearing'.setting # "muted"
    BY <1>1 DEF CallHolds, CallOrdered, Call!Devices
  <2>2. m_building'.at \in {"output", "waits"}
    BY <1>4 DEF Call!Devices
  <2>. QED BY <1>1, <2>1, <2>2 DEF CallOrdered
<1>7. TrackFollows'
  BY <1>1, <1>3 DEF CallHolds, TrackFollows, TrackIsNeeded, Call!track
<1>8. CallRecords'
  BY <1>1, <1>3 DEF CallHolds, CallRecords
<1>9. CallCarries'
  BY <1>1, <1>3, <1>4 DEF CallHolds, CallShape, CallCarries, Call!Devices, Call!Seeded,
     Call!TrackSettings
<1>10. CallInForce'
  <2>1. ASSUME NEW s \in Call!Settings \ (Call!Devices \cup m_lost'), m_audio, ~ToBeSaid(s)'
        PROVE  m_in_force'[s] = m_chosen[s]
    BY <1>1, <1>3, <1>4, <2>1 DEF CallHolds, CallInForce, ToBeSaid, Call!Devices
  <2>2. ASSUME NEW e \in Call!Devices \ m_lost', m_audio, m_chosen[e] # Call!NotSet,
               ~ToBeSaid(e)'
        PROVE  m_in_force'[e] = m_chosen[e] \/ BuilderBrings(e)'
    <3>1. ~ToBeSaid(e)
      <4>1. e # "muted" /\ e \notin Voices
        BY DEF Call!Devices
      <4>. QED BY <1>1, <2>2, <4>1 DEF ToBeSaid
    <3>2. CASE e = d
      BY <1>1, <1>2, <1>3, <2>2, <3>1, <3>2 DEF CallHolds, CallInForce, BuilderBrings,
         Call!Devices
    <3>3. CASE e # d
      BY <1>1, <1>3, <1>4, <2>2, <3>1, <3>3 DEF CallHolds, CallInForce, BuilderBrings,
         Call!Devices
    <3>. QED BY <3>2, <3>3
  <2>. QED BY <1>1, <2>1, <2>2 DEF CallInForce
<1>. QED BY <1>5, <1>6, <1>7, <1>8, <1>9, <1>10 DEF CallHolds

(* The first answer is set, and recording starts.                          *)
LEMMA DescriptionKeeps ==
  ASSUME Call!MediaSessionAssumption, CallHolds, Call!on_local_description_set PROVE CallHolds'
<1>1. /\ UNCHANGED <<m_chosen, m_audio, m_building, m_hearing, m_builds, m_engine, m_calling,
                     m_in_force, Call!track, m_active, m_silenced, m_heard, m_changes,
                     m_lost>>
      /\ m_negotiated' = TRUE /\ m_audio
  BY DEF Call!on_local_description_set
<1>2. m_recording' = (~m_silenced /\ (~m_engine.platform \/ DOMAIN m_heard # {}))
  BY DEF Call!on_local_description_set
<1>3. m_recording' \in BOOLEAN
  BY <1>2
<1>4. CallShape'
  BY <1>1, <1>3 DEF CallHolds, CallShape, Call!VolumesIn, Call!track
<1>5. CallOrdered' /\ TrackFollows' /\ CallCarries'
  BY <1>1 DEF CallHolds, CallOrdered, TrackFollows, TrackIsNeeded, CallCarries, Call!track
<1>6. CallRecords'
  BY <1>1, <1>2 DEF CallHolds, CallRecords
<1>7. CallInForce'
  BY <1>1 DEF CallHolds, CallInForce, ToBeSaid, BuilderBrings
<1>. QED BY <1>4, <1>5, <1>6, <1>7 DEF CallHolds

(* A who sets the track to what it read.                                *)
LEMMA SetsKeeps ==
  ASSUME Call!MediaSessionAssumption, CallHolds, NEW who \in Call!Threads, Call!Sets(who)
  PROVE  CallHolds'
<1>1. /\ UNCHANGED <<m_chosen, Call!call, m_calling, m_in_force, Call!sound, m_changes,
                     m_lost, m_raced>>
      /\ m_computed[who] # Call!Nothing /\
           m_computed' = [m_computed EXCEPT ![who] = Call!Nothing]
      /\ m_enabled' = (m_computed[who] = "TRUE")
  BY DEF Call!Sets
<1>2. m_enabled' \in BOOLEAN
  BY <1>1
<1>3. CallShape'
  BY <1>1, <1>2 DEF CallHolds, CallShape, Call!VolumesIn, Call!call, Call!sound
<1>4. CallOrdered'
  BY <1>1 DEF CallHolds, CallShape, CallOrdered, Call!call, Call!sound
<1>5. TrackFollows'
  BY <1>1 DEF CallHolds, CallShape, TrackFollows, TrackIsNeeded, Call!call, Call!sound
<1>6. CallRecords' /\ CallCarries'
  BY <1>1 DEF CallHolds, CallRecords, CallCarries, Call!call, Call!sound
<1>7. CallInForce'
  BY <1>1 DEF CallHolds, CallInForce, ToBeSaid, BuilderBrings, Call!call, Call!sound
<1>. QED BY <1>3, <1>4, <1>5, <1>6, <1>7 DEF CallHolds

(* A setting is written down, and whoever read it before is passed.        *)
LEMMA ChooseKeeps ==
  ASSUME Call!MediaSessionAssumption, CallHolds, NEW s \in Call!Settings, Call!Choose(s)
  PROVE  CallHolds'
<1>. USE SettingsApart
<1>1. /\ UNCHANGED <<Call!call, m_in_force, Call!track, Call!sound>>
      /\ m_calling = Call!NoCall /\ s # "capture" /\ m_changes < MaxChosen /\
           m_changes' = m_changes + 1
      /\ m_chosen' = [m_chosen EXCEPT ![s] = 1 - m_chosen[s]]
      /\ m_calling' = [setting |-> s, value |-> 1 - m_chosen[s], session |-> m_audio,
           told |-> FALSE]
      /\ m_lost' = IF Call!Passes(s) THEN m_lost \cup {s} ELSE m_lost
  BY DEF Call!Choose
<1>2. /\ m_chosen' \in [Call!Settings -> CallValues] /\ m_chosen'[s] = 1 - m_chosen[s] /\
           1 - m_chosen[s] \in CallValues
      /\ \A t \in Call!Settings \ {s} : m_chosen'[t] = m_chosen[t]
      /\ m_lost' \subseteq Call!Settings /\ m_lost \subseteq m_lost' /\ (Call!Passes(s) =>
           s \in m_lost')
  BY <1>1 DEF CallHolds, CallShape, CallValues, Call!NotSet
<1>3. CallShape'
  BY <1>1, <1>2 DEF CallHolds, CallShape, Call!VolumesIn, Call!call, Call!track, Call!sound,
     CallFlags, Call!MediaSessionAssumption
<1>4. CallOrdered'
  BY <1>1 DEF CallHolds, CallOrdered, Call!call, Call!track, Call!sound
<1>5. TrackFollows' /\ CallRecords'
  BY <1>1 DEF CallHolds, TrackFollows, TrackIsNeeded, CallRecords, Call!call, Call!track,
     Call!sound
<1>6. CallCarries'
  <2>1. m_hearing.session => m_hearing.setting = "muted"
    BY DEF CallHolds, CallShape, Call!NoCall
  <2>2. m_calling'.session =>
          m_calling'.setting = s /\ m_calling'.value = m_chosen'[s] /\ ~m_calling'.told
    BY <1>1, <1>2
  <2>3. ASSUME NEW t \in Call!Settings, t \notin m_lost'
               PROVE t \notin m_lost /\ (t = s => ~Call!Passes(s))
    BY <1>2, <2>3
  <2>4. m_building.at = "starts" =>
          \A t \in Call!Seeded \ m_lost' : m_building.options[t] = m_chosen'[t]
    BY <1>2, <2>3 DEF CallHolds, CallCarries, Call!Passes
  <2>5. "muted" \notin m_lost' =>
          /\ m_building.at = "mutes" => m_building.options["muted"] = m_chosen'["muted"]
          /\ m_hearing.session => m_hearing.value = m_chosen'["muted"]
    BY <1>2, <2>1, <2>3 DEF CallHolds, CallCarries, Call!Passes
  <2>6. m_building.at = "applies" =>
          \A p \in Voices \ m_lost' : m_building.options[p] = m_chosen'[p]
    BY <1>2, <2>3 DEF CallHolds, CallCarries, Call!Passes
  <2>. QED BY <1>1, <2>2, <2>4, <2>5, <2>6 DEF CallCarries, Call!call
<1>7. CallInForce'
  <2>1. m_calling.setting = "none" /\ ~m_calling.session /\ m_calling'.setting = s /\
          m_calling'.session = m_audio
    BY <1>1 DEF Call!NoCall
  <2>2. ASSUME m_audio PROVE ToBeSaid(s)'
    BY <1>1, <2>1, <2>2 DEF ToBeSaid
  <2>3. ASSUME NEW t \in Call!Settings \ {s}, ~ToBeSaid(t)' PROVE ~ToBeSaid(t)
    BY <1>1, <2>1, <2>3 DEF ToBeSaid, Call!call
  <2>4. ASSUME NEW d \in Call!Devices \ {s}, BuilderBrings(d) PROVE BuilderBrings(d)'
    BY <1>1, <1>2, <2>4 DEF BuilderBrings, Call!call
  <2>. QED BY <1>1, <1>2, <2>2, <2>3, <2>4 DEF CallHolds, CallInForce, Call!call
<1>. QED BY <1>3, <1>4, <1>5, <1>6, <1>7 DEF CallHolds

(* A quality is told before it is written down.                            *)
LEMMA QualityKeeps ==
  ASSUME Call!MediaSessionAssumption, CallHolds, Call!set_video_quality
  PROVE  CallHolds'
<1>. USE SettingsApart
<1>1. /\ UNCHANGED <<m_chosen, Call!call, m_in_force, Call!track, Call!sound, m_lost>>
      /\ m_calling = Call!NoCall /\ m_changes < MaxChosen /\ m_changes' = m_changes + 1
      /\ m_calling' = [setting |-> "capture", value |-> 1 - m_chosen["capture"],
           session |-> m_audio,
                     told |-> FALSE]
  BY DEF Call!set_video_quality
<1>2. "capture" \in Call!Settings /\ 1 - m_chosen["capture"] \in CallValues
  BY DEF CallHolds, CallShape, CallValues, Call!NotSet, Call!Seeded, Call!TrackSettings
<1>3. CallShape'
  BY <1>1, <1>2 DEF CallHolds, CallShape, Call!VolumesIn, Call!call, Call!track, Call!sound,
     CallFlags, Call!MediaSessionAssumption
<1>4. CallOrdered'
  BY <1>1 DEF CallHolds, CallOrdered, Call!call, Call!track, Call!sound
<1>5. TrackFollows' /\ CallRecords'
  BY <1>1 DEF CallHolds, TrackFollows, TrackIsNeeded, CallRecords, Call!call, Call!track,
     Call!sound
<1>6. CallCarries'
  BY <1>1 DEF CallHolds, CallCarries, Call!call
<1>7. CallInForce'
  BY <1>1 DEF CallHolds, CallInForce, ToBeSaid, BuilderBrings, Call!call, Call!NoCall
<1>. QED BY <1>3, <1>4, <1>5, <1>6, <1>7 DEF CallHolds

(* There was no session to tell.                                           *)
LEMMA NobodyKeeps ==
  ASSUME Call!MediaSessionAssumption, CallHolds, Call!TellsNobody
  PROVE  CallHolds'
<1>. USE SettingsApart
<1>1. /\ UNCHANGED <<m_chosen, Call!call, m_in_force, Call!track, Call!sound, m_changes,
                     m_lost>>
      /\ m_calling # Call!NoCall /\ ~m_calling.told /\ ~m_calling.session
      /\ m_calling' = IF m_calling.setting = "capture" THEN [m_calling EXCEPT !.told = TRUE]
           ELSE Call!NoCall
  BY DEF Call!TellsNobody, Call!Told
<1>2. \/ m_calling' = Call!NoCall /\ m_calling.setting # "capture"
      \/ /\ m_calling' \in CallFlags /\ m_calling'.setting = "capture" /\ ~m_calling'.session
         /\ m_calling.setting = "capture"
  BY <1>1 DEF CallHolds, CallShape, CallFlags
<1>3. Call!NoCall \in CallFlags /\ Call!NoCall.setting = "none" /\ ~Call!NoCall.session /\
        ~Call!NoCall.told
  BY DEF Call!NoCall, CallFlags, CallValues
<1>4. CallShape'
  BY <1>1, <1>2, <1>3 DEF CallHolds, CallShape, Call!VolumesIn, Call!call, Call!track, Call!sound
<1>5. CallOrdered'
  BY <1>1, <1>2, <1>3 DEF CallHolds, CallOrdered, Call!call, Call!track, Call!sound
<1>6. TrackFollows' /\ CallRecords'
  BY <1>1 DEF CallHolds, TrackFollows, TrackIsNeeded, CallRecords, Call!call, Call!track,
     Call!sound
<1>7. CallCarries'
  BY <1>1, <1>2, <1>3 DEF CallHolds, CallCarries, Call!call
<1>8. CallInForce'
  <2>1. ASSUME NEW t \in Call!Settings, ~ToBeSaid(t)' PROVE ~ToBeSaid(t)
    BY <1>1, <1>2, <1>3, <2>1 DEF ToBeSaid, Call!call
  <2>. QED BY <1>1, <2>1 DEF CallHolds, CallInForce, BuilderBrings, Call!call
<1>. QED BY <1>4, <1>5, <1>6, <1>7, <1>8 DEF CallHolds

(* A setting that is told, and kept in force.                              *)
LEMMA KeptGives ==
  ASSUME Call!MediaSessionAssumption, CallHolds, NEW s \in Call!Settings,
         NEW value \in CallValues,
         Call!KeptInForce(s, value)
  PROVE  /\ m_in_force' \in [Call!Settings -> CallValues \cup {Call!Undone}] /\
              m_in_force'[s] = value
         /\ \A t \in Call!Settings \ {s} : m_in_force'[t] = m_in_force[t]
         /\ DOMAIN m_heard' = DOMAIN m_heard /\ m_heard' = Call!VolumesIn(m_in_force)'
         /\ m_lost' \subseteq m_lost /\
              \A t \in Call!Settings \ {s} : t \in m_lost' <=> t \in m_lost
         /\ s \in m_lost => s \in m_lost' \/ (value = m_chosen[s] /\ Call!OnItsOwn(s))
<1>1. /\ m_in_force' = [m_in_force EXCEPT ![s] = value] /\ m_heard' = Call!VolumesIn(m_in_force')
      /\ m_lost' = IF value = m_chosen[s] /\ Call!OnItsOwn(s) THEN m_lost \ {s} ELSE m_lost
  BY DEF Call!KeptInForce
<1>2. m_in_force \in [Call!Settings -> CallValues \cup {Call!Undone}]
  BY DEF CallHolds, CallShape
<1>3. DOMAIN m_heard' = DOMAIN m_heard /\
        Call!VolumesIn(m_in_force)' = Call!VolumesIn(m_in_force')
  BY <1>1 DEF Call!VolumesIn
<1>. QED BY <1>1, <1>2, <1>3

(* apply_track_enabled, as far as it has read what is now in force.        *)
LEMMA ReadingFollows ==
  ASSUME CallHolds, NEW who \in Call!Threads,
         m_computed' = [m_computed EXCEPT ![who] = IF TrackIsNeeded' THEN "TRUE"
           ELSE "FALSE"],
         m_raced' = (m_raced \/ \E t \in Call!Threads : m_computed[t] # Call!Nothing)
  PROVE  /\ m_computed' \in [Call!Threads -> {Call!Nothing, "TRUE", "FALSE"}] /\
              m_raced' \in BOOLEAN
         /\ TrackFollows'
<1>1. m_computed \in [Call!Threads -> {Call!Nothing, "TRUE", "FALSE"}]
  BY DEF CallHolds, CallShape
<1>2. m_computed' \in [Call!Threads -> {Call!Nothing, "TRUE", "FALSE"}]
  BY <1>1
<1>3. m_raced' \in BOOLEAN
  OBVIOUS
<1>4. TrackFollows'
  BY <1>1 DEF TrackFollows, Call!Nothing
<1>. QED BY <1>2, <1>3, <1>4

(* The session is told, and goes by it from now on.                        *)
LEMMA TellsKeeps == ASSUME Call!MediaSessionAssumption, CallHolds, Call!Tells PROVE CallHolds'
<1>. USE SettingsApart
<1>1. /\ UNCHANGED <<m_chosen, m_audio, m_building, m_hearing, m_negotiated, m_builds,
                     m_engine, m_active, m_changes>>
      /\ m_calling # Call!NoCall /\ ~m_calling.told /\ m_calling.session /\ m_audio
  BY DEF Call!Tells, CallHolds, CallOrdered, Call!call
<1>2. PICK s \in Call!Settings, value \in CallValues : s = m_calling.setting /\
        value = m_calling.value
  BY <1>1 DEF CallHolds, CallShape, CallFlags
<1>3. Call!NoCall \in CallFlags /\ Call!NoCall.setting = "none" /\ ~Call!NoCall.session /\
        ~Call!NoCall.told
  BY DEF Call!NoCall, CallFlags, CallValues
<1>4. Call!Told =>
        \/ m_calling' = Call!NoCall /\ s # "capture"
        \/ /\ m_calling' \in CallFlags /\ m_calling'.setting = "capture" /\ m_calling'.session
           /\ m_calling'.value = value /\ m_calling'.told /\ s = "capture"
  <2>1. m_calling \in CallFlags /\ m_calling.setting = s /\ m_calling.value = value /\
          m_calling.session
    BY <1>1, <1>2 DEF CallHolds, CallShape
  <2>2. CASE s = "capture"
    BY <2>1, <2>2 DEF Call!Told, CallFlags
  <2>3. CASE s # "capture"
    BY <2>1, <2>3 DEF Call!Told
  <2>. QED BY <2>2, <2>3
<1>5. \/ /\ s \notin Call!Devices \cup {"muted"} /\ Call!Told /\ Call!KeptInForce(s, value)
         /\ UNCHANGED <<m_recording, m_silenced, Call!track>>
      \/ /\ s = "muted" /\ Call!Told /\ Call!KeptInForce(s, value) /\
              Call!Reads("interface", value, m_active)
         /\ UNCHANGED <<m_recording, m_silenced, m_enabled>>
      \/ /\ s \in Call!Devices /\ Call!Told /\
              (Call!Switches(s, value) \/ Call!Refuses(s, value))
         /\ UNCHANGED <<m_heard, Call!track>>
      \/ /\ s = "capture" /\ m_calling' = Call!NoCall
         /\ m_in_force' = [m_in_force EXCEPT ![s] = value] /\ m_lost' = m_lost \cup {s}
         /\ UNCHANGED <<m_recording, m_silenced, m_heard, Call!track>>
  BY <1>2 DEF Call!Tells
<1>. DEFINE KeptOf == s \notin Call!Devices \cup {"capture"}
<1>6. /\ m_in_force' \in [Call!Settings -> CallValues \cup {Call!Undone}]
      /\ \A t \in Call!Settings \ {s} : m_in_force'[t] = m_in_force[t]
      /\ m_lost' \subseteq Call!Settings /\
           \A t \in Call!Settings \ {s} : t \in m_lost' <=> t \in m_lost
      /\ DOMAIN m_heard' = DOMAIN m_heard /\ m_heard' = Call!VolumesIn(m_in_force)'
      /\ m_recording' \in BOOLEAN /\ m_silenced' \in BOOLEAN
      /\ UNCHANGED <<m_recording, m_silenced>> \/ m_silenced'
      /\ s \in Call!Devices /\ s \notin m_lost' /\ m_chosen[s] # Call!NotSet =>
           m_in_force'[s] = m_chosen[s]
      /\ KeptOf => /\ m_in_force'[s] = value
                   /\ s \in m_lost => s \in m_lost' \/ (value = m_chosen[s] /\ Call!OnItsOwn(s))
      /\ \/ m_calling' = Call!NoCall /\ (s = "capture" => s \in m_lost')
         \/ /\ m_calling' \in CallFlags /\ m_calling'.setting = "capture" /\ m_calling'.session
            /\ m_calling'.value = m_in_force'["capture"] /\ m_calling'.told /\ s = "capture"
  <2>. m_lost \subseteq Call!Settings /\ m_recording \in BOOLEAN /\ m_silenced \in BOOLEAN
       /\ m_in_force \in [Call!Settings -> CallValues \cup {Call!Undone}] /\
            m_heard = Call!VolumesIn(m_in_force)
       /\ DOMAIN m_heard \subseteq Voices
    BY DEF CallHolds, CallShape
  <2>1. CASE Call!Told /\ Call!KeptInForce(s, value) /\ UNCHANGED <<m_recording, m_silenced>> /\
               s \notin Call!Devices
    BY <2>1, <1>2, <1>4, KeptGives
  <2>2. CASE s \in Call!Devices /\ Call!Told /\
               (Call!Switches(s, value) \/ Call!Refuses(s, value)) /\ UNCHANGED m_heard
    <3>1. Call!VolumesIn(m_in_force)' = m_heard
      BY <2>2, <1>2, DeviceGives DEF Call!VolumesIn
    <3>. QED BY <2>2, <3>1, <1>2, <1>4, DeviceGives DEF Call!Devices
  <2>3. CASE /\ s = "capture" /\ m_calling' = Call!NoCall
             /\ m_in_force' = [m_in_force EXCEPT ![s] = value] /\ m_lost' = m_lost \cup {s}
             /\ UNCHANGED <<m_recording, m_silenced, m_heard>>
    <3>1. Call!VolumesIn(m_in_force)' = m_heard
      BY <2>3, <1>2 DEF Call!VolumesIn, Call!Seeded, Call!TrackSettings
    <3>. QED BY <2>3, <3>1, <1>2 DEF Call!Devices
  <2>. QED BY <1>5, <2>1, <2>2, <2>3 DEF Call!Devices
<1>7. /\ m_computed' \in [Call!Threads -> {Call!Nothing, "TRUE", "FALSE"}] /\
           m_raced' \in BOOLEAN
      /\ m_enabled' = m_enabled /\ TrackFollows'
  <2>1. CASE UNCHANGED (Call!track) /\ s # "muted"
    BY <2>1, <1>1, <1>6 DEF CallHolds, CallShape, TrackFollows, TrackIsNeeded, Call!track
  <2>2. CASE s = "muted" /\ Call!Reads("interface", value, m_active) /\ UNCHANGED m_enabled
    <3>1. TrackIsNeeded' <=> (value = Call!NotSet \/ m_active)
      BY <2>2, <1>1, <1>6 DEF TrackIsNeeded, Call!Devices
    <3>2. "interface" \in Call!Threads
      BY DEF Call!Threads
    <3>3. m_computed' = [m_computed EXCEPT !["interface"] = IF TrackIsNeeded' THEN "TRUE"
            ELSE "FALSE"]
      BY <2>2, <3>1 DEF Call!Reads
    <3>4. m_raced' = (m_raced \/ \E t \in Call!Threads : m_computed[t] # Call!Nothing)
      BY <2>2 DEF Call!Reads
    <3>. QED BY <2>2, <3>2, <3>3, <3>4, ReadingFollows
  <2>. QED BY <1>5, <2>1, <2>2 DEF Call!Devices, Call!track
<1>8. ASSUME s \notin m_lost', s \notin Call!Devices \cup {"capture"}
      PROVE  m_in_force'[s] = m_chosen[s]
  BY <1>1, <1>2, <1>6, <1>8 DEF CallHolds, CallCarries
<1>9. CallShape'
  BY <1>1, <1>2, <1>3, <1>6, <1>7 DEF CallHolds, CallShape
<1>10. CallOrdered'
  BY <1>1, <1>6 DEF CallHolds, CallOrdered
<1>11. CallRecords'
  BY <1>1, <1>6 DEF CallHolds, CallRecords
<1>12. CallCarries'
  <2>1. m_building.at # "waits" => ~Call!OnItsOwn(s)
    BY DEF Call!OnItsOwn, Call!Waiting
  <2>2. m_hearing.session /\ s = "muted" => ~Call!OnItsOwn(s)
    BY <1>2 DEF Call!OnItsOwn, CallHolds, CallShape, Call!NoCall
  <2>3. ASSUME NEW t \in Call!Settings \ (Call!Devices \cup m_lost'), t # s \/ ~Call!OnItsOwn(s)
               PROVE t \notin m_lost \/ t = "capture"
    BY <1>6, <2>3
  <2>4. m_calling'.session =>
          m_calling'.setting = "capture" /\ m_calling'.value = m_in_force'["capture"]
    BY <1>3, <1>6
  <2>5. m_hearing.session /\ "muted" \notin m_lost' => m_hearing.value = m_chosen["muted"]
    BY <2>2, <2>3 DEF CallHolds, CallCarries
  <2>6. m_building.at = "mutes" /\ "muted" \notin m_lost' =>
          m_building.options["muted"] = m_chosen["muted"]
    BY <2>1, <2>3 DEF CallHolds, CallCarries
  <2>7. m_building.at = "applies" =>
          \A p \in Voices \ m_lost' : m_building.options[p] = m_chosen[p]
    BY <2>1, <2>3 DEF CallHolds, CallCarries, Call!Seeded, Call!TrackSettings
  <2>8. m_building.at # "starts"
    BY <1>1 DEF CallHolds, CallOrdered
  <2>. QED BY <1>1, <2>4, <2>5, <2>6, <2>7, <2>8 DEF CallCarries
<1>13. CallInForce'
  <2>1. ASSUME NEW t \in Call!Settings \ {s} PROVE ToBeSaid(t)' <=> ToBeSaid(t)
    BY <1>1, <1>2, <1>3, <1>6 DEF ToBeSaid
  <2>2. ASSUME NEW t \in Call!Settings \ (Call!Devices \cup m_lost'), ~ToBeSaid(t)'
        PROVE  m_in_force'[t] = m_chosen[t]
    <3>1. CASE t # s
      BY <1>1, <1>6, <2>1, <2>2, <3>1 DEF CallHolds, CallInForce
    <3>2. CASE t = s /\ s # "capture"
      BY <1>8, <2>2, <3>2
    <3>3. CASE t = s /\ s = "capture"
      BY <1>6, <2>2, <3>3 DEF ToBeSaid
    <3>. QED BY <3>1, <3>2, <3>3
  <2>3. ASSUME NEW d \in Call!Devices \ m_lost', m_chosen[d] # Call!NotSet, ~ToBeSaid(d)'
        PROVE  m_in_force'[d] = m_chosen[d] \/ BuilderBrings(d)'
    <3>1. CASE d # s
      BY <1>1, <1>6, <2>1, <2>3, <3>1 DEF CallHolds, CallInForce, BuilderBrings
    <3>2. CASE d = s
      BY <1>6, <2>3, <3>2
    <3>. QED BY <3>1, <3>2
  <2>. QED BY <1>1, <2>2, <2>3 DEF CallInForce
<1>. QED BY <1>7, <1>9, <1>10, <1>11, <1>12, <1>13 DEF CallHolds

(* A mute comes from the server and is written down.                       *)
LEMMA HearsKeeps ==
  ASSUME Call!MediaSessionAssumption, CallHolds, NEW value \in CallValues,
         Call!HearsOfMute(value)
  PROVE  CallHolds'
<1>. USE SettingsApart
<1>1. /\ UNCHANGED <<m_audio, m_building, m_negotiated, m_builds, m_engine, m_calling,
                     m_in_force, Call!track, Call!sound>>
      /\ m_hearing = Call!NoCall /\ m_building = Call!Waiting /\ m_changes < MaxChosen /\
           m_changes' = m_changes + 1
      /\ m_chosen' = [m_chosen EXCEPT !["muted"] = value]
      /\ m_hearing' = [setting |-> "muted", value |-> value, session |-> m_audio, told |-> FALSE]
      /\ m_lost' = IF Call!Passes("muted") THEN m_lost \cup {"muted"} ELSE m_lost
  BY DEF Call!HearsOfMute
<1>2. /\ m_chosen' \in [Call!Settings -> CallValues] /\ m_chosen'["muted"] = value
      /\ \A t \in Call!Settings \ {"muted"} : m_chosen'[t] = m_chosen[t]
      /\ m_lost' \subseteq Call!Settings /\ m_lost \subseteq m_lost'
      /\ m_calling.setting = "muted" => "muted" \in m_lost'
      /\ m_building.at = "waits"
  BY <1>1 DEF CallHolds, CallShape, Call!Passes, Call!Waiting
<1>3. CallShape'
  BY <1>1, <1>2 DEF CallHolds, CallShape, Call!VolumesIn, Call!track, Call!sound, CallFlags,
     Call!MediaSessionAssumption
<1>4. CallOrdered'
  BY <1>1, <1>2 DEF CallHolds, CallOrdered, Call!track, Call!sound
<1>5. TrackFollows' /\ CallRecords'
  BY <1>1 DEF CallHolds, TrackFollows, TrackIsNeeded, CallRecords, Call!track, Call!sound
<1>6. CallCarries'
  <2>1. m_calling.session => m_calling.setting \in Call!Settings
    BY DEF CallHolds, CallShape, CallFlags, Call!NoCall
  <2>. QED BY <1>1, <1>2, <2>1 DEF CallHolds, CallCarries
<1>7. CallInForce'
  <2>1. m_hearing.setting = "none" /\ m_hearing'.setting = "muted" /\
          m_hearing'.session = m_audio
    BY <1>1 DEF Call!NoCall
  <2>2. m_audio => ToBeSaid("muted")'
    BY <1>1, <2>1 DEF ToBeSaid
  <2>3. ASSUME NEW t \in Call!Settings \ {"muted"}, ~ToBeSaid(t)' PROVE ~ToBeSaid(t)
    BY <1>1, <2>1, <2>3 DEF ToBeSaid
  <2>4. ASSUME NEW d \in Call!Devices, BuilderBrings(d) PROVE BuilderBrings(d)'
    BY <1>1, <1>2, <2>4 DEF BuilderBrings
  <2>. QED BY <1>1, <1>2, <2>2, <2>3, <2>4 DEF CallHolds, CallInForce
<1>. QED BY <1>3, <1>4, <1>5, <1>6, <1>7 DEF CallHolds

(* And the session is told of it.                                          *)
LEMMA MutesAsHeardKeeps ==
  ASSUME Call!MediaSessionAssumption, CallHolds, Call!MutesAsHeard
  PROVE  CallHolds'
<1>. USE SettingsApart
<1>1. /\ UNCHANGED <<m_chosen, m_audio, m_building, m_negotiated, m_builds, m_engine,
                     m_calling, m_active, m_recording, m_silenced, m_changes>>
      /\ m_hearing # Call!NoCall /\ m_hearing' = Call!NoCall
      /\ m_hearing.setting = "muted" /\ m_building.at = "waits" /\ m_hearing.value \in CallValues
      /\ Call!NoCall \in CallFlags /\ Call!NoCall.setting = "none" /\ ~Call!NoCall.session
  BY DEF Call!MutesAsHeard, CallHolds, CallShape, CallOrdered, CallFlags, Call!NoCall, CallValues
<1>2. CASE ~m_hearing.session /\ UNCHANGED <<m_in_force, m_heard, m_lost, Call!track>>
  <2>1. CallShape'
    BY <1>1, <1>2 DEF CallHolds, CallShape, Call!VolumesIn, Call!track
  <2>2. CallOrdered' /\ TrackFollows' /\ CallRecords' /\ CallCarries'
    BY <1>1, <1>2 DEF CallHolds, CallOrdered, TrackFollows, TrackIsNeeded, CallRecords,
       CallCarries, Call!track
  <2>3. CallInForce'
    BY <1>1, <1>2 DEF CallHolds, CallInForce, ToBeSaid, BuilderBrings
  <2>. QED BY <2>1, <2>2, <2>3 DEF CallHolds
<1>3. CASE /\ m_hearing.session /\ Call!KeptInForce("muted", m_hearing.value)
           /\ Call!Reads("signaling", m_hearing.value, m_active) /\ UNCHANGED m_enabled
  <2>1. m_audio /\ "muted" \in Call!Settings
    BY <1>3 DEF CallHolds, CallOrdered
  <2>2. /\ m_in_force' \in [Call!Settings -> CallValues \cup {Call!Undone}] /\
             m_in_force'["muted"] = m_hearing.value
        /\ \A t \in Call!Settings \ {"muted"} : m_in_force'[t] = m_in_force[t]
        /\ DOMAIN m_heard' = DOMAIN m_heard /\ m_heard' = Call!VolumesIn(m_in_force)'
        /\ m_lost' \subseteq m_lost /\
             \A t \in Call!Settings \ {"muted"} : t \in m_lost' <=> t \in m_lost
        /\ "muted" \in m_lost =>
             "muted" \in m_lost' \/ (m_hearing.value = m_chosen["muted"] /\
               Call!OnItsOwn("muted"))
    BY <1>1, <1>3, <2>1, KeptGives
  <2>3. TrackIsNeeded' <=> (m_hearing.value = Call!NotSet \/ m_active)
    BY <1>1, <2>2 DEF TrackIsNeeded
  <2>4. m_computed' = [m_computed EXCEPT !["signaling"] = IF TrackIsNeeded' THEN "TRUE"
          ELSE "FALSE"]
    BY <1>3, <2>3 DEF Call!Reads
  <2>5. m_raced' = (m_raced \/ \E t \in Call!Threads : m_computed[t] # Call!Nothing)
    BY <1>3 DEF Call!Reads
  <2>6. /\ m_computed' \in [Call!Threads -> {Call!Nothing, "TRUE", "FALSE"}] /\
             m_raced' \in BOOLEAN
        /\ TrackFollows'
    BY <2>4, <2>5, ReadingFollows DEF Call!Threads
  <2>7. CallShape'
    BY <1>1, <1>3, <2>2, <2>6 DEF CallHolds, CallShape
  <2>8. CallOrdered' /\ CallRecords'
    BY <1>1, <1>3, <2>1, <2>2 DEF CallHolds, CallOrdered, CallRecords
  <2>9. "muted" \notin m_lost' => m_hearing.value = m_chosen["muted"]
    BY <1>3, <2>2 DEF CallHolds, CallCarries
  <2>10. "muted" \notin m_lost' /\ m_calling.session /\ m_calling.setting = "muted" =>
           "muted" \notin m_lost
    BY <1>1, <2>2 DEF Call!OnItsOwn
  <2>11. CallCarries'
    <3>1. "capture" \in Call!Settings
      BY DEF Call!Seeded, Call!TrackSettings
    <3>. QED BY <1>1, <2>2, <2>10, <3>1 DEF CallHolds, CallCarries
  <2>12. CallInForce'
    <3>1. ASSUME NEW t \in Call!Settings \ {"muted"} PROVE ToBeSaid(t)' <=> ToBeSaid(t)
      BY <1>1 DEF ToBeSaid
    <3>2. ASSUME NEW d \in Call!Devices, BuilderBrings(d) PROVE BuilderBrings(d)'
      BY <1>1, <3>2 DEF BuilderBrings
    <3>. QED BY <1>1, <2>2, <2>9, <3>1, <3>2 DEF CallHolds, CallInForce
  <2>. QED BY <2>6, <2>7, <2>8, <2>11, <2>12 DEF CallHolds
<1>. QED BY <1>2, <1>3 DEF Call!MutesAsHeard

(* The quality that was told is written down.                              *)
LEMMA KeepsKeeps == ASSUME Call!MediaSessionAssumption, CallHolds, Call!Keeps PROVE CallHolds'
<1>. USE SettingsApart
<1>1. /\ UNCHANGED <<Call!call, m_in_force, Call!track, Call!sound, m_changes>>
      /\ m_calling.told /\ m_calling' = Call!NoCall /\ m_calling.setting = "capture"
      /\ m_calling.value \in CallValues /\ "capture" \in Call!Settings
      /\ m_chosen' = [m_chosen EXCEPT !["capture"] = m_calling.value]
      /\ m_lost' = IF m_calling.session THEN m_lost \ {"capture"}
                 ELSE IF m_audio \/ m_building # Call!Waiting THEN m_lost \cup {"capture"}
                   ELSE m_lost
      /\ Call!NoCall \in CallFlags /\ Call!NoCall.setting = "none" /\ ~Call!NoCall.session /\
           ~Call!NoCall.told
  BY DEF Call!Keeps, CallHolds, CallShape, CallFlags, Call!NoCall, CallValues, Call!Seeded,
     Call!TrackSettings
<1>2. /\ m_chosen' \in [Call!Settings -> CallValues] /\ m_chosen'["capture"] = m_calling.value
      /\ \A t \in Call!Settings \ {"capture"} : m_chosen'[t] = m_chosen[t] /\
           (t \in m_lost' <=> t \in m_lost)
      /\ m_lost' \subseteq Call!Settings
      /\ ~m_calling.session /\ (m_audio \/ m_building # Call!Waiting) => "capture" \in m_lost'
  BY <1>1 DEF CallHolds, CallShape
<1>3. m_calling.session => m_audio /\ m_in_force["capture"] = m_calling.value
  BY <1>1 DEF CallHolds, CallOrdered, CallCarries
<1>4. m_building.at = "starts" => "capture" \in m_lost'
  BY <1>2, <1>3 DEF CallHolds, CallOrdered, Call!Waiting
<1>5. CallShape'
  BY <1>1, <1>2 DEF CallHolds, CallShape, Call!VolumesIn, Call!call, Call!track, Call!sound
<1>6. CallOrdered'
  BY <1>1 DEF CallHolds, CallOrdered, Call!call, Call!track, Call!sound
<1>7. TrackFollows' /\ CallRecords'
  BY <1>1 DEF CallHolds, TrackFollows, TrackIsNeeded, CallRecords, Call!call, Call!track,
     Call!sound
<1>8. CallCarries'
  <2>1. "capture" \notin Voices /\ "capture" # "muted" /\ "muted" \in Call!Settings
    BY <1>1 DEF Call!Seeded, Call!TrackSettings
  <2>2. m_building.at = "starts" =>
          \A t \in Call!Seeded \ m_lost' : m_building.options[t] = m_chosen'[t]
    BY <1>2, <1>4 DEF CallHolds, CallCarries
  <2>3. m_building.at = "applies" =>
          \A p \in Voices \ m_lost' : m_building.options[p] = m_chosen'[p]
    BY <1>2, <2>1 DEF CallHolds, CallCarries
  <2>. QED BY <1>1, <1>2, <2>1, <2>2, <2>3 DEF CallHolds, CallCarries, Call!call
<1>9. CallInForce'
  <2>1. ASSUME NEW t \in Call!Settings \ {"capture"} PROVE ToBeSaid(t)' <=> ToBeSaid(t)
    BY <1>1 DEF ToBeSaid, Call!call
  <2>2. ASSUME NEW d \in Call!Devices
               PROVE (BuilderBrings(d) => BuilderBrings(d)') /\ d # "capture"
    BY <1>1, <1>2 DEF BuilderBrings, Call!call, Call!Devices
  <2>3. m_audio /\ "capture" \notin m_lost' => m_in_force'["capture"] = m_chosen'["capture"]
    BY <1>1, <1>2, <1>3
  <2>. QED BY <1>1, <1>2, <2>1, <2>2, <2>3 DEF CallHolds, CallInForce, Call!call
<1>. QED BY <1>5, <1>6, <1>7, <1>8, <1>9 DEF CallHolds

(* The sound of a share starts or stops, and with it the need of a track.  *)
LEMMA MixesKeeps ==
  ASSUME Call!MediaSessionAssumption, CallHolds, NEW who \in Call!Threads, NEW on \in BOOLEAN,
         Call!Mixes(who, on)
  PROVE  CallHolds'
<1>1. /\ UNCHANGED <<m_chosen, Call!call, m_calling, m_in_force, m_enabled, m_recording,
                     m_silenced, m_heard, m_changes, m_lost>>
      /\ m_audio /\ m_active' = on
  BY DEF Call!Mixes
<1>2. TrackIsNeeded' <=> (m_in_force["muted"] = Call!NotSet \/ on)
  BY <1>1 DEF TrackIsNeeded
<1>3. m_computed' = [m_computed EXCEPT ![who] = IF TrackIsNeeded' THEN "TRUE" ELSE "FALSE"]
  BY <1>2 DEF Call!Mixes, Call!Reads
<1>4. m_raced' = (m_raced \/ \E t \in Call!Threads : m_computed[t] # Call!Nothing)
  BY DEF Call!Mixes, Call!Reads
<1>5. /\ m_computed' \in [Call!Threads -> {Call!Nothing, "TRUE", "FALSE"}] /\
           m_raced' \in BOOLEAN
      /\ TrackFollows'
  BY <1>3, <1>4, ReadingFollows
<1>6. CallShape'
  BY <1>1, <1>5 DEF CallHolds, CallShape, Call!VolumesIn, Call!call
<1>7. CallOrdered' /\ CallRecords' /\ CallCarries'
  BY <1>1 DEF CallHolds, CallOrdered, CallRecords, CallCarries, Call!call
<1>8. CallInForce'
  BY <1>1 DEF CallHolds, CallInForce, ToBeSaid, BuilderBrings, Call!call
<1>. QED BY <1>5, <1>6, <1>7, <1>8 DEF CallHolds

(* A capture fails: no more is needed of the track than before.            *)
LEMMA FailureKeeps ==
  ASSUME Call!MediaSessionAssumption, CallHolds, Call!note_failure
  PROVE  CallHolds'
<1>1. /\ UNCHANGED <<m_chosen, Call!call, m_calling, m_in_force, Call!track, m_recording,
                     m_silenced, m_heard, m_changes, m_lost>>
      /\ m_active' = FALSE
  BY DEF Call!note_failure
<1>2. CallShape'
  <2>1. m_active' \in BOOLEAN
    BY <1>1
  <2>2. Call!VolumesIn(m_in_force)' = Call!VolumesIn(m_in_force)
    BY <1>1 DEF Call!VolumesIn
  <2>3. UNCHANGED <<m_audio, m_building, m_hearing, m_negotiated, m_builds, m_engine,
                    m_enabled, m_computed, m_raced>>
    BY <1>1 DEF Call!call, Call!track
  <2>. QED BY <1>1, <2>1, <2>2, <2>3 DEF CallHolds, CallShape
<1>3. CallOrdered' /\ TrackFollows' /\ CallRecords' /\ CallCarries'
  BY <1>1 DEF CallHolds, CallOrdered, TrackFollows, TrackIsNeeded, CallRecords, CallCarries,
     Call!call, Call!track
<1>4. CallInForce'
  BY <1>1 DEF CallHolds, CallInForce, ToBeSaid, BuilderBrings, Call!call
<1>. QED BY <1>2, <1>3, <1>4 DEF CallHolds

(* A voice comes with the volume in force, or goes.                        *)
LEMMA TracksKeep ==
  ASSUME Call!MediaSessionAssumption, CallHolds, NEW p \in Voices,
         Call!OnTrack(p) \/ Call!OnRemoveTrack(p)
  PROVE  CallHolds'
<1>1. /\ UNCHANGED <<m_chosen, Call!call, m_calling, m_in_force, Call!track, m_active,
                     m_recording, m_silenced, m_changes, m_lost>>
      /\ m_audio
  BY DEF Call!OnTrack, Call!OnRemoveTrack, CallHolds, CallOrdered
<1>2. DOMAIN m_heard' \subseteq Voices /\ m_heard' = Call!VolumesIn(m_in_force)'
  <2>1. DOMAIN m_heard \subseteq Voices /\ m_heard = [q \in DOMAIN m_heard |-> m_in_force[q]]
    BY DEF CallHolds, CallShape, Call!VolumesIn
  <2>2. CASE Call!OnTrack(p)
    <3>1. m_heard' = [q \in DOMAIN m_heard \cup {p} |-> IF q = p THEN m_in_force[p]
            ELSE m_heard[q]]
      BY <2>2 DEF Call!OnTrack
    <3>2. DOMAIN m_heard' = DOMAIN m_heard \cup {p} /\
            \A q \in DOMAIN m_heard' : m_heard'[q] = m_in_force[q]
      BY <2>1, <3>1
    <3>3. m_heard' = [q \in DOMAIN m_heard' |-> m_in_force[q]]
      BY <3>1, <3>2
    <3>. QED BY <1>1, <2>1, <3>2, <3>3 DEF Call!VolumesIn
  <2>3. CASE Call!OnRemoveTrack(p)
    <3>1. m_heard' = [q \in DOMAIN m_heard \ {p} |-> m_heard[q]]
      BY <2>3 DEF Call!OnRemoveTrack
    <3>2. DOMAIN m_heard' = DOMAIN m_heard \ {p} /\
            \A q \in DOMAIN m_heard' : m_heard'[q] = m_in_force[q]
      BY <2>1, <3>1
    <3>3. m_heard' = [q \in DOMAIN m_heard' |-> m_in_force[q]]
      BY <3>1, <3>2
    <3>. QED BY <1>1, <2>1, <3>2, <3>3 DEF Call!VolumesIn
  <2>. QED BY <2>2, <2>3
<1>3. CallShape'
  BY <1>1, <1>2 DEF CallHolds, CallShape, Call!call, Call!track
<1>4. CallOrdered' /\ TrackFollows' /\ CallRecords' /\ CallCarries'
  BY <1>1 DEF CallHolds, CallOrdered, TrackFollows, TrackIsNeeded, CallRecords, CallCarries,
     Call!call, Call!track
<1>5. CallInForce'
  BY <1>1 DEF CallHolds, CallInForce, ToBeSaid, BuilderBrings, Call!call
<1>. QED BY <1>3, <1>4, <1>5 DEF CallHolds

(* The session is taken down.                                              *)
LEMMA CloseKeeps ==
  ASSUME Call!MediaSessionAssumption, CallHolds, NEW leaving \in BOOLEAN, Call!close(leaving)
  PROVE  CallHolds'
<1>. USE SettingsApart
<1>1. /\ UNCHANGED <<m_building, m_hearing, m_builds, m_engine, m_calling, m_in_force,
                     m_computed, m_changes>>
      /\ m_building = Call!Waiting /\ m_calling = Call!NoCall /\ m_hearing = Call!NoCall
      /\ \A t \in Call!Threads : m_computed[t] = Call!Nothing
      /\ m_audio' = FALSE /\ m_active' = FALSE /\ m_enabled' = FALSE /\ m_negotiated' = FALSE
      /\ m_recording' = FALSE /\ m_heard' = [p \in {} |-> Call!NotSet]
      /\ m_lost' = {} /\ m_raced' = FALSE /\ m_silenced' = FALSE
  BY DEF Call!close
<1>2. m_chosen' \in [Call!Settings -> CallValues]
  BY DEF Call!close, CallHolds, CallShape, CallValues
<1>3. DOMAIN m_heard' = {} /\ m_heard' = Call!VolumesIn(m_in_force)'
  <2>1. DOMAIN m_heard' = {}
    BY <1>1
  <2>2. Call!VolumesIn(m_in_force)' = [p \in {} |-> m_in_force'[p]]
    BY <2>1 DEF Call!VolumesIn
  <2>. QED BY <1>1, <2>1, <2>2
<1>4. CallShape'
  BY <1>1, <1>2, <1>3 DEF CallHolds, CallShape
<1>5. CallOrdered' /\ TrackFollows' /\ CallRecords' /\ CallInForce'
  BY <1>1, <1>3 DEF CallHolds, CallOrdered, TrackFollows, CallRecords, CallInForce,
     Call!Waiting, Call!NoCall
<1>6. CallCarries'
  BY <1>1 DEF CallHolds, CallCarries, Call!Waiting, Call!NoCall
<1>. QED BY <1>4, <1>5, <1>6 DEF CallHolds

(* Any step.                                                               *)
LEMMA CallHoldsOn ==
  ASSUME Call!MediaSessionAssumption, CallHolds, [Call!Next]_(Call!vars)
  PROVE  CallHolds'
<1>1. CASE UNCHANGED (Call!vars)
  <2>1. CallShape'
    BY <1>1 DEF CallHolds, CallShape, Call!VolumesIn, Call!vars
  <2>2. CallOrdered' /\ TrackFollows' /\ CallRecords' /\ CallCarries'
    BY <1>1 DEF CallHolds, CallOrdered, TrackFollows, TrackIsNeeded, CallRecords, CallCarries,
       Call!vars
  <2>3. CallInForce'
    BY <1>1 DEF CallHolds, CallInForce, ToBeSaid, BuilderBrings, Call!vars
  <2>. QED BY <2>1, <2>2, <2>3 DEF CallHolds
<1>2. ASSUME NEW device \in Call!Devices, Call!AppliesDevice(device) PROVE CallHolds'
  BY <1>2, AppliesDeviceKeeps
<1>3. ASSUME NEW value \in {Call!NotSet, 1}, Call!HearsOfMute(value) PROVE CallHolds'
  BY <1>3, HearsKeeps DEF CallValues
<1>4. ASSUME NEW leaving \in BOOLEAN, Call!close(leaving) PROVE CallHolds'
  BY <1>4, CloseKeeps
<1>5. ASSUME NEW s \in Call!Settings, Call!Choose(s) PROVE CallHolds'
  BY <1>5, ChooseKeeps
<1>6. ASSUME NEW t \in Call!Threads, Call!Sets(t) PROVE CallHolds'
  BY <1>6, SetsKeeps
<1>7. ASSUME NEW p \in Voices, Call!OnTrack(p) \/ Call!OnRemoveTrack(p) PROVE CallHolds'
  BY <1>7, TracksKeep
<1>8. CASE Call!start_screen_audio \/ Call!stop_screen_audio
  <2>1. \E t \in Call!Threads, on \in BOOLEAN : Call!Mixes(t, on)
    BY <1>8 DEF Call!start_screen_audio, Call!stop_screen_audio, Call!Threads
  <2>. QED BY <2>1, MixesKeeps
<1>. QED
  BY <1>1, <1>2, <1>3, <1>4, <1>5, <1>6, <1>7, <1>8, OfferKeeps, FailsKeeps, PublishesKeeps,
     MutesKeeps, ReadsLaterKeeps, AppliesVolumesKeeps, MutesAsHeardKeeps, DescriptionKeeps,
     QualityKeeps, NobodyKeeps, TellsKeeps, KeepsKeeps, FailureKeeps
     DEF Call!Next

(* With nothing under way, nothing is pending.                             *)
LEMMA SettledCallAgrees ==
  ASSUME Call!MediaSessionAssumption, CallHolds
  PROVE  Call!CallRunsAsChosen
<1>. USE SettingsApart
<1>. SUFFICES ASSUME Call!Settled
     PROVE  /\ \A s \in Call!Settings \ (m_lost \cup Call!Stuck) : m_in_force[s] = m_chosen[s]
            /\ \A p \in DOMAIN m_heard \ m_lost : m_heard[p] = m_chosen[p]
            /\ "muted" \notin m_lost /\ m_chosen["muted"] # Call!NotSet => ~Call!VoiceLeaves
            /\ ~m_raced /\ "muted" \notin m_lost /\
                 (m_chosen["muted"] = Call!NotSet \/ m_active) => m_enabled
            /\ ~m_engine.agc1
            /\ m_negotiated /\ ~m_silenced => m_recording
  BY DEF Call!CallRunsAsChosen
<1>1. m_audio /\ m_building = Call!Waiting /\ m_calling = Call!NoCall /\ m_hearing = Call!NoCall
      /\ \A t \in Call!Threads : m_computed[t] = Call!Nothing
  BY DEF Call!Settled
<1>2. m_building.at = "waits" /\ \A s \in Call!Settings : ~ToBeSaid(s)
  BY <1>1 DEF ToBeSaid, Call!Waiting, Call!NoCall
<1>3. \A s \in Call!Settings \ (m_lost \cup Call!Stuck) : m_in_force[s] = m_chosen[s]
  BY <1>1, <1>2 DEF CallHolds, CallInForce, BuilderBrings, Call!Stuck
<1>4. DOMAIN m_heard \subseteq Voices /\ \A p \in DOMAIN m_heard : m_heard[p] = m_in_force[p]
  BY DEF CallHolds, CallShape, Call!VolumesIn
<1>5. "muted" \notin m_lost => m_in_force["muted"] = m_chosen["muted"]
  BY <1>3 DEF Call!Stuck
<1>6. \A p \in DOMAIN m_heard \ m_lost : m_heard[p] = m_chosen[p]
  BY <1>3, <1>4 DEF Call!Stuck
<1>. QED BY <1>1, <1>3, <1>5, <1>6 DEF CallHolds, TrackFollows, TrackIsNeeded, CallRecords,
       Call!VoiceLeaves

(* CallSession's settings and the media session, for any voices, any       *)
(* number of changes and of sessions built: the types hold.                *)
THEOREM CallsAreTyped == ASSUME Call!MediaSessionAssumption PROVE Call!Spec => []Call!TypeOK
<1>1. Call!Init => CallHolds
  BY CallHoldsAtFirst
<1>2. CallHolds /\ [Call!Next]_(Call!vars) => CallHolds'
  BY CallHoldsOn
<1>3. CallHolds => Call!TypeOK
  BY DEF CallHolds, CallShape, Call!TypeOK, CallFlags, CallStages, CallValues, Call!Devices
<1>. QED BY <1>1, <1>2, <1>3, PTL DEF Call!Spec

(* ensure_media_session, the setters of the interface and the mutes the    *)
(* server sends: once nothing is under way, the call runs with what was    *)
(* chosen, whatever crossed what, but for a change that went past the      *)
(* builder or a device that refused.                                       *)
THEOREM CallsRunAsChosen ==
  ASSUME Call!MediaSessionAssumption
  PROVE  Call!Spec => []Call!CallRunsAsChosen
<1>1. Call!Init => CallHolds
  BY CallHoldsAtFirst
<1>2. CallHolds /\ [Call!Next]_(Call!vars) => CallHolds'
  BY CallHoldsOn
<1>3. CallHolds => Call!CallRunsAsChosen
  BY SettledCallAgrees
<1>. QED BY <1>1, <1>2, <1>3, PTL DEF Call!Spec
-----------------------------------------------------------------------------
(* The encoder of the pictures that are captured.                          *)
CONSTANTS Machines, Openings, Rates, MaxFrames, MaxSessions, MaxLost, Depth     \* Encoder's

VARIABLES
  e_made, e_at, e_session, e_card, e_transform, e_queued, e_requests, e_metadata, e_hand,
  e_event, e_frames, e_out, e_lost, e_told, e_sessions, e_refused

Pictures == INSTANCE Encoder WITH
  made <- e_made, at <- e_at, session <- e_session, card <- e_card,
  transform <- e_transform, queued <- e_queued, requests <- e_requests,
  metadata <- e_metadata, hand <- e_hand, event <- e_event, frames <- e_frames,
  out <- e_out, lost <- e_lost, told <- e_told, sessions <- e_sessions,
  refused <- e_refused

(* Numbers that rise, how often something is in a sequence, and what all   *)
(* comes before something else.                                            *)
Rising(s) == \A i, j \in DOMAIN s : i < j => s[i] < s[j]
Occurrences(s, x) == Cardinality({i \in DOMAIN s : s[i] = x})
AllBefore(S, T) == \A x \in S, y \in T : x < y

(* Where a frame that has been taken may be, and all that are on their     *)
(* way.                                                                    *)
OnItsWayOut == IF e_event.doing = "delivers" THEN {e_event.frame} ELSE {}
OnItsWayIn == IF e_event.doing = "feeds" THEN {e_event.frame} ELSE {}
InAHand == IF e_hand = Pictures!NoFrame THEN {} ELSE {e_hand}
InTransform == Pictures!ToSet(e_transform.inside)
InQueue == Pictures!ToSet(e_queued)
InTheLine == OnItsWayOut \cup InTransform \cup OnItsWayIn \cup InAHand \cup InQueue

(* Every variable of the line has its type.                                *)
Sayings == {"need", "have", "error"}
LineTyped ==
  /\ e_transform \in [asked : Nat, inside : Seq(Nat), ready : Nat, events : Seq(Sayings)]
  /\ e_queued \in Seq(Nat) /\ e_requests \in Nat /\ e_hand \in Nat /\ e_frames \in Nat
  /\ e_out \in Nat /\ e_metadata \subseteq Nat
  /\ e_event \in [doing : {"listens", "nothing", "feeds", "delivers"}, frame : Nat]

(* Only a transform has a line: NVENC answers on the spot.                 *)
OnlyTransformsQueue ==
  ~Pictures!Encoding("mediafoundation") =>
    /\ e_transform = Pictures!Idle /\ e_queued = <<>> /\ e_requests = 0 /\ e_metadata = {}
    /\ e_hand = Pictures!NoFrame /\ e_event = Pictures!Deaf

(* Frames stand in the order in which they were taken, wherever they are,  *)
(* and what came out was before them.                                      *)
LineInOrder ==
  /\ Rising(e_transform.inside) /\ Rising(e_queued)
  /\ e_out <= e_frames /\ InTheLine \subseteq 1 .. e_frames /\ AllBefore({e_out}, InTheLine)
  /\ AllBefore(OnItsWayOut, InTransform \cup OnItsWayIn \cup InAHand \cup InQueue)
  /\ AllBefore(InTransform, OnItsWayIn \cup InAHand \cup InQueue)
  /\ AllBefore(OnItsWayIn, InQueue)

(* Of the two sides at most one waits.  A frame is fed either by the       *)
(* encoder thread, when nothing is queued, or by the event thread, when    *)
(* nothing was asked for.                                                  *)
NeitherWaits ==
  /\ e_requests > 0 => e_queued = <<>>
  /\ e_hand # Pictures!NoFrame => e_queued = <<>>
  /\ e_event.doing = "feeds" => e_requests = 0 /\ e_hand = Pictures!NoFrame
  /\ Len(e_queued) <= Pictures!kMaxQueuedFrames

(* The transform's requests that were not answered, and what it has in it. *)
RequestsKept ==
  e_requests + Occurrences(e_transform.events, "need")
    + (IF e_hand = Pictures!NoFrame THEN 0 ELSE 1) + (IF e_event.doing = "feeds" THEN 1 ELSE 0)

RequestsCounted ==
  /\ RequestsKept <= e_transform.asked /\ (e_lost = {} => RequestsKept = e_transform.asked)
  /\ e_transform.asked + Len(e_transform.inside) <= Depth
  /\ Occurrences(e_transform.events, "have") = e_transform.ready
  /\ e_transform.ready <= Len(e_transform.inside)

(* What libwebrtc must know is kept of the frames in the line, and of none *)
(* but those and the lost ones.                                            *)
FramesKnown == InTheLine \subseteq e_metadata /\ e_metadata \subseteq InTheLine \cup e_lost

(* The invariant of the line.                                              *)
LineHolds ==
  /\ LineTyped /\ OnlyTransformsQueue /\ LineInOrder /\ NeitherWaits
  /\ RequestsCounted /\ FramesKnown
-----------------------------------------------------------------------------
(* Nothing is in an empty sequence.                                        *)
LEMMA EmptySequence ==
  /\ Pictures!ToSet(<<>>) = {} /\ Rising(<<>>) /\ \A x : Occurrences(<<>>, x) = 0
<1>1. DOMAIN <<>> = {}
  OBVIOUS
<1> QED  BY <1>1, FS_EmptySet DEF Pictures!ToSet, Rising, Occurrences

(* A later number at the end.                                              *)
LEMMA AppendedIs ==
  ASSUME NEW s \in Seq(Nat), NEW x \in Nat
  PROVE  /\ Append(s, x) \in Seq(Nat) /\ Len(Append(s, x)) = Len(s) + 1
         /\ Pictures!ToSet(Append(s, x)) = Pictures!ToSet(s) \cup {x}
         /\ Rising(s) /\ AllBefore(Pictures!ToSet(s), {x}) => Rising(Append(s, x))
<1>1. /\ Append(s, x) \in Seq(Nat) /\ Len(s) \in Nat /\ Len(Append(s, x)) = Len(s) + 1
      /\ DOMAIN s = 1 .. Len(s) /\ DOMAIN Append(s, x) = 1 .. (Len(s) + 1)
      /\ (\A i \in 1 .. Len(s) : Append(s, x)[i] = s[i]) /\ Append(s, x)[Len(s) + 1] = x
  OBVIOUS
<1>2. Pictures!ToSet(Append(s, x)) = Pictures!ToSet(s) \cup {x}
  BY <1>1 DEF Pictures!ToSet
<1>3. ASSUME Rising(s), AllBefore(Pictures!ToSet(s), {x}) PROVE Rising(Append(s, x))
  <2>1. \A i \in DOMAIN s : s[i] < x
    BY <1>3 DEF AllBefore, Pictures!ToSet
  <2> QED  BY <1>1, <1>3, <2>1 DEF Rising
<1> QED  BY <1>1, <1>2, <1>3

(* The first one taken off.                                                *)
LEMMA TailIs ==
  ASSUME NEW s \in Seq(Nat), s # <<>>
  PROVE  /\ Head(s) \in Nat /\ Tail(s) \in Seq(Nat) /\ Len(Tail(s)) = Len(s) - 1
         /\ Len(s) > 0 /\ Pictures!ToSet(s) = {Head(s)} \cup Pictures!ToSet(Tail(s))
         /\ Rising(s) => Rising(Tail(s)) /\ AllBefore({Head(s)}, Pictures!ToSet(Tail(s)))
<1>1. /\ Head(s) \in Nat /\ Tail(s) \in Seq(Nat) /\ Len(Tail(s)) = Len(s) - 1
      /\ Len(s) \in Nat \ {0} /\ Head(s) = s[1]
      /\ \A i \in 1 .. Len(Tail(s)) : Tail(s)[i] = s[i + 1]
  BY HeadTailProperties
<1>2. DOMAIN s = 1 .. Len(s) /\ DOMAIN Tail(s) = 1 .. (Len(s) - 1)
  BY <1>1
<1>3. Pictures!ToSet(Tail(s)) \subseteq Pictures!ToSet(s) /\ Head(s) \in Pictures!ToSet(s)
  BY <1>1, <1>2 DEF Pictures!ToSet
<1>4. ASSUME NEW i \in DOMAIN s, i # 1 PROVE s[i] \in Pictures!ToSet(Tail(s))
  <2>1. i - 1 \in DOMAIN Tail(s) /\ Tail(s)[i - 1] = s[i]
    BY <1>1, <1>2, <1>4
  <2> QED  BY <2>1 DEF Pictures!ToSet
<1>5. Pictures!ToSet(s) \subseteq {Head(s)} \cup Pictures!ToSet(Tail(s))
  BY <1>1, <1>4 DEF Pictures!ToSet
<1>6. ASSUME Rising(s) PROVE Rising(Tail(s)) /\ AllBefore({Head(s)}, Pictures!ToSet(Tail(s)))
  <2>1. \A i \in DOMAIN Tail(s) : Tail(s)[i] = s[i + 1] /\ i + 1 \in DOMAIN s /\ i \in Nat \ {0}
    BY <1>1, <1>2
  <2>2. Rising(Tail(s))
    BY <1>6, <2>1 DEF Rising
  <2>3. AllBefore({Head(s)}, Pictures!ToSet(Tail(s)))
    BY <1>1, <1>2, <1>6, <2>1 DEF Rising, AllBefore, Pictures!ToSet
  <2> QED  BY <2>2, <2>3
<1> QED  BY <1>1, <1>3, <1>5, <1>6

(* Events can be counted, one more and one less.                           *)
LEMMA OccurrencesFinite ==
  ASSUME NEW s \in Seq(Sayings), NEW x
  PROVE  IsFiniteSet({i \in DOMAIN s : s[i] = x}) /\ Occurrences(s, x) \in Nat
<1>1. IsFiniteSet(DOMAIN s)
  <2>1. DOMAIN s = 1 .. Len(s) /\ Len(s) \in Int
    OBVIOUS
  <2> QED  BY <2>1, FS_Interval
<1>2. IsFiniteSet({i \in DOMAIN s : s[i] = x})
  BY <1>1, FS_Subset
<1> QED  BY <1>2, FS_CardinalityType DEF Occurrences

LEMMA OccurrencesAppended ==
  ASSUME NEW s \in Seq(Sayings), NEW e \in Sayings, NEW x
  PROVE  /\ Append(s, e) \in Seq(Sayings)
         /\ Occurrences(Append(s, e), x) = Occurrences(s, x) + (IF e = x THEN 1 ELSE 0)
<1> DEFINE D == {i \in DOMAIN s : s[i] = x}
           E == {i \in DOMAIN Append(s, e) : Append(s, e)[i] = x}
<1>1. Len(s) \in Nat /\ DOMAIN s = 1 .. Len(s) /\ DOMAIN Append(s, e) = 1 .. (Len(s) + 1)
      /\ (\A i \in 1 .. Len(s) : Append(s, e)[i] = s[i]) /\ Append(s, e)[Len(s) + 1] = e
  OBVIOUS
<1>2. E = IF e = x THEN D \cup {Len(s) + 1} ELSE D
  BY <1>1
<1>3. Len(s) + 1 \notin D
  BY <1>1
<1>4. IsFiniteSet(D)
  BY OccurrencesFinite
<1>5. Append(s, e) \in Seq(Sayings)
  OBVIOUS
<1> HIDE DEF D, E
<1>6. Cardinality(E) = Cardinality(D) + (IF e = x THEN 1 ELSE 0)
  <2>1. CASE e = x
    BY <1>2, <1>3, <1>4, <2>1, FS_AddElement
  <2>2. CASE e # x
    <3>1. Cardinality(D) \in Nat
      BY <1>4, FS_CardinalityType
    <3> QED  BY <1>2, <2>2, <3>1
  <2> QED  BY <2>1, <2>2
<1> QED  BY <1>5, <1>6 DEF Occurrences, D, E

LEMMA OccurrencesTail ==
  ASSUME NEW s \in Seq(Sayings), s # <<>>, NEW x
  PROVE  /\ Tail(s) \in Seq(Sayings)
         /\ Occurrences(Tail(s), x) = Occurrences(s, x) - (IF Head(s) = x THEN 1 ELSE 0)
<1> DEFINE D == {i \in DOMAIN s : s[i] = x}
           E == {i \in DOMAIN Tail(s) : Tail(s)[i] = x}
           f == [i \in E |-> i + 1]
<1>1. /\ Head(s) = s[1] /\ Len(s) \in Nat \ {0} /\ Tail(s) \in Seq(Sayings)
      /\ DOMAIN s = 1 .. Len(s) /\ DOMAIN Tail(s) = 1 .. (Len(s) - 1)
      /\ \A i \in 1 .. (Len(s) - 1) : Tail(s)[i] = s[i + 1]
  BY HeadTailProperties
<1>2. f \in Bijection(E, D \ {1})
  <2>1. \A i \in E : i \in Nat /\ i + 1 \in D \ {1}
    BY <1>1
  <2>2. \A j \in D \ {1} : j \in Nat /\ j - 1 \in E /\ f[j - 1] = j
    BY <1>1
  <2>3. f \in [E -> D \ {1}]
    BY <2>1
  <2>4. \A a, b \in E : f[a] = f[b] => a = b
    BY <2>1
  <2> QED  BY <2>2, <2>3, <2>4 DEF Bijection, Injection, Surjection, IsInjective
<1>3. IsFiniteSet(D) /\ IsFiniteSet(E)
  BY <1>1, OccurrencesFinite
<1>4. Cardinality(E) = Cardinality(D \ {1})
  <2>1. ExistsBijection(E, D \ {1})
    BY <1>2 DEF ExistsBijection
  <2> QED  BY <1>3, <2>1, FS_Bijection
<1>5. 1 \in D <=> Head(s) = x
  BY <1>1
<1> HIDE DEF D, E
<1>6. Cardinality(D \ {1}) = Cardinality(D) - (IF Head(s) = x THEN 1 ELSE 0)
  <2>1. Cardinality(D) \in Nat
    BY <1>3, FS_CardinalityType
  <2>2. Cardinality(D \ {1}) = IF 1 \in D THEN Cardinality(D) - 1 ELSE Cardinality(D)
    BY <1>3, FS_RemoveElement
  <2>3. CASE Head(s) = x
    BY <1>5, <2>2, <2>3
  <2>4. CASE Head(s) # x
    BY <1>5, <2>1, <2>2, <2>4
  <2> QED  BY <2>3, <2>4
<1> QED  BY <1>1, <1>4, <1>6 DEF Occurrences, D, E
-----------------------------------------------------------------------------
(* Nothing is in the line, and only a transform listens.                   *)
LineEmptied ==
  /\ e_transform = Pictures!Idle /\ e_queued = <<>> /\ e_requests = 0 /\ e_metadata = {}
  /\ e_hand = Pictures!NoFrame
  /\ e_event \in {Pictures!Deaf, Pictures!Listening} /\ (e_event = Pictures!Listening =>
       Pictures!Encoding("mediafoundation"))
  /\ e_frames \in Nat /\ e_out \in Nat /\ e_out <= e_frames

(* The invariant holds of an empty line, before a step and after it.       *)
LEMMA EmptyLineHolds == Pictures!EncoderAssumption /\ LineEmptied => LineHolds
<1> SUFFICES ASSUME Pictures!EncoderAssumption, LineEmptied PROVE LineHolds
  OBVIOUS
<1>1. Depth \in Nat
  BY DEF Pictures!EncoderAssumption
<1>2. LineTyped /\ OnlyTransformsQueue
  BY DEF LineEmptied, LineTyped, OnlyTransformsQueue, Pictures!Idle, Pictures!Deaf,
     Pictures!Listening, Pictures!NoFrame
<1>3. InTheLine = {}
  BY EmptySequence DEF LineEmptied, InTheLine, OnItsWayOut, InTransform, OnItsWayIn, InAHand,
     InQueue, Pictures!Idle, Pictures!Deaf, Pictures!Listening
<1>4. LineInOrder
  BY <1>3, EmptySequence DEF LineEmptied, LineInOrder, AllBefore, InTheLine, Pictures!Idle
<1>5. NeitherWaits
  BY DEF LineEmptied, NeitherWaits, Pictures!Idle, Pictures!Deaf, Pictures!Listening,
     Pictures!kMaxQueuedFrames, Pictures!NoFrame
<1>6. RequestsCounted
  BY <1>1, EmptySequence DEF LineEmptied, RequestsCounted, RequestsKept, Pictures!Idle,
     Pictures!Deaf, Pictures!Listening, Pictures!NoFrame
<1>7. FramesKnown
  BY <1>3 DEF LineEmptied, FramesKnown
<1> QED  BY <1>2, <1>4, <1>5, <1>6, <1>7 DEF LineHolds

LEMMA EmptyLineHoldsNext == Pictures!EncoderAssumption /\ LineEmptied' => LineHolds'
<1>1. Pictures!EncoderAssumption /\ LineEmptied => LineHolds
  BY EmptyLineHolds
<1>2. Pictures!EncoderAssumption => Pictures!EncoderAssumption'
  BY DEF Pictures!EncoderAssumption
<1> QED  BY <1>1, <1>2, PTL

LEMMA LineHoldsAtFirst == Pictures!EncoderAssumption /\ Pictures!Init => LineHolds
<1>1. Pictures!Init => LineEmptied
  BY DEF Pictures!Init, LineEmptied, Pictures!Deaf, Pictures!Listening, Pictures!NoFrame,
     Pictures!Encoding
<1> QED  BY <1>1, EmptyLineHolds

(* Without a transform nothing but frames and what comes out changes.      *)
LEMMA LineIsEmptied ==
  ASSUME Pictures!EncoderAssumption, LineHolds,
         \/ \E machine \in Machines, format \in {"H264", "VP8"} : Pictures!Make(machine, format)
         \/ \E offer \in Openings : Pictures!InitEncode(offer)
         \/ \E offer \in Openings : Pictures!EncodesAtOnce(offer.size)
         \/ Pictures!Release
  PROVE  LineHolds'
<1>1. e_frames \in Nat /\ e_out \in Nat /\ e_out <= e_frames
  BY DEF LineHolds, LineTyped, LineInOrder
<1>2. ASSUME NEW machine \in Machines, NEW format \in {"H264", "VP8"}, Pictures!Make(machine,
             format)
      PROVE  LineEmptied'
  BY <1>1, <1>2 DEF Pictures!Make, LineHolds, OnlyTransformsQueue, Pictures!Encoding,
     LineEmptied, Pictures!line, Pictures!counts, Pictures!Deaf, Pictures!Listening
<1>3. ASSUME NEW offer \in Openings, Pictures!InitEncode(offer) PROVE LineEmptied'
  <2>1. Pictures!Cleared /\ UNCHANGED <<e_made, e_frames, e_out>>
    BY <1>3 DEF Pictures!InitEncode
  <2>2. /\ e_event' \in {Pictures!Deaf, Pictures!Listening}
        /\ e_event' = Pictures!Listening =>
             e_at' = "hardware" /\ e_made.backend = "mediafoundation"
    <3>1. CASE Pictures!FallsBack
      BY <3>1 DEF Pictures!FallsBack, Pictures!Deaf, Pictures!Listening
    <3>2. ASSUME NEW s, Pictures!StartsOn(s)
          PROVE  /\ e_event' \in {Pictures!Deaf, Pictures!Listening}
                 /\ e_event' = Pictures!Listening =>
                      e_at' = "hardware" /\ e_made.backend = "mediafoundation"
      BY <3>2 DEF Pictures!StartsOn, Pictures!Deaf, Pictures!Listening
    <3>3. Pictures!FallsBack \/ \E s : Pictures!StartsOn(s)
      BY <1>3 DEF Pictures!InitEncode
    <3> QED  BY <3>1, <3>2, <3>3
  <2> QED  BY <1>1, <2>1, <2>2 DEF Pictures!Cleared, LineEmptied, Pictures!Encoding,
        Pictures!NoFrame
<1>4. ASSUME NEW offer \in Openings, Pictures!EncodesAtOnce(offer.size) PROVE LineEmptied'
  <2>1. ~Pictures!Encoding("mediafoundation")
    BY <1>4 DEF Pictures!EncodesAtOnce, Pictures!Encoding
  <2>2. /\ UNCHANGED <<e_transform, e_queued, e_requests, e_metadata, e_hand>>
        /\ e_frames' = e_frames + 1
        /\ e_event' \in {e_event, Pictures!Deaf} /\ e_out' \in {e_out, e_frames'}
    BY <1>4 DEF Pictures!EncodesAtOnce, Pictures!FallsBack
  <2>3. /\ e_transform = Pictures!Idle /\ e_queued = <<>> /\ e_requests = 0 /\ e_metadata = {}
        /\ e_hand = Pictures!NoFrame
        /\ e_event = Pictures!Deaf
    BY <2>1 DEF LineHolds, OnlyTransformsQueue
  <2> QED  BY <1>1, <2>2, <2>3 DEF LineEmptied, Pictures!Deaf, Pictures!Listening
<1>5. ASSUME Pictures!Release PROVE LineEmptied'
  BY <1>1, <1>5 DEF Pictures!Release, Pictures!Cleared, Pictures!counts, LineEmptied,
     Pictures!Deaf, Pictures!Listening, Pictures!NoFrame
<1> QED  BY <1>2, <1>3, <1>4, <1>5, EmptyLineHoldsNext
-----------------------------------------------------------------------------
(* What the types say of the records.                                      *)
LEMMA LineFields ==
  ASSUME LineTyped
  PROVE  /\ e_transform.asked \in Nat /\ e_transform.inside \in Seq(Nat)
         /\ e_transform.ready \in Nat /\ e_transform.events \in Seq(Sayings)
         /\ e_event.doing \in {"listens", "nothing", "feeds", "delivers"}
         /\ e_event.frame \in Nat
BY DEF LineTyped

(* Requests are counted in numbers.                                        *)
LEMMA RequestsAreNumbers ==
  ASSUME LineTyped
  PROVE  /\ Occurrences(e_transform.events, "need") \in Nat
         /\ Occurrences(e_transform.events, "have") \in Nat
         /\ RequestsKept \in Nat
<1>1. /\ Occurrences(e_transform.events, "need") \in Nat
      /\ Occurrences(e_transform.events, "have") \in Nat
  BY LineFields, OccurrencesFinite
<1> QED  BY <1>1 DEF RequestsKept, LineTyped

(* Encode, with a frame that was asked for.                                *)
LEMMA TakeKeeps ==
  ASSUME LineHolds, Pictures!Encode, e_requests # 0
  PROVE  LineHolds'
<1> DEFINE f == e_frames + 1
<1>1. /\ Pictures!Encoding("mediafoundation") /\ e_hand = Pictures!NoFrame /\ e_frames' = f
      /\ e_requests' = e_requests - 1 /\ e_hand' = f /\ e_metadata' = e_metadata \cup {f}
      /\ UNCHANGED <<e_made, e_at, e_queued, e_transform, e_event, e_out, e_lost>>
  BY DEF Pictures!Encode, Pictures!Take, Pictures!Free
<1>2. /\ LineTyped /\ LineInOrder /\ NeitherWaits /\ RequestsCounted /\ FramesKnown
      /\ e_requests \in Nat /\ e_frames \in Nat
      /\ e_out \in Nat /\ e_out <= e_frames /\ e_hand' \in Nat \ {Pictures!NoFrame}
  BY <1>1 DEF LineHolds, LineTyped, LineInOrder, Pictures!NoFrame
<1>3. e_requests > 0 /\ e_queued = <<>> /\ e_event.doing # "feeds"
  BY <1>2 DEF NeitherWaits
<1>4. LineTyped'
  <2>1. e_requests' \in Nat /\ e_frames' \in Nat
    BY <1>1, <1>2, <1>3
  <2>2. e_hand' \in Nat /\ e_metadata' \subseteq Nat
    BY <1>1, <1>2, <2>1 DEF LineTyped
  <2> QED  BY <1>1, <1>2, <2>1, <2>2 DEF LineTyped
<1>5. OnlyTransformsQueue'
  BY <1>1 DEF OnlyTransformsQueue, Pictures!Encoding
<1>6. /\ OnItsWayIn = {} /\ InQueue = {} /\ InAHand = {} /\ InAHand' = {f}
      /\ UNCHANGED <<OnItsWayOut, InTransform, OnItsWayIn, InQueue>>
      /\ InTheLine' = InTheLine \cup {f}
  BY <1>1, <1>2, <1>3, EmptySequence DEF OnItsWayIn, InQueue, InAHand, OnItsWayOut, InTransform,
     InTheLine
<1>7. LineInOrder'
  <2>1. \A x \in InTheLine : x \in Nat /\ x < f
    BY <1>2 DEF LineInOrder
  <2>2. OnItsWayOut \subseteq InTheLine /\ InTransform \subseteq InTheLine
    BY DEF InTheLine
  <2>3. InTheLine' \subseteq 1 .. f /\ e_out < f
    BY <1>2, <1>6 DEF LineInOrder
  <2> QED  BY <1>1, <1>2, <1>6, <2>1, <2>2, <2>3 DEF LineInOrder, AllBefore
<1>8. NeitherWaits'
  BY <1>1, <1>2, <1>3 DEF NeitherWaits
<1>9. RequestsCounted'
  <2>1. RequestsKept' = RequestsKept
    BY <1>1, <1>2, <1>3, RequestsAreNumbers DEF RequestsKept
  <2> QED  BY <1>1, <1>2, <2>1 DEF RequestsCounted
<1>10. FramesKnown'
  BY <1>1, <1>2, <1>6 DEF FramesKnown
<1> QED  BY <1>4, <1>5, <1>7, <1>8, <1>9, <1>10 DEF LineHolds

(* Encode, with a frame that waits, and the oldest that makes room for it. *)
LEMMA QueueKeeps ==
  ASSUME LineHolds, Pictures!Encode, e_requests = 0
  PROVE  LineHolds'
<1> DEFINE f == e_frames + 1
           full == Len(e_queued) >= Pictures!kMaxQueuedFrames
           rest == IF full THEN Tail(e_queued) ELSE e_queued
           dropped == IF full THEN {Head(e_queued)} ELSE {}
<1>1. /\ Pictures!Encoding("mediafoundation") /\ e_hand = Pictures!NoFrame /\ e_frames' = f
      /\ e_queued' = Append(rest, f) /\ e_metadata' = (e_metadata \ dropped) \cup {f}
      /\ UNCHANGED <<e_made, e_at, e_requests, e_hand, e_transform, e_event, e_out, e_lost>>
  BY DEF Pictures!Encode, Pictures!Queue, Pictures!Free
<1>2. /\ LineTyped /\ LineInOrder /\ NeitherWaits /\ RequestsCounted /\ FramesKnown
      /\ e_frames \in Nat
      /\ e_out \in Nat /\ e_out <= e_frames /\ e_queued \in Seq(Nat) /\ Rising(e_queued)
      /\ Len(e_queued) \in Nat /\ Len(e_queued) <= Pictures!kMaxQueuedFrames
  <2>1. LineTyped /\ LineInOrder /\ NeitherWaits /\ RequestsCounted /\ FramesKnown
    BY DEF LineHolds
  <2>2. e_frames \in Nat /\ e_out \in Nat /\ e_queued \in Seq(Nat) /\ Len(e_queued) \in Nat
    BY <2>1 DEF LineTyped
  <2>3. e_out <= e_frames /\ Rising(e_queued)
    BY <2>1 DEF LineInOrder
  <2>4. Len(e_queued) <= Pictures!kMaxQueuedFrames
    BY <2>1 DEF NeitherWaits
  <2> QED  BY <2>1, <2>2, <2>3, <2>4
<1>3. /\ rest \in Seq(Nat) /\ Rising(rest) /\ Len(rest) < Pictures!kMaxQueuedFrames
      /\ Len(rest) \in Nat
      /\ InQueue = dropped \cup Pictures!ToSet(rest) /\ AllBefore(dropped, Pictures!ToSet(rest))
      /\ dropped \subseteq Nat
  <2>0. e_queued \in Seq(Nat) /\ Rising(e_queued) /\ Len(e_queued) \in Nat
    BY <1>2
  <2>1. CASE full
    <3>1. e_queued # <<>>
      BY <2>1 DEF Pictures!kMaxQueuedFrames
    <3>2. rest = Tail(e_queued) /\ dropped = {Head(e_queued)}
      BY <2>1
    <3>3. /\ Tail(e_queued) \in Seq(Nat) /\ Head(e_queued) \in Nat /\ Rising(Tail(e_queued))
          /\ Pictures!ToSet(e_queued) = {Head(e_queued)} \cup Pictures!ToSet(Tail(e_queued))
          /\ AllBefore({Head(e_queued)}, Pictures!ToSet(Tail(e_queued)))
      BY <1>2, <3>1, TailIs
    <3>4. Len(rest) \in Nat /\ Len(rest) < Pictures!kMaxQueuedFrames
      <4>1. Len(e_queued) \in Nat /\ Len(e_queued) <= Pictures!kMaxQueuedFrames
        BY <1>2
      <4>2. Len(e_queued) > 0 /\ Len(Tail(e_queued)) = Len(e_queued) - 1
        BY <2>0, <3>1, TailIs
      <4> QED  BY <3>2, <4>1, <4>2 DEF Pictures!kMaxQueuedFrames
    <3> QED  BY <3>2, <3>3, <3>4 DEF InQueue
  <2>2. CASE ~full
    <3>1. rest = e_queued /\ dropped = {}
      BY <2>2
    <3>2. Len(rest) < Pictures!kMaxQueuedFrames /\ Len(rest) \in Nat
      BY <2>0, <2>2, <3>1 DEF Pictures!kMaxQueuedFrames
    <3> QED  BY <2>0, <3>1, <3>2 DEF InQueue, AllBefore
  <2> QED  BY <2>1, <2>2
<1> HIDE DEF full, rest, dropped
<1>4. /\ \A x \in InTheLine : x \in Nat /\ x < f
      /\ InQueue \subseteq InTheLine
  BY <1>2 DEF LineInOrder, InTheLine
<1>5. /\ e_queued' \in Seq(Nat) /\ Len(e_queued') <= Pictures!kMaxQueuedFrames
      /\ Rising(e_queued')
      /\ InQueue' = Pictures!ToSet(rest) \cup {f} /\ InQueue' \subseteq InQueue \cup {f}
  <2>1. AllBefore(Pictures!ToSet(rest), {f}) /\ f \in Nat
    <3>1. \A x \in Pictures!ToSet(rest) : x < f
      BY <1>3, <1>4
    <3> QED  BY <1>2, <3>1 DEF AllBefore
  <2>2. /\ Append(rest, f) \in Seq(Nat) /\ Len(Append(rest, f)) = Len(rest) + 1
        /\ Pictures!ToSet(Append(rest, f)) = Pictures!ToSet(rest) \cup {f}
        /\ Rising(Append(rest, f))
    BY <1>3, <2>1, AppendedIs
  <2>3. e_queued' \in Seq(Nat) /\ Rising(e_queued') /\ InQueue' = Pictures!ToSet(rest) \cup {f}
    BY <1>1, <2>2 DEF InQueue
  <2>4. Len(e_queued') <= Pictures!kMaxQueuedFrames
    <3>1. /\ Len(rest) \in Nat /\ Len(rest) < Pictures!kMaxQueuedFrames
          /\ Len(e_queued') = Len(rest) + 1
      BY <1>1, <1>3, <2>2
    <3> QED  BY <3>1 DEF Pictures!kMaxQueuedFrames
  <2>5. Pictures!ToSet(rest) \subseteq InQueue
    BY <1>3
  <2> QED  BY <2>3, <2>4, <2>5
<1>6. LineTyped'
  <2>1. e_queued' \in Seq(Nat) /\ e_frames' \in Nat
    BY <1>1, <1>2, <1>5
  <2>3. e_metadata' \subseteq Nat
    <3>1. e_metadata \subseteq Nat /\ f \in Nat
      BY <1>2 DEF LineTyped
    <3> QED  BY <1>1, <3>1
  <2>2. UNCHANGED <<e_transform, e_requests, e_hand, e_out, e_event>>
    BY <1>1
  <2> QED  BY <1>2, <2>1, <2>2, <2>3 DEF LineTyped
<1>7. OnlyTransformsQueue'
  BY <1>1 DEF OnlyTransformsQueue, Pictures!Encoding
<1>8. /\ UNCHANGED <<OnItsWayOut, InTransform, OnItsWayIn, InAHand>>
      /\ InTheLine' = OnItsWayOut \cup InTransform \cup OnItsWayIn \cup InAHand \cup InQueue'
  BY <1>1 DEF OnItsWayIn, InAHand, OnItsWayOut, InTransform, InTheLine
<1>9. LineInOrder'
  <2>1. /\ OnItsWayOut \subseteq InTheLine /\ InTransform \subseteq InTheLine
        /\ OnItsWayIn \subseteq InTheLine
        /\ InAHand \subseteq InTheLine
    BY DEF InTheLine
  <2>2. InTheLine' \subseteq 1 .. f /\ AllBefore({e_out}, InTheLine')
    <3>1. InTheLine' \subseteq InTheLine \cup {f}
      BY <1>5, <1>8, <2>1 DEF InTheLine
    <3>2. \A x \in InTheLine : x \in 1 .. e_frames /\ e_out < x
      BY <1>2 DEF LineInOrder, AllBefore
    <3>3. f \in 1 .. f /\ e_out < f /\ \A x \in 1 .. e_frames : x \in 1 .. f
      BY <1>2
    <3> QED  BY <3>1, <3>2, <3>3 DEF AllBefore
  <2> QED  BY <1>1, <1>2, <1>4, <1>5, <1>8, <2>1, <2>2 DEF LineInOrder, AllBefore
<1>10. NeitherWaits'
  BY <1>1, <1>2, <1>5 DEF NeitherWaits
<1>11. RequestsCounted'
  BY <1>1, <1>2 DEF RequestsCounted, RequestsKept
<1>12. FramesKnown'
  <2>1. \A x \in dropped :
          x \notin OnItsWayOut \cup InTransform \cup OnItsWayIn \cup InAHand
                      \cup Pictures!ToSet(rest)
    <3>1. InAHand = {}
      BY <1>1 DEF InAHand
    <3> QED  BY <1>2, <1>3, <3>1 DEF LineInOrder, AllBefore
  <2>2. \A x \in dropped : x \notin InTheLine' \ {f}
    BY <1>5, <1>8, <2>1
  <2>3. InTheLine' \subseteq InTheLine \cup {f} /\ InTheLine \subseteq InTheLine' \cup dropped
    BY <1>3, <1>5, <1>8 DEF InTheLine
  <2> QED  BY <1>1, <1>2, <1>8, <2>1, <2>2, <2>3, <1>5 DEF FramesKnown
<1> QED  BY <1>6, <1>7, <1>9, <1>10, <1>11, <1>12 DEF LineHolds

(* The transform is fed with a frame, or fails with it, whichever thread   *)
(* has it.                                                                 *)
LEMMA FeedKeeps ==
  ASSUME Pictures!EncoderAssumption, LineHolds, Pictures!Encoding("mediafoundation"),
         NEW f \in Nat, Pictures!feed(f),
         UNCHANGED <<e_made, e_at, e_queued, e_requests, e_metadata, e_frames, e_out>>,
         e_hand = Pictures!NoFrame <=> e_event.doing = "feeds", OnItsWayIn \cup InAHand = {f},
           AllBefore({f}, InQueue),
         e_hand' = Pictures!NoFrame, e_event' = e_event \/
           e_event' = Pictures!Listening, e_event'.doing # "feeds",
         e_event.doing = "delivers" => e_event' = e_event, e_event'.doing = "delivers" =>
           e_event' = e_event
  PROVE  LineHolds'
<1>2. LineTyped /\ LineInOrder /\ NeitherWaits /\ RequestsCounted /\ FramesKnown
  BY DEF LineHolds
<1>4. /\ OnItsWayIn' = {} /\ InAHand' = {} /\ UNCHANGED <<OnItsWayOut, InQueue>>
  BY DEF OnItsWayIn, InAHand, OnItsWayOut, InQueue
<1>5. OnlyTransformsQueue'
  BY DEF OnlyTransformsQueue, Pictures!Encoding
<1>6. NeitherWaits'
  BY <1>2 DEF NeitherWaits
<1>7. /\ e_requests \in Nat /\ Occurrences(e_transform.events, "need") \in Nat
      /\ RequestsKept = e_requests + Occurrences(e_transform.events, "need") + 1
      /\ RequestsKept \in Nat /\ RequestsKept > 0
  <2>1. e_requests \in Nat /\ Occurrences(e_transform.events, "need") \in Nat
    BY <1>2, RequestsAreNumbers DEF LineTyped
  <2>2. RequestsKept = e_requests + Occurrences(e_transform.events, "need") + 1
    BY <2>1 DEF RequestsKept
  <2> QED  BY <2>1, <2>2
<1>8. RequestsKept' = e_requests + Occurrences(e_transform'.events, "need")
  <2>1. CASE e_transform'.events = e_transform.events
    BY <1>7, <2>1 DEF RequestsKept
  <2> QED  BY <1>2, <2>1 DEF Pictures!feed, Pictures!Loses, LineTyped
<1>9. e_event' \in [doing : {"listens", "nothing", "feeds", "delivers"}, frame : Nat]
  BY <1>2 DEF LineTyped, Pictures!Listening, Pictures!NoFrame
<1>10. /\ Depth \in Nat /\ e_transform.ready \in Nat /\ e_transform.asked \in Nat
       /\ Len(e_transform.inside) \in Nat
  BY <1>2, LineFields DEF Pictures!EncoderAssumption
<1>11. /\ RequestsKept <= e_transform.asked /\ (e_lost = {} => RequestsKept = e_transform.asked)
       /\ e_transform.asked + Len(e_transform.inside) <= Depth
       /\ Occurrences(e_transform.events, "have") = e_transform.ready
       /\ e_transform.ready <= Len(e_transform.inside)
  BY <1>2 DEF RequestsCounted
<1>12. CASE /\ e_transform' = [e_transform EXCEPT !.inside = Append(@, f), !.asked = @ - 1]
            /\ e_lost' = e_lost
  <2>1. /\ e_transform'.inside = Append(e_transform.inside, f)
        /\ e_transform'.asked = e_transform.asked - 1 /\ e_transform'.ready = e_transform.ready
        /\ e_transform'.events = e_transform.events
    BY <1>2, <1>12 DEF LineTyped
  <2>2. /\ e_transform.inside \in Seq(Nat) /\ Rising(e_transform.inside)
        /\ AllBefore(InTransform, {f})
    BY <1>2 DEF LineInOrder, LineTyped, AllBefore
  <2>3. /\ Append(e_transform.inside, f) \in Seq(Nat)
        /\ InTransform' = InTransform \cup {f} /\ Rising(Append(e_transform.inside, f))
    BY <2>1, <2>2, AppendedIs DEF InTransform
  <2>4. Len(e_transform'.inside) = Len(e_transform.inside) + 1
    BY <2>1, <2>2, AppendedIs
  <2>5. e_transform.asked - 1 \in Nat
    BY <1>7, <1>10, <1>11
  <2>6. LineTyped'
    <3>1. e_transform' = [asked |-> e_transform.asked - 1, inside |-> Append(e_transform.inside,
            f),
                        ready |-> e_transform.ready, events |-> e_transform.events]
      BY <1>2, <1>12 DEF LineTyped
    <3>2. e_transform' \in [asked : Nat, inside : Seq(Nat), ready : Nat, events : Seq(Sayings)]
      BY <1>2, <2>3, <2>5, <3>1, LineFields
    <3> QED  BY <1>2, <1>9, <3>2 DEF LineTyped, Pictures!NoFrame
  <2>7. InTheLine' = InTheLine
    BY <1>4, <2>3 DEF InTheLine
  <2>8. LineInOrder'
    BY <1>2, <1>4, <2>1, <2>3, <2>7 DEF LineInOrder, AllBefore
  <2>9. RequestsCounted'
    <3>1. RequestsKept' = RequestsKept - 1
      BY <1>7, <1>8, <2>1
    <3>2. RequestsKept' <= e_transform'.asked /\ (e_lost' = {} =>
            RequestsKept' = e_transform'.asked)
      BY <1>7, <1>10, <1>11, <1>12, <2>1, <3>1
    <3>3. e_transform'.asked + Len(e_transform'.inside) <= Depth
      BY <1>10, <1>11, <2>1, <2>4
    <3>4. e_transform'.ready <= Len(e_transform'.inside)
      BY <1>10, <1>11, <2>1, <2>4
    <3> QED  BY <1>11, <2>1, <3>2, <3>3, <3>4 DEF RequestsCounted
  <2>10. FramesKnown'
    BY <1>2, <1>12, <2>7 DEF FramesKnown
  <2> QED  BY <1>5, <1>6, <2>6, <2>8, <2>9, <2>10 DEF LineHolds
<1>13. CASE e_transform' = e_transform /\ e_lost' = e_lost \cup {f}
  <2>1. LineTyped'
    BY <1>2, <1>9, <1>13 DEF LineTyped, Pictures!NoFrame
  <2>2. /\ InTheLine' \subseteq InTheLine /\ InTheLine \subseteq InTheLine' \cup {f}
        /\ UNCHANGED InTransform
    BY <1>4, <1>13 DEF InTheLine, InTransform
  <2>3. LineInOrder'
    BY <1>2, <1>4, <1>13, <2>2 DEF LineInOrder, AllBefore
  <2>4. RequestsCounted'
    <3>1. RequestsKept' = RequestsKept - 1 /\ e_lost' # {}
      BY <1>7, <1>8, <1>13
    <3>2. RequestsKept' <= e_transform'.asked
      BY <1>7, <1>10, <1>11, <1>13, <3>1
    <3> QED  BY <1>11, <1>13, <3>1, <3>2 DEF RequestsCounted
  <2>5. FramesKnown'
    BY <1>2, <1>13, <2>2 DEF FramesKnown
  <2> QED  BY <1>5, <1>6, <2>1, <2>3, <2>4, <2>5 DEF LineHolds
<1> QED  BY <1>12, <1>13 DEF Pictures!feed, Pictures!Loses

(* The encoder thread feeds what it has in hand.                           *)
LEMMA FeedsKeeps ==
  ASSUME Pictures!EncoderAssumption, LineHolds, Pictures!Feeds
  PROVE  LineHolds'
<1>1. /\ e_hand # Pictures!NoFrame /\ e_hand' = Pictures!NoFrame /\ Pictures!feed(e_hand)
      /\ UNCHANGED <<e_made, e_at, e_queued, e_requests, e_metadata, e_event, e_frames, e_out>>
  BY DEF Pictures!Feeds, Pictures!Free
<1>2. LineTyped /\ OnlyTransformsQueue /\ NeitherWaits
  BY DEF LineHolds
<1>3. /\ Pictures!Encoding("mediafoundation") /\ e_queued = <<>> /\ e_event.doing # "feeds"
      /\ e_hand \in Nat
  BY <1>1, <1>2 DEF OnlyTransformsQueue, NeitherWaits, LineTyped
<1>4. OnItsWayIn \cup InAHand = {e_hand} /\ AllBefore({e_hand}, InQueue)
  BY <1>1, <1>3, EmptySequence DEF InQueue, OnItsWayIn, InAHand, AllBefore
<1> QED  BY <1>1, <1>3, <1>4, FeedKeeps

(* The event thread feeds what it took off the queue.                      *)
LEMMA EventFeedsKeeps ==
  ASSUME Pictures!EncoderAssumption, LineHolds, Pictures!EventFeeds
  PROVE  LineHolds'
<1>1. /\ e_event.doing = "feeds" /\ e_event' = Pictures!Listening /\ Pictures!feed(e_event.frame)
      /\ UNCHANGED <<e_made, e_at, e_queued, e_requests, e_metadata, e_hand, e_frames, e_out>>
  BY DEF Pictures!EventFeeds
<1>2. LineTyped /\ OnlyTransformsQueue /\ NeitherWaits /\ LineInOrder
  BY DEF LineHolds
<1>3. /\ Pictures!Encoding("mediafoundation") /\ e_hand = Pictures!NoFrame
      /\ e_event.frame \in Nat
  BY <1>1, <1>2, LineFields DEF OnlyTransformsQueue, NeitherWaits, Pictures!Deaf
<1>4. OnItsWayIn = {e_event.frame} /\ InAHand = {} /\ AllBefore({e_event.frame}, InQueue)
  BY <1>1, <1>2, <1>3 DEF LineInOrder, OnItsWayIn, InAHand
<1>5. e_event'.doing = "listens"
  BY <1>1 DEF Pictures!Listening
<1> QED  BY <1>1, <1>3, <1>4, <1>5, FeedKeeps

(* The transform says something, and asks or has a frame ready with it.    *)
LEMMA SpeaksKeeps ==
  ASSUME Pictures!EncoderAssumption, LineHolds, NEW what \in Sayings, NEW asked \in Nat,
         NEW ready \in Nat,
         e_transform' = [e_transform EXCEPT !.events = Append(@, what), !.asked = asked,
                                        !.ready = ready],
         UNCHANGED <<e_made, e_at, Pictures!line, Pictures!counts>>,
           Pictures!Encoding("mediafoundation"),
         asked = e_transform.asked + (IF what = "need" THEN 1 ELSE 0),
         ready = e_transform.ready + (IF what = "have" THEN 1 ELSE 0),
         asked + Len(e_transform.inside) <= Depth, ready <= Len(e_transform.inside)
  PROVE  LineHolds'
<1>1. UNCHANGED <<e_made, e_at, e_queued, e_requests, e_metadata, e_hand, e_event, e_frames,
        e_out, e_lost>>
  BY DEF Pictures!line, Pictures!counts
<1>2. LineTyped /\ LineInOrder /\ NeitherWaits /\ RequestsCounted /\ FramesKnown
  BY DEF LineHolds
<1>3. e_transform' = [asked |-> asked, inside |-> e_transform.inside, ready |-> ready,
                    events |-> Append(e_transform.events, what)]
  BY <1>2 DEF LineTyped
<1>4. Append(e_transform.events, what) \in Seq(Sayings)
  BY <1>2, LineFields
<1>5. LineTyped'
  <2>1. e_transform' \in [asked : Nat, inside : Seq(Nat), ready : Nat, events : Seq(Sayings)]
    BY <1>2, <1>3, <1>4, LineFields
  <2> QED  BY <1>1, <1>2, <2>1 DEF LineTyped
<1>6. OnlyTransformsQueue' /\ NeitherWaits'
  BY <1>1, <1>2 DEF OnlyTransformsQueue, NeitherWaits, Pictures!Encoding
<1>7. UNCHANGED <<OnItsWayOut, InTransform, OnItsWayIn, InAHand, InQueue, InTheLine>>
  BY <1>1, <1>3 DEF OnItsWayOut, InTransform, OnItsWayIn, InAHand, InQueue, InTheLine
<1>8. LineInOrder' /\ FramesKnown'
  BY <1>1, <1>2, <1>3, <1>7 DEF LineInOrder, FramesKnown
<1>9. RequestsCounted'
  <2>1. Occurrences(e_transform'.events, "need")
          = Occurrences(e_transform.events, "need") + (IF what = "need" THEN 1 ELSE 0)
    BY <1>2, <1>3, LineFields, OccurrencesAppended
  <2>2. Occurrences(e_transform'.events, "have")
          = Occurrences(e_transform.events, "have") + (IF what = "have" THEN 1 ELSE 0)
    BY <1>2, <1>3, LineFields, OccurrencesAppended
  <2>3. /\ RequestsKept <= e_transform.asked /\ (e_lost = {} => RequestsKept = e_transform.asked)
        /\ Occurrences(e_transform.events, "have") = e_transform.ready
    BY <1>2 DEF RequestsCounted
  <2>4. /\ RequestsKept \in Nat /\ e_transform.asked \in Nat
        /\ Occurrences(e_transform.events, "need") \in Nat
        /\ e_requests \in Nat
    BY <1>2, RequestsAreNumbers, LineFields DEF LineTyped
  <2>5. RequestsKept' = RequestsKept + (IF what = "need" THEN 1 ELSE 0)
    <3>1. CASE e_hand = Pictures!NoFrame
      BY <1>1, <2>1, <2>4, <3>1 DEF RequestsKept
    <3>2. CASE e_hand # Pictures!NoFrame
      BY <1>1, <2>1, <2>4, <3>2 DEF RequestsKept
    <3> QED  BY <3>1, <3>2
  <2>6. RequestsKept' <= e_transform'.asked /\ (e_lost' = {} =>
          RequestsKept' = e_transform'.asked)
    BY <1>1, <1>3, <2>3, <2>4, <2>5
  <2> QED  BY <1>3, <2>2, <2>3, <2>6 DEF RequestsCounted
<1> QED  BY <1>5, <1>6, <1>8, <1>9 DEF LineHolds

(* A transform with other events.                                          *)
LEMMA EventsReplaced ==
  ASSUME NEW r \in [asked : Nat, inside : Seq(Nat), ready : Nat, events : Seq(Sayings)], NEW v
  PROVE  [r EXCEPT !.events = v]
           = [asked |-> r.asked, inside |-> r.inside, ready |-> r.ready, events |-> v]
OBVIOUS

(* An event that is heard is off the queue, and was on it.                 *)
LEMMA HeardIs ==
  ASSUME LineHolds, NEW what \in Sayings, Pictures!Invoke(what)
  PROVE  /\ Pictures!Encoding("mediafoundation") /\ e_event = Pictures!Listening
         /\ UNCHANGED <<e_made, e_at, e_hand, e_frames, e_out>>
         /\ Pictures!Heard = [asked |-> e_transform.asked, inside |-> e_transform.inside,
                     ready |-> e_transform.ready, events |-> Tail(e_transform.events)]
         /\ Tail(e_transform.events) \in Seq(Sayings)
         /\ \A x : Occurrences(e_transform.events, x)
                    = Occurrences(Tail(e_transform.events), x) + (IF what = x THEN 1 ELSE 0)
         /\ Occurrences(Tail(e_transform.events), "need") \in Nat
         /\ Occurrences(Tail(e_transform.events), "have") \in Nat
<1>1. /\ e_event = Pictures!Listening /\ e_transform.events # <<>>
      /\ Head(e_transform.events) = what
      /\ UNCHANGED <<e_made, e_at, e_hand, e_frames, e_out>>
  BY DEF Pictures!Invoke
<1>2. LineTyped /\ OnlyTransformsQueue
  BY DEF LineHolds
<1>3. Pictures!Encoding("mediafoundation")
  BY <1>1, <1>2 DEF OnlyTransformsQueue, Pictures!Listening, Pictures!Deaf
<1>4. Tail(e_transform.events) \in Seq(Sayings)
  BY <1>1, <1>2, LineFields, OccurrencesTail
<1>5. ASSUME NEW x
      PROVE  Occurrences(e_transform.events, x)
               = Occurrences(Tail(e_transform.events), x) + (IF what = x THEN 1 ELSE 0)
  <2>1. Occurrences(Tail(e_transform.events), x)
          = Occurrences(e_transform.events, x) - (IF what = x THEN 1 ELSE 0)
    BY <1>1, <1>2, LineFields, OccurrencesTail
  <2>2. Occurrences(e_transform.events, x) \in Nat
    BY <1>2, LineFields, OccurrencesFinite
  <2> QED  BY <2>1, <2>2
<1>6. /\ Occurrences(Tail(e_transform.events), "need") \in Nat
      /\ Occurrences(Tail(e_transform.events), "have") \in Nat
  BY <1>4, OccurrencesFinite
<1>7. Pictures!Heard = [asked |-> e_transform.asked, inside |-> e_transform.inside,
               ready |-> e_transform.ready, events |-> Tail(e_transform.events)]
  <2>1. e_transform \in [asked : Nat, inside : Seq(Nat), ready : Nat, events : Seq(Sayings)]
    BY <1>2 DEF LineTyped
  <2> DEFINE v == Tail(e_transform.events)
  <2>2. Pictures!Heard = [e_transform EXCEPT !.events = v]
    BY DEF Pictures!Heard
  <2> HIDE DEF v
  <2>3. Pictures!Heard = [asked |-> e_transform.asked, inside |-> e_transform.inside,
                 ready |-> e_transform.ready, events |-> v]
    BY <2>1, <2>2, EventsReplaced
  <2> QED  BY <2>3 DEF v
<1> QED  BY <1>1, <1>3, <1>4, <1>5, <1>6, <1>7

(* A request is kept, or answered with the oldest frame.                   *)
LEMMA NeedKeeps ==
  ASSUME Pictures!EncoderAssumption, LineHolds, Pictures!on_need_input
  PROVE  LineHolds'
<1>1. /\ Pictures!Encoding("mediafoundation") /\ e_event = Pictures!Listening
      /\ e_event.doing = "listens"
      /\ UNCHANGED <<e_made, e_at, e_hand, e_frames, e_out, e_metadata, e_lost>>
      /\ e_transform' = [asked |-> e_transform.asked, inside |-> e_transform.inside,
                       ready |-> e_transform.ready, events |-> Tail(e_transform.events)]
      /\ Tail(e_transform.events) \in Seq(Sayings)
  BY HeardIs DEF Pictures!on_need_input, Sayings, Pictures!Listening
<1>2. LineTyped /\ LineInOrder /\ NeitherWaits /\ RequestsCounted /\ FramesKnown
  BY DEF LineHolds
<1>3. /\ Occurrences(e_transform.events, "need") = Occurrences(e_transform'.events, "need") + 1
      /\ Occurrences(e_transform.events, "have") = Occurrences(e_transform'.events, "have")
      /\ Occurrences(e_transform'.events, "need") \in Nat
      /\ Occurrences(e_transform'.events, "have") \in Nat
  <2>1. Pictures!Invoke("need") /\ "need" \in Sayings
    BY DEF Pictures!on_need_input, Sayings
  <2>2. /\ Occurrences(e_transform.events, "need") = Occurrences(Tail(e_transform.events),
             "need") + 1
        /\ Occurrences(e_transform.events, "have") = Occurrences(Tail(e_transform.events),
             "have") + 0
        /\ Occurrences(Tail(e_transform.events), "need") \in Nat
        /\ Occurrences(Tail(e_transform.events), "have") \in Nat
    BY <2>1, HeardIs
  <2> QED  BY <1>1, <2>2
<1>4. e_transform' \in [asked : Nat, inside : Seq(Nat), ready : Nat, events : Seq(Sayings)]
  BY <1>1, <1>2, LineFields
<1>5. OnlyTransformsQueue'
  BY <1>1 DEF OnlyTransformsQueue, Pictures!Encoding
<1>6. OnItsWayOut = {} /\ OnItsWayIn = {} /\ UNCHANGED <<InTransform, InAHand>>
  BY <1>1 DEF OnItsWayOut, OnItsWayIn, InTransform, InAHand
<1>7. RequestsKept' = RequestsKept => RequestsCounted'
  BY <1>1, <1>2, <1>3 DEF RequestsCounted
<1>8. CASE e_queued = <<>> /\ e_requests' = e_requests + 1 /\ UNCHANGED <<e_queued, e_event>>
  <2>1. LineTyped'
    BY <1>1, <1>2, <1>4, <1>8 DEF LineTyped
  <2>2. UNCHANGED <<OnItsWayOut, OnItsWayIn, InQueue, InTheLine, InTransform, InAHand>>
    BY <1>6, <1>8 DEF OnItsWayOut, OnItsWayIn, InQueue, InTheLine
  <2>3. LineInOrder'
    <3>1. e_transform'.inside = e_transform.inside
      BY <1>1
    <3> QED  BY <1>1, <1>2, <1>8, <2>2, <3>1 DEF LineInOrder
  <2>6. FramesKnown'
    BY <1>1, <1>2, <2>2 DEF FramesKnown
  <2>4. NeitherWaits'
    BY <1>1, <1>2, <1>8 DEF NeitherWaits
  <2>5. RequestsKept' = RequestsKept
    <3>1. e_requests \in Nat
      BY <1>2 DEF LineTyped
    <3>2. CASE e_hand = Pictures!NoFrame
      BY <1>1, <1>3, <1>8, <3>1, <3>2 DEF RequestsKept
    <3>3. CASE e_hand # Pictures!NoFrame
      BY <1>1, <1>3, <1>8, <3>1, <3>3 DEF RequestsKept
    <3> QED  BY <3>2, <3>3
  <2> QED  BY <1>5, <1>7, <2>1, <2>3, <2>4, <2>5, <2>6 DEF LineHolds
<1>9. CASE /\ e_queued # <<>> /\ e_event' = [doing |-> "feeds", frame |-> Head(e_queued)]
           /\ e_queued' = Tail(e_queued) /\ e_requests' = e_requests
  <2>1. /\ Head(e_queued) \in Nat /\ Tail(e_queued) \in Seq(Nat)
        /\ Rising(Tail(e_queued))
        /\ Pictures!ToSet(e_queued) = {Head(e_queued)} \cup Pictures!ToSet(Tail(e_queued))
        /\ AllBefore({Head(e_queued)}, Pictures!ToSet(Tail(e_queued)))
    BY <1>2, <1>9, TailIs DEF LineTyped, LineInOrder
  <2>2. LineTyped'
    BY <1>1, <1>2, <1>4, <1>9, <2>1 DEF LineTyped
  <2>3. /\ OnItsWayOut' = {} /\ OnItsWayIn' = {Head(e_queued)}
        /\ InQueue' = Pictures!ToSet(Tail(e_queued))
        /\ InQueue = OnItsWayIn' \cup InQueue' /\ InTheLine' = InTheLine
    BY <1>6, <1>9, <2>1 DEF OnItsWayOut, OnItsWayIn, InQueue, InTheLine
  <2>4. e_hand = Pictures!NoFrame /\ InAHand = {} /\ ~(e_requests > 0)
    BY <1>2, <1>9 DEF NeitherWaits, InAHand
  <2>5. LineInOrder'
    BY <1>1, <1>2, <1>6, <1>9, <2>1, <2>3, <2>4 DEF LineInOrder, AllBefore
  <2>6. FramesKnown'
    BY <1>1, <1>2, <2>3 DEF FramesKnown
  <2>7. NeitherWaits'
    <3>1. Len(e_queued) \in Nat /\ Len(Tail(e_queued)) = Len(e_queued) - 1
      BY <1>2, <1>9, TailIs DEF LineTyped
    <3>2. Len(e_queued) <= Pictures!kMaxQueuedFrames
      BY <1>2 DEF NeitherWaits
    <3>3. Len(e_queued') <= Pictures!kMaxQueuedFrames
      BY <1>9, <3>1, <3>2 DEF Pictures!kMaxQueuedFrames
    <3>4. e_requests = 0
      BY <1>2, <2>4 DEF LineTyped
    <3> QED  BY <1>1, <1>9, <2>4, <3>3, <3>4 DEF NeitherWaits
  <2>8. RequestsKept' = RequestsKept
    <3>1. e_requests \in Nat
      BY <1>2 DEF LineTyped
    <3> QED  BY <1>1, <1>3, <1>9, <2>4, <3>1 DEF RequestsKept
  <2> QED  BY <1>5, <1>7, <2>2, <2>5, <2>6, <2>7, <2>8 DEF LineHolds
<1> QED  BY <1>8, <1>9 DEF Pictures!on_need_input

(* A frame comes out of the transform, or is lost on the way.              *)
LEMMA HaveKeeps ==
  ASSUME Pictures!EncoderAssumption, LineHolds, Pictures!on_have_output
  PROVE  LineHolds'
<1> DEFINE f == Head(e_transform.inside)
<1>1. /\ Pictures!Encoding("mediafoundation") /\ e_event = Pictures!Listening
      /\ e_event.doing = "listens"
      /\ UNCHANGED <<e_made, e_at, e_hand, e_frames, e_out, e_queued, e_requests, e_metadata>>
      /\ Tail(e_transform.events) \in Seq(Sayings)
      /\ e_transform' = [asked |-> e_transform.asked, inside |-> Tail(e_transform.inside),
                       ready |-> e_transform.ready - 1, events |-> Tail(e_transform.events)]
  <2>1. /\ Pictures!Invoke("have") /\ "have" \in Sayings
        /\ UNCHANGED <<e_queued, e_requests, e_metadata>>
        /\ e_transform' = [Pictures!Heard EXCEPT !.inside = Tail(@), !.ready = @ - 1]
    BY DEF Pictures!on_have_output, Sayings
  <2>2. /\ Pictures!Encoding("mediafoundation") /\ e_event = Pictures!Listening
        /\ UNCHANGED <<e_made, e_at, e_hand, e_frames, e_out>>
        /\ Tail(e_transform.events) \in Seq(Sayings)
        /\ Pictures!Heard = [asked |-> e_transform.asked, inside |-> e_transform.inside,
                    ready |-> e_transform.ready, events |-> Tail(e_transform.events)]
    BY <2>1, HeardIs
  <2> QED  BY <2>1, <2>2 DEF Pictures!Listening
<1>2. LineTyped /\ LineInOrder /\ NeitherWaits /\ RequestsCounted /\ FramesKnown
  BY DEF LineHolds
<1>3. /\ Occurrences(e_transform.events, "need") = Occurrences(e_transform'.events, "need")
      /\ Occurrences(e_transform.events, "have") = Occurrences(e_transform'.events, "have") + 1
      /\ Occurrences(e_transform'.events, "need") \in Nat
      /\ Occurrences(e_transform'.events, "have") \in Nat
  <2>1. Pictures!Invoke("have") /\ "have" \in Sayings
    BY DEF Pictures!on_have_output, Sayings
  <2>2. /\ Occurrences(e_transform.events, "need") = Occurrences(Tail(e_transform.events),
             "need") + 0
        /\ Occurrences(e_transform.events, "have") = Occurrences(Tail(e_transform.events),
             "have") + 1
        /\ Occurrences(Tail(e_transform.events), "need") \in Nat
        /\ Occurrences(Tail(e_transform.events), "have") \in Nat
    BY <2>1, HeardIs
  <2> QED  BY <1>1, <2>2
<1>4. /\ e_transform.ready \in Nat /\ e_transform.asked \in Nat
      /\ Len(e_transform.inside) \in Nat
      /\ Depth \in Nat /\ e_requests \in Nat
  BY <1>2, LineFields DEF Pictures!EncoderAssumption, LineTyped
<1>5. /\ Occurrences(e_transform.events, "have") = e_transform.ready
      /\ e_transform.ready <= Len(e_transform.inside)
      /\ e_transform.asked + Len(e_transform.inside) <= Depth
      /\ RequestsKept <= e_transform.asked /\ (e_lost = {} => RequestsKept = e_transform.asked)
  BY <1>2 DEF RequestsCounted
<1>6. e_transform.ready > 0 /\ Len(e_transform.inside) > 0
  BY <1>3, <1>4, <1>5
<1>7. e_transform.inside # <<>> /\ e_transform.inside \in Seq(Nat)
  BY <1>2, <1>6, LineFields
<1>8. /\ f \in Nat /\ Tail(e_transform.inside) \in Seq(Nat) /\ Rising(Tail(e_transform.inside))
      /\ InTransform = {f} \cup Pictures!ToSet(Tail(e_transform.inside))
      /\ AllBefore({f}, Pictures!ToSet(Tail(e_transform.inside)))
  BY <1>2, <1>7, TailIs DEF LineInOrder, InTransform
<1>9. Len(Tail(e_transform.inside)) = Len(e_transform.inside) - 1
  BY <1>7, TailIs
<1>10. (e_event' = [doing |-> "delivers", frame |-> f] /\ e_lost' = e_lost)
         \/ (e_event' = e_event /\ e_lost' = e_lost \cup {f})
  BY DEF Pictures!on_have_output, Pictures!Loses
<1>11. LineTyped'
  <2>1. e_transform' \in [asked : Nat, inside : Seq(Nat), ready : Nat, events : Seq(Sayings)]
    <3>1. e_transform.ready - 1 \in Nat
      BY <1>4, <1>6
    <3> QED  BY <1>1, <1>2, <1>8, <3>1, LineFields
  <2>2. e_event' \in [doing : {"listens", "nothing", "feeds", "delivers"}, frame : Nat]
    BY <1>2, <1>8, <1>10 DEF LineTyped
  <2> QED  BY <1>1, <1>2, <2>1, <2>2 DEF LineTyped
<1>12. OnlyTransformsQueue'
  BY <1>1 DEF OnlyTransformsQueue, Pictures!Encoding
<1>13. /\ OnItsWayOut = {} /\ OnItsWayIn = {} /\ OnItsWayIn' = {}
       /\ UNCHANGED <<InAHand, InQueue>>
       /\ InTransform' = Pictures!ToSet(Tail(e_transform.inside)) /\ OnItsWayOut' \subseteq {f}
       /\ InTheLine' \subseteq InTheLine /\ InTheLine \subseteq InTheLine' \cup {f}
  <2>1. /\ OnItsWayOut = {} /\ OnItsWayIn = {} /\ OnItsWayIn' = {}
        /\ UNCHANGED <<InAHand, InQueue>>
        /\ InTransform' = Pictures!ToSet(Tail(e_transform.inside)) /\ OnItsWayOut' \in {{}, {f}}
    BY <1>1, <1>10 DEF OnItsWayOut, OnItsWayIn, InAHand, InQueue, InTransform
  <2>2. InTheLine' \subseteq InTheLine /\ InTheLine \subseteq InTheLine' \cup {f}
    BY <1>8, <2>1 DEF InTheLine
  <2> QED  BY <2>1, <2>2
<1>14. LineInOrder'
  BY <1>1, <1>2, <1>8, <1>13 DEF LineInOrder, AllBefore
<1>15. NeitherWaits'
  <2>1. e_event'.doing # "feeds"
    BY <1>1, <1>10
  <2> QED  BY <1>1, <1>2, <2>1 DEF NeitherWaits
<1>16. RequestsCounted'
  <2>1. RequestsKept' = RequestsKept
    <3>1. e_event'.doing # "feeds"
      BY <1>1, <1>10
    <3> QED  BY <1>1, <1>3, <3>1 DEF RequestsKept
  <2>2. e_lost' = {} => e_lost = {}
    BY <1>10
  <2>3. RequestsKept' <= e_transform'.asked /\ (e_lost' = {} =>
          RequestsKept' = e_transform'.asked)
    BY <1>1, <1>5, <2>1, <2>2
  <2>4. e_transform'.asked + Len(e_transform'.inside) <= Depth
    BY <1>1, <1>4, <1>5, <1>9
  <2>5. Occurrences(e_transform'.events, "have") = e_transform'.ready
        /\ e_transform'.ready <= Len(e_transform'.inside)
    BY <1>1, <1>3, <1>4, <1>5, <1>9
  <2> QED  BY <2>3, <2>4, <2>5 DEF RequestsCounted
<1>17. FramesKnown'
  <2>1. CASE e_lost' = e_lost \cup {f}
    BY <1>1, <1>2, <1>13, <2>1 DEF FramesKnown
  <2>2. CASE e_event' = [doing |-> "delivers", frame |-> f] /\ e_lost' = e_lost
    <3>1. f \in InTheLine'
      BY <2>2 DEF InTheLine, OnItsWayOut
    <3> QED  BY <1>1, <1>2, <1>13, <2>2, <3>1 DEF FramesKnown
  <2> QED  BY <1>10, <2>1, <2>2
<1> QED  BY <1>11, <1>12, <1>14, <1>15, <1>16, <1>17 DEF LineHolds

(* A frame is handed to libwebrtc.                                         *)
LEMMA DeliverKeeps ==
  ASSUME Pictures!EncoderAssumption, LineHolds, Pictures!deliver
  PROVE  LineHolds'
<1> DEFINE f == e_event.frame
<1>1. /\ e_event.doing = "delivers" /\ e_event' = Pictures!Listening
      /\ e_metadata' = e_metadata \ {f}
      /\ UNCHANGED <<e_made, e_at, e_transform, e_queued, e_requests, e_hand, e_frames>>
      /\ (e_out' = f /\ e_lost' = e_lost) \/ (e_out' = e_out /\ e_lost' = e_lost \cup {f})
  BY DEF Pictures!deliver, Pictures!Loses
<1>2. /\ LineTyped /\ OnlyTransformsQueue /\ LineInOrder /\ NeitherWaits /\ RequestsCounted
      /\ FramesKnown
  BY DEF LineHolds
<1>3. Pictures!Encoding("mediafoundation")
  BY <1>1, <1>2 DEF OnlyTransformsQueue, Pictures!Deaf
<1>4. /\ OnItsWayOut = {f} /\ OnItsWayIn = {} /\ OnItsWayIn' = {} /\ OnItsWayOut' = {}
      /\ UNCHANGED <<InTransform, InAHand, InQueue>>
      /\ InTheLine = {f} \cup InTheLine' /\ InTheLine' = InTransform \cup InAHand \cup InQueue
  BY <1>1 DEF OnItsWayOut, OnItsWayIn, InTransform, InAHand, InQueue, InTheLine,
     Pictures!Listening
<1>5. AllBefore({f}, InTheLine') /\ f \in Nat /\ e_out < f /\ f <= e_frames /\ f \in InTheLine
  BY <1>2, <1>4 DEF LineInOrder, AllBefore
<1>6. f \notin InTheLine'
  BY <1>5 DEF AllBefore
<1>7. LineTyped'
  BY <1>1, <1>2, <1>5 DEF LineTyped, Pictures!Listening, Pictures!NoFrame
<1>8. OnlyTransformsQueue'
  BY <1>1, <1>3 DEF OnlyTransformsQueue, Pictures!Encoding
<1>9. LineInOrder'
  <2>1. AllBefore({e_out'}, InTheLine') /\ e_out' <= e_frames'
    BY <1>1, <1>2, <1>4, <1>5 DEF LineInOrder, AllBefore
  <2> QED  BY <1>1, <1>2, <1>4, <2>1 DEF LineInOrder, AllBefore
<1>10. e_event'.doing = "listens"
  BY <1>1 DEF Pictures!Listening
<1>11. NeitherWaits'
  BY <1>1, <1>2, <1>10 DEF NeitherWaits
<1>12. RequestsCounted'
  <2>1. RequestsKept' = RequestsKept
    BY <1>1, <1>10 DEF RequestsKept
  <2>2. e_lost' = {} => e_lost = {}
    BY <1>1
  <2> QED  BY <1>1, <1>2, <2>1, <2>2 DEF RequestsCounted
<1>13. FramesKnown'
  BY <1>1, <1>2, <1>4, <1>6 DEF FramesKnown
<1> QED  BY <1>7, <1>8, <1>9, <1>11, <1>12, <1>13 DEF LineHolds

(* Nothing listens any more.                                               *)
LEMMA GoesQuietKeeps ==
  ASSUME Pictures!EncoderAssumption, LineHolds, Pictures!GoesQuiet
  PROVE  LineHolds'
<1>1. /\ Pictures!Encoding("mediafoundation") /\ e_event = Pictures!Listening
      /\ UNCHANGED <<e_made, e_at, e_hand, e_frames, e_out, e_queued, e_requests, e_metadata,
           e_lost>>
      /\ Tail(e_transform.events) \in Seq(Sayings) /\ e_event' = Pictures!Deaf
      /\ e_transform' = [asked |-> e_transform.asked, inside |-> e_transform.inside,
                       ready |-> e_transform.ready, events |-> Tail(e_transform.events)]
  BY HeardIs DEF Pictures!GoesQuiet, Sayings
<1>2. LineTyped /\ LineInOrder /\ NeitherWaits /\ RequestsCounted /\ FramesKnown
  BY DEF LineHolds
<1>3. /\ Occurrences(e_transform.events, "need") = Occurrences(e_transform'.events, "need")
      /\ Occurrences(e_transform.events, "have") = Occurrences(e_transform'.events, "have")
      /\ Occurrences(e_transform'.events, "need") \in Nat
      /\ Occurrences(e_transform'.events, "have") \in Nat
  <2>1. Pictures!Invoke("error") /\ "error" \in Sayings
    BY DEF Pictures!GoesQuiet, Sayings
  <2>2. /\ Occurrences(e_transform.events, "need") = Occurrences(Tail(e_transform.events),
             "need") + 0
        /\ Occurrences(e_transform.events, "have") = Occurrences(Tail(e_transform.events),
             "have") + 0
        /\ Occurrences(Tail(e_transform.events), "need") \in Nat
        /\ Occurrences(Tail(e_transform.events), "have") \in Nat
    BY <2>1, HeardIs
  <2> QED  BY <1>1, <2>2
<1>4. LineTyped'
  <2>1. e_transform' \in [asked : Nat, inside : Seq(Nat), ready : Nat, events : Seq(Sayings)]
    BY <1>1, <1>2, LineFields
  <2> QED  BY <1>1, <1>2, <2>1 DEF LineTyped, Pictures!Deaf, Pictures!NoFrame
<1>5. OnlyTransformsQueue'
  BY <1>1 DEF OnlyTransformsQueue, Pictures!Encoding
<1>6. /\ e_event.doing = "listens" /\ e_event'.doing = "nothing"
      /\ e_transform'.inside = e_transform.inside
  BY <1>1 DEF Pictures!Listening, Pictures!Deaf
<1>7. UNCHANGED <<OnItsWayOut, OnItsWayIn, InTransform, InAHand, InQueue>>
  BY <1>1, <1>6 DEF OnItsWayOut, OnItsWayIn, InTransform, InAHand, InQueue
<1>8. InTheLine' = InTheLine
  BY <1>7 DEF InTheLine
<1>9. LineInOrder'
  BY <1>1, <1>2, <1>6, <1>7, <1>8 DEF LineInOrder
<1>10. FramesKnown' /\ NeitherWaits'
  BY <1>1, <1>2, <1>6, <1>8 DEF FramesKnown, NeitherWaits
<1>11. RequestsCounted'
  <2>1. RequestsKept' = RequestsKept
    BY <1>1, <1>3, <1>6 DEF RequestsKept
  <2> QED  BY <1>1, <1>2, <1>3, <2>1 DEF RequestsCounted
<1> QED  BY <1>4, <1>5, <1>9, <1>10, <1>11 DEF LineHolds

(* The transform asks, has a frame ready or breaks down.                   *)
LEMMA TransformKeeps ==
  ASSUME Pictures!EncoderAssumption, LineHolds,
         Pictures!Asks \/ Pictures!IsReady \/ Pictures!BreaksDown
  PROVE  LineHolds'
<1>1. LineTyped /\ RequestsCounted
  BY DEF LineHolds
<1>2. /\ e_transform.asked \in Nat /\ e_transform.ready \in Nat
      /\ Len(e_transform.inside) \in Nat
      /\ Depth \in Nat
  BY <1>1, LineFields DEF Pictures!EncoderAssumption
<1>3. /\ e_transform.asked + Len(e_transform.inside) <= Depth
      /\ e_transform.ready <= Len(e_transform.inside)
  BY <1>1 DEF RequestsCounted
<1>4. CASE Pictures!Asks
  <2>1. /\ Pictures!Encoding("mediafoundation")
        /\ UNCHANGED <<e_made, e_at, Pictures!line, Pictures!counts>>
        /\ e_transform' = [Pictures!Says("need") EXCEPT !.asked = @ + 1]
        /\ e_transform.asked + Len(e_transform.inside) < Depth
    BY <1>4 DEF Pictures!Asks, Pictures!Speaks, Pictures!Running
  <2>2. e_transform' = [e_transform EXCEPT !.events = Append(@, "need"),
                        !.asked = e_transform.asked + 1, !.ready = e_transform.ready]
    BY <1>1, <2>1 DEF Pictures!Says, LineTyped
  <2>3. /\ e_transform.asked + 1 \in Nat
        /\ e_transform.asked + 1 + Len(e_transform.inside) <= Depth
        /\ e_transform.ready = e_transform.ready + 0
    BY <1>2, <2>1
  <2> QED  BY <1>2, <1>3, <2>1, <2>2, <2>3, SpeaksKeeps DEF Sayings
<1>5. CASE Pictures!IsReady
  <2>1. /\ Pictures!Encoding("mediafoundation")
        /\ UNCHANGED <<e_made, e_at, Pictures!line, Pictures!counts>>
        /\ e_transform' = [Pictures!Says("have") EXCEPT !.ready = @ + 1]
        /\ e_transform.ready < Len(e_transform.inside)
    BY <1>5 DEF Pictures!IsReady, Pictures!Speaks, Pictures!Running
  <2>2. e_transform' = [e_transform EXCEPT !.events = Append(@, "have"),
                        !.asked = e_transform.asked, !.ready = e_transform.ready + 1]
    BY <1>1, <2>1 DEF Pictures!Says, LineTyped
  <2>3. /\ e_transform.ready + 1 \in Nat /\ e_transform.ready + 1 <= Len(e_transform.inside)
        /\ e_transform.asked = e_transform.asked + 0
    BY <1>2, <2>1
  <2> QED  BY <1>2, <1>3, <2>1, <2>2, <2>3, SpeaksKeeps DEF Sayings
<1>6. CASE Pictures!BreaksDown
  <2>1. /\ Pictures!Encoding("mediafoundation")
        /\ UNCHANGED <<e_made, e_at, Pictures!line, Pictures!counts>>
        /\ e_transform' = Pictures!Says("error")
    BY <1>6 DEF Pictures!BreaksDown, Pictures!Speaks, Pictures!Running
  <2>2. e_transform' = [e_transform EXCEPT !.events = Append(@, "error"),
                        !.asked = e_transform.asked, !.ready = e_transform.ready]
    BY <1>1, <2>1 DEF Pictures!Says, LineTyped
  <2>3. e_transform.ready = e_transform.ready + 0 /\ e_transform.asked = e_transform.asked + 0
    BY <1>2
  <2> QED  BY <1>2, <1>3, <2>1, <2>2, <2>3, SpeaksKeeps DEF Sayings
<1> QED  BY <1>4, <1>5, <1>6

(* Other variables do not matter.                                          *)
LEMMA StillKeeps ==
  ASSUME LineHolds, UNCHANGED <<e_made, e_at, e_transform, Pictures!line, Pictures!counts>>
  PROVE  LineHolds'
<1>1. UNCHANGED <<e_made, e_at, e_transform, e_queued, e_requests, e_metadata, e_hand, e_event,
        e_frames, e_out, e_lost>>
  BY DEF Pictures!line, Pictures!counts
<1>2. UNCHANGED <<OnItsWayOut, OnItsWayIn, InTransform, InAHand, InQueue, InTheLine,
        RequestsKept>>
  BY <1>1 DEF OnItsWayOut, OnItsWayIn, InTransform, InAHand, InQueue, InTheLine, RequestsKept
<1> QED  BY <1>1, <1>2 DEF LineHolds, LineTyped, OnlyTransformsQueue, Pictures!Encoding,
      LineInOrder, NeitherWaits, RequestsCounted, FramesKnown

(* Every step keeps the invariant.                                         *)
LEMMA LineHoldsOn ==
  ASSUME Pictures!EncoderAssumption, LineHolds, [Pictures!Next]_(Pictures!vars)
  PROVE  LineHolds'
<1>1. CASE UNCHANGED (Pictures!vars)
  BY <1>1, StillKeeps DEF Pictures!vars, Pictures!line, Pictures!counts
<1>2. ASSUME NEW bitrate \in Rates, Pictures!SetRates(bitrate) PROVE LineHolds'
  BY <1>2, StillKeeps DEF Pictures!SetRates
<1>3. CASE Pictures!Encode
  BY <1>3, TakeKeeps, QueueKeeps
<1>4. CASE Pictures!Next
  BY <1>2, <1>3, <1>4, LineIsEmptied, FeedsKeeps, EventFeedsKeeps, TransformKeeps, NeedKeeps,
     HaveKeeps,
     DeliverKeeps, GoesQuietKeeps DEF Pictures!Next
<1> QED  BY <1>1, <1>4
-----------------------------------------------------------------------------
(* The line is the five queues, one behind another.                        *)
LEMMA JoinedIs ==
  ASSUME NEW s \in Seq(Nat), NEW t \in Seq(Nat), Rising(s), Rising(t),
         AllBefore(Pictures!ToSet(s), Pictures!ToSet(t))
  PROVE  /\ s \o t \in Seq(Nat) /\ Rising(s \o t)
         /\ Pictures!ToSet(s \o t) = Pictures!ToSet(s) \cup Pictures!ToSet(t)
<1> DEFINE u == s \o t m == Len(s) n == Len(t)
<1>1. /\ u \in Seq(Nat) /\ m \in Nat /\ n \in Nat
      /\ DOMAIN s = 1 .. m /\ DOMAIN t = 1 .. n /\ DOMAIN u = 1 .. (m + n)
      /\ \A i \in 1 .. m + n : u[i] = IF i <= m THEN s[i] ELSE t[i - m]
  BY ConcatProperties
<1> HIDE DEF u, m, n
<1>3. /\ \A i \in DOMAIN s : i \in Nat /\ i >= 1 /\ i <= m
      /\ \A i \in DOMAIN u : i \in Nat /\ i >= 1 /\ i <= m + n
      /\ \A i \in Nat : i >= 1 /\ i <= m => i \in DOMAIN s
  BY <1>1
<1>2. /\ \A i \in DOMAIN s : i \in DOMAIN u /\ u[i] = s[i]
      /\ \A i \in DOMAIN t : i + m \in DOMAIN u /\ u[i + m] = t[i]
      /\ \A i \in DOMAIN u : i \in DOMAIN s \/ (i - m \in DOMAIN t /\ u[i] = t[i - m])
  <2>1. \A i \in DOMAIN s : i \in DOMAIN u /\ u[i] = s[i]
    BY <1>1
  <2>2. ASSUME NEW i \in DOMAIN t PROVE i + m \in DOMAIN u /\ u[i + m] = t[i]
    <3>1. i \in Nat /\ i >= 1 /\ i <= n
      BY <1>1
    <3>2. i + m \in 1 .. m + n /\ ~(i + m <= m) /\ (i + m) - m = i
      BY <1>1, <3>1
    <3> QED  BY <1>1, <3>2
  <2>3. ASSUME NEW i \in DOMAIN u, i \notin DOMAIN s
        PROVE  i - m \in DOMAIN t /\ u[i] = t[i - m]
    <3>1. i \in 1 .. m + n /\ ~(i <= m)
      BY <1>1, <2>3
    <3>2. i - m \in 1 .. n
      BY <1>1, <3>1
    <3> QED  BY <1>1, <3>1, <3>2
  <2> QED  BY <2>1, <2>2, <2>3
<1>4. Pictures!ToSet(u) = Pictures!ToSet(s) \cup Pictures!ToSet(t)
  <2>1. Pictures!ToSet(s) \cup Pictures!ToSet(t) \subseteq Pictures!ToSet(u)
    BY <1>2 DEF Pictures!ToSet
  <2>2. Pictures!ToSet(u) \subseteq Pictures!ToSet(s) \cup Pictures!ToSet(t)
    BY <1>2 DEF Pictures!ToSet
  <2> QED  BY <2>1, <2>2
<1>5. ASSUME NEW i \in DOMAIN u, NEW j \in DOMAIN u, i < j PROVE u[i] < u[j]
  <2>1. CASE i \in DOMAIN s /\ j \in DOMAIN s
    BY <1>2, <1>5, <2>1 DEF Rising
  <2>2. CASE i \in DOMAIN s /\ j \notin DOMAIN s
    <3>1. u[i] \in Pictures!ToSet(s) /\ u[j] \in Pictures!ToSet(t)
      BY <1>2, <2>2 DEF Pictures!ToSet
    <3> QED  BY <3>1 DEF AllBefore
  <2>3. CASE i \notin DOMAIN s
    <3>1. j \notin DOMAIN s
      BY <1>1, <1>3, <1>5, <2>3
    <3>2. /\ u[i] = t[i - m] /\ u[j] = t[j - m]
          /\ i - m \in DOMAIN t /\ j - m \in DOMAIN t
      BY <1>2, <2>3, <3>1
    <3>3. i - m < j - m
      BY <1>1, <1>3, <1>5
    <3> QED  BY <3>2, <3>3 DEF Rising
  <2> QED  BY <2>1, <2>2, <2>3
<1>6. Rising(u)
  BY <1>5 DEF Rising
<1> QED  BY <1>1, <1>4, <1>6 DEF u

(* One frame is a line.                                                    *)
LEMMA SingleIs ==
  ASSUME NEW x \in Nat
  PROVE  <<x>> \in Seq(Nat) /\ Rising(<<x>>) /\ Pictures!ToSet(<<x>>) = {x} /\ Len(<<x>>) = 1
<1>1. <<x>> \in Seq(Nat) /\ Len(<<x>>) = 1 /\ DOMAIN <<x>> = {1} /\ <<x>>[1] = x
  OBVIOUS
<1> QED  BY <1>1 DEF Rising, Pictures!ToSet

(* What the model calls the line is where the invariant says frames are.   *)
LEMMA LineIs ==
  ASSUME LineHolds
  PROVE  /\ Pictures!Line \in Seq(Nat) /\ Rising(Pictures!Line)
         /\ Pictures!ToSet(Pictures!Line) = InTheLine
<1>1. LineTyped /\ LineInOrder
  BY DEF LineHolds
<1> DEFINE a == Pictures!When("delivers") b == e_transform.inside c ==
      Pictures!When("feeds") d == Pictures!InHand
<1>2. /\ a \in Seq(Nat) /\ Rising(a) /\ Pictures!ToSet(a) = OnItsWayOut
      /\ c \in Seq(Nat) /\ Rising(c) /\ Pictures!ToSet(c) = OnItsWayIn
      /\ d \in Seq(Nat) /\ Rising(d) /\ Pictures!ToSet(d) = InAHand
  <2>1. <<>> \in Seq(Nat) /\ e_event.frame \in Nat /\ e_hand \in Nat
    BY <1>1, LineFields DEF LineTyped
  <2>2. a \in Seq(Nat) /\ Rising(a) /\ Pictures!ToSet(a) = OnItsWayOut
    BY <2>1, EmptySequence, SingleIs DEF Pictures!When, OnItsWayOut
  <2>3. c \in Seq(Nat) /\ Rising(c) /\ Pictures!ToSet(c) = OnItsWayIn
    BY <2>1, EmptySequence, SingleIs DEF Pictures!When, OnItsWayIn
  <2>4. d \in Seq(Nat) /\ Rising(d) /\ Pictures!ToSet(d) = InAHand
    BY <2>1, EmptySequence, SingleIs DEF Pictures!InHand, Pictures!Free, InAHand
  <2> QED  BY <2>2, <2>3, <2>4
<1>3. /\ b \in Seq(Nat) /\ Rising(b) /\ Pictures!ToSet(b) = InTransform
      /\ e_queued \in Seq(Nat) /\ Rising(e_queued) /\ Pictures!ToSet(e_queued) = InQueue
  BY <1>1, LineFields DEF LineInOrder, LineTyped, InTransform, InQueue
<1>5. /\ AllBefore(OnItsWayOut, InTransform)
      /\ AllBefore(OnItsWayOut \cup InTransform, OnItsWayIn)
      /\ AllBefore(OnItsWayOut \cup InTransform \cup OnItsWayIn, InAHand)
      /\ AllBefore(OnItsWayOut \cup InTransform \cup OnItsWayIn \cup InAHand, InQueue)
  <2>1. NeitherWaits
    BY DEF LineHolds
  <2>2. OnItsWayIn = {} \/ InAHand = {}
    BY <2>1 DEF NeitherWaits, OnItsWayIn, InAHand
  <2>3. InAHand = {} \/ InQueue = {}
    BY <2>1, EmptySequence DEF NeitherWaits, InAHand, InQueue
  <2> QED  BY <1>1, <2>2, <2>3 DEF LineInOrder, AllBefore
<1> DEFINE e == a \o b f == e \o c g == f \o d
<1> HIDE DEF a, b, c, d
<1>6. e \in Seq(Nat) /\ Rising(e) /\ Pictures!ToSet(e) = OnItsWayOut \cup InTransform
  BY <1>2, <1>3, <1>5, JoinedIs
<1> HIDE DEF e
<1>7. /\ f \in Seq(Nat) /\ Rising(f)
      /\ Pictures!ToSet(f) = OnItsWayOut \cup InTransform \cup OnItsWayIn
  BY <1>2, <1>5, <1>6, JoinedIs
<1> HIDE DEF f
<1>8. /\ g \in Seq(Nat) /\ Rising(g)
      /\ Pictures!ToSet(g) = OnItsWayOut \cup InTransform \cup OnItsWayIn \cup InAHand
  <2>1. AllBefore(Pictures!ToSet(f), Pictures!ToSet(d))
    BY <1>2, <1>5, <1>7
  <2>2. /\ g \in Seq(Nat) /\ Rising(g)
        /\ Pictures!ToSet(g) = Pictures!ToSet(f) \cup Pictures!ToSet(d)
    BY <1>2, <1>7, <2>1, JoinedIs
  <2> QED  BY <1>2, <1>7, <2>2
<1> HIDE DEF g
<1>9. /\ g \o e_queued \in Seq(Nat) /\ Rising(g \o e_queued)
      /\ Pictures!ToSet(g \o e_queued) =
           OnItsWayOut \cup InTransform \cup OnItsWayIn \cup InAHand \cup InQueue
  BY <1>3, <1>5, <1>8, JoinedIs
<1>10. Pictures!Line = g \o e_queued
  BY DEF Pictures!Line, a, b, c, d, e, f, g
<1> QED  BY <1>9, <1>10 DEF InTheLine

(* The invariant gives what is promised of the line.                       *)
LEMMA LineFlows ==
  ASSUME LineHolds
  PROVE  Pictures!FramesFlow
<1>1. LineTyped /\ LineInOrder /\ NeitherWaits /\ RequestsCounted /\ FramesKnown
  BY DEF LineHolds
<1>2. /\ Pictures!Line \in Seq(Nat) /\ Rising(Pictures!Line)
      /\ Pictures!ToSet(Pictures!Line) = InTheLine
  BY LineIs
<1>3. e_requests + Pictures!Cardinality(Pictures!NeedsTold) + Len(Pictures!InHand)
        + Len(Pictures!When("feeds")) = RequestsKept
  <2>1. Pictures!Cardinality(Pictures!NeedsTold) = Occurrences(e_transform.events, "need")
    BY DEF Pictures!NeedsTold, Occurrences, Pictures!Cardinality, Cardinality
  <2>2. Len(Pictures!InHand) = (IF e_hand = Pictures!NoFrame THEN 0 ELSE 1)
    BY <1>1, SingleIs DEF Pictures!InHand, Pictures!Free, LineTyped
  <2>3. Len(Pictures!When("feeds")) = (IF e_event.doing = "feeds" THEN 1 ELSE 0)
    BY <1>1, SingleIs, LineFields DEF Pictures!When
  <2> QED  BY <2>1, <2>2, <2>3 DEF RequestsKept
<1>4. \A i \in DOMAIN Pictures!Line : Pictures!Line[i] \in InTheLine
  BY <1>2 DEF Pictures!ToSet
<1>5. ASSUME NEW i \in DOMAIN Pictures!Line
             PROVE e_out < Pictures!Line[i] /\ (i > 1 => Pictures!Line[i - 1] < Pictures!Line[i])
  <2>1. e_out < Pictures!Line[i]
    BY <1>1, <1>4 DEF LineInOrder, AllBefore
  <2>2. ASSUME i > 1 PROVE Pictures!Line[i - 1] < Pictures!Line[i]
    <3>1. i - 1 \in DOMAIN Pictures!Line /\ i - 1 < i
      BY <1>2, <2>2
    <3> QED  BY <1>2, <3>1 DEF Rising
  <2> QED  BY <2>1, <2>2
<1>6. /\ e_requests > 0 => e_queued = <<>>
      /\ Len(e_queued) <= Pictures!kMaxQueuedFrames
  BY <1>1 DEF NeitherWaits
<1>7. RequestsKept <= e_transform.asked /\ (e_lost = {} => RequestsKept = e_transform.asked)
  BY <1>1 DEF RequestsCounted
<1>8. /\ Pictures!ToSet(Pictures!Line) \subseteq e_metadata
      /\ e_metadata \subseteq Pictures!ToSet(Pictures!Line) \cup e_lost
  BY <1>1, <1>2 DEF FramesKnown
<1> QED  BY <1>3, <1>5, <1>6, <1>7, <1>8 DEF Pictures!FramesFlow
-----------------------------------------------------------------------------
(* What a card and a session have in them.                                 *)
CardSays(c, typed, mode, mean, peak) ==
  /\ DOMAIN c = {"typed", "mode", "mean", "peak"}
  /\ c.typed = typed /\ c.mode = mode /\ c.mean = mean /\ c.peak = peak
SessionSays(s, bitrate, peak, steered, constrained) ==
  /\ DOMAIN s = {"size", "bitrate", "peak", "steered", "constrained"}
  /\ s.bitrate = bitrate /\ s.peak = peak /\ s.steered = steered /\ s.constrained = constrained

(* An encoder at work has a card, a session and rates that hold.           *)
RatesHeld == e_at = "hardware" =>
  /\ \E mode, mean, peak : CardSays(e_card, TRUE, mode, mean, peak)
  /\ \E bitrate, peak : \E steered, constrained \in BOOLEAN :
       SessionSays(e_session, bitrate, peak, steered, constrained)
  /\ e_made.backend \in {"nvenc", "mediafoundation"}
  /\ Pictures!RatesHold

(* What a card takes of what it is told: the mode and the peak not after   *)
(* the types are set.                                                      *)
LEMMA CardTakes ==
  ASSUME NEW c, NEW typed, NEW mode, NEW mean, NEW peak, CardSays(c, typed, mode, mean, peak),
         NEW v
  PROVE  /\ CardSays(Pictures!apply_rate_control(c, v), typed, "variable", v, v)
         /\ CardSays(Pictures!set_codec_value(c, "mean", v), typed, mode, v, peak)
         /\ typed = FALSE =>
              CardSays(Pictures!set_codec_value(c, "mode", v), FALSE, v, mean, peak)
         /\ typed = FALSE =>
              CardSays(Pictures!set_codec_value(c, "peak", v), FALSE, mode, mean, v)
         /\ CardSays([c EXCEPT !.typed = TRUE], TRUE, mode, mean, peak)
<1>1. CardSays(Pictures!apply_rate_control(c, v), typed, "variable", v, v)
  BY DEF CardSays, Pictures!apply_rate_control
<1>2. CardSays([c EXCEPT !["mean"] = v], typed, mode, v, peak)
  BY DEF CardSays
<1>3. CardSays([c EXCEPT !["mode"] = v], typed, v, mean, peak)
  BY DEF CardSays
<1>4. CardSays([c EXCEPT !["peak"] = v], typed, mode, mean, v)
  BY DEF CardSays
<1>5. CardSays([c EXCEPT !.typed = TRUE], TRUE, mode, mean, peak)
  BY DEF CardSays
<1>6. Pictures!set_codec_value(c, "mean", v) = [c EXCEPT !["mean"] = v]
  BY DEF Pictures!set_codec_value, Pictures!Fixed
<1>7. typed = FALSE => /\ Pictures!set_codec_value(c, "mode", v) = [c EXCEPT !["mode"] = v]
                       /\ Pictures!set_codec_value(c, "peak", v) = [c EXCEPT !["peak"] = v]
  BY DEF Pictures!set_codec_value, Pictures!Fixed, CardSays
<1> QED  BY <1>1, <1>2, <1>3, <1>4, <1>5, <1>6, <1>7

(* Setting the types keeps a mean that was set.                            *)
LEMMA TypesSet ==
  ASSUME NEW c, NEW typed, NEW mode, NEW mean, NEW peak, CardSays(c, typed, mode, mean, peak),
         NEW s, mean = Pictures!Own \/ mean = s.bitrate
  PROVE  CardSays(Pictures!set_types(c, s), TRUE, mode, s.bitrate, peak)
BY DEF CardSays, Pictures!set_types

(* A card that was told nothing.                                           *)
LEMMA FreshCard == CardSays(Pictures!Fresh, FALSE, "own", Pictures!Own, Pictures!Own)
BY DEF Pictures!Fresh, CardSays

(* Configured before the types are set, all of it is taken.                *)
LEMMA ConfiguredIs ==
  ASSUME NEW s, NEW bitrate, NEW peak, NEW steered \in BOOLEAN, NEW constrained \in BOOLEAN,
         SessionSays(s, bitrate, peak, steered, constrained)
  PROVE  /\ ~steered => CardSays(Pictures!configure(s), TRUE, "own", bitrate, Pictures!Own)
         /\ steered /\ constrained =>
              CardSays(Pictures!configure(s), TRUE, "constrained", bitrate, peak)
         /\ steered /\ ~constrained =>
              CardSays(Pictures!configure(s), TRUE, "constant", bitrate, Pictures!Own)
<1>1. /\ s.bitrate = bitrate /\ s.peak = peak
      /\ s.steered = steered /\ s.constrained = constrained
  BY DEF SessionSays
<1> DEFINE c == Pictures!apply_static_codec_settings(Pictures!Fresh, s)
<1>2. Pictures!configure(s) = Pictures!set_types(c, s)
  BY DEF Pictures!configure
<1>3. CASE ~steered
  <2>1. CardSays(c, FALSE, "own", Pictures!Own, Pictures!Own)
    BY <1>1, <1>3, FreshCard DEF Pictures!apply_static_codec_settings
  <2> HIDE DEF c
  <2> QED  BY <1>1, <1>2, <1>3, <2>1, TypesSet
<1>4. CASE steered
  <2> DEFINE mode == IF constrained THEN "constrained" ELSE "constant"
             moded == Pictures!set_codec_value(Pictures!Fresh, "mode", mode)
             meant == Pictures!set_codec_value(moded, "mean", bitrate)
  <2>1. c = IF constrained THEN Pictures!set_codec_value(meant, "peak", peak) ELSE meant
    <3>1. CASE constrained
      BY <1>1, <1>4, <3>1 DEF Pictures!apply_static_codec_settings
    <3>2. CASE ~constrained
      BY <1>1, <1>4, <3>2 DEF Pictures!apply_static_codec_settings
    <3> QED  BY <3>1, <3>2
  <2> HIDE DEF mode
  <2>2. CardSays(moded, FALSE, mode, Pictures!Own, Pictures!Own)
    BY FreshCard, CardTakes
  <2> HIDE DEF moded
  <2>3. CardSays(meant, FALSE, mode, bitrate, Pictures!Own)
    BY <2>2, CardTakes
  <2> HIDE DEF meant
  <2>4. CardSays(Pictures!set_codec_value(meant, "peak", peak), FALSE, mode, bitrate, peak)
    BY <2>3, CardTakes
  <2> HIDE DEF c
  <2>5. CASE constrained
    <3>1. CardSays(c, FALSE, mode, bitrate, peak)
      BY <2>1, <2>4, <2>5
    <3>2. CardSays(Pictures!configure(s), TRUE, mode, bitrate, peak)
      BY <1>1, <1>2, <3>1, TypesSet
    <3> QED  BY <1>4, <2>5, <3>2 DEF mode
  <2>6. CASE ~constrained
    <3>1. CardSays(c, FALSE, mode, bitrate, Pictures!Own)
      BY <2>1, <2>3, <2>6
    <3>2. CardSays(Pictures!configure(s), TRUE, mode, bitrate, Pictures!Own)
      BY <1>1, <1>2, <3>1, TypesSet
    <3> QED  BY <1>4, <2>6, <3>2 DEF mode
  <2> QED  BY <2>5, <2>6
<1> QED  BY <1>3, <1>4

(* An encoder that starts goes by what it was started with.                *)
LEMMA StartsHeld ==
  ASSUME NEW s, NEW bitrate, NEW peak, NEW steered \in BOOLEAN, NEW constrained \in BOOLEAN,
         SessionSays(s, bitrate, peak, steered, constrained), Pictures!StartsOn(s),
           e_made' = e_made
  PROVE  RatesHeld'
<1>1. /\ s.bitrate = bitrate /\ s.peak = peak
      /\ s.steered = steered /\ s.constrained = constrained
  BY DEF SessionSays
<1>2. e_session' = s /\ e_told' = bitrate /\ e_at' = "hardware"
  BY <1>1 DEF Pictures!StartsOn
<1>3. \E r, p : \E t, c \in BOOLEAN : SessionSays(e_session', r, p, t, c)
  BY <1>2
<1>5. CASE /\ e_made.backend = "nvenc"
           /\ e_card' = Pictures!apply_rate_control([Pictures!Fresh EXCEPT !.typed = TRUE],
                bitrate)
  <2>1. CardSays([Pictures!Fresh EXCEPT !.typed = TRUE], TRUE, "own", Pictures!Own, Pictures!Own)
    BY FreshCard, CardTakes
  <2>2. CardSays(e_card', TRUE, "variable", bitrate, bitrate)
    BY <1>5, <2>1, CardTakes
  <2>3. Pictures!RatesHold'
    BY <1>2, <1>5, <2>2 DEF Pictures!RatesHold, CardSays
  <2> QED  BY <1>2, <1>3, <1>5, <2>2, <2>3 DEF RatesHeld
<1>6. CASE e_made.backend = "mediafoundation" /\ e_card' = Pictures!configure(s)
  <2>1. \E mode, top : CardSays(e_card', TRUE, mode, bitrate, top)
    BY <1>6, ConfiguredIs
  <2>2. Pictures!RatesHold'
    <3>1. CASE ~steered
      BY <1>1, <1>2, <1>6, <3>1 DEF Pictures!RatesHold
    <3>2. CASE steered /\ constrained
      <4>1. CardSays(e_card', TRUE, "constrained", bitrate, peak)
        BY <1>6, <3>2, ConfiguredIs
      <4> QED  BY <1>1, <1>2, <1>6, <3>2, <4>1 DEF Pictures!RatesHold, CardSays
    <3>3. CASE steered /\ ~constrained
      <4>1. CardSays(e_card', TRUE, "constant", bitrate, Pictures!Own)
        BY <1>6, <3>3, ConfiguredIs
      <4> QED  BY <1>1, <1>2, <1>6, <3>3, <4>1 DEF Pictures!RatesHold, CardSays
    <3> QED  BY <3>1, <3>2, <3>3
  <2> QED  BY <1>2, <1>3, <1>6, <2>1, <2>2 DEF RatesHeld
<1> QED  BY <1>1, <1>5, <1>6 DEF Pictures!StartsOn

(* What is opened is a session, whatever it can be told later.             *)
LEMMA OpenedSession ==
  ASSUME NEW offer, NEW steered, NEW constrained
  PROVE  \E bitrate, peak :
           SessionSays([Pictures!Opened(offer) EXCEPT !.steered = steered,
             !.constrained = constrained],
                     bitrate, peak, steered, constrained)
<1>1. DOMAIN Pictures!Opened(offer) = {"size", "bitrate", "peak", "steered", "constrained"}
  BY DEF Pictures!Opened, Pictures!NoSession
<1> DEFINE s == [Pictures!Opened(offer) EXCEPT !.steered = steered, !.constrained = constrained]
<1>2. SessionSays(s, s.bitrate, s.peak, steered, constrained)
  BY <1>1 DEF SessionSays
<1> QED  BY <1>2

(* Every step keeps the rates.                                             *)
LEMMA RatesHeldOn ==
  ASSUME Pictures!EncoderAssumption, RatesHeld, [Pictures!Next]_(Pictures!vars)
  PROVE  RatesHeld'
<1>1. CASE UNCHANGED (Pictures!vars)
  BY <1>1 DEF Pictures!vars, RatesHeld, Pictures!RatesHold
<1>2. ASSUME UNCHANGED <<e_made, e_at, e_session, e_card, e_told, e_refused>> PROVE RatesHeld'
  BY <1>2 DEF RatesHeld, Pictures!RatesHold
<1>3. ASSUME e_at' # "hardware" PROVE RatesHeld'
  BY <1>3 DEF RatesHeld
<1>4. ASSUME NEW machine \in Machines, NEW format \in {"H264", "VP8"}, Pictures!Make(machine,
             format)
      PROVE  RatesHeld'
  BY <1>3, <1>4 DEF Pictures!Make
<1>5. ASSUME NEW offer \in Openings, Pictures!InitEncode(offer) PROVE RatesHeld'
  <2>1. CASE Pictures!FallsBack
    BY <1>3, <2>1 DEF Pictures!FallsBack
  <2>2. ASSUME NEW steered \in BOOLEAN, NEW constrained \in BOOLEAN,
               Pictures!StartsOn(Pictures!Probed(Pictures!Opened(offer), steered, constrained))
        PROVE  RatesHeld'
    <3> DEFINE s == Pictures!Probed(Pictures!Opened(offer), steered, constrained)
    <3>1. PICK bitrate, peak : SessionSays(s, bitrate, peak, steered, steered /\ constrained)
      BY OpenedSession DEF Pictures!Probed
    <3>2. Pictures!StartsOn(s) /\ e_made' = e_made
      BY <1>5, <2>2 DEF Pictures!InitEncode
    <3>3. (steered /\ constrained) \in BOOLEAN
      OBVIOUS
    <3> HIDE DEF s
    <3> QED  BY <3>1, <3>2, <3>3, StartsHeld
  <2> QED  BY <1>5, <2>1, <2>2 DEF Pictures!InitEncode
<1>6. ASSUME NEW offer \in Openings, Pictures!EncodesAtOnce(offer.size) PROVE RatesHeld'
  <2>1. /\ UNCHANGED <<e_made, e_told, e_refused>>
        /\ (e_at' # "hardware" \/ UNCHANGED <<e_at, e_session, e_card>>)
    BY <1>6 DEF Pictures!EncodesAtOnce, Pictures!FallsBack
  <2> QED  BY <1>2, <1>3, <2>1
<1>7. ASSUME NEW bitrate \in Rates, Pictures!SetRates(bitrate) PROVE RatesHeld'
  <2>1. /\ e_at = "hardware" /\ UNCHANGED <<e_made, e_at>> /\ e_told' = bitrate
        /\ e_session' = [e_session EXCEPT !.bitrate = bitrate]
    BY <1>7 DEF Pictures!SetRates
  <2>2. PICK mode, mean, top : CardSays(e_card, TRUE, mode, mean, top)
    BY <2>1 DEF RatesHeld
  <2>3. PICK rate, peak : \E steered, constrained \in BOOLEAN :
          SessionSays(e_session, rate, peak, steered, constrained)
    BY <2>1 DEF RatesHeld
  <2>4. PICK steered \in BOOLEAN, constrained \in BOOLEAN :
          SessionSays(e_session, rate, peak, steered, constrained)
    BY <2>3
  <2>5. SessionSays(e_session', bitrate, peak, steered, constrained)
    BY <2>1, <2>4 DEF SessionSays
  <2>6. /\ e_session.steered = steered /\ e_session.constrained = constrained
        /\ e_session.peak = peak
        /\ e_session'.steered = steered /\ e_session'.constrained = constrained
        /\ e_session'.peak = peak
    BY <2>4, <2>5 DEF SessionSays
  <2>7. e_made.backend \in {"nvenc", "mediafoundation"} /\ Pictures!RatesHold
    BY <2>1 DEF RatesHeld
  <2>9. e_card.typed /\ e_card.mode = mode /\ e_card.peak = top
    BY <2>2 DEF CardSays
  <2>10. (\E m, a, k : CardSays(e_card', TRUE, m, a, k)) /\ Pictures!RatesHold' => RatesHeld'
    BY <2>1, <2>5, <2>7 DEF RatesHeld
  <2>11. CASE e_made.backend = "nvenc" /\ e_card' = Pictures!apply_rate_control(e_card, bitrate)
    <3>1. CardSays(e_card', TRUE, "variable", bitrate, bitrate)
      BY <2>2, <2>11, CardTakes
    <3>2. Pictures!RatesHold'
      BY <2>1, <2>11, <3>1 DEF Pictures!RatesHold, CardSays
    <3> QED  BY <2>10, <3>1, <3>2
  <2>12. CASE /\ e_made.backend = "mediafoundation"
              /\ e_card' = Pictures!set_codec_value(e_card, "mean", bitrate)
              /\ e_refused' = e_refused
    <3>1. CardSays(e_card', TRUE, mode, bitrate, top)
      BY <2>2, <2>12, CardTakes
    <3>2. e_card'.typed /\ e_card'.mode = mode /\ e_card'.mean = bitrate /\ e_card'.peak = top
      BY <3>1 DEF CardSays
    <3>3. Pictures!RatesHold'
      BY <2>1, <2>6, <2>7, <2>9, <2>12, <3>2 DEF Pictures!RatesHold
    <3> QED  BY <2>10, <3>1, <3>3
  <2>13. CASE e_refused' = TRUE /\ e_card' = e_card
    BY <2>2, <2>10, <2>13 DEF Pictures!RatesHold
  <2> QED  BY <1>7, <2>11, <2>12, <2>13 DEF Pictures!SetRates
<1>8. CASE Pictures!Release
  BY <1>3, <1>8 DEF Pictures!Release
<1>9. CASE Pictures!Encode
  BY <1>2, <1>9 DEF Pictures!Encode
<1>10. CASE Pictures!Feeds \/ Pictures!EventFeeds
  BY <1>2, <1>10 DEF Pictures!Feeds, Pictures!EventFeeds
<1>11. CASE Pictures!Asks \/ Pictures!IsReady \/ Pictures!BreaksDown
  BY <1>2, <1>11 DEF Pictures!Asks, Pictures!IsReady, Pictures!BreaksDown, Pictures!Speaks
<1>12. CASE Pictures!on_need_input \/ Pictures!on_have_output \/ Pictures!GoesQuiet
  BY <1>2, <1>12 DEF Pictures!on_need_input, Pictures!on_have_output, Pictures!GoesQuiet,
     Pictures!Invoke
<1>13. CASE Pictures!deliver
  BY <1>2, <1>13 DEF Pictures!deliver
<1>14. CASE Pictures!Next
  BY <1>4, <1>5, <1>6, <1>7, <1>8, <1>9, <1>10, <1>11, <1>12, <1>13, <1>14 DEF Pictures!Next
<1> QED  BY <1>1, <1>14

(* MediaFoundationEncoder and NvencEncoder: for any machines, sizes, rates *)
(* and depths, frames of a shared screen come out in the order they were   *)
(* taken, each request of the transform is answered once and waits beside  *)
(* no frame, and the driver goes by the rate it was told last.             *)
THEOREM PicturesEncodeAsTold ==
  ASSUME Pictures!EncoderAssumption
  PROVE  Pictures!Spec => []Pictures!EncodesAsTold
<1>1. Pictures!Init => LineHolds /\ RatesHeld
  BY LineHoldsAtFirst DEF Pictures!Init, RatesHeld
<1>2. LineHolds /\ RatesHeld /\ [Pictures!Next]_(Pictures!vars) => (LineHolds /\ RatesHeld)'
  BY LineHoldsOn, RatesHeldOn
<1>3. LineHolds /\ RatesHeld => Pictures!EncodesAsTold
  BY LineFlows DEF Pictures!EncodesAsTold, RatesHeld, Pictures!RatesHold
<1> QED  BY <1>1, <1>2, <1>3, PTL DEF Pictures!Spec
=============================================================================
