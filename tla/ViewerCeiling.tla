---------------------------- MODULE ViewerCeiling ----------------------------
(***************************************************************************)
(* What the viewers of a shared screen say their links can carry, and the  *)
(* cap MediaRouter puts on the sharer because of the slowest of them       *)
(* (docs/06-protocol.md, section 4.5).                                     *)
(*                                                                         *)
(* Two kinds of thread meet here.  The server's makes one call at a time:  *)
(* somebody joins, leaves or starts to share.  A viewer's own is inside    *)
(* its peer connection when a report comes.  Both fold what they know into *)
(* the reports under bandwidth_mutex_, work out the smallest there, and    *)
(* apply it once the mutex is let go, through the published routing table. *)
(* Reports concern the room the connection was made for.                   *)
(***************************************************************************)
EXTENDS Integers

CONSTANTS
  Users, RoomIds, Nowhere, Nobody,
  MaxKbps        \* reports are 1 .. MaxKbps; 0 is "no report" and "no cap"

Server == "server"
Threads == Users \cup {Server}

ViewerCeilingAssumption ==
  MaxKbps \in Nat /\ Nowhere \notin RoomIds /\ Nobody \notin Users /\ Server \notin Users

Never == -1      \* the ceiling of somebody nothing has been applied to

VARIABLES
  room,          \* of everybody with a session: sessions_, and the routes
  open,          \* the room a connection still calls back for
  sharer_by_room,
  viewer_kbps,   \* viewer_bandwidth_kbps_, 0 where there is none
  viewer_room,   \* viewer_room_
  ceiling,       \* the cap set on everybody's video_feedback
  applying,      \* what each thread has worked out and not applied yet
  leaving,       \* where the server's thread is in a call, and of whom
  stale          \* history: the last cap a room got was not the latest

reports == <<viewer_kbps, viewer_room>>
vars == <<room, open, sharer_by_room, reports, ceiling, applying, leaving, stale>>

Nothing == [room |-> Nowhere, kbps |-> 0]
NoCall == [at |-> "none", user |-> Nobody, room |-> Nowhere]

Init ==
  /\ room = [u \in Users |-> Nowhere] /\ open = room
  /\ sharer_by_room = [r \in RoomIds |-> Nobody]
  /\ viewer_kbps = [u \in Users |-> 0] /\ viewer_room = room
  /\ ceiling = [u \in Users |-> Never]
  /\ applying = [t \in Threads |-> Nothing]
  /\ leaving = NoCall
  /\ stale = [r \in RoomIds |-> FALSE]

Least(said) ==
  IF said = {} THEN 0 ELSE CHOOSE least \in said : \A k \in said : least <= k

(* smallest_viewer_report, over reports as they are or are about to be.    *)
Smallest(r, kbps, where) == Least({kbps[u] : u \in {v \in Users : where[v] = r}})

smallest_viewer_report(r) == Smallest(r, viewer_kbps, viewer_room)
-----------------------------------------------------------------------------
(* What a thread works out under the mutex, and will apply without it.     *)
WorkedOut(t, r) ==
  applying' = [applying EXCEPT ![t] =
                 [room |-> r, kbps |-> Smallest(r, viewer_kbps', viewer_room')]]

(* apply_viewer_ceiling.                                                   *)
Applies(t) ==
  LET todo == applying[t]
  IN /\ todo # Nothing
     /\ ceiling' = [u \in Users |-> IF room[u] = todo.room THEN todo.kbps ELSE ceiling[u]]
     /\ stale' = [stale EXCEPT ![todo.room] = todo.kbps # smallest_viewer_report(todo.room)]
     /\ applying' = [applying EXCEPT ![t] = Nothing]
     /\ UNCHANGED <<room, open, sharer_by_room, reports, leaving>>

CountsEverybody(u, r) == TRUE                                        \* a slip

(* "A viewer's report from somebody who is not one."                       *)
Counts(u, r) == sharer_by_room[r] # u

note_viewer_bandwidth(u, kbps) ==
  /\ open[u] # Nowhere /\ applying[u] = Nothing
  /\ Counts(u, open[u])
  /\ viewer_kbps' = [viewer_kbps EXCEPT ![u] = kbps]
  /\ viewer_room' = [viewer_room EXCEPT ![u] = open[u]]
  /\ WorkedOut(u, open[u])
  /\ UNCHANGED <<room, open, sharer_by_room, ceiling, leaving, stale>>

ForgottenUnapplied(u) ==                                             \* a slip
  /\ viewer_kbps' = [viewer_kbps EXCEPT ![u] = 0]
  /\ viewer_room' = [viewer_room EXCEPT ![u] = Nowhere]
  /\ UNCHANGED applying

(* The cap that is left is applied at once, zero included.                 *)
Forgotten(u) ==
  /\ viewer_kbps' = [viewer_kbps EXCEPT ![u] = 0]
  /\ viewer_room' = [viewer_room EXCEPT ![u] = Nowhere]
  /\ WorkedOut(Server, viewer_room[u])

forget_viewer_bandwidth ==
  /\ leaving.at = "forgetting"
  /\ IF viewer_room[leaving.user] = Nowhere THEN UNCHANGED <<reports, applying>>
     ELSE Forgotten(leaving.user)
  /\ leaving' = NoCall
  /\ UNCHANGED <<room, open, sharer_by_room, ceiling, stale>>
-----------------------------------------------------------------------------
(* The server's thread.                                                    *)
ServerFree == leaving = NoCall /\ applying[Server] = Nothing

on_participant_joined(u, r) ==
  /\ ServerFree /\ room[u] = Nowhere
  /\ room' = [room EXCEPT ![u] = r] /\ open' = [open EXCEPT ![u] = r]
  /\ ceiling' = [ceiling EXCEPT ![u] = Never]
  /\ UNCHANGED <<sharer_by_room, reports, applying, leaving, stale>>

(* The session goes, and the routes are published without it...            *)
on_participant_left(u) ==
  /\ ServerFree /\ room[u] # Nowhere
  /\ room' = [room EXCEPT ![u] = Nowhere]
  /\ leaving' = [at |-> "closing", user |-> u, room |-> room[u]]
  /\ UNCHANGED <<open, sharer_by_room, reports, ceiling, applying, stale>>

(* ... closing waits for the callback that runs...                         *)
LeavingCloses ==
  /\ leaving.at = "closing" /\ applying[leaving.user] = Nothing
  /\ open' = [open EXCEPT ![leaving.user] = Nowhere]
  /\ leaving' = [leaving EXCEPT !.at = "sharing"]
  /\ UNCHANGED <<room, sharer_by_room, reports, ceiling, applying, stale>>

(* ... and whatever they were counted as is forgotten after that.          *)
LeavingForgets ==
  /\ leaving.at = "sharing"
  /\ sharer_by_room' = [sharer_by_room EXCEPT ![leaving.room] =
                          IF @ = leaving.user THEN Nobody ELSE @]
  /\ leaving' = [leaving EXCEPT !.at = "forgetting"]
  /\ UNCHANGED <<room, open, reports, ceiling, applying, stale>>

(* "Recorded first, so that a report from the track they were watching on, *)
(* arriving between these two steps, is refused."                          *)
on_screen_share_started(u) ==
  /\ ServerFree /\ room[u] # Nowhere
  /\ sharer_by_room' = [sharer_by_room EXCEPT ![room[u]] = u]
  /\ leaving' = [at |-> "forgetting", user |-> u, room |-> room[u]]
  /\ UNCHANGED <<room, open, reports, ceiling, applying, stale>>

ServerCall ==
  \/ \E u \in Users, r \in RoomIds : on_participant_joined(u, r)
  \/ \E u \in Users : on_participant_left(u) \/ on_screen_share_started(u)
ServerGoesOn == LeavingCloses \/ LeavingForgets \/ forget_viewer_bandwidth \/ Applies(Server)

Next ==
  \/ ServerCall \/ ServerGoesOn
  \/ \E u \in Users : Applies(u) \/ \E kbps \in 1 .. MaxKbps : note_viewer_bandwidth(u, kbps)

Spec == Init /\ [][Next]_vars
-----------------------------------------------------------------------------
(* Every variable has its shape.                                           *)
TypeOK ==
  /\ {room, open, viewer_room} \subseteq [Users -> RoomIds \cup {Nowhere}]
  /\ sharer_by_room \in [RoomIds -> Users \cup {Nobody}]
  /\ viewer_kbps \in [Users -> 0 .. MaxKbps]
  /\ ceiling \in [Users -> Never .. MaxKbps]
  /\ stale \in [RoomIds -> BOOLEAN]

(* "A viewer stops counting the moment they leave the room or start        *)
(* sharing themselves" (docs/06-protocol.md:206), whatever their own       *)
(* thread was in the middle of reporting.                                  *)
OnlyWatchersCount ==
  leaving = NoCall =>
    \A u \in Users : viewer_room[u] # Nowhere =>
      viewer_room[u] = room[u] /\ sharer_by_room[room[u]] # u

(* The sharer is asked for what the slowest viewer of the room can take,   *)
(* and for its own best where nobody says anything any more.  Two caps     *)
(* worked out at once may be applied the wrong way round, until the next   *)
(* report; and a newcomer waits for one: see README.md.                    *)
SlowestViewerLimits ==
  leaving = NoCall /\ (\A t \in Threads : applying[t] = Nothing) =>
    \A u \in Users :
      room[u] # Nowhere /\ ceiling[u] # Never /\ ~stale[room[u]] =>
        ceiling[u] = smallest_viewer_report(room[u])
=============================================================================
