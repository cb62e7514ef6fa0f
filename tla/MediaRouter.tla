----------------------------- MODULE MediaRouter -----------------------------
(***************************************************************************)
(* dv::server::sfu::MediaRouter: one peer connection for everybody in a    *)
(* room, a track on it for every other voice there, and the offers that    *)
(* tell the client so.                                                     *)
(*                                                                         *)
(* The server's thread joins and leaves people and brings answers, under   *)
(* mutex_; libdatachannel's threads only queue; the worker thread sends    *)
(* the offers, and renegotiates once an exchange is over.  Hub takes       *)
(* somebody out of one room before it puts them in another, so nobody      *)
(* joins with a session left.  libdatachannel is external: setting a local *)
(* description leaves the stable state and hands out an offer of the       *)
(* tracks there are, and the answer comes back to it.  A client answers    *)
(* what is offered to the stay it is in (CallSession.tla).  Packets are    *)
(* forwarded along the tracks and change nothing here; what the viewers    *)
(* report of theirs is in ViewerCeiling.tla.                               *)
(***************************************************************************)
EXTENDS Integers, SequencesExt

CONSTANTS
  Users, RoomIds,
  MaxStays,      \* bound on the stays of one person something remembers
  MaxTasks       \* bound on the worker's queue when somebody joins or leaves

MediaRouterAssumption ==
  MaxStays \in Nat \ {0} /\ MaxTasks \in Nat /\ IsFiniteSet(Users)

Stays == 1 .. MaxStays
NoSession == [stay |-> 0]

Session ==
  [stay : Stays,
   room : RoomIds,
   outbound : SUBSET Users,       \* the voices it has a track for
   pending : BOOLEAN,             \* renegotiation_pending
   stable : BOOLEAN,              \* its connection's signalling state
   offered : SUBSET Users,        \* the tracks of its local description
   delivered : BOOLEAN,           \* the client has that offer
   heard : SUBSET Users]          \* the tracks of its last answer

VARIABLES
  sessions,      \* sessions_
  tasks          \* tasks_: offers to send, and sessions to look at again

vars == <<sessions, tasks>>

Init == sessions = [u \in Users |-> NoSession] /\ tasks = <<>>

Present == {u \in Users : sessions[u] # NoSession}
Roommates(r) == {u \in Present : sessions[u].room = r}

Offer(u, stay) == [what |-> "offer", user |-> u, stay |-> stay]
LookAgain(u) == [what |-> "look_again", user |-> u]

(* A stay of u that no task is about.                                      *)
FreshStay(u) ==
  {s \in Stays : \A i \in DOMAIN tasks : tasks[i] # Offer(u, s)}
-----------------------------------------------------------------------------
WaitsForgetting(s) == [s EXCEPT !.pending = FALSE]                   \* a slip

(* Renegotiating from anything but a stable state corrupts the session.    *)
Waits(s) == [s EXCEPT !.pending = TRUE]

Offers(s) == s.pending /\ s.stable

negotiate(s) ==
  IF ~s.pending THEN s
  ELSE IF ~s.stable THEN Waits(s)
  ELSE [s EXCEPT !.pending = FALSE, !.stable = FALSE, !.offered = s.outbound,
                 !.delivered = FALSE]

(* negotiate() of each of them, and the offers that are queued by it.      *)
Negotiated(new, who) ==
  /\ sessions' = [u \in Users |-> IF u \in who THEN negotiate(new[u]) ELSE new[u]]
  /\ tasks' = tasks \o
       SetToSeq({Offer(u, new[u].stay) : u \in {v \in who : Offers(new[v])}})

(* add_outbound_track.                                                     *)
WithTrackOf(s, u) ==
  [s EXCEPT !.outbound = @ \cup {u}, !.pending = TRUE,
            !.offered = @ \ {u}, !.heard = @ \ {u}]
-----------------------------------------------------------------------------
(* The newcomer is wired to everyone already in the room, both ways.       *)
on_participant_joined(u, r) ==
  /\ u \notin Present /\ Len(tasks) < MaxTasks
  /\ \E stay \in {s \in FreshStay(u) : \A t \in FreshStay(u) : s <= t} :
       LET created == [stay |-> stay, room |-> r, outbound |-> Roommates(r), pending |-> TRUE,
                       stable |-> TRUE, offered |-> {}, delivered |-> FALSE, heard |-> {}]
       IN Negotiated([v \in Users |-> CASE v = u -> created
                                        [] v \in Roommates(r) -> WithTrackOf(sessions[v], u)
                                        [] OTHER -> sessions[v]],
                     Roommates(r) \cup {u})

(* The track that carried them is dropped everywhere else.  negotiate() is *)
(* called of those who had one and renegotiation_pending is left as it is. *)
on_participant_left(u) ==
  /\ u \in Present /\ Len(tasks) < MaxTasks
  /\ LET others == {v \in Roommates(sessions[u].room) \ {u} : u \in sessions[v].outbound}
     IN Negotiated([v \in Users |-> CASE v = u -> NoSession
                                      [] v \in others ->
                                           [sessions[v] EXCEPT !.outbound = @ \ {u}]
                                      [] OTHER -> sessions[v]],
                   others)

StableUnseen(u) == tasks                                             \* a slip

(* onSignalingStateChange: posted, since mutex_ is usually held.           *)
StableAgain(u) == Append(tasks, LookAgain(u))

(* on_media_signal: the answer to an offer that has been delivered.        *)
on_media_signal(u) ==
  /\ u \in Present /\ ~sessions[u].stable /\ sessions[u].delivered
  /\ sessions' = [sessions EXCEPT ![u].stable = TRUE, ![u].delivered = FALSE,
                                  ![u].heard = sessions[u].offered]
  /\ tasks' = StableAgain(u)

(* worker_loop, with an offer: handed to the transport, which knows people *)
(* and not stays.                                                          *)
WorkerSends ==
  /\ tasks # <<>> /\ Head(tasks).what = "offer"
  /\ LET u == Head(tasks).user
     IN sessions' = IF sessions[u].stay = Head(tasks).stay
                    THEN [sessions EXCEPT ![u].delivered = TRUE] ELSE sessions
  /\ tasks' = Tail(tasks)

(* worker_loop, with a session to look at again.                           *)
WorkerLooksAgain ==
  /\ tasks # <<>> /\ Head(tasks).what = "look_again"
  /\ LET u == Head(tasks).user
         rest == Tail(tasks)
     IN IF u \in Present /\ sessions[u].pending
        THEN /\ sessions' = [sessions EXCEPT ![u] = negotiate(@)]
             /\ tasks' = IF Offers(sessions[u])
                         THEN Append(rest, Offer(u, sessions[u].stay)) ELSE rest
        ELSE UNCHANGED sessions /\ tasks' = rest

Next ==
  \/ \E u \in Users, r \in RoomIds : on_participant_joined(u, r)
  \/ \E u \in Users : on_participant_left(u) \/ on_media_signal(u)
  \/ WorkerSends \/ WorkerLooksAgain

Spec == Init /\ [][Next]_vars
-----------------------------------------------------------------------------
(* Every session has its shape, with a track for everybody else of its     *)
(* room and for nobody who has gone (media_router.cpp:345, 387).           *)
TypeOK ==
  /\ sessions \in [Users -> Session \cup {NoSession}]
  /\ \A u \in Present : sessions[u].outbound = Roommates(sessions[u].room) \ {u}

InOneRoom(u, v) ==
  /\ {u, v} \subseteq Present
  /\ sessions[u].room = sessions[v].room

(* The worker has nothing to do, and no client an offer to answer.         *)
AtRest == tasks = <<>> /\ \A u \in Present : ~sessions[u].delivered

(* Whoever comes in while others are still being told of the one before is *)
(* heard by everybody once the offers and answers are over: "a track added *)
(* while an offer was in flight could not be negotiated then" is picked up *)
(* when it can be (media_router.cpp:263), and no session is left waiting   *)
(* for an answer to an offer that nobody got.                              *)
EveryoneIsHeard ==
  AtRest => \A u \in Users, v \in Users :
              u # v /\ InOneRoom(u, v) => v \in sessions[u].heard

(* Whoever leaves: their tracks are dropped and the others renegotiated    *)
(* "so the peers stop expecting it" (media_router.cpp:374).                *)
DepartedAreNotExpected ==
  AtRest => \A u \in Present : sessions[u].heard \subseteq sessions[u].outbound
=============================================================================
