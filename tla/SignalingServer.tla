--------------------------- MODULE SignalingServer ---------------------------
(***************************************************************************)
(* dv::server::SignalingServer and the locks of its process: the thread    *)
(* that accepts connections and those of the sockets, the heartbeat,       *)
(* MediaRouter's worker, libdatachannel calling back about media, and the  *)
(* thread that stops it all.                                               *)
(*                                                                         *)
(* What a thread has still to do is a sequence of steps.  Each may have to *)
(* wait: to take a mutex, to call into a peer connection or close one      *)
(* (which wait for the callback that runs there), for another thread to    *)
(* end.  A handler runs when the server's mutex is taken for it, and gives *)
(* it back with whatever else it holds as its last step.  A mutex under    *)
(* which no other is taken (worker_mutex_, bandwidth_mutex_) holds nobody  *)
(* up, and is part of the step that takes it.                              *)
(*                                                                         *)
(* A connection carries one person (Hub.tla has those who sign in twice),  *)
(* and there is one room.  What offers contain is in MediaRouter.tla.      *)
(* libdatachannel is external: a socket's callbacks come one after the     *)
(* other, its own close among them; a peer connection's hold its lock; and *)
(* WebSocketServer::stop waits for its thread, which calls on_client.      *)
(***************************************************************************)
EXTENDS Naturals, Sequences, FiniteSets, SequencesExt

CONSTANTS
  Connections,
  MaxEvents      \* frames, reports about media and hang-ups there may be

SignalingServerAssumption ==
  /\ IsFiniteSet(Connections) /\ MaxEvents \in Nat
  /\ {"server", "router"} \cap Connections = {}

VARIABLES
  running,       \* running_
  socket,        \* of every connection: "none", "open" or "closed"
  heard,         \* of every socket: the callbacks it still has to run
  sockets,       \* sockets_
  connections,   \* Hub's connections_
  inside,        \* who is in the room
  media,         \* whose peer connection has not been closed
  tasks,         \* MediaRouter's tasks_
  owner,         \* of every lock
  doing,         \* of every thread: what it has still to do
  events         \* bound

hub == <<connections, inside, media>>
network == <<socket, heard, events>>
vars == <<running, network, sockets, hub, tasks, owner, doing>>

SocketOf(c) == <<"socket", c>>
MediaOf(c) == <<"media", c>>
Listener == <<"listener">>          \* libdatachannel's, of server_
Heartbeat == <<"heartbeat">>
Worker == <<"worker">>
Main == <<"main">>
Threads == {SocketOf(c) : c \in Connections} \cup {MediaOf(c) : c \in Connections}
             \cup {Listener, Heartbeat, Worker, Main}
Free == <<>>
Locks == {"server", "router"} \cup Connections

Init ==
  /\ running = TRUE
  /\ socket = [c \in Connections |-> "none"]
  /\ heard = [c \in Connections |-> <<>>] /\ events = 0
  /\ sockets = {} /\ connections = {} /\ inside = {} /\ media = {}
  /\ tasks = <<>>
  /\ owner = [l \in Locks |-> Free] /\ doing = [t \in Threads |-> <<>>]
-----------------------------------------------------------------------------
Step(what, of) == [step |-> what, of |-> of]
TakeRouter == Step("take", "router")
GiveRouter == Step("give", "router")
Call(c) == Step("call", c)              \* into a peer connection, for an offer
Answered(c) == Step("answered", c)      \* into one, that becomes stable
Close(c) == Step("close", c)            \* a peer connection
PutOut(c) == Step("put_out", c)         \* of the room, by the Hub
HangUp(c) == Step("hang_up", c)         \* close_connection
Accept(c) == Step("accept", c)          \* on_client
Tick == Step("tick", "all")             \* of the heartbeat, asleep until it
Join == Step("join", "heartbeat")
Await == Step("await", "listener")      \* server_->stop()
Reset == Step("reset", "server")        \* server_.reset()
Done == Step("done", "all")             \* gives back whatever it holds

ForEach(people, Todo(_)) == [i \in DOMAIN SetToSeq(people) |-> Todo(SetToSeq(people)[i])]

Begins(t, steps) == doing[t] = <<>> /\ doing' = [doing EXCEPT ![t] = steps]
AtStep(t, what) == doing[t] # <<>> /\ Head(doing[t]).step = what
Of(t) == Head(doing[t]).of
GoesOn(t, first) == doing' = [doing EXCEPT ![t] = first \o Tail(@)]

TakesRouter(t) ==
  /\ AtStep(t, "take") /\ owner["router"] = Free
  /\ owner' = [owner EXCEPT !["router"] = t] /\ GoesOn(t, <<>>)
  /\ UNCHANGED <<running, network, sockets, hub, tasks>>

GivesRouter(t) ==
  /\ AtStep(t, "give")
  /\ owner' = [owner EXCEPT !["router"] = Free] /\ GoesOn(t, <<>>)
  /\ UNCHANGED <<running, network, sockets, hub, tasks>>

(* A track is added or closed, and an offer made of it, or not yet: that is*)
(* queued for the worker, which sends it.                                  *)
Negotiates(t) ==
  /\ AtStep(t, "call") /\ owner[Of(t)] = Free /\ GoesOn(t, <<>>)
  /\ tasks' \in {tasks, Append(tasks, Step("offer", Of(t)))}
  /\ UNCHANGED <<running, network, sockets, hub, owner>>

StableInPlace(t) == GoesOn(t, <<TakeRouter, Call(Of(t))>>) /\ UNCHANGED tasks  \* a slip

(* "Posted rather than done here: libdatachannel reports the state change  *)
(* on the thread that caused it", with mutex_ held.                        *)
StableAgain(t) == GoesOn(t, <<>>) /\ tasks' = Append(tasks, Step("look_again", Of(t)))

BecomesStable(t) ==
  /\ AtStep(t, "answered") /\ owner[Of(t)] = Free /\ StableAgain(t)
  /\ UNCHANGED <<running, network, sockets, hub, owner>>

(* "It waits for the callbacks."                                           *)
ClosesMedia(t) ==
  /\ AtStep(t, "close") /\ owner[Of(t)] = Free
  /\ media' = media \ {Of(t)} /\ GoesOn(t, <<>>)
  /\ UNCHANGED <<running, network, sockets, connections, inside, tasks, owner>>

IsDone(t) ==
  /\ AtStep(t, "done")
  /\ owner' = [l \in Locks |-> IF owner[l] = t THEN Free ELSE owner[l]] /\ GoesOn(t, <<>>)
  /\ UNCHANGED <<running, network, sockets, hub, tasks>>
-----------------------------------------------------------------------------
(* MediaRouter, as Hub and its own threads call it.                        *)

(* The newcomer is offered to, and everybody else again, under mutex_...   *)
on_participant_joined(c) == <<TakeRouter>> \o ForEach(inside \cup {c}, Call)

(* Who leaves loses the tracks under it, and is "closed outside the lock". *)
on_participant_left(c) ==
  <<TakeRouter>> \o ForEach(inside \ {c}, Call) \o <<GiveRouter, Close(c)>>

on_media_signal(c) == <<TakeRouter, Answered(c)>>

(* libdatachannel's thread has a candidate of c, or a report, to queue.    *)
CalledBack(c) ==
  /\ c \in media /\ owner[c] = Free /\ events < MaxEvents /\ events' = events + 1
  /\ owner' = [owner EXCEPT ![c] = MediaOf(c)]
  /\ tasks' = Append(tasks, Step("offer", c)) /\ Begins(MediaOf(c), <<Done>>)
  /\ UNCHANGED <<running, socket, heard, sockets, hub>>

(* worker_loop, "with no lock held": a frame goes through send_to_user,    *)
(* and a session looked at again may be owed an offer.                     *)
worker_loop ==
  /\ tasks # <<>> /\ doing[Worker] = <<>> /\ tasks' = Tail(tasks)
  /\ LET c == Head(tasks).of
     IN \/ Head(tasks).step = "offer" /\ owner["server"] = Free /\ UNCHANGED <<owner, doing>>
        \/ /\ Head(tasks).step = "look_again" /\ owner["router"] = Free
           /\ owner' = [owner EXCEPT !["router"] = Worker]
           /\ \E owed \in {{}, {c} \cap inside} : Begins(Worker, ForEach(owed, Call) \o <<Done>>)
  /\ UNCHANGED <<running, network, sockets, hub>>
-----------------------------------------------------------------------------
(* A socket: on_client and the callbacks it installs, under the mutex each.*)

(* The thread of server_ has a connection in hand, until server_->stop()   *)
(* has closed what it listens on.                                          *)
Knocks(c) ==
  /\ running \/ AtStep(Main, "join")
  /\ socket[c] = "none" /\ Begins(Listener, <<Accept(c)>>)
  /\ UNCHANGED <<running, network, sockets, hub, tasks, owner>>

(* Whether the server is being stopped is not asked.                       *)
on_client(c) ==
  /\ AtStep(Listener, "accept") /\ c = Of(Listener) /\ owner["server"] = Free
  /\ socket' = [socket EXCEPT ![c] = "open"] /\ sockets' = sockets \cup {c}
  /\ heard' = [heard EXCEPT ![c] = <<"opened">>] /\ GoesOn(Listener, <<>>)
  /\ UNCHANGED <<running, hub, tasks, owner, events>>

Frames == {"join_room", "leave_room", "answer"}

Speaks(c) ==
  /\ socket[c] = "open" /\ heard[c] = <<>>
  /\ events < MaxEvents /\ events' = events + 1
  /\ \E frame \in Frames : heard' = [heard EXCEPT ![c] = <<frame>>]
  /\ UNCHANGED <<running, socket, sockets, hub, tasks, owner, doing>>

(* A socket that closes, from either end, says so once.                    *)
Closed(c) ==
  /\ socket' = [socket EXCEPT ![c] = "closed"]
  /\ heard' = [heard EXCEPT ![c] = IF socket[c] = "open" THEN Append(@, "closed") ELSE @]

HangsUp(c) ==
  /\ socket[c] = "open" /\ events < MaxEvents /\ events' = events + 1
  /\ Closed(c)
  /\ UNCHANGED <<running, sockets, hub, tasks, owner, doing>>

(* The mutex is taken, and the callback goes as far as it can.             *)
Handles(c, what, steps) ==
  /\ heard[c] # <<>> /\ Head(heard[c]) = what /\ heard' = [heard EXCEPT ![c] = Tail(@)]
  /\ owner["server"] = Free /\ owner' = [owner EXCEPT !["server"] = SocketOf(c)]
  /\ Begins(SocketOf(c), steps \o <<Done>>)
  /\ UNCHANGED <<running, socket, events, tasks>>

on_connect(c) ==
  /\ Handles(c, "opened", <<>>)
  /\ connections' = connections \cup {c}
  /\ UNCHANGED <<sockets, inside, media>>

handle_join_room(c) ==
  /\ Handles(c, "join_room", IF c \in inside THEN <<>> ELSE on_participant_joined(c))
  /\ inside' = inside \cup {c} /\ media' = media \cup {c}
  /\ UNCHANGED <<sockets, connections>>

handle_leave_room(c) ==
  /\ Handles(c, "leave_room", IF c \in inside THEN on_participant_left(c) ELSE <<>>)
  /\ inside' = inside \ {c} /\ UNCHANGED <<sockets, connections, media>>

handle_relay(c) ==
  /\ Handles(c, "answer", IF c \in inside THEN on_media_signal(c) ELSE <<>>)
  /\ UNCHANGED <<sockets, connections, inside, media>>

(* The person leaves the room, and the socket the map.                     *)
on_disconnect(c) ==
  /\ Handles(c, "closed", IF c \in inside THEN on_participant_left(c) ELSE <<>>)
  /\ connections' = connections \ {c} /\ inside' = inside \ {c}
  /\ sockets' = sockets \ {c} /\ UNCHANGED media

CallsBack(c) ==
  \/ on_connect(c) \/ handle_join_room(c) \/ handle_leave_room(c) \/ handle_relay(c)
  \/ on_disconnect(c)
-----------------------------------------------------------------------------
(* The heartbeat, under the mutex: whom the store says to put out leaves   *)
(* the room, one after the other.  Whom nothing was heard of for           *)
(* heartbeat_timeout, anybody that is, is closed after it, and may speak,  *)
(* hang up or leave before that.  Found asleep by stop(), it ticks again.  *)
heartbeat_loop ==
  /\ \/ running /\ doing[Heartbeat] = <<>> /\ events < MaxEvents /\ events' = events + 1
     \/ AtStep(Heartbeat, "tick") /\ UNCHANGED events
  /\ owner["server"] = Free /\ owner' = [owner EXCEPT !["server"] = Heartbeat]
  /\ \E gone \in SUBSET inside, timed_out \in SUBSET connections :
       /\ running => gone \cup timed_out # {}
       /\ doing' = [doing EXCEPT ![Heartbeat] =
            ForEach(gone, PutOut) \o <<Done>> \o ForEach(timed_out, HangUp)]
  /\ UNCHANGED <<running, socket, heard, sockets, hub, tasks>>

LeavesRoom(t) ==
  /\ AtStep(t, "put_out")
  /\ inside' = inside \ {Of(t)} /\ GoesOn(t, on_participant_left(Of(t)))
  /\ UNCHANGED <<running, network, sockets, connections, media, tasks, owner>>

(* close_connection: one that has left the map meanwhile is not closed.    *)
close_connection(t) ==
  /\ AtStep(t, "hang_up")
  /\ \/ t = Heartbeat /\ owner["server"] = Free /\ Of(t) \in sockets /\ Closed(Of(t))
     \/ /\ t = Heartbeat /\ owner["server"] = Free /\ Of(t) \notin sockets
        /\ UNCHANGED <<socket, heard>>
     \/ t = Main /\ Closed(Of(t))
  /\ GoesOn(t, <<>>)
  /\ UNCHANGED <<running, events, sockets, hub, tasks, owner>>

(* stop(): the heartbeat is waited for, in whatever it does or asleep;     *)
(* then, under the mutex, the thread of server_; the sockets are taken out *)
(* of the map and closed outside it; and the mutex is taken once more.     *)
Stopping(alarm) ==
  [doing EXCEPT ![Main] = <<Join>>, ![Heartbeat] = @ \o alarm]

stop ==
  /\ running /\ running' = FALSE
  /\ \/ doing' = Stopping(<<>>)
     \/ doing[Heartbeat] = <<>> /\ doing' = Stopping(<<Tick>>)
  /\ UNCHANGED <<network, sockets, hub, tasks, owner>>

StopsListening ==
  /\ AtStep(Main, "join") /\ doing[Heartbeat] = <<>>
  /\ owner["server"] = Free /\ owner' = [owner EXCEPT !["server"] = Main]
  /\ GoesOn(Main, <<Await>>)
  /\ UNCHANGED <<running, network, sockets, hub, tasks>>

SocketsTaken ==
  /\ AtStep(Main, "await") /\ doing[Listener] = <<>>
  /\ owner' = [owner EXCEPT !["server"] = Free] /\ sockets' = {}
  /\ GoesOn(Main, ForEach(sockets, HangUp) \o <<Reset>>)
  /\ UNCHANGED <<running, network, hub, tasks>>

Stopped ==
  /\ AtStep(Main, "reset") /\ owner["server"] = Free /\ GoesOn(Main, <<>>)
  /\ UNCHANGED <<running, network, sockets, hub, tasks, owner>>
-----------------------------------------------------------------------------
GoesAhead(t) ==
  \/ TakesRouter(t) \/ GivesRouter(t) \/ Negotiates(t) \/ BecomesStable(t) \/ ClosesMedia(t)
  \/ IsDone(t) \/ close_connection(t) \/ LeavesRoom(t)

Next ==
  \/ \E t \in Threads : GoesAhead(t)
  \/ \E c \in Connections :
       Knocks(c) \/ on_client(c) \/ Speaks(c) \/ HangsUp(c) \/ CallsBack(c) \/ CalledBack(c)
  \/ worker_loop \/ heartbeat_loop
  \/ stop \/ StopsListening \/ SocketsTaken \/ Stopped

Spec == Init /\ [][Next]_vars
-----------------------------------------------------------------------------
(* Every variable has its shape.                                           *)
TypeOK ==
  /\ running \in BOOLEAN /\ socket \in [Connections -> {"none", "open", "closed"}]
  /\ UNION {sockets, connections, inside, media} \subseteq Connections
  /\ inside \subseteq connections /\ events \in 0 .. MaxEvents

(* The lock a thread cannot go on without, if there is one it waits for.   *)
Needs(t) ==
  IF doing[t] = <<>> THEN {}
  ELSE CASE AtStep(t, "take") -> {"router"}
         [] Head(doing[t]).step \in {"call", "answered", "close"} -> {Of(t)}
         [] \/ Head(doing[t]).step \in {"accept", "tick", "reset"}
            \/ AtStep(t, "hang_up") /\ t = Heartbeat
            \/ AtStep(t, "join") /\ doing[Heartbeat] = <<>> -> {"server"}
         [] OTHER -> {}

(* The thread whose end it waits for.                                      *)
Joins(t) ==
  {u \in {Heartbeat} : AtStep(t, "join") /\ doing[u] # <<>>}
    \cup {u \in {Listener} : AtStep(t, "await") /\ doing[u] # <<>>}

(* Who has to do something before it goes on.                              *)
WaitsFor(t) == ({owner[l] : l \in Needs(t)} \ {Free}) \cup Joins(t)

Waiting == {t \in Threads : WaitsFor(t) # {}}

(* Each of them is waited for by another of them.                          *)
Circle(waiting) == waiting \subseteq UNION {WaitsFor(t) : t \in waiting}

(* "Closed outside the lock: libdatachannel runs the close callbacks, which*)
(* come back into this object and take the same mutex" (server.cpp:65): no *)
(* two threads of the server wait for each other, nor any more in a circle,*)
(* "so the cycle does not exist" (docs/15-postmortems.md:140).             *)
NobodyWaitsInACircle == \A waiting \in SUBSET Waiting : Circle(waiting) => waiting = {}

(* Nobody holds a lock while waiting, however far around, for one that     *)
(* waits for it: no socket, candidate, heartbeat or end of a share leaves  *)
(* "a server that stops routing media for every room at once" behind it    *)
(* (media_router.cpp:150).  There is one circle, of two, and no other is   *)
(* about it: stop() waits under the mutex for the thread of server_, which *)
(* waits for the mutex with a connection in hand.  And whoever is in the   *)
(* Hub can be hung up on, has been, or will be by who stops it.            *)
LocksAreLetGo ==
  /\ \A waiting \in SUBSET Waiting : Circle(waiting) =>
       waiting = {} \/ (waiting = {Main, Listener} /\ AtStep(Main, "await"))
  /\ \A c \in connections :
       c \in sockets \/ socket[c] = "closed"
         \/ \E i \in DOMAIN doing[Main] : doing[Main][i] = HangUp(c)
=============================================================================
