--------------------------------- MODULE Chat ---------------------------------
(***************************************************************************)
(* A conversation from whoever says something to the panels it is read in: *)
(* the interface (MainWindow), the queue up to the Hub, the store, and the *)
(* queue down to the panel, which is of the socket first and of the        *)
(* interface's events after.  A message is its place among all that were   *)
(* stored; a nudge leaves a line that is of no conversation.               *)
(*                                                                         *)
(* An entry is granted here, and nobody closes a room: what is refused is  *)
(* in CallSession, and what becomes of a conversation with its room in     *)
(* RoomManager.  The clock that orders what was stored does not go back.   *)
(***************************************************************************)
EXTENDS TLC, FiniteSets, Integers, SequencesExt

CONSTANTS
  Users, RoomIds, NoRoom,
  kDefaultLimit,         \* of what a newcomer is given
  MaxSaid,               \* what people say, nudges among it
  MaxMoves               \* entries, people put out, and drops

ChatAssumption == NoRoom \notin RoomIds /\ {kDefaultLimit, MaxSaid, MaxMoves} \subseteq Nat

VARIABLES
  chat,          \* of every room: what was stored, oldest first
  room,          \* of every person: where the server has them
  page,          \* and where they see themselves
  online,
  up, down,      \* frames on their way
  lines,         \* the panel
  said, moves,   \* bounds
  unannounced,   \* history: stored, with the answer lost
  given          \* history: of every person, what the store had at their last entry and
                 \* could read of it

vars == <<chat, room, page, online, up, down, lines, said, moves, unannounced, given>>

NudgeLine == 0
Stored == UNION {ToSet(chat[r]) : r \in RoomIds}
Occupants(r) == {u \in Users : room[u] = r}
History(messages) == [is |-> "history", lines |-> messages]
Line(message) == [is |-> "line", line |-> message]

(* Every member of a set is sent a frame.                                  *)
SentTo(users, frame) ==
  [u \in Users |-> IF u \in users THEN Append(down[u], frame) ELSE down[u]]

(* One person is in one of the rooms, where something was said before.     *)
AlreadyThere == CHOOSE u \in Users : TRUE
Kept == [r \in RoomIds |-> IF r = CHOOSE s \in RoomIds : TRUE THEN <<1>> ELSE <<>>]

Init ==
  /\ chat = Kept /\ unannounced = {}
  /\ room = [u \in Users |-> IF u = AlreadyThere THEN CHOOSE r \in RoomIds : TRUE ELSE NoRoom]
  /\ page = room /\ online = [u \in Users |-> TRUE]
  /\ up = [u \in Users |-> <<>>] /\ down = up
  /\ lines = [u \in Users |-> IF u = AlreadyThere THEN <<1>> ELSE <<>>]
  /\ said = 0 /\ moves = 0
  /\ given = [u \in Users |-> [upto |-> 1, history |-> lines[u]]]
-----------------------------------------------------------------------------
(* The person.                                                             *)
Sends(u, frame) == up' = [up EXCEPT ![u] = Append(@, frame)]

on_join_room(u, r) ==
  /\ page[u] = NoRoom /\ online[u] /\ moves < MaxMoves /\ moves' = moves + 1
  /\ page' = [page EXCEPT ![u] = r] /\ Sends(u, [is |-> "join_room", room |-> r])
  /\ UNCHANGED <<chat, room, online, down, lines, said, unannounced, given>>

on_leave_room(u) ==
  /\ page[u] # NoRoom /\ page' = [page EXCEPT ![u] = NoRoom]
  /\ IF online[u] THEN Sends(u, [is |-> "leave_room"]) ELSE UNCHANGED up
  /\ lines' = [lines EXCEPT ![u] = <<>>]
  /\ UNCHANGED <<chat, room, online, down, said, moves, unannounced, given>>

on_send_chat(u) ==
  /\ page[u] # NoRoom /\ online[u] /\ said < MaxSaid /\ said' = said + 1
  /\ Sends(u, [is |-> "chat", room |-> page[u]])
  /\ UNCHANGED <<chat, room, page, online, down, lines, unannounced, given, moves>>

nudge(u, v) ==
  /\ page[u] # NoRoom /\ online[u] /\ u # v /\ said < MaxSaid /\ said' = said + 1
  /\ Sends(u, [is |-> "nudge", room |-> page[u], to |-> v])
  /\ UNCHANGED <<chat, room, page, online, down, lines, unannounced, given, moves>>
-----------------------------------------------------------------------------
(* The Hub.  A store that cannot read answers an empty conversation.       *)
list(r) ==
  {SubSeq(chat[r], Max({1, Len(chat[r]) - kDefaultLimit + 1}), Len(chat[r])), <<>>}

handle_join_room(u, frame) ==
  /\ room' = [room EXCEPT ![u] = frame.room]
  /\ \E messages \in list(frame.room) :
       /\ down' = SentTo({u}, History(messages))
       /\ given' = [given EXCEPT ![u] = [upto |-> Cardinality(Stored), history |-> messages]]
  /\ UNCHANGED <<chat, unannounced>>

handle_leave_room(u) ==
  /\ room' = [room EXCEPT ![u] = NoRoom] /\ UNCHANGED <<chat, down, unannounced, given>>

(* The store says yes, or no having done it or not; only the first is told *)
(* to the room, its author among them.                                     *)
Announced(r, acknowledged) == IF acknowledged THEN Occupants(r) ELSE {}

handle_chat(u, frame) ==
  LET message == Cardinality(Stored) + 1
  IN /\ room[u] = frame.room
     /\ chat' = [chat EXCEPT ![frame.room] = Append(@, message)]
     /\ \E acknowledged \in BOOLEAN :
          /\ down' = SentTo(Announced(frame.room, acknowledged), Line(message))
          /\ unannounced' = IF acknowledged THEN unannounced ELSE unannounced \cup {message}
     /\ UNCHANGED <<room, given>>

handle_nudge(u, frame) ==
  /\ room[u] = frame.room /\ frame.to \in Occupants(frame.room)
  /\ down' = SentTo({u, frame.to}, Line(NudgeLine))
  /\ UNCHANGED <<chat, room, unannounced, given>>

(* In the wrong room, silenced, within kNudgeCooldown of the last one, or  *)
(* the store refuses.                                                      *)
Refused == UNCHANGED <<chat, room, down, unannounced, given>>

Receives(u) ==
  /\ up[u] # <<>> /\ up' = [up EXCEPT ![u] = Tail(@)]
  /\ LET frame == Head(up[u])
     IN \/ frame.is = "join_room" /\ handle_join_room(u, frame)
        \/ frame.is = "leave_room" /\ handle_leave_room(u)
        \/ frame.is = "chat" /\ (handle_chat(u, frame) \/ Refused)
        \/ frame.is = "nudge" /\ (handle_nudge(u, frame) \/ Refused)
  /\ UNCHANGED <<page, online, lines, said, moves>>

(* An administrator puts somebody out of the room.                         *)
handle_kick(u) ==
  /\ room[u] # NoRoom /\ moves < MaxMoves /\ moves' = moves + 1
  /\ room' = [room EXCEPT ![u] = NoRoom] /\ down' = SentTo({u}, [is |-> "kicked"])
  /\ UNCHANGED <<chat, page, online, up, lines, said, unannounced, given>>
-----------------------------------------------------------------------------
(* The panel.                                                              *)
HistoryBelow(panel, messages) == panel \o messages                   \* a slip

apply_chat_history(panel, messages) == messages

append_chat_line(panel, line) == Append(panel, line)

apply_kicked(u) == page' = [page EXCEPT ![u] = NoRoom] /\ lines' = [lines EXCEPT ![u] = <<>>]

Reads(u) ==
  /\ down[u] # <<>> /\ down' = [down EXCEPT ![u] = Tail(@)]
  /\ LET frame == Head(down[u])
     IN \/ /\ frame.is = "history" /\ UNCHANGED page
           /\ lines' = [lines EXCEPT ![u] = apply_chat_history(@, frame.lines)]
        \/ /\ frame.is = "line" /\ UNCHANGED page
           /\ lines' = [lines EXCEPT ![u] = append_chat_line(@, frame.line)]
        \/ frame.is = "kicked" /\ apply_kicked(u)
  /\ UNCHANGED <<chat, room, online, up, said, moves, unannounced, given>>

(* The socket drops: what the interface has been told is still to be read, *)
(* and what was on the wire is lost.  The person is signed in again, and   *)
(* back where they see themselves.                                         *)
Drops(u) ==
  /\ online[u] /\ moves < MaxMoves /\ moves' = moves + 1
  /\ online' = [online EXCEPT ![u] = FALSE] /\ room' = [room EXCEPT ![u] = NoRoom]
  /\ up' = [up EXCEPT ![u] = <<>>]
  /\ \E n \in 0 .. Len(down[u]) : down' = [down EXCEPT ![u] = SubSeq(@, 1, n)]
  /\ UNCHANGED <<chat, page, lines, said, unannounced, given>>

Returns(u) ==
  /\ ~online[u] /\ online' = [online EXCEPT ![u] = TRUE]
  /\ IF page[u] = NoRoom THEN UNCHANGED up ELSE Sends(u, [is |-> "join_room", room |-> page[u]])
  /\ UNCHANGED <<chat, room, page, down, lines, said, moves, unannounced, given>>

Next ==
  \E u \in Users :
    \/ \E r \in RoomIds : on_join_room(u, r)
    \/ \E v \in Users : nudge(u, v)
    \/ on_leave_room(u) \/ on_send_chat(u) \/ handle_kick(u)
    \/ Receives(u) \/ Reads(u) \/ Drops(u) \/ Returns(u)

Spec == Init /\ [][Next]_vars
-----------------------------------------------------------------------------
(* Every variable has its shape.                                           *)
TypeOK ==
  /\ \A r \in RoomIds : ToSet(chat[r]) \subseteq 1 .. MaxSaid + 1
  /\ room \in [Users -> RoomIds \cup {NoRoom}] /\ page \in [Users -> RoomIds \cup {NoRoom}]
  /\ online \in [Users -> BOOLEAN]
  /\ \A u \in Users : ToSet(lines[u]) \subseteq 0 .. MaxSaid + 1
  /\ \A u \in Users : \A i \in DOMAIN down[u] : down[u][i].is \in {"history", "line", "kicked"}
  /\ unannounced \subseteq Stored

Quiet(u) == online[u] /\ up[u] = <<>> /\ down[u] = <<>>
Spoken(u) == SelectSeq(lines[u], LAMBDA line : line # NudgeLine)
SaidSince(u) ==
  SelectSeq(chat[room[u]], LAMBDA m : m > given[u].upto /\ m \notin unannounced)

(* Whoever is in a room and has nothing left to read sees one conversation *)
(* as everybody else does: what the store gave them at their last entry,   *)
(* then all that was announced in this room since, in the order of the     *)
(* store, each once and none of another room, whatever they left, dropped  *)
(* out of or were put out of on the way.                                   *)
OneConversation ==
  \A u \in Users : Quiet(u) /\ room[u] # NoRoom /\ page[u] = room[u] =>
    Spoken(u) = given[u].history \o SaidSince(u)
=============================================================================
