------------------------------ MODULE Sessions ------------------------------
(***************************************************************************)
(* Who is connected and since when, as the store tells it: one row for     *)
(* every stay, opened, refreshed and ended by the Hub (store/session_-     *)
(* store.hpp).  Nothing in the server decides by a row, so a row that is   *)
(* wrong stays wrong; who does read them is somebody looking for who is    *)
(* here, through a page of the collection.                                 *)
(*                                                                         *)
(* The Hub holds its lock over every call, and each writes the store where *)
(* the code does.  A write to MongoDB may be refused, or take effect and   *)
(* be reported as failed; the server goes on either way.  It may also be   *)
(* killed, and stopping it leaves the rows as killing does.  The clock is  *)
(* the machine's, which is taken not to go back.                           *)
(***************************************************************************)
EXTENDS Integers, FiniteSets

CONSTANTS
  Users, Nobody,
  Sockets, NoConnection,
  Stores,         \* "mongo", or "memory" where there is no database
  Requested,      \* how many rows somebody asks for
  kDefaultLimit, kMaxLimit, kCapacity,
  MaxOpened,      \* bound on the rows
  MaxTime         \* bound on the clock

SessionsAssumption ==
  /\ Stores \subseteq {"mongo", "memory"} /\ Requested \subseteq Int
  /\ kDefaultLimit \in Nat /\ kMaxLimit \in Nat /\ kCapacity \in Nat
  /\ MaxOpened \in Nat /\ MaxTime \in Nat \ {0}
  /\ Nobody \notin Users /\ NoConnection \notin Sockets

Ids == 1 .. MaxOpened
NoId == 0          \* of a connection with no row
Times == 1 .. MaxTime

SessionRecord ==
  [user_id : Users, connected_at : Times, last_seen_at : Times, ended_at : Times \cup {0}]
NoRow == [user_id |-> Nobody]

VARIABLES
  store,          \* which of the two the server was started with
  rows,           \* the collection
  opened,         \* how many identifiers have been given
  now,            \* the clock
  running,        \* whether there is a server
  user,           \* of each connection: the identity on it
  connection_of,  \* user_to_connection_
  session_id,     \* of each connection: the row it holds
  left,           \* history: when the person of a row left, 0 while here
  beat,           \* history: when the last heartbeat to be written was
  late,           \* history: the connections that one had given up on
  forgotten       \* history: the open rows nobody holds, each for a reason

vars == <<store, rows, opened, now, running, user, connection_of, session_id, left, beat,
          late, forgotten>>

Init ==
  /\ store \in Stores
  /\ rows = [i \in Ids |-> NoRow] /\ opened = 0
  /\ now = 1 /\ running = TRUE
  /\ user = [s \in Sockets |-> Nobody]
  /\ connection_of = [u \in Users |-> NoConnection]
  /\ session_id = [s \in Sockets |-> NoId]
  /\ left = [i \in Ids |-> 0] /\ beat = 1 /\ late = {} /\ forgotten = {}

Rows == {i \in Ids : rows[i] # NoRow}
IsOpen(i, table) == table[i] # NoRow /\ table[i].ended_at = 0
Open == {i \in Ids : IsOpen(i, rows)}
Held == {i \in Ids : \E s \in Sockets : session_id[s] = i}
-----------------------------------------------------------------------------
(* The stores.  Every write answers whether it failed, and the Hub only    *)
(* writes a line about that.                                               *)
Outcomes ==
  {"done"} \cup (IF store = "mongo" THEN {"refused", "unanswered"} ELSE {})

Written(outcome, before, after) == IF outcome = "refused" THEN before ELSE after

Started(u) ==
  [user_id |-> u, connected_at |-> now, last_seen_at |-> now, ended_at |-> 0]

(* Only rows that have ended are dropped, the oldest first.                *)
Evicted(table) ==
  LET ended == {i \in Ids : table[i] # NoRow /\ ~IsOpen(i, table)}
      excess == Cardinality({i \in Ids : table[i] # NoRow}) - kCapacity
      older(i) == {j \in ended : j < i}
  IN [i \in Ids |-> IF i \in ended /\ Cardinality(older(i)) < excess THEN NoRow
                    ELSE table[i]]

Opened(table, i, u) ==
  LET more == [table EXCEPT ![i] = Started(u)]
  IN IF store = "memory" THEN Evicted(more) ELSE more

(* One update for the whole set, of the rows that are still open.          *)
Touched(ids) ==
  [i \in Ids |-> IF i \in ids /\ IsOpen(i, rows)
                 THEN [rows[i] EXCEPT !.last_seen_at = now] ELSE rows[i]]

(* "A session that is already closed is left exactly as it is."            *)
Closed(i) ==
  [j \in Ids |-> IF j = i /\ IsOpen(i, rows) THEN [rows[j] EXCEPT !.ended_at = now]
                 ELSE rows[j]]

ClosedNow ==                                                         \* a slip
  [i \in Ids |-> IF IsOpen(i, rows) THEN [rows[i] EXCEPT !.ended_at = now] ELSE rows[i]]

(* close_open: each with its own last_seen_at.                             *)
Recovered ==
  [i \in Ids |-> IF IsOpen(i, rows)
                 THEN [rows[i] EXCEPT !.ended_at = rows[i].last_seen_at] ELSE rows[i]]

clamp_session_limit(requested) ==
  IF requested <= 0 THEN kDefaultLimit
  ELSE IF requested > kMaxLimit THEN kMaxLimit ELSE requested

(* Whether row i goes before row j in what list() returns.                 *)
PrecedesInMongo(i, j) ==      \* sort {ended_at: 1, last_seen_at: -1}
  \/ rows[i].ended_at < rows[j].ended_at
  \/ rows[i].ended_at = rows[j].ended_at /\ rows[i].last_seen_at > rows[j].last_seen_at

PrecedesInMemory(i, j) ==     \* a stable sort of the rows as they came
  \/ IsOpen(i, rows) /\ ~IsOpen(j, rows)
  \/ /\ IsOpen(i, rows) <=> IsOpen(j, rows)
     /\ \/ rows[i].last_seen_at > rows[j].last_seen_at
        \/ rows[i].last_seen_at = rows[j].last_seen_at /\ i < j

Precedes(i, j) == IF store = "mongo" THEN PrecedesInMongo(i, j) ELSE PrecedesInMemory(i, j)

(* The rows list() may return: the first of them, in an order that leaves  *)
(* open which of two equal ones is first.                                  *)
list(limit) ==
  {page \in SUBSET Rows :
     /\ page = Rows \/ Cardinality(page) = clamp_session_limit(limit)
     /\ Cardinality(page) <= clamp_session_limit(limit)
     /\ \A i \in page, j \in Rows \ page : ~Precedes(j, i)}
-----------------------------------------------------------------------------
(* What becomes of the row a connection holds when it is closed: the Hub   *)
(* is done with it whether or not the store could be reached.              *)
Departed(ids) == [i \in Ids |-> IF i \in ids THEN now ELSE left[i]]

close_session(s, outcome) ==
  LET i == session_id[s]
  IN /\ rows' = Written(outcome, rows, Closed(i))
     /\ left' = Departed({i})
     /\ forgotten' = IF i # NoId /\ outcome = "refused" THEN forgotten \cup {i}
                     ELSE forgotten

(* A login, which ends the session the account has on another connection.  *)
(* The row this one may hold already is replaced, and no longer closed by  *)
(* anybody; and so is a row whose insert was not acknowledged.             *)
handle_authenticate(s, u) ==
  /\ running /\ opened < MaxOpened
  /\ \E closing, opening \in Outcomes :
       LET previous == IF connection_of[u] = s THEN NoConnection ELSE connection_of[u]
           stale == IF previous = NoConnection THEN NoId ELSE session_id[previous]
           i == opened + 1
           replaced == IF opening = "done" THEN session_id[s] ELSE NoId
           adrift == (IF closing = "refused" THEN {stale} ELSE {})
                       \cup (IF opening = "unanswered" THEN {i} ELSE {}) \cup {replaced}
           table == Written(closing, rows, Closed(stale))
       IN /\ rows' = Written(opening, table, Opened(table, i, u))
          /\ opened' = IF opening = "refused" THEN opened ELSE i
          /\ session_id' = [t \in Sockets |->
               IF t = previous THEN NoId
               ELSE IF t = s /\ opening = "done" THEN i ELSE session_id[t]]
          /\ user' = [t \in Sockets |->
               IF t = previous THEN Nobody ELSE IF t = s THEN u ELSE user[t]]
          /\ connection_of' = [connection_of EXCEPT ![u] = s]
          /\ left' = Departed({stale} \cup adrift)
          /\ forgotten' = forgotten \cup (adrift \ {NoId})
          /\ late' = IF opening = "done" THEN late \ {s} ELSE late
  /\ UNCHANGED <<store, now, running, beat>>

(* A ban, a removed account, a new password, an administrator who says so. *)
end_session_of(u) ==
  /\ running
  /\ LET s == connection_of[u]
     IN /\ s # NoConnection
        /\ \E outcome \in Outcomes : close_session(s, outcome)
        /\ session_id' = [session_id EXCEPT ![s] = NoId]
        /\ user' = [user EXCEPT ![s] = Nobody]
  /\ connection_of' = [connection_of EXCEPT ![u] = NoConnection]
  /\ UNCHANGED <<store, opened, now, running, beat, late>>

on_disconnect(s) ==
  /\ running /\ (user[s] # Nobody \/ session_id[s] # NoId)
  /\ \E outcome \in Outcomes : close_session(s, outcome)
  /\ session_id' = [session_id EXCEPT ![s] = NoId]
  /\ user' = [user EXCEPT ![s] = Nobody]
  /\ connection_of' =
       [u \in Users |-> IF u = user[s] /\ connection_of[u] = s THEN NoConnection
                        ELSE connection_of[u]]
  /\ UNCHANGED <<store, opened, now, running, beat, late>>

(* The heartbeat says of all rows held that they are still there, except   *)
(* those of the connections it gives up on, which are hung up afterwards.  *)
tick(timed_out) ==
  /\ running
  /\ LET alive == {session_id[s] : s \in Sockets \ timed_out}
     IN \E outcome \in Outcomes :
          /\ rows' = Written(outcome, rows, Touched(alive))
          /\ IF outcome = "refused" THEN UNCHANGED <<beat, late>>
             ELSE beat' = now /\ late' = timed_out
  /\ UNCHANGED <<store, opened, now, running, user, connection_of, session_id, left,
                 forgotten>>

(* The server is killed, or stops.                                         *)
Killed ==
  /\ running /\ running' = FALSE
  /\ user' = [s \in Sockets |-> Nobody]
  /\ connection_of' = [u \in Users |-> NoConnection]
  /\ session_id' = [s \in Sockets |-> NoId]
  /\ left' = Departed(Held)
  /\ IF store = "memory" THEN rows' = [i \in Ids |-> NoRow] /\ forgotten' = {}
     ELSE UNCHANGED rows /\ forgotten' = forgotten \cup Held
  /\ UNCHANGED <<store, opened, now, beat, late>>

(* Hub::Hub: nobody else will ever close what a run left open.             *)
Restarted ==
  /\ ~running /\ running' = TRUE
  /\ \E outcome \in Outcomes :
       /\ rows' = Written(outcome, rows, Recovered)
       /\ forgotten' = IF outcome = "refused" THEN forgotten ELSE {}
  /\ beat' = now /\ late' = {}
  /\ UNCHANGED <<store, opened, now, user, connection_of, session_id, left>>

ClockAdvances ==
  /\ now < MaxTime /\ now' = now + 1
  /\ UNCHANGED <<store, rows, opened, running, user, connection_of, session_id, left,
                 beat, late, forgotten>>

Next ==
  \/ \E s \in Sockets, u \in Users : handle_authenticate(s, u)
  \/ \E u \in Users : end_session_of(u)
  \/ \E s \in Sockets : on_disconnect(s)
  \/ \E timed_out \in SUBSET Sockets : tick(timed_out)
  \/ Killed
  \/ Restarted
  \/ ClockAdvances

Spec == Init /\ [][Next]_vars
-----------------------------------------------------------------------------
TypeOK ==
  /\ store \in {"mongo", "memory"} /\ running \in BOOLEAN
  /\ rows \in [Ids -> SessionRecord \cup {NoRow}]
  /\ opened \in 0 .. MaxOpened /\ now \in Times /\ beat \in Times
  /\ user \in [Sockets -> Users \cup {Nobody}]
  /\ connection_of \in [Users -> Sockets \cup {NoConnection}]
  /\ session_id \in [Sockets -> Ids \cup {NoId}]
  /\ left \in [Ids -> Times \cup {0}]
  /\ late \subseteq Sockets /\ forgotten \subseteq Ids

(* "Which is when the session was last known to be real" (session_store.-  *)
(* hpp:118): nobody is said to have been here before they came or after    *)
(* they left.                                                              *)
StaysAreAsLongAsTheyWere ==
  \A i \in Rows :
    /\ rows[i].connected_at <= rows[i].last_seen_at
    /\ left[i] # 0 => rows[i].last_seen_at <= left[i]
    /\ ~IsOpen(i, rows) =>
         left[i] # 0 /\ rows[i].ended_at \in rows[i].last_seen_at .. left[i]

(* A row is open as long as somebody is here through it, of the account it *)
(* names unless that connection could not open another; and after that     *)
(* only where it was lost sight of: its close or its insert or the         *)
(* recovery failed, the same connection signed in again, or the server is  *)
(* down.                                                                   *)
OpenIsHere ==
  /\ Held \ {NoId} = Open \ forgotten
  /\ \A s, t \in Sockets : session_id[s] = session_id[t] /\ s # t => session_id[s] = NoId

(* One account, one session: whoever is here through a row is who the Hub  *)
(* would find, so that ending their session ends it.                       *)
HeldIsFound ==
  \A s \in Sockets : session_id[s] # NoId => connection_of[rows[session_id[s]].user_id] = s

(* Presence is told as it is.                                              *)
PresenceIsTrue == StaysAreAsLongAsTheyWere /\ OpenIsHere /\ HeldIsFound

(* "The top of it answers who is here": who is connected is on a page, be  *)
(* it of a database with rows that were never closed, as long as the page  *)
(* has room for those who are here or left since the last heartbeat.       *)
Recent == {i \in Open : left[i] = 0 \/ left[i] >= beat}

HereIsOnThePage ==
  \A limit \in Requested : \A page \in list(limit) : \A s \in Sockets \ late :
    session_id[s] # NoId /\ Cardinality(Recent) <= clamp_session_limit(limit)
      => session_id[s] \in page

(* "The newest `limit` sessions, open and ended alike: the open ones first,*)
(* and within each group the one heard from most recently first"           *)
(* (store/session_store.hpp:135).                                          *)
TheNewestAreListed ==
  \A limit \in Requested : \A page \in list(limit) :
    \A i \in page \ Open, j \in Rows \ (page \cup Open) :
      rows[j].last_seen_at <= rows[i].last_seen_at
=============================================================================
