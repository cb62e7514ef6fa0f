---------------------------- MODULE RecoveryProofs ----------------------------
(***************************************************************************)
(* What the parts of MCRecovery promise for every value of the constants:  *)
(* the ceiling of a shared screen (ViewerCeiling), the rows of who is      *)
(* connected (Sessions, here Who), and the link of the client (Link, whose *)
(* proofs are in SignalingClientProofs).                                   *)
(*                                                                         *)
(* The rows are kept by an invariant that says whose they are: Accounted,  *)
(* that a connection's row is open and no other connection's, and that an  *)
(* open row without a connection is one the store lost the close of; and   *)
(* Timed, that no row was heard of later than now, and none of a live      *)
(* connection before the last beat.  The latter is what makes a close with *)
(* the time a row was last heard of end a stay no later than it did.       *)
(***************************************************************************)
EXTENDS MCRecovery, FiniteSetTheorems, TLAPS

Anywhere == RoomIds \cup {Nowhere}

(* The shape the steps rely on.  What Smallest returns does not matter to  *)
(* either property, so nothing is said of how far it goes.                 *)
Shape ==
  /\ room \in [Users -> Anywhere]
  /\ open \in [Users -> Anywhere]
  /\ viewer_room \in [Users -> Anywhere]
  /\ sharer_by_room \in [RoomIds -> Users \cup {Nobody}]
  /\ viewer_kbps \in [Users -> 0 .. MaxKbps]
  /\ stale \in [RoomIds -> BOOLEAN]
  /\ ceiling = [u \in Users |-> ceiling[u]]
  /\ applying = [t \in Threads |-> applying[t]]
  /\ \A t \in Threads : applying[t] # Nothing => applying[t].room \in RoomIds

(* Where the server's thread is: in no call, or in one about somebody who  *)
(* is leaving the room, or shares in it, with nothing left to apply.       *)
Calls ==
  \/ leaving = NoCall
  \/ /\ leaving \in [at : {"closing", "sharing", "forgetting"}, user : Users, room : RoomIds]
     /\ applying[Server] = Nothing

(* A connection calls back for the room its person is in, but for the one  *)
(* being closed; and whoever is counted is so for the room that connection *)
(* is of, and shares nothing in it, but for the one being forgotten.       *)
Counted ==
  /\ \A u \in Users :
       \/ open[u] = room[u]
       \/ /\ leaving.at = "closing" /\ leaving.user = u
          /\ room[u] = Nowhere /\ open[u] = leaving.room
  /\ \A u \in Users : viewer_room[u] # Nowhere =>
       \/ viewer_room[u] = room[u] /\ sharer_by_room[room[u]] # u
       \/ /\ leaving # NoCall /\ leaving.user = u /\ viewer_room[u] = leaving.room
  /\ leaving.at \in {"closing", "sharing"} => room[leaving.user] = Nowhere
  /\ leaving.at \in {"sharing", "forgetting"} => open[leaving.user] = room[leaving.user]
  /\ leaving.at = "forgetting" =>
       \/ room[leaving.user] = Nowhere
       \/ room[leaving.user] = leaving.room /\ sharer_by_room[leaving.room] = leaving.user

(* A cap that is not the smallest is about to be replaced, or was applied  *)
(* after a later one.                                                      *)
Capped ==
  \A u \in Users :
    room[u] # Nowhere /\ ceiling[u] # Never /\ ~stale[room[u]]
      /\ (\A t \in Threads : applying[t].room # room[u]) =>
        ceiling[u] = smallest_viewer_report(room[u])

IInv == Shape /\ Calls /\ Counted /\ Capped
-----------------------------------------------------------------------------
(* One person's report changes what is smallest in the rooms it was and is *)
(* counted for, and in no other.                                           *)
LEMMA OtherRoomsKeepTheirSmallest ==
  ASSUME NEW u \in Users, NEW r, NEW kbps, NEW where,
         Shape, viewer_room[u] # r, where # r,
         viewer_kbps' = [viewer_kbps EXCEPT ![u] = kbps],
         viewer_room' = [viewer_room EXCEPT ![u] = where]
  PROVE  smallest_viewer_report(r)' = smallest_viewer_report(r)
<1>1. {v \in Users : viewer_room'[v] = r} = {v \in Users : viewer_room[v] = r}
  BY DEF Shape
<1>2. \A v \in {w \in Users : viewer_room[w] = r} : viewer_kbps'[v] = viewer_kbps[v]
  BY DEF Shape
<1>3. {viewer_kbps'[v] : v \in {w \in Users : viewer_room'[w] = r}}
        = {viewer_kbps[v] : v \in {w \in Users : viewer_room[w] = r}}
  BY <1>1, <1>2
<1>4. QED
  BY <1>3 DEF smallest_viewer_report, Smallest

(* Nobody's report, nobody's smallest.                                     *)
LEMMA SameReportsSameSmallest ==
  ASSUME UNCHANGED reports, NEW r
  PROVE  smallest_viewer_report(r)' = smallest_viewer_report(r)
BY DEF reports, smallest_viewer_report, Smallest
-----------------------------------------------------------------------------
LEMMA InitIInv == ASSUME ViewerCeilingAssumption, Init PROVE IInv
BY DEF ViewerCeilingAssumption, Init, IInv, Shape, Anywhere, Calls, Counted, Capped,
       Nothing, NoCall, Threads, Never

(* A room that nobody enters or leaves is rightly capped if it is so for   *)
(* whoever was in it: the form in which every step below shows it.         *)
LEMMA CappedByRooms ==
  ASSUME Shape, UNCHANGED room,
         \A r \in RoomIds, u \in Users :
           room[u] = r /\ ceiling'[u] # Never /\ ~stale'[r]
             /\ (\A t \in Threads : applying'[t].room # r) =>
               ceiling'[u] = smallest_viewer_report(r)'
  PROVE  Capped'
<1> SUFFICES ASSUME NEW u \in Users, NEW r \in RoomIds, r = room'[u],
                    ceiling'[u] # Never, ~stale'[r],
                    \A t \in Threads : applying'[t].room # r
             PROVE  ceiling'[u] = smallest_viewer_report(r)'
  BY DEF Capped, Shape, Anywhere
<1> QED
  OBVIOUS

(* A cap is set.                                                           *)
LEMMA AppliesKeeps ==
  ASSUME ViewerCeilingAssumption, IInv, NEW t \in Threads, Applies(t)
  PROVE  IInv'
<1> DEFINE todo == applying[t]
<1>1. todo.room \in RoomIds
  BY DEF Applies, IInv, Shape
<1>2. Shape'
  BY <1>1 DEF Applies, reports, IInv, Shape, Nothing
<1>3. Calls'
  BY DEF Applies, IInv, Shape, Calls, Threads, Nothing
<1>4. Counted'
  BY DEF Applies, reports, IInv, Counted
<1>5. Capped'
  <2> SUFFICES ASSUME NEW r \in RoomIds, NEW u \in Users, room[u] = r,
                      ceiling'[u] # Never, ~stale'[r],
                      \A s \in Threads : applying'[s].room # r
               PROVE  ceiling'[u] = smallest_viewer_report(r)
    BY CappedByRooms, SameReportsSameSmallest DEF Applies, IInv
  <2>1. CASE r = todo.room
    BY <2>1 DEF Applies, IInv, Shape
  <2>2. CASE r # todo.room
    <3>1. ceiling'[u] = ceiling[u] /\ stale'[r] = stale[r]
      BY <1>1, <2>2 DEF Applies, IInv, Shape
    <3>2. \A s \in Threads : applying[s].room # r
      BY <2>2 DEF Applies, IInv, Shape
    <3>3. r # Nowhere
      BY DEF ViewerCeilingAssumption
    <3>4. QED
      BY <3>1, <3>2, <3>3 DEF IInv, Capped
  <2>3. QED
    BY <2>1, <2>2
<1>6. QED
  BY <1>2, <1>3, <1>4, <1>5 DEF IInv

(* Somebody who watches says what their link can carry, perhaps while the  *)
(* server's thread is taking their session away.                           *)
LEMMA NoteKeeps ==
  ASSUME ViewerCeilingAssumption, IInv, NEW u \in Users, NEW kbps \in 1 .. MaxKbps,
         note_viewer_bandwidth(u, kbps)
  PROVE  IInv'
<1>1. open[u] \in RoomIds /\ viewer_room[u] \in {Nowhere, open[u]}
  BY DEF note_viewer_bandwidth, IInv, Shape, Anywhere, Calls, Counted, NoCall
<1>2. /\ applying' = [t \in Threads |-> applying'[t]]
      /\ applying'[u].room = open[u]
      /\ \A t \in Threads : t # u => applying'[t] = applying[t]
  BY DEF note_viewer_bandwidth, WorkedOut, IInv, Shape, Threads
<1>3. Shape'
  <2>1. viewer_kbps' \in [Users -> 0 .. MaxKbps]
    BY DEF note_viewer_bandwidth, IInv, Shape, ViewerCeilingAssumption
  <2>2. QED
    BY <1>1, <1>2, <2>1 DEF note_viewer_bandwidth, IInv, Shape, Anywhere
<1>4. Calls'
  BY <1>2 DEF note_viewer_bandwidth, IInv, Shape, Calls, Threads, ViewerCeilingAssumption
<1>5. Counted'
  BY <1>1 DEF note_viewer_bandwidth, Counts, IInv, Shape, Calls, Counted, NoCall
<1>6. Capped'
  <2> SUFFICES ASSUME NEW r \in RoomIds, NEW v \in Users, room[v] = r,
                      ceiling[v] # Never, ~stale[r],
                      \A t \in Threads : applying'[t].room # r
               PROVE  ceiling[v] = smallest_viewer_report(r)'
    BY CappedByRooms DEF note_viewer_bandwidth, IInv
  <2>1. open[u] # r
    BY <1>2 DEF Threads
  <2>2. r # Nowhere
    BY DEF ViewerCeilingAssumption
  <2>3. smallest_viewer_report(r)' = smallest_viewer_report(r)
    <3>1. PICK where \in RoomIds : where = open[u]
      BY <1>1
    <3>2. QED
      BY <1>1, <2>1, <2>2, <3>1, OtherRoomsKeepTheirSmallest DEF note_viewer_bandwidth, IInv
  <2>4. \A t \in Threads : applying[t].room # r
    BY <1>2, <2>2 DEF note_viewer_bandwidth, IInv, Shape, Nothing
  <2>5. QED
    BY <2>2, <2>3, <2>4 DEF IInv, Capped
<1>7. QED
  BY <1>3, <1>4, <1>5, <1>6 DEF IInv

(* What somebody was counted as is forgotten, and what is left is applied. *)
LEMMA ForgetKeeps ==
  ASSUME ViewerCeilingAssumption, IInv, forget_viewer_bandwidth
  PROVE  IInv'
<1> PICK u \in Users : u = leaving.user
  BY DEF forget_viewer_bandwidth, IInv, Calls, NoCall
<1>1. applying[Server] = Nothing /\ open[u] = room[u]
  BY DEF forget_viewer_bandwidth, IInv, Calls, Counted, NoCall
<1>2. CASE viewer_room[u] = Nowhere
  <2>1. UNCHANGED <<room, open, sharer_by_room, reports, ceiling, applying, stale>>
    BY <1>2 DEF forget_viewer_bandwidth
  <2>2. Shape' /\ Calls'
    BY <2>1 DEF forget_viewer_bandwidth, reports, IInv, Shape, Calls
  <2>3. Counted'
    BY <1>1, <1>2, <2>1 DEF forget_viewer_bandwidth, reports, IInv, Counted, NoCall
  <2>4. Capped'
    BY <2>1 DEF reports, IInv, Capped, smallest_viewer_report
  <2>5. QED
    BY <2>2, <2>3, <2>4 DEF IInv
<1>3. CASE viewer_room[u] # Nowhere
  <2>1. PICK q \in RoomIds : q = viewer_room[u]
    BY <1>1, <1>3 DEF IInv, Shape, Anywhere
  <2>2. /\ viewer_kbps' = [viewer_kbps EXCEPT ![u] = 0]
        /\ viewer_room' = [viewer_room EXCEPT ![u] = Nowhere]
        /\ UNCHANGED <<room, open, sharer_by_room, ceiling, stale>>
        /\ leaving' = NoCall
    BY <1>3 DEF forget_viewer_bandwidth, Forgotten
  <2>3. /\ applying' = [t \in Threads |-> applying'[t]]
        /\ applying'[Server].room = q
        /\ \A t \in Threads : t # Server => applying'[t] = applying[t]
    BY <1>3, <2>1 DEF forget_viewer_bandwidth, Forgotten, WorkedOut, IInv, Shape, Threads
  <2>4. Shape'
    <3>1. viewer_kbps' \in [Users -> 0 .. MaxKbps]
      BY <2>2 DEF IInv, Shape, ViewerCeilingAssumption
    <3>2. viewer_room' \in [Users -> Anywhere]
      BY <2>2 DEF IInv, Shape, Anywhere
    <3>3. QED
      BY <2>2, <2>3, <3>1, <3>2 DEF IInv, Shape
  <2>5. Calls'
    BY <2>2 DEF Calls
  <2>6. Counted'
    BY <1>1, <2>2 DEF forget_viewer_bandwidth, IInv, Shape, Counted, NoCall
  <2>7. Capped'
    <3> SUFFICES ASSUME NEW r \in RoomIds, NEW v \in Users, room[v] = r,
                        ceiling[v] # Never, ~stale[r],
                        \A t \in Threads : applying'[t].room # r
                 PROVE  ceiling[v] = smallest_viewer_report(r)'
      BY <2>2, CappedByRooms DEF IInv
    <3>1. q # r
      BY <2>3 DEF Threads
    <3>2. r # Nowhere
      BY DEF ViewerCeilingAssumption
    <3>3. smallest_viewer_report(r)' = smallest_viewer_report(r)
      BY <2>1, <2>2, <3>1, <3>2, OtherRoomsKeepTheirSmallest DEF IInv
    <3>4. \A t \in Threads : applying[t].room # r
      BY <1>1, <2>3, <3>2 DEF Nothing
    <3>5. QED
      BY <3>2, <3>3, <3>4 DEF IInv, Capped
  <2>8. QED
    BY <2>4, <2>5, <2>6, <2>7 DEF IInv
<1>4. QED
  BY <1>2, <1>3

(* Joins, leaves and shares touch no report and no cap, but that whoever   *)
(* comes in has had none: they put somebody in a room with Never, or take  *)
(* somebody out of one.                                                    *)
LEMMA CapsSurvive ==
  ASSUME ViewerCeilingAssumption, Shape, Capped, NEW u \in Users, NEW r \in Anywhere,
         UNCHANGED <<reports, applying, stale>>,
         \/ UNCHANGED <<room, ceiling>>
         \/ r = Nowhere /\ room' = [room EXCEPT ![u] = r] /\ UNCHANGED ceiling
         \/ room' = [room EXCEPT ![u] = r] /\ ceiling' = [ceiling EXCEPT ![u] = Never]
  PROVE  Capped'
<1> SUFFICES ASSUME NEW v \in Users, NEW q \in RoomIds, q = room'[v],
                    ceiling'[v] # Never, ~stale[q], \A t \in Threads : applying[t].room # q
             PROVE  ceiling'[v] = smallest_viewer_report(q)'
  BY DEF Capped, Shape, Anywhere
<1>1. smallest_viewer_report(q)' = smallest_viewer_report(q)
  BY SameReportsSameSmallest
<1>2. q # Nowhere /\ room[v] = q /\ ceiling'[v] = ceiling[v]
  BY DEF Shape, ViewerCeilingAssumption
<1>3. QED
  BY <1>1, <1>2 DEF Capped

LEMMA JoinedKeeps ==
  ASSUME ViewerCeilingAssumption, IInv, NEW u \in Users, NEW r \in RoomIds,
         on_participant_joined(u, r)
  PROVE  IInv'
<1>1. Shape' /\ Calls'
  BY DEF on_participant_joined, ServerFree, reports, IInv, Shape, Calls, Anywhere
<1>2. viewer_room[u] = Nowhere
  BY DEF on_participant_joined, ServerFree, IInv, Counted
<1>3. Counted'
  BY <1>2 DEF on_participant_joined, ServerFree, reports, IInv, Shape, Counted, NoCall
<1>4. Capped'
  BY CapsSurvive DEF on_participant_joined, IInv, Anywhere
<1>5. QED
  BY <1>1, <1>3, <1>4 DEF IInv

LEMMA LeftKeeps ==
  ASSUME ViewerCeilingAssumption, IInv, NEW u \in Users, on_participant_left(u)
  PROVE  IInv'
<1>1. Shape' /\ Calls'
  <2>1. Shape'
    BY DEF on_participant_left, reports, IInv, Shape, Anywhere
  <2>2. room[u] \in RoomIds
    BY DEF on_participant_left, IInv, Shape, Anywhere
  <2>3. Calls'
    BY <2>2 DEF on_participant_left, ServerFree, Calls
  <2>4. QED
    BY <2>1, <2>3
<1>2. Counted'
  BY DEF on_participant_left, ServerFree, reports, IInv, Shape, Counted, NoCall, Anywhere
<1>3. Capped'
  <2>1. Nowhere \in Anywhere
    BY DEF Anywhere
  <2>2. QED
    BY <2>1, CapsSurvive DEF on_participant_left, IInv
<1>4. QED
  BY <1>1, <1>2, <1>3 DEF IInv

LEMMA ShareKeeps ==
  ASSUME ViewerCeilingAssumption, IInv, NEW u \in Users, on_screen_share_started(u)
  PROVE  IInv'
<1>1. Shape' /\ Calls'
  <2>1. Shape'
    BY DEF on_screen_share_started, reports, IInv, Shape, Anywhere
  <2>2. room[u] \in RoomIds
    BY DEF on_screen_share_started, IInv, Shape, Anywhere
  <2>3. Calls'
    BY <2>2 DEF on_screen_share_started, ServerFree, Calls
  <2>4. QED
    BY <2>1, <2>3
<1>2. Counted'
  BY DEF on_screen_share_started, ServerFree, reports, IInv, Shape, Counted, NoCall,
     Anywhere
<1>3. Capped'
  <2>1. Nowhere \in Anywhere
    BY DEF Anywhere
  <2>2. QED
    BY <2>1, CapsSurvive DEF on_screen_share_started, IInv
<1>4. QED
  BY <1>1, <1>2, <1>3 DEF IInv

LEMMA LeavingKeeps ==
  ASSUME ViewerCeilingAssumption, IInv, LeavingCloses \/ LeavingForgets
  PROVE  IInv'
<1>1. Shape' /\ Calls'
  BY DEF LeavingCloses, LeavingForgets, reports, IInv, Shape, Calls, Anywhere, NoCall
<1>2. CASE LeavingCloses
  <2>1. Counted'
    BY <1>2 DEF LeavingCloses, reports, IInv, Shape, Calls, Counted, NoCall
  <2>2. QED
    BY <1>1, <1>2, <2>1 DEF LeavingCloses, reports, IInv, Capped, smallest_viewer_report
<1>3. CASE LeavingForgets
  <2>1. Counted'
    BY <1>3 DEF LeavingForgets, reports, IInv, Shape, Calls, Counted, NoCall, Anywhere,
                ViewerCeilingAssumption
  <2>2. QED
    BY <1>1, <1>3, <2>1 DEF LeavingForgets, reports, IInv, Capped, smallest_viewer_report
<1>4. QED
  BY <1>2, <1>3

LEMMA StepKeepsIInv ==
  ASSUME ViewerCeilingAssumption, IInv, [Next]_vars
  PROVE  IInv'
<1>1. CASE ServerCall
  BY <1>1, JoinedKeeps, LeftKeeps, ShareKeeps DEF ServerCall
<1>2. CASE ServerGoesOn
  BY <1>2, LeavingKeeps, ForgetKeeps, AppliesKeeps DEF ServerGoesOn, Threads
<1>3. CASE \E u \in Users : Applies(u) \/
             \E kbps \in 1 .. MaxKbps : note_viewer_bandwidth(u, kbps)
  BY <1>3, AppliesKeeps, NoteKeeps DEF Threads
<1>4. CASE UNCHANGED vars
  BY <1>4 DEF vars, reports, IInv, Shape, Calls, Counted, Capped, smallest_viewer_report
<1>5. QED
  BY <1>1, <1>2, <1>3, <1>4 DEF Next
-----------------------------------------------------------------------------
(* Whoever leaves or starts to share counts no longer once the call that   *)
(* says so is over, for any people and rooms and however their own thread  *)
(* and the server's interleave.                                            *)
THEOREM NobodyCountsWhoDoesNotWatch ==
  ASSUME ViewerCeilingAssumption
  PROVE  Spec => []OnlyWatchersCount
<1>1. Init => IInv
  BY InitIInv
<1>2. IInv /\ [Next]_vars => IInv'
  BY StepKeepsIInv
<1>3. IInv => OnlyWatchersCount
  BY DEF IInv, Counted, OnlyWatchersCount
<1>4. QED
  BY <1>1, <1>2, <1>3, PTL DEF Spec

(* With nobody in the middle of anything, everybody in a room is asked for *)
(* what its slowest viewer can take, unless the last caps were applied the *)
(* wrong way round or none has come since they entered.                    *)
THEOREM TheSlowestViewerLimits ==
  ASSUME ViewerCeilingAssumption
  PROVE  Spec => []SlowestViewerLimits
<1>1. Init => IInv
  BY InitIInv
<1>2. IInv /\ [Next]_vars => IInv'
  BY StepKeepsIInv
<1>3. IInv => SlowestViewerLimits
  <2> SUFFICES ASSUME IInv, leaving = NoCall, \A t \in Threads : applying[t] = Nothing,
                      NEW u \in Users, room[u] # Nowhere, ceiling[u] # Never,
                      ~stale[room[u]]
               PROVE  ceiling[u] = smallest_viewer_report(room[u])
    BY DEF SlowestViewerLimits
  <2> QED
    BY DEF IInv, Capped, Nothing
<1>4. QED
  BY <1>1, <1>2, <1>3, PTL DEF Spec
-----------------------------------------------------------------------------
(* What a table of the store holds of an id.                               *)
Row == Who!SessionRecord \cup {Who!NoRow}

(* A row is open or not, and every connection holds one that is.           *)
Accounted ==
  /\ \A i \in Who!Ids : i > s_opened => s_rows[i] = Who!NoRow /\ s_left[i] = 0
  /\ \A s \in NoticeSockets : s_session_id[s] # Who!NoId =>
       /\ Who!IsOpen(s_session_id[s], s_rows)
       /\ s_left[s_session_id[s]] = 0
       /\ s_session_id[s] \notin s_forgotten
  /\ \A s, t \in NoticeSockets : s_session_id[s] = s_session_id[t] /\ s # t =>
       s_session_id[s] = Who!NoId
  /\ \A i \in Who!Ids : Who!IsOpen(i, s_rows) =>
       i \in s_forgotten \/ \E s \in NoticeSockets : s_session_id[s] = i
  /\ \A i \in s_forgotten : Who!IsOpen(i, s_rows) /\ s_left[i] # 0
  /\ ~s_running => \A s \in NoticeSockets : s_session_id[s] = Who!NoId

(* What is known of when: nothing was heard of after now, and who is       *)
(* connected has been heard of since the last beat that came off.          *)
Timed ==
  /\ s_beat <= s_now
  /\ \A i \in Who!Ids : s_left[i] <= s_now
  /\ \A i \in Who!Ids : s_rows[i] # Who!NoRow => s_rows[i].last_seen_at <= s_now
  /\ \A s \in NoticeSockets \ s_late : s_session_id[s] # Who!NoId =>
       s_rows[s_session_id[s]].last_seen_at >= s_beat

(* The invariant of the rows.                                              *)
RowsHold == Who!TypeOK /\ Accounted /\ Timed /\ Who!StaysAreAsLongAsTheyWere /\ Who!HeldIsFound

(* An instance counts as the standard module does.                         *)
LEMMA CardinalityIs ==
  \A S : Who!Cardinality(S) = Cardinality(S)
BY DEF Who!Cardinality, Cardinality

(* A row that is none has no fields.                                       *)
LEMMA RowIsEither ==
  ASSUME Who!SessionsAssumption, NEW r \in Row
  PROVE  /\ r # Who!NoRow => r \in Who!SessionRecord
         /\ r \in Who!SessionRecord => r # Who!NoRow
BY DEF Who!SessionsAssumption, Row, Who!SessionRecord, Who!NoRow

(* The ring forgets closed rows, never an open one.                        *)
LEMMA EvictedIs ==
  ASSUME Who!SessionsAssumption, NEW table \in [Who!Ids -> Row]
  PROVE  /\ Who!Evicted(table) \in [Who!Ids -> Row]
         /\ \A i \in Who!Ids : Who!Evicted(table)[i] \in {table[i], Who!NoRow}
         /\ \A i \in Who!Ids : Who!IsOpen(i, table) => Who!Evicted(table)[i] = table[i]
<1>. DEFINE ended == {i \in Who!Ids : table[i] # Who!NoRow /\ ~Who!IsOpen(i, table)}
            excess == Cardinality({i \in Who!Ids : table[i] # Who!NoRow}) - kCapacity
            dropped(i) == i \in ended /\ Cardinality({j \in ended : j < i}) < excess
<1>1. Who!Evicted(table) = [i \in Who!Ids |-> IF dropped(i) THEN Who!NoRow ELSE table[i]]
  BY CardinalityIs DEF Who!Evicted
<1>2. \A i \in Who!Ids : Who!IsOpen(i, table) => ~dropped(i)
  OBVIOUS
<1>. HIDE DEF dropped
<1>. QED BY <1>1, <1>2 DEF Row

(* What opening a row leaves of the table: the others, or fewer of those   *)
(* that are closed.                                                        *)
LEMMA OpenedIs ==
  ASSUME Who!SessionsAssumption, NEW table \in [Who!Ids -> Row], NEW i \in Who!Ids,
         NEW u \in Users,
         s_now \in Who!Times
  PROVE  /\ Who!Opened(table, i, u) \in [Who!Ids -> Row]
         /\ Who!Opened(table, i, u)[i] = Who!Started(u)
         /\ \A j \in Who!Ids \ {i} :
              /\ Who!Opened(table, i, u)[j] \in {table[j], Who!NoRow}
              /\ Who!IsOpen(j, table) => Who!Opened(table, i, u)[j] = table[j]
<1>. DEFINE more == [table EXCEPT ![i] = Who!Started(u)]
<1>1. Who!Started(u) \in Who!SessionRecord /\ Who!Started(u).ended_at = 0
  BY DEF Who!Started, Who!SessionRecord
<1>2. more \in [Who!Ids -> Row] /\ more[i] = Who!Started(u) /\
        \A j \in Who!Ids \ {i} : more[j] = table[j]
  BY <1>1 DEF Row
<1>3. Who!IsOpen(i, more) /\ \A j \in Who!Ids \ {i} : Who!IsOpen(j, table) =>
        Who!IsOpen(j, more)
  BY <1>1, <1>2, RowIsEither DEF Who!IsOpen, Row
<1>4. CASE Who!Opened(table, i, u) = more
  BY <1>2, <1>4
<1>5. CASE Who!Opened(table, i, u) = Who!Evicted(more)
  <2>. HIDE DEF more
  <2>. QED BY <1>2, <1>3, <1>5, EvictedIs
<1>6. Who!Opened(table, i, u) = more \/ Who!Opened(table, i, u) = Who!Evicted(more)
  BY DEF Who!Opened
<1>. QED BY <1>4, <1>5, <1>6

(* Closing a row that was open writes when; any other call leaves the      *)
(* table as it was.                                                        *)
LEMMA ClosedIs ==
  ASSUME Who!SessionsAssumption, s_rows \in [Who!Ids -> Row], s_now \in Who!Times, NEW i
  PROVE  /\ Who!Closed(i) \in [Who!Ids -> Row]
         /\ \A j \in Who!Ids : j # i => Who!Closed(i)[j] = s_rows[j]
         /\ i \in Who!Ids => ~Who!IsOpen(i, Who!Closed(i))
         /\ i \in Who!Ids /\ s_rows[i] # Who!NoRow => Who!Closed(i)[i] # Who!NoRow
         /\ i \in Who!Ids /\ Who!IsOpen(i, s_rows) =>
              /\ Who!Closed(i)[i].user_id = s_rows[i].user_id
              /\ Who!Closed(i)[i].connected_at = s_rows[i].connected_at
              /\ Who!Closed(i)[i].last_seen_at = s_rows[i].last_seen_at
              /\ Who!Closed(i)[i].ended_at = s_now
<1>1. \A j \in Who!Ids : Who!IsOpen(j, s_rows) =>
        s_rows[j] \in Who!SessionRecord /\
          [s_rows[j] EXCEPT !.ended_at = s_now] \in Who!SessionRecord
  BY RowIsEither DEF Who!IsOpen, Who!SessionRecord, Row
<1>2. \A j \in Who!Ids : Who!Closed(i)[j] =
         IF j = i /\ Who!IsOpen(i, s_rows) THEN [s_rows[j] EXCEPT !.ended_at = s_now]
           ELSE s_rows[j]
  BY DEF Who!Closed
<1>3. Who!Closed(i) \in [Who!Ids -> Row]
  BY <1>1 DEF Who!Closed, Row
<1>4. ASSUME i \in Who!Ids, Who!IsOpen(i, s_rows)
      PROVE /\ Who!Closed(i)[i].user_id = s_rows[i].user_id
            /\ Who!Closed(i)[i].connected_at = s_rows[i].connected_at
            /\ Who!Closed(i)[i].last_seen_at = s_rows[i].last_seen_at
            /\ Who!Closed(i)[i].ended_at = s_now
            /\ Who!Closed(i)[i] # Who!NoRow
  BY <1>1, <1>2, <1>4, RowIsEither DEF Who!SessionRecord, Row
<1>5. s_now # 0
  BY DEF Who!Times
<1>. QED BY <1>2, <1>3, <1>4, <1>5 DEF Who!IsOpen

(* What is true of a table that was written, whether it came off or not.   *)
LEMMA WrittenIs ==
  \A outcome, before, after :
    Who!Written(outcome, before, after) = before \/ Who!Written(outcome, before, after) = after
BY DEF Who!Written

LEMMA RowsHoldAtFirst == Who!SessionsAssumption /\ Who!Init => RowsHold
<1>. SUFFICES ASSUME Who!SessionsAssumption, Who!Init PROVE RowsHold
  OBVIOUS
<1>1. Who!TypeOK
  BY DEF Who!Init, Who!TypeOK, Row, Who!SessionsAssumption, Who!Times
<1>2. Accounted
  BY DEF Who!Init, Accounted, Who!IsOpen
<1>3. Timed
  BY DEF Who!Init, Timed
<1>4. Who!StaysAreAsLongAsTheyWere /\ Who!HeldIsFound
  BY DEF Who!Init, Who!StaysAreAsLongAsTheyWere, Who!HeldIsFound, Who!Rows
<1>. QED BY <1>1, <1>2, <1>3, <1>4 DEF RowsHold

(* The close of a connection's row: what end_session_of and on_disconnect  *)
(* have in common.                                                         *)
LEMMA CloseHolds ==
  ASSUME Who!SessionsAssumption, RowsHold, NEW s \in NoticeSockets,
         NEW outcome \in Who!Outcomes,
         Who!close_session(s, outcome),
         s_session_id' = [s_session_id EXCEPT ![s] = Who!NoId],
         s_user' = [s_user EXCEPT ![s] = Nobody],
         NEW gone, s_connection_of' = [u \in Users |-> IF u = gone /\ s_connection_of[u] = s
                                                     THEN NoConnection ELSE s_connection_of[u]],
         s_running, UNCHANGED <<s_store, s_opened, s_now, s_running, s_beat, s_late>>
  PROVE  RowsHold'
<1>. DEFINE i == s_session_id[s]
<1>t. /\ s_rows \in [Who!Ids -> Row] /\ s_now \in Who!Times /\
           s_left \in [Who!Ids -> Who!Times \cup {0}]
      /\ s_session_id \in [NoticeSockets -> Who!Ids \cup {Who!NoId}]
  BY DEF RowsHold, Who!TypeOK, Row
<1>w. s_rows' = s_rows \/ s_rows' = Who!Closed(i)
  BY DEF Who!close_session, Who!Written
<1>c. /\ Who!Closed(i) \in [Who!Ids -> Row]
      /\ \A j \in Who!Ids : j # i => Who!Closed(i)[j] = s_rows[j]
  BY <1>t, ClosedIs
<1>1. s_rows' \in [Who!Ids -> Row]
  BY <1>t, <1>w, <1>c
<1>3. \A j \in Who!Ids : j # i => s_rows'[j] = s_rows[j] /\ s_left'[j] = s_left[j]
  BY <1>t, <1>w, <1>c DEF Who!close_session, Who!Departed
<1>l. s_left' \in [Who!Ids -> Who!Times \cup {0}]
  BY <1>t DEF Who!close_session, Who!Departed
<1>2. Who!TypeOK'
  BY <1>1, <1>l DEF RowsHold, Who!TypeOK, Who!close_session, Row
<1>4. i # Who!NoId =>
        i \in Who!Ids /\ s_left'[i] = s_now /\ Who!IsOpen(i, s_rows) /\ s_left[i] = 0
  BY DEF RowsHold, Who!TypeOK, Accounted, Who!close_session, Who!Departed
<1>5. i # Who!NoId =>
          \/ s_rows'[i] = s_rows[i] /\ s_forgotten' = s_forgotten \cup {i}
          \/ /\ s_rows'[i] # Who!NoRow /\ s_forgotten' = s_forgotten
             /\ s_rows'[i].user_id = s_rows[i].user_id
             /\ s_rows'[i].connected_at = s_rows[i].connected_at
             /\ s_rows'[i].last_seen_at = s_rows[i].last_seen_at
             /\ s_rows'[i].ended_at = s_now
  <2>. SUFFICES ASSUME i # Who!NoId PROVE
          \/ s_rows'[i] = s_rows[i] /\ s_forgotten' = s_forgotten \cup {i}
          \/ /\ s_rows'[i] # Who!NoRow /\ s_forgotten' = s_forgotten
             /\ s_rows'[i].user_id = s_rows[i].user_id
             /\ s_rows'[i].connected_at = s_rows[i].connected_at
             /\ s_rows'[i].last_seen_at = s_rows[i].last_seen_at
             /\ s_rows'[i].ended_at = s_now
    OBVIOUS
  <2>1. CASE outcome = "refused"
    BY <2>1 DEF Who!close_session, Who!Written
  <2>2. CASE outcome # "refused"
    <3>1. s_rows' = Who!Closed(i) /\ s_forgotten' = s_forgotten
      BY <2>2 DEF Who!close_session, Who!Written
    <3>2. i \in Who!Ids /\ Who!IsOpen(i, s_rows) /\ s_rows[i] # Who!NoRow
      BY <1>4 DEF Who!IsOpen
    <3>. QED BY <3>1, <3>2, <1>t, ClosedIs
  <2>. QED BY <2>1, <2>2
<1>6. i = Who!NoId => s_forgotten' = s_forgotten
  BY DEF Who!close_session
<1>s. \A t \in NoticeSockets : s_session_id'[t] = IF t = s THEN Who!NoId ELSE s_session_id[t]
  BY <1>t
<1>h. \A t \in NoticeSockets : t # s /\ s_session_id[t] # Who!NoId =>
        s_session_id[t] \in Who!Ids /\ s_session_id[t] # i
  BY <1>t DEF RowsHold, Accounted
<1>f. s_forgotten \subseteq s_forgotten' /\ s_forgotten' \subseteq s_forgotten \cup {i}
  BY <1>5, <1>6
<1>0. Who!NoId \notin Who!Ids /\ s_now # 0 /\ s_now \in Int
  BY <1>t DEF Who!NoId, Who!Ids, Who!Times
<1>o. \A j \in Who!Ids : j # i => (Who!IsOpen(j, s_rows') <=> Who!IsOpen(j, s_rows))
  BY <1>3 DEF Who!IsOpen
<1>7. Accounted'
  <2>a. Accounted /\ s_opened' = s_opened /\ s_running' = s_running /\
          s_forgotten \subseteq Who!Ids
    BY DEF RowsHold, Who!TypeOK
  <2>1. (\A j \in Who!Ids : j > s_opened => s_rows[j] = Who!NoRow /\ s_left[j] = 0)'
    BY <2>a, <1>3, <1>4, <1>0 DEF Accounted, Who!IsOpen
  <2>2. (\A t \in NoticeSockets : s_session_id[t] # Who!NoId =>
           Who!IsOpen(s_session_id[t], s_rows) /\ s_left[s_session_id[t]] = 0 /\
             s_session_id[t] \notin s_forgotten)'
    BY <2>a, <1>3, <1>s, <1>h, <1>f, <1>o DEF Accounted
  <2>3. (\A t, v \in NoticeSockets : s_session_id[t] = s_session_id[v] /\ t # v =>
          s_session_id[t] = Who!NoId)'
    BY <2>a, <1>s DEF Accounted
  <2>4. (\A j \in Who!Ids : Who!IsOpen(j, s_rows) =>
          j \in s_forgotten \/ \E t \in NoticeSockets : s_session_id[t] = j)'
    <3>. SUFFICES ASSUME NEW j \in Who!Ids, Who!IsOpen(j, s_rows')
                  PROVE j \in s_forgotten' \/ \E t \in NoticeSockets : s_session_id'[t] = j
      OBVIOUS
    <3>1. CASE j # i
      BY <3>1, <2>a, <1>o, <1>f, <1>s DEF Accounted
    <3>2. CASE j = i
      BY <3>2, <1>0, <1>4, <1>5 DEF Who!IsOpen
    <3>. QED BY <3>1, <3>2
  <2>5. (\A j \in s_forgotten : Who!IsOpen(j, s_rows) /\ s_left[j] # 0)'
    <3>. SUFFICES ASSUME NEW j \in s_forgotten' PROVE Who!IsOpen(j, s_rows') /\ s_left'[j] # 0
      OBVIOUS
    <3>1. CASE j # i
      BY <3>1, <2>a, <1>o, <1>f, <1>3 DEF Accounted
    <3>2. CASE j = i
      BY <3>2, <2>a, <1>0, <1>4, <1>5, <1>6 DEF Who!IsOpen, Accounted
    <3>. QED BY <3>1, <3>2
  <2>6. (~s_running => \A t \in NoticeSockets : s_session_id[t] = Who!NoId)'
    BY <2>a, <1>s
  <2>. QED BY <2>1, <2>2, <2>3, <2>4, <2>5, <2>6 DEF Accounted
<1>8. Timed'
  <2>a. Timed /\ s_beat' = s_beat /\ s_now' = s_now /\ s_late' = s_late
    BY DEF RowsHold
  <2>1. \A j \in Who!Ids : s_left'[j] <= s_now
    BY <2>a, <1>3, <1>4, <1>0 DEF Timed
  <2>2. \A j \in Who!Ids : s_rows'[j] # Who!NoRow => s_rows'[j].last_seen_at <= s_now
    BY <2>a, <1>3, <1>4, <1>5, <1>0 DEF Timed, Who!IsOpen
  <2>3. \A t \in NoticeSockets \ s_late : s_session_id'[t] # Who!NoId =>
          s_rows'[s_session_id'[t]].last_seen_at >= s_beat
    BY <2>a, <1>3, <1>s, <1>h DEF Timed
  <2>. QED BY <2>a, <2>1, <2>2, <2>3 DEF Timed
<1>9. Who!StaysAreAsLongAsTheyWere'
  <2>. SUFFICES ASSUME NEW j \in Who!Ids, s_rows'[j] # Who!NoRow
                PROVE /\ s_rows'[j].connected_at <= s_rows'[j].last_seen_at
                      /\ s_left'[j] # 0 => s_rows'[j].last_seen_at <= s_left'[j]
                      /\ ~Who!IsOpen(j, s_rows') =>
                           s_left'[j] # 0 /\
                             s_rows'[j].ended_at \in s_rows'[j].last_seen_at .. s_left'[j]
    BY DEF Who!StaysAreAsLongAsTheyWere, Who!Rows
  <2>1. CASE j # i
    BY <2>1, <1>3, <1>o DEF RowsHold, Who!StaysAreAsLongAsTheyWere, Who!Rows
  <2>2. CASE j = i
    <3>1. s_rows[j] \in Who!SessionRecord
      BY <2>2, <1>t, <1>0, <1>4, RowIsEither DEF Who!IsOpen
    <3>2. s_rows[j].last_seen_at <= s_now /\ s_rows[j].connected_at <= s_rows[j].last_seen_at
      BY <2>2, <1>0, <1>4 DEF RowsHold, Timed, Who!StaysAreAsLongAsTheyWere, Who!IsOpen,
         Who!Rows
    <3>. QED BY <2>2, <3>1, <3>2, <1>0, <1>4, <1>5 DEF Who!IsOpen, Who!SessionRecord,
                Who!Times
  <2>. QED BY <2>1, <2>2
<1>10. Who!HeldIsFound'
  <2>. SUFFICES ASSUME NEW t \in NoticeSockets, s_session_id'[t] # Who!NoId
                PROVE  s_connection_of'[s_rows'[s_session_id'[t]].user_id] = t
    BY DEF Who!HeldIsFound
  <2>1. t # s /\ s_session_id'[t] = s_session_id[t] /\
          s_rows'[s_session_id[t]] = s_rows[s_session_id[t]]
    BY <1>s, <1>h, <1>3
  <2>2. s_rows[s_session_id[t]] \in Who!SessionRecord
    BY <2>1, <1>h, <1>t, RowIsEither DEF RowsHold, Accounted, Who!IsOpen
  <2>3. s_connection_of[s_rows[s_session_id[t]].user_id] = t
    BY <2>1 DEF RowsHold, Who!HeldIsFound
  <2>. QED BY <2>1, <2>2, <2>3 DEF Who!SessionRecord
<1>. QED BY <1>2, <1>7, <1>8, <1>9, <1>10 DEF RowsHold

(* handle_authenticate: a second sign-in closes the row of the first       *)
(* before it opens its own.                                                *)
LEMMA SigningInHolds ==
  ASSUME Who!SessionsAssumption, RowsHold, NEW s \in NoticeSockets, NEW u \in Users,
         Who!handle_authenticate(s, u)
  PROVE  RowsHold'
<1>v. PICK previous : previous = IF s_connection_of[u] = s THEN NoConnection
        ELSE s_connection_of[u]
  OBVIOUS
<1>x. PICK ousted : ousted = IF previous = NoConnection THEN Who!NoId
        ELSE s_session_id[previous]
  OBVIOUS
<1>i. PICK i : i = s_opened + 1
  OBVIOUS
<1>o. PICK closing \in Who!Outcomes, opening \in Who!Outcomes :
        LET replaced == IF opening = "done" THEN s_session_id[s] ELSE Who!NoId
            adrift == (IF closing = "refused" THEN {ousted} ELSE {})
                        \cup (IF opening = "unanswered" THEN {i} ELSE {}) \cup {replaced}
            table == Who!Written(closing, s_rows, Who!Closed(ousted))
        IN /\ s_rows' = Who!Written(opening, table, Who!Opened(table, i, u))
           /\ s_opened' = IF opening = "refused" THEN s_opened ELSE i
           /\ s_session_id' = [t \in NoticeSockets |->
                IF t = previous THEN Who!NoId
                ELSE IF t = s /\ opening = "done" THEN i ELSE s_session_id[t]]
           /\ s_user' = [t \in NoticeSockets |->
                IF t = previous THEN Nobody ELSE IF t = s THEN u ELSE s_user[t]]
           /\ s_connection_of' = [s_connection_of EXCEPT ![u] = s]
           /\ s_left' = Who!Departed({ousted} \cup adrift)
           /\ s_forgotten' = s_forgotten \cup (adrift \ {Who!NoId})
           /\ s_late' = IF opening = "done" THEN s_late \ {s} ELSE s_late
  BY <1>v, <1>x, <1>i DEF Who!handle_authenticate
<1>l. PICK replaced : replaced = IF opening = "done" THEN s_session_id[s] ELSE Who!NoId
  OBVIOUS
<1>j. PICK adrift : adrift = (IF closing = "refused" THEN {ousted} ELSE {})
                        \cup (IF opening = "unanswered" THEN {i} ELSE {}) \cup {replaced}
  OBVIOUS
<1>k. PICK table : table = Who!Written(closing, s_rows, Who!Closed(ousted))
  OBVIOUS
<1>p. /\ s_rows' = Who!Written(opening, table, Who!Opened(table, i, u))
      /\ s_opened' = IF opening = "refused" THEN s_opened ELSE i
      /\ s_session_id' = [t \in NoticeSockets |->
           IF t = previous THEN Who!NoId
           ELSE IF t = s /\ opening = "done" THEN i ELSE s_session_id[t]]
      /\ s_user' = [t \in NoticeSockets |->
           IF t = previous THEN Nobody ELSE IF t = s THEN u ELSE s_user[t]]
      /\ s_connection_of' = [s_connection_of EXCEPT ![u] = s]
      /\ s_left' = Who!Departed({ousted} \cup adrift)
      /\ s_forgotten' = s_forgotten \cup (adrift \ {Who!NoId})
      /\ s_late' = IF opening = "done" THEN s_late \ {s} ELSE s_late
  BY <1>o, <1>l, <1>j, <1>k
<1>t. /\ s_rows \in [Who!Ids -> Row] /\ s_now \in Who!Times /\
           s_left \in [Who!Ids -> Who!Times \cup {0}]
      /\ s_session_id \in [NoticeSockets -> Who!Ids \cup {Who!NoId}] /\
           s_opened \in 0 .. MaxOpened
      /\ s_connection_of \in [Users -> NoticeSockets \cup {NoConnection}]
      /\ s_forgotten \subseteq Who!Ids /\ s_late \subseteq NoticeSockets
      /\ s_user \in [NoticeSockets -> Users \cup {Nobody}]
  BY DEF RowsHold, Who!TypeOK, Row
<1>0. /\ Who!NoId \notin Who!Ids /\ s_now # 0 /\ s_now \in Int /\ i \in Who!Ids /\ i > s_opened
      /\ UNCHANGED <<s_store, s_now, s_running, s_beat>> /\ s_running
  BY <1>t, <1>i DEF Who!NoId, Who!Ids, Who!Times, Who!handle_authenticate,
     Who!SessionsAssumption
<1>a. previous \in NoticeSockets \cup {NoConnection} /\ previous # s
  BY <1>t, <1>v DEF Who!SessionsAssumption
<1>b. /\ ousted \in Who!Ids \cup {Who!NoId}
      /\ ousted # Who!NoId => previous \in NoticeSockets /\ s_session_id[previous] = ousted
      /\ ousted # Who!NoId =>
           Who!IsOpen(ousted, s_rows) /\ s_left[ousted] = 0 /\ ousted \notin s_forgotten
  BY <1>a, <1>t, <1>x DEF RowsHold, Accounted
<1>c. /\ replaced \in Who!Ids \cup {Who!NoId}
      /\ replaced # Who!NoId =>
          /\ opening = "done" /\ s_session_id[s] = replaced /\ replaced # ousted
          /\ Who!IsOpen(replaced, s_rows) /\ s_left[replaced] = 0
          /\ replaced \notin s_forgotten
  BY <1>a, <1>b, <1>t, <1>l DEF RowsHold, Accounted
<1>d. /\ ousted # i /\ replaced # i
      /\ s_rows[i] = Who!NoRow /\ s_left[i] = 0 /\ i \notin s_forgotten
      /\ \A t \in NoticeSockets : s_session_id[t] # i
  <2>1. s_rows[i] = Who!NoRow /\ s_left[i] = 0
    BY <1>0 DEF RowsHold, Accounted
  <2>2. ~Who!IsOpen(i, s_rows)
    BY <2>1 DEF Who!IsOpen
  <2>. QED BY <2>1, <2>2, <1>0, <1>b, <1>c DEF RowsHold, Accounted
<1>1. /\ table \in [Who!Ids -> Row]
      /\ \A j \in Who!Ids : j # ousted => table[j] = s_rows[j]
      /\ table = s_rows \/ table = Who!Closed(ousted)
  BY <1>t, <1>k, ClosedIs, WrittenIs
<1>2. ousted # Who!NoId /\ closing # "refused" =>
        /\ table[ousted] # Who!NoRow /\ ~Who!IsOpen(ousted, table)
        /\ table[ousted].user_id = s_rows[ousted].user_id
        /\ table[ousted].connected_at = s_rows[ousted].connected_at
        /\ table[ousted].last_seen_at = s_rows[ousted].last_seen_at
        /\ table[ousted].ended_at = s_now
  BY <1>t, <1>b, <1>k, ClosedIs DEF Who!Written, Who!IsOpen
<1>3. closing = "refused" => table = s_rows
  BY <1>k DEF Who!Written
<1>4. /\ opening = "refused" => s_rows' = table
      /\ opening # "refused" => s_rows' = Who!Opened(table, i, u)
  BY <1>p DEF Who!Written
<1>5. /\ s_rows' \in [Who!Ids -> Row]
      /\ \A j \in Who!Ids \ {i} :
          /\ s_rows'[j] \in {table[j], Who!NoRow}
          /\ Who!IsOpen(j, table) => s_rows'[j] = table[j]
      /\ s_rows'[i] = IF opening = "refused" THEN Who!NoRow ELSE Who!Started(u)
  BY <1>0, <1>1, <1>4, <1>d, <1>t, OpenedIs DEF Row
<1>p2. /\ s_left' = Who!Departed({ousted} \cup adrift)
       /\ s_forgotten' = s_forgotten \cup (adrift \ {Who!NoId})
  BY <1>p
<1>10. \A t \in NoticeSockets : s_session_id'[t] =
         IF t = previous THEN Who!NoId ELSE IF t = s /\ opening = "done" THEN i
           ELSE s_session_id[t]
  BY <1>p
<1>11. /\ s_connection_of' = [s_connection_of EXCEPT ![u] = s]
       /\ s_late' = IF opening = "done" THEN s_late \ {s} ELSE s_late
       /\ s_opened' = IF opening = "refused" THEN s_opened ELSE i
       /\ opening = "done" \/ opening = "refused" \/ opening = "unanswered"
  BY <1>p DEF Who!Outcomes
<1>u. s_user' \in [NoticeSockets -> Users \cup {Nobody}]
  BY <1>p, <1>t
<1>e. \A j : j \in adrift <=> \/ j = ousted /\ closing = "refused"
                              \/ j = i /\ opening = "unanswered"
                              \/ j = replaced
  BY <1>j
<1>6. \A j \in Who!Ids \ {i, ousted} :
        /\ s_rows'[j] \in {s_rows[j], Who!NoRow}
        /\ Who!IsOpen(j, s_rows) => s_rows'[j] = s_rows[j]
  BY <1>1, <1>5 DEF Who!IsOpen
<1>7. ousted # Who!NoId =>
        \/ closing = "refused" /\ s_rows'[ousted] = s_rows[ousted]
        \/ closing # "refused" /\ s_rows'[ousted] = Who!NoRow
        \/ /\ closing # "refused" /\ s_rows'[ousted] # Who!NoRow
           /\ s_rows'[ousted].user_id = s_rows[ousted].user_id
           /\ s_rows'[ousted].connected_at = s_rows[ousted].connected_at
           /\ s_rows'[ousted].last_seen_at = s_rows[ousted].last_seen_at
           /\ s_rows'[ousted].ended_at = s_now
  <2>. SUFFICES ASSUME ousted # Who!NoId PROVE
        \/ closing = "refused" /\ s_rows'[ousted] = s_rows[ousted]
        \/ closing # "refused" /\ s_rows'[ousted] = Who!NoRow
        \/ /\ closing # "refused" /\ s_rows'[ousted] # Who!NoRow
           /\ s_rows'[ousted].user_id = s_rows[ousted].user_id
           /\ s_rows'[ousted].connected_at = s_rows[ousted].connected_at
           /\ s_rows'[ousted].last_seen_at = s_rows[ousted].last_seen_at
           /\ s_rows'[ousted].ended_at = s_now
    OBVIOUS
  <2>0. ousted \in Who!Ids \ {i} /\ Who!IsOpen(ousted, s_rows)
    BY <1>b, <1>d
  <2>1. CASE closing = "refused"
    BY <2>0, <2>1, <1>3, <1>5
  <2>2. CASE closing # "refused"
    <3>z. \A j \in Who!Ids \ {i} : s_rows'[j] \in {table[j], Who!NoRow}
      BY <1>5 DEF Who!IsOpen
    <3>y. s_rows'[ousted] \in {table[ousted], Who!NoRow}
      BY <2>0, <3>z
    <3>1. s_rows'[ousted] = table[ousted] \/ s_rows'[ousted] = Who!NoRow
      BY <3>y
    <3>. QED BY <3>1, <2>2, <1>2
  <2>. QED BY <2>1, <2>2
<1>8. \A j \in Who!Ids : s_left'[j] =
        IF j = ousted \/ j = replaced \/ (j = i /\ opening = "unanswered") THEN s_now
          ELSE s_left[j]
  BY <1>p2, <1>e DEF Who!Departed
<1>9. \A j : j \in s_forgotten' <=>
                                  \/ j \in s_forgotten
                                  \/ /\ j # Who!NoId
                                     /\ \/ j = ousted /\ closing = "refused"
                                        \/ j = i /\ opening = "unanswered"
                                        \/ j = replaced
  BY <1>p2, <1>e
<1>12. Who!TypeOK'
  <2>1. s_left' \in [Who!Ids -> Who!Times \cup {0}]
    BY <1>p2, <1>t DEF Who!Departed
  <2>2. s_session_id' \in [NoticeSockets -> Who!Ids \cup {Who!NoId}]
    <3>1. s_session_id' = [t \in NoticeSockets |-> s_session_id'[t]]
      BY <1>p
    <3>2. \A t \in NoticeSockets : s_session_id'[t] \in Who!Ids \cup {Who!NoId}
      BY <1>10, <1>t, <1>0
    <3>. QED BY <3>1, <3>2
  <2>3. /\ s_connection_of' \in [Users -> NoticeSockets \cup {NoConnection}]
        /\ s_late' \subseteq NoticeSockets
    BY <1>11, <1>t
  <2>4. s_forgotten' \subseteq Who!Ids
    BY <1>9, <1>t, <1>0, <1>b, <1>c
  <2>5. s_opened' \in 0 .. MaxOpened
    BY <1>11, <1>t, <1>0 DEF Who!Ids
  <2>. QED BY <2>1, <2>2, <2>3, <2>4, <2>5, <1>5, <1>0, <1>u DEF RowsHold, Who!TypeOK, Row
<1>s. Who!Started(u) \in Who!SessionRecord /\ Who!Started(u) # Who!NoRow
  BY <1>t, RowIsEither DEF Who!Started, Who!SessionRecord, Row
<1>r. Who!Started(u) = [user_id |-> u, connected_at |-> s_now, last_seen_at |-> s_now,
        ended_at |-> 0]
  BY DEF Who!Started
(* Whoever holds a row after it held it before, or is the one signing in.  *)
<1>13. \A t \in NoticeSockets : s_session_id'[t] # Who!NoId =>
         /\ t # previous
         /\ \/ t = s /\ opening = "done" /\ s_session_id'[t] = i
            \/ /\ t # s \/ opening # "done"
               /\ s_session_id'[t] = s_session_id[t] /\ s_session_id[t] \in Who!Ids
               /\ s_session_id[t] # ousted /\ s_session_id[t] # replaced /\ s_session_id[t] # i
  BY <1>10, <1>b, <1>c, <1>d, <1>t DEF RowsHold, Accounted
<1>14. \A t \in NoticeSockets : s_session_id'[t] # Who!NoId =>
         Who!IsOpen(s_session_id'[t], s_rows')
  <2>. SUFFICES ASSUME NEW t \in NoticeSockets,
  s_session_id'[t] # Who!NoId PROVE Who!IsOpen(s_session_id'[t], s_rows')
    OBVIOUS
  <2>1. CASE s_session_id'[t] = i /\ opening = "done"
    BY <2>1, <1>5, <1>s, <1>r DEF Who!IsOpen
  <2>2. CASE s_session_id'[t] = s_session_id[t] /\ s_session_id[t] \in Who!Ids \ {i, ousted}
    BY <2>2, <1>0, <1>6 DEF RowsHold, Accounted, Who!IsOpen
  <2>. QED BY <2>1, <2>2, <1>13
<1>15. Accounted'
  <2>a. Accounted
    BY DEF RowsHold
  <2>1. (\A j \in Who!Ids : j > s_opened => s_rows[j] = Who!NoRow /\ s_left[j] = 0)'
    <3>. SUFFICES ASSUME NEW j \in Who!Ids, j > s_opened'
           PROVE s_rows'[j] = Who!NoRow /\ s_left'[j] = 0
      OBVIOUS
    <3>1. j > s_opened /\ (j = i => opening = "refused")
      BY <1>11, <1>t, <1>0 DEF Who!Ids
    <3>2. s_rows[j] = Who!NoRow /\ s_left[j] = 0 /\ j # ousted /\ j # replaced
      BY <3>1, <2>a, <1>0, <1>b, <1>c DEF Accounted, Who!IsOpen
    <3>. QED BY <3>1, <3>2, <1>5, <1>6, <1>8
  <2>2. (\A t \in NoticeSockets : s_session_id[t] # Who!NoId =>
           Who!IsOpen(s_session_id[t], s_rows) /\ s_left[s_session_id[t]] = 0 /\
             s_session_id[t] \notin s_forgotten)'
    BY <2>a, <1>13, <1>14, <1>8, <1>9, <1>d, <1>0 DEF Accounted
  <2>3. (\A t, v \in NoticeSockets : s_session_id[t] = s_session_id[v] /\ t # v =>
          s_session_id[t] = Who!NoId)'
    BY <2>a, <1>13 DEF Accounted
  <2>4. (\A j \in Who!Ids : Who!IsOpen(j, s_rows) =>
          j \in s_forgotten \/ \E t \in NoticeSockets : s_session_id[t] = j)'
    <3>. SUFFICES ASSUME NEW j \in Who!Ids, Who!IsOpen(j, s_rows')
                  PROVE j \in s_forgotten' \/ \E t \in NoticeSockets : s_session_id'[t] = j
      OBVIOUS
    <3>1. CASE j = i
      BY <3>1, <1>0, <1>5, <1>9, <1>10, <1>11, <1>a DEF Who!IsOpen
    <3>2. CASE j # i /\ j = ousted
      BY <3>2, <1>7, <1>9, <1>0 DEF Who!IsOpen
    <3>3. CASE j # i /\ j # ousted
      <4>1. Who!IsOpen(j, s_rows)
        BY <3>3, <1>6 DEF Who!IsOpen
      <4>2. CASE j \in s_forgotten
        BY <4>2, <1>9
      <4>3. CASE j \notin s_forgotten
        <5>1. PICK t \in NoticeSockets : s_session_id[t] = j
          BY <4>1, <4>3, <2>a DEF Accounted
        <5>2. CASE t = previous
          BY <5>1, <5>2, <3>3, <1>a, <1>x DEF Who!SessionsAssumption
        <5>3. CASE t # previous /\ t = s /\ opening = "done"
          BY <5>1, <5>3, <1>0, <1>9, <1>l
        <5>4. CASE t # previous /\ ~(t = s /\ opening = "done")
          BY <5>1, <5>4, <1>10
        <5>. QED BY <5>2, <5>3, <5>4
      <4>. QED BY <4>2, <4>3
    <3>. QED BY <3>1, <3>2, <3>3
  <2>5. (\A j \in s_forgotten : Who!IsOpen(j, s_rows) /\ s_left[j] # 0)'
    <3>. SUFFICES ASSUME NEW j \in s_forgotten' PROVE Who!IsOpen(j, s_rows') /\ s_left'[j] # 0
      OBVIOUS
    <3>1. CASE j \in s_forgotten
      BY <3>1, <2>a, <1>t, <1>b, <1>d, <1>6, <1>8, <1>0 DEF Accounted, Who!IsOpen
    <3>2. CASE j \in Who!Ids /\ j = ousted /\ closing = "refused"
      BY <3>2, <1>b, <1>0, <1>7, <1>8 DEF Who!IsOpen
    <3>3. CASE j \in Who!Ids /\ j = i /\ opening = "unanswered"
      BY <3>3, <1>5, <1>s, <1>r, <1>8, <1>0 DEF Who!IsOpen
    <3>4. CASE j \in Who!Ids /\ j = replaced
      BY <3>4, <1>c, <1>d, <1>0, <1>6, <1>8 DEF Who!IsOpen
    <3>. QED BY <3>1, <3>2, <3>3, <3>4, <1>0, <1>9, <1>b, <1>c
  <2>6. (~s_running => \A t \in NoticeSockets : s_session_id[t] = Who!NoId)'
    BY <1>0
  <2>. QED BY <2>1, <2>2, <2>3, <2>4, <2>5, <2>6 DEF Accounted
<1>16. Timed'
  <2>a. Timed /\ s_beat' = s_beat /\ s_now' = s_now
    BY <1>0 DEF RowsHold
  <2>1. \A j \in Who!Ids : s_left'[j] <= s_now
    BY <2>a, <1>8, <1>0 DEF Timed
  <2>2. \A j \in Who!Ids : s_rows'[j] # Who!NoRow => s_rows'[j].last_seen_at <= s_now
    BY <2>a, <1>5, <1>6, <1>7, <1>b, <1>0, <1>r DEF Timed, Who!IsOpen
  <2>3. \A t \in NoticeSockets \ s_late' : s_session_id'[t] # Who!NoId =>
          s_rows'[s_session_id'[t]].last_seen_at >= s_beat
    <3>. SUFFICES ASSUME NEW t \in NoticeSockets \ s_late', s_session_id'[t] # Who!NoId
                  PROVE  s_rows'[s_session_id'[t]].last_seen_at >= s_beat
      OBVIOUS
    <3>1. CASE s_session_id'[t] = i /\ opening = "done"
      BY <3>1, <1>5, <1>r, <2>a, <1>0, <1>t DEF Timed, RowsHold, Who!TypeOK, Who!Times
    <3>2. CASE /\ t # s \/ opening # "done"
               /\ s_session_id'[t] = s_session_id[t] /\
                    s_session_id[t] \in Who!Ids \ {i, ousted}
      BY <3>2, <1>6, <1>11, <2>a DEF RowsHold, Accounted, Timed
    <3>. QED BY <3>1, <3>2, <1>13
  <2>. QED BY <2>a, <2>1, <2>2, <2>3 DEF Timed
<1>17. Who!StaysAreAsLongAsTheyWere'
  <2>. SUFFICES ASSUME NEW j \in Who!Ids, s_rows'[j] # Who!NoRow
                PROVE /\ s_rows'[j].connected_at <= s_rows'[j].last_seen_at
                      /\ s_left'[j] # 0 => s_rows'[j].last_seen_at <= s_left'[j]
                      /\ ~Who!IsOpen(j, s_rows') =>
                           s_left'[j] # 0 /\
                             s_rows'[j].ended_at \in s_rows'[j].last_seen_at .. s_left'[j]
    BY DEF Who!StaysAreAsLongAsTheyWere, Who!Rows
  <2>1. CASE j = i
    BY <2>1, <1>0, <1>5, <1>s, <1>r, <1>8, <1>d DEF Who!IsOpen
  <2>2. CASE j # i
    <3>2. s_rows[j] # Who!NoRow
      BY <2>2, <1>0, <1>6, <1>7, <1>b DEF Who!IsOpen
    <3>3. /\ s_rows[j] \in Who!SessionRecord /\ s_rows[j].last_seen_at <= s_now
          /\ s_rows[j].connected_at <= s_rows[j].last_seen_at
          /\ s_left[j] # 0 => s_rows[j].last_seen_at <= s_left[j]
          /\ ~Who!IsOpen(j, s_rows) =>
               s_left[j] # 0 /\ s_rows[j].ended_at \in s_rows[j].last_seen_at .. s_left[j]
      BY <3>2, <1>t, RowIsEither DEF RowsHold, Timed, Who!StaysAreAsLongAsTheyWere, Who!Rows
    <3>4. CASE j = ousted
      BY <2>2, <3>4, <3>3, <1>0, <1>7, <1>8, <1>b DEF Who!IsOpen, Who!SessionRecord,
         Who!Times
    <3>5. CASE j # ousted /\ j = replaced
      BY <2>2, <3>5, <3>3, <1>0, <1>6, <1>8, <1>c DEF Who!IsOpen
    <3>6. CASE j # ousted /\ j # replaced
      BY <2>2, <3>6, <3>3, <1>0, <1>6, <1>8 DEF Who!IsOpen
    <3>. QED BY <3>4, <3>5, <3>6
  <2>. QED BY <2>1, <2>2
<1>18. Who!HeldIsFound'
  <2>. SUFFICES ASSUME NEW t \in NoticeSockets, s_session_id'[t] # Who!NoId
                PROVE  s_connection_of'[s_rows'[s_session_id'[t]].user_id] = t
    BY DEF Who!HeldIsFound
  <2>1. CASE t = s /\ s_session_id'[t] = i /\ opening = "done"
    BY <2>1, <1>5, <1>r, <1>11, <1>t
  <2>2. CASE s_session_id'[t] = s_session_id[t] /\ s_session_id[t] \in Who!Ids \ {i, ousted} /\
               t # previous
    <3>1. Who!IsOpen(s_session_id[t], s_rows) /\
            s_rows'[s_session_id[t]] = s_rows[s_session_id[t]]
      BY <2>2, <1>6 DEF RowsHold, Accounted
    <3>2. s_rows[s_session_id[t]].user_id \in Users
      BY <3>1, <2>2, <1>t, RowIsEither DEF Who!IsOpen, Who!SessionRecord
    <3>3. s_connection_of[s_rows[s_session_id[t]].user_id] = t
      BY <2>2, <1>0 DEF RowsHold, Who!HeldIsFound
    <3>. QED BY <2>2, <3>1, <3>2, <3>3, <1>11, <1>t, <1>v
  <2>. QED BY <2>1, <2>2, <1>13
<1>. QED BY <1>12, <1>15, <1>16, <1>17, <1>18 DEF RowsHold

(* end_session_of: an administrator puts an account out.                   *)
LEMMA EndingHolds ==
  ASSUME Who!SessionsAssumption, RowsHold, NEW u \in Users, Who!end_session_of(u)
  PROVE  RowsHold'
<1>. DEFINE s == s_connection_of[u]
<1>1. PICK outcome \in Who!Outcomes : Who!close_session(s, outcome)
  BY DEF Who!end_session_of
<1>2. s \in NoticeSockets
  BY DEF Who!end_session_of, RowsHold, Who!TypeOK
<1>3. /\ s_session_id' = [s_session_id EXCEPT ![s] = Who!NoId]
      /\ s_user' = [s_user EXCEPT ![s] = Nobody]
      /\ s_running /\ UNCHANGED <<s_store, s_opened, s_now, s_running, s_beat, s_late>>
  BY DEF Who!end_session_of
<1>4. s_connection_of' = [v \in Users |-> IF v = u /\ s_connection_of[v] = s THEN NoConnection
                                        ELSE s_connection_of[v]]
  BY DEF Who!end_session_of, RowsHold, Who!TypeOK
<1>. QED BY <1>1, <1>2, <1>3, <1>4, CloseHolds

(* on_disconnect: the row of the socket that went, if it has one.          *)
LEMMA LeavingHolds ==
  ASSUME Who!SessionsAssumption, RowsHold, NEW s \in NoticeSockets, Who!on_disconnect(s)
  PROVE  RowsHold'
<1>1. PICK outcome \in Who!Outcomes : Who!close_session(s, outcome)
  BY DEF Who!on_disconnect
<1>2. /\ s_session_id' = [s_session_id EXCEPT ![s] = Who!NoId]
      /\ s_user' = [s_user EXCEPT ![s] = Nobody]
      /\ s_running /\ UNCHANGED <<s_store, s_opened, s_now, s_running, s_beat, s_late>>
      /\ s_connection_of' = [v \in Users |-> IF v = s_user[s] /\ s_connection_of[v] = s
                                           THEN NoConnection ELSE s_connection_of[v]]
  BY DEF Who!on_disconnect
<1>. QED BY <1>1, <1>2, CloseHolds

(* The heartbeat: every connection but those it gives up on is heard of,   *)
(* unless the store fails.                                                 *)
LEMMA BeatHolds ==
  ASSUME Who!SessionsAssumption, RowsHold, NEW timed_out \in SUBSET NoticeSockets,
         Who!tick(timed_out)
  PROVE  RowsHold'
<1>. DEFINE alive == {s_session_id[s] : s \in NoticeSockets \ timed_out}
<1>t. /\ s_rows \in [Who!Ids -> Row] /\ s_now \in Who!Times /\ s_beat \in Who!Times
      /\ s_session_id \in [NoticeSockets -> Who!Ids \cup {Who!NoId}]
  BY DEF RowsHold, Who!TypeOK, Row
<1>u. /\ UNCHANGED <<s_store, s_opened, s_now, s_running, s_user, s_connection_of,
           s_session_id, s_left, s_forgotten>>
      /\ \/ s_beat' = s_beat /\ s_late' = s_late /\ s_rows' = s_rows
         \/ s_beat' = s_now /\ s_late' = timed_out /\ s_rows' = Who!Touched(alive)
  BY DEF Who!tick, Who!Written
<1>1. CASE s_beat' = s_beat /\ s_late' = s_late /\ s_rows' = s_rows
  BY <1>1, <1>u DEF RowsHold, Who!TypeOK, Accounted, Timed, Who!StaysAreAsLongAsTheyWere,
     Who!HeldIsFound, Who!Rows
<1>2. CASE s_beat' = s_now /\ s_late' = timed_out /\ s_rows' = Who!Touched(alive)
  <2>1. \A i \in Who!Ids : s_rows'[i] = IF i \in alive /\ Who!IsOpen(i, s_rows)
                                  THEN [s_rows[i] EXCEPT !.last_seen_at = s_now] ELSE s_rows[i]
    BY <1>2 DEF Who!Touched
  <2>r. \A i \in Who!Ids : s_rows[i] # Who!NoRow => s_rows[i] \in Who!SessionRecord
    BY <1>t, RowIsEither
  <2>2. \A i \in Who!Ids : Who!IsOpen(i, s_rows) =>
          [s_rows[i] EXCEPT !.last_seen_at = s_now] \in Who!SessionRecord
    BY <1>t, <2>r DEF Who!SessionRecord, Who!IsOpen
  <2>3. s_rows' \in [Who!Ids -> Row]
    BY <1>2, <1>t, <2>2 DEF Who!Touched, Row
  <2>4. \A i \in Who!Ids :
          /\ s_rows'[i] # Who!NoRow <=> s_rows[i] # Who!NoRow
          /\ s_rows[i] # Who!NoRow =>
               /\ s_rows'[i].user_id = s_rows[i].user_id
               /\ s_rows'[i].connected_at = s_rows[i].connected_at
               /\ s_rows'[i].ended_at = s_rows[i].ended_at
               /\ s_rows'[i].last_seen_at \in {s_rows[i].last_seen_at, s_now}
          /\ s_rows'[i] # s_rows[i] => i \in alive /\ Who!IsOpen(i, s_rows)
    <3>. SUFFICES ASSUME NEW i \in Who!Ids PROVE
          /\ s_rows'[i] # Who!NoRow <=> s_rows[i] # Who!NoRow
          /\ s_rows[i] # Who!NoRow =>
               /\ s_rows'[i].user_id = s_rows[i].user_id
               /\ s_rows'[i].connected_at = s_rows[i].connected_at
               /\ s_rows'[i].ended_at = s_rows[i].ended_at
               /\ s_rows'[i].last_seen_at \in {s_rows[i].last_seen_at, s_now}
          /\ s_rows'[i] # s_rows[i] => i \in alive /\ Who!IsOpen(i, s_rows)
      OBVIOUS
    <3>1. CASE i \in alive /\ Who!IsOpen(i, s_rows)
      <4>1. s_rows[i] \in Who!SessionRecord /\
              [s_rows[i] EXCEPT !.last_seen_at = s_now] \in Who!SessionRecord
        BY <3>1, <2>2, <2>r DEF Who!IsOpen
      <4>2. [s_rows[i] EXCEPT !.last_seen_at = s_now] # Who!NoRow
        BY <4>1, RowIsEither DEF Row
      <4>. QED BY <3>1, <4>1, <4>2, <2>1 DEF Who!SessionRecord, Who!IsOpen
    <3>2. CASE ~(i \in alive /\ Who!IsOpen(i, s_rows))
      BY <3>2, <2>1
    <3>. QED BY <3>1, <3>2
  <2>5. \A i \in Who!Ids : Who!IsOpen(i, s_rows') <=> Who!IsOpen(i, s_rows)
    BY <2>4 DEF Who!IsOpen
  <2>6. Who!TypeOK'
    BY <1>u, <1>2, <2>3, <1>t DEF RowsHold, Who!TypeOK, Row
  <2>n. Who!NoId \notin Who!Ids /\ s_now \in Nat /\ s_beat \in Nat
    BY <1>t DEF Who!NoId, Who!Ids, Who!Times
  <2>7. Accounted'
    BY <1>u, <2>4, <2>5, <2>n, <1>t DEF RowsHold, Accounted, Who!TypeOK
  <2>8. Timed'
    <3>1. s_now <= s_now /\ \A i \in Who!Ids : s_left[i] <= s_now
      BY <1>t DEF RowsHold, Timed, Who!Times
    <3>2. \A i \in Who!Ids : s_rows'[i] # Who!NoRow => s_rows'[i].last_seen_at <= s_now
      BY <2>4, <2>n DEF RowsHold, Timed
    <3>3. \A s \in NoticeSockets \ timed_out : s_session_id[s] # Who!NoId =>
            s_rows'[s_session_id[s]].last_seen_at >= s_now
      <4>. SUFFICES ASSUME NEW s \in NoticeSockets \ timed_out, s_session_id[s] # Who!NoId
                    PROVE  s_rows'[s_session_id[s]].last_seen_at >= s_now
        OBVIOUS
      <4>1. s_session_id[s] \in Who!Ids /\ s_session_id[s] \in alive /\
              Who!IsOpen(s_session_id[s], s_rows)
        BY <1>t DEF RowsHold, Accounted
      <4>2. s_rows[s_session_id[s]] \in Who!SessionRecord
        BY <4>1, <2>r DEF Who!IsOpen
      <4>3. s_rows'[s_session_id[s]] = [s_rows[s_session_id[s]] EXCEPT !.last_seen_at = s_now]
        BY <4>1, <2>1
      <4>4. s_rows'[s_session_id[s]].last_seen_at = s_now
        BY <4>2, <4>3 DEF Who!SessionRecord
      <4>. QED BY <4>4, <2>n
    <3>. QED BY <1>u, <1>2, <3>1, <3>2, <3>3 DEF Timed
  <2>9. Who!StaysAreAsLongAsTheyWere'
    <3>. SUFFICES ASSUME NEW j \in Who!Ids, s_rows'[j] # Who!NoRow
                  PROVE /\ s_rows'[j].connected_at <= s_rows'[j].last_seen_at
                        /\ s_left'[j] # 0 => s_rows'[j].last_seen_at <= s_left'[j]
                        /\ ~Who!IsOpen(j, s_rows') =>
                             s_left'[j] # 0 /\
                               s_rows'[j].ended_at \in s_rows'[j].last_seen_at .. s_left'[j]
      BY DEF Who!StaysAreAsLongAsTheyWere, Who!Rows
    <3>1. CASE s_rows'[j] = s_rows[j]
      BY <3>1, <1>u, <2>5 DEF RowsHold, Who!StaysAreAsLongAsTheyWere, Who!Rows
    <3>2. CASE s_rows'[j] # s_rows[j]
      <4>1. j \in alive /\ Who!IsOpen(j, s_rows) /\ s_left[j] = 0
        BY <3>2, <2>4, <1>t, <2>n DEF RowsHold, Accounted
      <4>2. s_rows[j] \in Who!SessionRecord /\ s_rows[j].connected_at <= s_rows[j].last_seen_at
        BY <4>1, <2>r DEF RowsHold, Who!StaysAreAsLongAsTheyWere, Who!Rows, Who!IsOpen
      <4>3. s_rows[j].last_seen_at <= s_now
        BY <4>1 DEF RowsHold, Timed, Who!IsOpen
      <4>. QED BY <4>1, <4>2, <4>3, <1>u, <2>1, <2>4, <2>5, <2>n DEF Who!SessionRecord,
                  Who!Times
    <3>. QED BY <3>1, <3>2
  <2>10. Who!HeldIsFound'
    BY <1>u, <2>4, <1>t DEF RowsHold, Who!HeldIsFound, Accounted, Who!IsOpen
  <2>. QED BY <2>6, <2>7, <2>8, <2>9, <2>10 DEF RowsHold
<1>. QED BY <1>u, <1>1, <1>2

(* The server is killed: every row that was open stays so, and belongs to  *)
(* nobody.                                                                 *)
LEMMA KillHolds == Who!SessionsAssumption /\ RowsHold /\ Who!Killed => RowsHold'
<1>. SUFFICES ASSUME Who!SessionsAssumption, RowsHold, Who!Killed PROVE RowsHold'
  OBVIOUS
<1>t. /\ s_rows \in [Who!Ids -> Row] /\ s_now \in Who!Times /\
           s_left \in [Who!Ids -> Who!Times \cup {0}]
      /\ s_session_id \in [NoticeSockets -> Who!Ids \cup {Who!NoId}] /\
           s_forgotten \subseteq Who!Ids
      /\ Who!NoId \notin Who!Ids /\ s_now # 0 /\ s_now \in Nat
  BY DEF RowsHold, Who!TypeOK, Row, Who!NoId, Who!Ids, Who!Times
<1>k. /\ s_user' = [s \in NoticeSockets |-> Nobody] /\
           s_connection_of' = [u \in Users |-> NoConnection]
      /\ s_session_id' = [s \in NoticeSockets |-> Who!NoId] /\ s_left' = Who!Departed(Who!Held)
      /\ \/ s_rows' = [i \in Who!Ids |-> Who!NoRow] /\ s_forgotten' = {}
         \/ s_rows' = s_rows /\ s_forgotten' = s_forgotten \cup Who!Held
      /\ ~s_running' /\ s_running' = FALSE /\
           UNCHANGED <<s_store, s_opened, s_now, s_beat, s_late>>
  BY DEF Who!Killed
<1>l. \A i \in Who!Ids : s_left'[i] = IF i \in Who!Held THEN s_now ELSE s_left[i]
  BY <1>k DEF Who!Departed
<1>h. \A i \in Who!Ids : i \in Who!Held <=> \E s \in NoticeSockets : s_session_id[s] = i
  BY DEF Who!Held
<1>h2. \A i \in Who!Held : i \in Who!Ids /\ Who!IsOpen(i, s_rows) /\ s_left[i] = 0 /\
         s_rows[i] # Who!NoRow
  BY <1>t DEF Who!Held, RowsHold, Accounted, Who!IsOpen
<1>r. \A i \in Who!Ids : s_rows'[i] \in {s_rows[i], Who!NoRow}
  BY <1>k, <1>t
<1>1. Who!TypeOK'
  <2>1. s_left' \in [Who!Ids -> Who!Times \cup {0}]
    BY <1>k, <1>t DEF Who!Departed
  <2>2. s_rows' \in [Who!Ids -> Row]
    BY <1>k, <1>t DEF Row
  <2>3. s_forgotten' \subseteq Who!Ids
    BY <1>k, <1>t DEF Who!Held
  <2>. QED BY <2>1, <2>2, <2>3, <1>k DEF RowsHold, Who!TypeOK, Row
<1>2. Accounted'
  <2>a. Accounted
    BY DEF RowsHold
  <2>1. (\A i \in Who!Ids : i > s_opened => s_rows[i] = Who!NoRow /\ s_left[i] = 0)'
    BY <2>a, <1>k, <1>r, <1>l, <1>h2 DEF Accounted
  <2>2. (\A i \in Who!Ids : Who!IsOpen(i, s_rows) =>
          i \in s_forgotten \/ \E s \in NoticeSockets : s_session_id[s] = i)'
    BY <2>a, <1>k, <1>h DEF Accounted, Who!IsOpen
  <2>3. (\A i \in s_forgotten : Who!IsOpen(i, s_rows) /\ s_left[i] # 0)'
    BY <2>a, <1>k, <1>l, <1>h2, <1>t DEF Accounted
  <2>4. \A s \in NoticeSockets : s_session_id'[s] = Who!NoId
    BY <1>k
  <2>. QED BY <2>1, <2>2, <2>3, <2>4 DEF Accounted
<1>3. Timed'
  BY <1>k, <1>r, <1>l, <1>t DEF RowsHold, Timed
<1>4. Who!StaysAreAsLongAsTheyWere'
  <2>. SUFFICES ASSUME NEW j \in Who!Ids, s_rows'[j] # Who!NoRow
                PROVE /\ s_rows'[j].connected_at <= s_rows'[j].last_seen_at
                      /\ s_left'[j] # 0 => s_rows'[j].last_seen_at <= s_left'[j]
                      /\ ~Who!IsOpen(j, s_rows') =>
                           s_left'[j] # 0 /\
                             s_rows'[j].ended_at \in s_rows'[j].last_seen_at .. s_left'[j]
    BY DEF Who!StaysAreAsLongAsTheyWere, Who!Rows
  <2>1. s_rows'[j] = s_rows[j] /\ (Who!IsOpen(j, s_rows') <=> Who!IsOpen(j, s_rows))
    BY <1>r DEF Who!IsOpen
  <2>2. s_rows[j].last_seen_at <= s_now
    BY <2>1 DEF RowsHold, Timed
  <2>. QED BY <2>1, <2>2, <1>l, <1>h2 DEF RowsHold, Who!StaysAreAsLongAsTheyWere, Who!Rows
<1>5. Who!HeldIsFound'
  BY <1>k DEF Who!HeldIsFound
<1>. QED BY <1>1, <1>2, <1>3, <1>4, <1>5 DEF RowsHold

(* The next start closes what the last server left open, with the time it  *)
(* was last heard of.                                                      *)
LEMMA RestartHolds == Who!SessionsAssumption /\ RowsHold /\ Who!Restarted => RowsHold'
<1>. SUFFICES ASSUME Who!SessionsAssumption, RowsHold, Who!Restarted PROVE RowsHold'
  OBVIOUS
<1>t. /\ s_rows \in [Who!Ids -> Row] /\ s_now \in Who!Times /\
           s_left \in [Who!Ids -> Who!Times \cup {0}]
      /\ s_session_id \in [NoticeSockets -> Who!Ids \cup {Who!NoId}] /\
           s_forgotten \subseteq Who!Ids
      /\ Who!NoId \notin Who!Ids /\ s_now # 0 /\ s_now \in Nat
  BY DEF RowsHold, Who!TypeOK, Row, Who!NoId, Who!Ids, Who!Times
<1>k. /\ \/ s_rows' = s_rows /\ s_forgotten' = s_forgotten
         \/ s_rows' = Who!Recovered /\ s_forgotten' = {}
      /\ s_beat' = s_now /\ s_late' = {} /\ s_running'
      /\ UNCHANGED <<s_store, s_opened, s_now, s_user, s_connection_of, s_session_id, s_left>>
  BY DEF Who!Restarted, Who!Written
<1>s. \A s \in NoticeSockets : s_session_id[s] = Who!NoId
  BY DEF Who!Restarted, RowsHold, Accounted
<1>o. \A i \in Who!Ids : Who!IsOpen(i, s_rows) => i \in s_forgotten /\ s_left[i] # 0
  BY <1>s, <1>t DEF RowsHold, Accounted
<1>1. CASE s_rows' = s_rows /\ s_forgotten' = s_forgotten
  BY <1>1, <1>k, <1>s, <1>t DEF RowsHold, Who!TypeOK, Accounted, Timed,
     Who!StaysAreAsLongAsTheyWere, Who!HeldIsFound,
                    Who!Rows, Who!Times
<1>2. CASE s_rows' = Who!Recovered /\ s_forgotten' = {}
  <2>r. \A i \in Who!Ids : s_rows[i] # Who!NoRow => s_rows[i] \in Who!SessionRecord
    BY <1>t, RowIsEither
  <2>1. \A i \in Who!Ids : s_rows'[i] = IF Who!IsOpen(i, s_rows)
                                  THEN [s_rows[i] EXCEPT !.ended_at = s_rows[i].last_seen_at]
                                  ELSE s_rows[i]
    BY <1>2 DEF Who!Recovered
  <2>2. \A i \in Who!Ids : Who!IsOpen(i, s_rows) =>
          [s_rows[i] EXCEPT !.ended_at = s_rows[i].last_seen_at] \in Who!SessionRecord
    BY <2>r DEF Who!SessionRecord, Who!IsOpen
  <2>3. s_rows' \in [Who!Ids -> Row]
    BY <1>2, <1>t, <2>2 DEF Who!Recovered, Row
  <2>4. \A i \in Who!Ids : Who!IsOpen(i, s_rows) =>
          /\ s_rows'[i] # Who!NoRow
          /\ s_rows'[i].user_id = s_rows[i].user_id
          /\ s_rows'[i].connected_at = s_rows[i].connected_at
          /\ s_rows'[i].last_seen_at = s_rows[i].last_seen_at
          /\ s_rows'[i].ended_at = s_rows[i].last_seen_at /\
               s_rows[i].last_seen_at \in Who!Times
    <3>. SUFFICES ASSUME NEW i \in Who!Ids, Who!IsOpen(i, s_rows) PROVE
          /\ s_rows'[i] # Who!NoRow
          /\ s_rows'[i].user_id = s_rows[i].user_id
          /\ s_rows'[i].connected_at = s_rows[i].connected_at
          /\ s_rows'[i].last_seen_at = s_rows[i].last_seen_at
          /\ s_rows'[i].ended_at = s_rows[i].last_seen_at /\
               s_rows[i].last_seen_at \in Who!Times
      OBVIOUS
    <3>1. s_rows[i] \in Who!SessionRecord
      BY <2>r DEF Who!IsOpen
    <3>2. s_rows'[i] # Who!NoRow
      BY <2>1, <2>2, RowIsEither DEF Row
    <3>. QED BY <2>1, <3>1, <3>2 DEF Who!SessionRecord
  <2>z. 0 \notin Who!Times
    BY DEF Who!Times
  <2>n. \A i \in Who!Ids : ~Who!IsOpen(i, s_rows) => s_rows'[i] = s_rows[i]
    BY <2>1
  <2>5. \A i \in Who!Ids : ~Who!IsOpen(i, s_rows')
    <3>. SUFFICES ASSUME NEW i \in Who!Ids, Who!IsOpen(i, s_rows') PROVE FALSE
      OBVIOUS
    <3>1. Who!IsOpen(i, s_rows)
      BY <2>n DEF Who!IsOpen
    <3>2. s_rows'[i].ended_at \in Who!Times
      BY <3>1, <2>4
    <3>. QED BY <3>2, <2>z DEF Who!IsOpen
  <2>6. Who!TypeOK'
    BY <1>2, <1>k, <2>3, <1>t DEF RowsHold, Who!TypeOK, Row
  <2>m. \A i \in Who!Ids : s_rows[i] = Who!NoRow => s_rows'[i] = Who!NoRow
    BY <2>n DEF Who!IsOpen
  <2>7. Accounted'
    BY <1>2, <1>k, <1>s, <2>5, <2>m DEF RowsHold, Accounted
  <2>8. Timed'
    <3>1. \A i \in Who!Ids : s_rows'[i] # Who!NoRow =>
            s_rows[i] # Who!NoRow /\ s_rows'[i].last_seen_at = s_rows[i].last_seen_at
      BY <2>4, <2>n, <2>m DEF Who!IsOpen
    <3>. QED BY <3>1, <1>k, <1>s, <1>t DEF RowsHold, Timed
  <2>9. Who!StaysAreAsLongAsTheyWere'
    <3>. SUFFICES ASSUME NEW j \in Who!Ids, s_rows'[j] # Who!NoRow
                  PROVE /\ s_rows'[j].connected_at <= s_rows'[j].last_seen_at
                        /\ s_left'[j] # 0 => s_rows'[j].last_seen_at <= s_left'[j]
                        /\ s_left'[j] # 0 /\
                             s_rows'[j].ended_at \in s_rows'[j].last_seen_at .. s_left'[j]
      BY DEF Who!StaysAreAsLongAsTheyWere, Who!Rows
    <3>1. s_rows[j] # Who!NoRow
      BY <2>m
    <3>2. /\ s_rows[j].connected_at <= s_rows[j].last_seen_at
          /\ s_left[j] # 0 => s_rows[j].last_seen_at <= s_left[j]
          /\ ~Who!IsOpen(j, s_rows) =>
               s_left[j] # 0 /\ s_rows[j].ended_at \in s_rows[j].last_seen_at .. s_left[j]
      BY <3>1 DEF RowsHold, Who!StaysAreAsLongAsTheyWere, Who!Rows
    <3>3. CASE Who!IsOpen(j, s_rows)
      BY <3>3, <3>2, <2>4, <1>o, <1>k, <1>t DEF Who!Times
    <3>4. CASE ~Who!IsOpen(j, s_rows)
      BY <3>4, <3>2, <2>n, <1>k
    <3>. QED BY <3>3, <3>4
  <2>10. Who!HeldIsFound'
    BY <1>s, <1>k DEF Who!HeldIsFound
  <2>. QED BY <2>6, <2>7, <2>8, <2>9, <2>10 DEF RowsHold
<1>. QED BY <1>1, <1>2, <1>k

(* Time passes between two beats.                                          *)
LEMMA TimePasses == Who!SessionsAssumption /\ RowsHold /\ Who!ClockAdvances => RowsHold'
<1>. SUFFICES ASSUME Who!SessionsAssumption, RowsHold, Who!ClockAdvances PROVE RowsHold'
  OBVIOUS
<1>1. Who!TypeOK'
  BY DEF RowsHold, Who!TypeOK, Who!ClockAdvances, Who!Times, Who!SessionsAssumption
<1>2. Accounted' /\ Who!StaysAreAsLongAsTheyWere' /\ Who!HeldIsFound'
  BY DEF RowsHold, Who!ClockAdvances, Accounted, Who!StaysAreAsLongAsTheyWere,
     Who!HeldIsFound, Who!Rows
<1>3. Timed'
  <2>1. \A i \in Who!Ids : s_rows[i] # Who!NoRow => s_rows[i].last_seen_at \in Who!Times
    <3>1. \A i \in Who!Ids : s_rows[i] # Who!NoRow => s_rows[i] \in Who!SessionRecord
      BY RowIsEither DEF RowsHold, Who!TypeOK, Row
    <3>. QED BY <3>1 DEF Who!SessionRecord
  <2>. QED BY <2>1 DEF RowsHold, Who!ClockAdvances, Timed, Who!TypeOK, Who!Times
<1>. QED BY <1>1, <1>2, <1>3 DEF RowsHold

LEMMA RowsHoldOn == Who!SessionsAssumption /\ RowsHold /\ [Who!Next]_(Who!vars) => RowsHold'
<1>. SUFFICES ASSUME Who!SessionsAssumption, RowsHold, [Who!Next]_(Who!vars) PROVE RowsHold'
  OBVIOUS
<1>1. CASE UNCHANGED Who!vars
  BY <1>1 DEF Who!vars, RowsHold, Who!TypeOK, Accounted, Timed,
     Who!StaysAreAsLongAsTheyWere, Who!HeldIsFound, Who!Rows
<1>2. CASE Who!Next
  BY <1>2, SigningInHolds, EndingHolds, LeavingHolds, BeatHolds, KillHolds, RestartHolds,
     TimePasses DEF Who!Next
<1>. QED BY <1>1, <1>2

(* What is promised of the rows follows from the invariant.                *)
LEMMA PresenceFollows == RowsHold => Who!PresenceIsTrue
<1>. SUFFICES ASSUME RowsHold PROVE Who!OpenIsHere
  BY DEF RowsHold, Who!PresenceIsTrue
<1>1. Who!Held \ {Who!NoId} = Who!Open \ s_forgotten
  BY DEF RowsHold, Who!TypeOK, Accounted, Who!Held, Who!Open, Who!NoId, Who!Ids
<1>. QED BY <1>1 DEF RowsHold, Accounted, Who!OpenIsHere

(* Hub::open_session, close_session and the heartbeat's touch, for any     *)
(* people and sockets: a stay that is written down began and ended when it *)
(* did, whatever writes fail and wherever the server is killed; a row is   *)
(* open exactly while somebody is connected or the store failed to close   *)
(* it.                                                                     *)
THEOREM PresenceIsKept == Who!SessionsAssumption => (Who!Spec => []Who!PresenceIsTrue)
<1>. SUFFICES ASSUME Who!SessionsAssumption PROVE Who!Spec => []Who!PresenceIsTrue
  OBVIOUS
<1>1. Who!Init => RowsHold
  BY RowsHoldAtFirst
<1>2. RowsHold /\ [Who!Next]_(Who!vars) => RowsHold'
  BY RowsHoldOn
<1>3. RowsHold => Who!PresenceIsTrue
  BY PresenceFollows
<1>. QED BY <1>1, <1>2, <1>3, PTL DEF Who!Spec

(* An open row is not evicted and sorts before the closed ones.            *)
LEMMA HereFollows == Who!SessionsAssumption /\ RowsHold => Who!HereIsOnThePage
<1>. SUFFICES ASSUME Who!SessionsAssumption, RowsHold, NEW limit \in Requested,
       NEW page \in Who!list(limit),
                     NEW s \in NoticeSockets \ s_late, s_session_id[s] # Who!NoId,
                     Cardinality(Who!Recent) <= Who!clamp_session_limit(limit),
                     s_session_id[s] \notin page
              PROVE  FALSE
  BY CardinalityIs DEF Who!HereIsOnThePage
<1>. DEFINE i == s_session_id[s]
            most == Who!clamp_session_limit(limit)
<1>t. /\ s_rows \in [Who!Ids -> Row] /\ s_beat \in Nat /\
           s_left \in [Who!Ids -> Who!Times \cup {0}]
      /\ s_session_id \in [NoticeSockets -> Who!Ids \cup {Who!NoId}]
  BY DEF RowsHold, Who!TypeOK, Row, Who!Times
<1>r. \A j \in Who!Rows :
          /\ j \in Who!Ids /\ s_rows[j] \in Who!SessionRecord
          /\ s_rows[j].last_seen_at \in Nat /\ s_rows[j].ended_at \in Nat
          /\ s_left[j] \in Nat
  BY <1>t, RowIsEither DEF Who!Rows, Who!SessionRecord, Who!Times
<1>1. /\ i \in Who!Ids /\ Who!IsOpen(i, s_rows) /\ s_left[i] = 0 /\
           s_rows[i].last_seen_at >= s_beat
      /\ i \in Who!Rows /\ s_rows[i].ended_at = 0 /\ i \in Who!Recent
  BY <1>t DEF RowsHold, Accounted, Timed, Who!IsOpen, Who!Rows, Who!Recent, Who!Open
<1>2. page \subseteq Who!Rows /\ Cardinality(page) = most /\ \A j \in page : ~Who!Precedes(i, j)
  BY <1>1, CardinalityIs DEF Who!list
<1>3. ASSUME NEW j \in page PROVE j \in Who!Recent
  <2>1. j \in Who!Rows /\ ~Who!Precedes(i, j)
    BY <1>2
  <2>2. Who!IsOpen(j, s_rows) /\ s_rows[j].last_seen_at >= s_rows[i].last_seen_at
    <3>1. CASE ~Who!PrecedesInMongo(i, j)
      BY <3>1, <2>1, <1>1, <1>r DEF Who!PrecedesInMongo, Who!IsOpen, Who!Rows
    <3>2. CASE ~Who!PrecedesInMemory(i, j)
      BY <3>2, <2>1, <1>1, <1>r DEF Who!PrecedesInMemory
    <3>. QED BY <3>1, <3>2, <2>1 DEF Who!Precedes
  <2>3. s_left[j] # 0 => s_rows[j].last_seen_at <= s_left[j]
    BY <2>1 DEF RowsHold, Who!StaysAreAsLongAsTheyWere
  <2>. QED BY <2>1, <2>2, <2>3, <1>1, <1>r, <1>t DEF Who!Recent, Who!Open
<1>4. IsFiniteSet(Who!Ids)
  BY FS_Interval DEF Who!Ids, Who!SessionsAssumption
<1>5. IsFiniteSet(Who!Recent) /\ IsFiniteSet(Who!Recent \ {i}) /\ IsFiniteSet(page)
  BY <1>4, <1>r, <1>2, FS_Subset DEF Who!Recent, Who!Open, Who!Rows
<1>6. Cardinality(Who!Recent \ {i}) = Cardinality(Who!Recent) - 1
  BY <1>1, <1>5, FS_RemoveElement
<1>7. Cardinality(page) <= Cardinality(Who!Recent \ {i})
  BY <1>3, <1>5, FS_Subset
<1>8. Cardinality(page) \in Nat /\ Cardinality(Who!Recent) \in Nat
  BY <1>5, FS_CardinalityType
<1>. HIDE DEF most
<1>. QED BY <1>2, <1>6, <1>7, <1>8 DEF most

(* SessionStore::list: whoever is connected is on the first page, as long  *)
(* as no more are than it holds.                                           *)
THEOREM HereIsKeptOnThePage == Who!SessionsAssumption => (Who!Spec => []Who!HereIsOnThePage)
<1>. SUFFICES ASSUME Who!SessionsAssumption PROVE Who!Spec => []Who!HereIsOnThePage
  OBVIOUS
<1>1. Who!Init => RowsHold
  BY RowsHoldAtFirst
<1>2. RowsHold /\ [Who!Next]_(Who!vars) => RowsHold'
  BY RowsHoldOn
<1>3. RowsHold => Who!HereIsOnThePage
  BY HereFollows
<1>. QED BY <1>1, <1>2, <1>3, PTL DEF Who!Spec

-----------------------------------------------------------------------------
(* The variables of every part.                                            *)
PartsVars == <<part, session_vars, l_vars, n_vars, s_vars, vars>>

(* A part's behaviour is one of Sessions: what the run says of the rows    *)
(* holds for any number of people, sockets, rows and failures.             *)
THEOREM PresenceIsTold == PartsSpec => []PresenceIsTrue
<1>1. PartsInit => Who!Init
  BY DEF PartsInit
<1>2. [PartsNext]_PartsVars => [Who!Next]_(Who!vars)
  BY DEF PartsNext, s_vars, Who!vars, PartsVars
<1>3. Who!SessionsAssumption
  BY PartsAssumption DEF PartsAssumption
<1>4. Who!Spec => []Who!PresenceIsTrue
  BY <1>3, PresenceIsKept
<1>5. Who!Spec => []Who!HereIsOnThePage
  BY <1>3, HereIsKeptOnThePage
<1>6. Who!PresenceIsTrue /\ Who!HereIsOnThePage => PresenceIsTrue
  BY DEF PresenceIsTrue
<1>. QED BY <1>1, <1>2, <1>4, <1>5, <1>6, PTL DEF PartsSpec, PartsVars, Who!Spec

(* SignalingClient, as the run has it, for any number of drops, retries    *)
(* and addresses.                                                          *)
THEOREM TheLinkAgrees == PartsSpec => []LinkAgrees
<1>1. PartsInit => Link!Init
  BY DEF PartsInit
<1>2. [PartsNext]_PartsVars => [Link!Next]_(Link!vars)
  BY DEF PartsNext, l_vars, Link!vars, Link!link, Link!probes, PartsVars
<1>3. Link!SignalingClientAssumption
  BY PartsAssumption DEF PartsAssumption
<1>4. Link!Spec => []Link!StateTellsTheTruth
  BY <1>3, Link!TheStateIsTrue
<1>5. Link!Spec => []Link!LinkIsOfThisSignIn
  BY <1>3, Link!TheLinkIsOfItsSignIn
<1>6. Link!StateTellsTheTruth /\ Link!LinkIsOfThisSignIn => LinkAgrees
  BY DEF LinkAgrees
<1>. QED BY <1>1, <1>2, <1>4, <1>5, <1>6, PTL DEF PartsSpec, PartsVars, Link!Spec
=============================================================================
