------------------------- MODULE SignalingServerProofs -------------------------
(***************************************************************************)
(* What SignalingServer.tla guarantees for any number of connections and   *)
(* of events: no thread waits, however far around, for itself, but where   *)
(* stop() waits under the mutex for the thread that accepts.               *)
(*                                                                         *)
(* The invariant, IInv, is about what a thread has still to do.  The       *)
(* router's lock comes before everything done under it, once, and is given *)
(* back before the next person is put out of the room (Ordered); whatever  *)
(* is held is given back in the end, before anybody is hung up on          *)
(* (GivesBack); the lock of a peer connection is held by its own callback, *)
(* which asks for nothing, and by the thread that stops the server only    *)
(* the mutex, while it waits for the thread that accepts, which holds none *)
(* (Owned); and a socket says first that it has opened and last that it    *)
(* has closed (Hears).  From these, whoever else holds a lock never waits  *)
(* for the server's, whoever holds the router's never waits for that, and  *)
(* whoever holds a connection's waits for nothing: so there is an order to *)
(* the locks, and no circle but that of the two.                           *)
(***************************************************************************)
EXTENDS SignalingServer, FiniteSetTheorems, TLAPS

(* The steps there are.                                                    *)
Kinds == {"take", "give", "call", "answered", "close", "put_out", "hang_up", "accept",
          "tick", "join", "await", "reset", "done"}
Steps ==
  [step : Kinds, of : Connections \cup {"router", "all", "heartbeat", "listener", "server"}]

(* Those of one thread alone.                                              *)
OfMain == {"join", "await", "reset"}
OfOne == OfMain \cup {"accept", "tick"}

(* What a socket may say.                                                  *)
Callbacks == {"opened", "join_room", "leave_room", "answer", "closed"}

(* Every variable has its shape.                                           *)
Shape ==
  /\ running \in BOOLEAN /\ socket \in [Connections -> {"none", "open", "closed"}]
  /\ heard \in [Connections -> Seq(Callbacks)]
  /\ sockets \subseteq Connections /\ connections \subseteq Connections
  /\ inside \subseteq Connections /\ media \subseteq Connections
  /\ tasks \in Seq([step : {"offer", "look_again"}, of : Connections])
  /\ owner \in [Locks -> Threads \cup {Free}]
  /\ doing \in [Threads -> Seq(Steps)]
  /\ events \in 0 .. MaxEvents

(* Whose name is on a step.                                                *)
About(s) ==
  \A i \in DOMAIN s :
    s[i].step \in {"call", "answered", "close", "put_out", "hang_up", "accept"} =>
      s[i].of \in Connections

(* The router's lock is taken first of what follows, and before the next   *)
(* person is put out it is given back.                                     *)
Ordered(s, has) ==
  /\ \A i \in DOMAIN s : s[i].step = "take" => i = 1 /\ ~has
  /\ \A j \in DOMAIN s : s[j].step = "put_out" /\ (has \/ s[1].step = "take") =>
       \E i \in 1 .. j - 1 : s[i].step = "give"

(* What is held is given back, before anybody is hung up on.               *)
GivesBack(s, holds) ==
  /\ \A i, j \in DOMAIN s : s[i].step = "done" =>
       /\ s[j].step = "hang_up" => i < j
       /\ s[j].step \in {"take", "put_out"} => j < i
       /\ s[j].step # "tick"
  /\ holds \/ (\E i \in DOMAIN s : s[i].step \in {"take", "put_out"}) =>
       \E i \in DOMAIN s : s[i].step = "done"

(* A thread holds something that its list says it gives back.              *)
Holds(t) == t # Main /\ \E l \in Locks : owner[l] = t

(* What one thread has still to do is in order.                            *)
Sane(t) ==
  /\ About(doing[t]) /\ Ordered(doing[t], owner["router"] = t)
  /\ GivesBack(doing[t], Holds(t))

(* Which thread does what.                                                 *)
Whose(t, what) ==
  /\ what \in OfMain => t = Main
  /\ what = "accept" => t = Listener
  /\ what = "tick" => t = Heartbeat
  /\ t = Main => what \in OfMain \cup {"hang_up"}

(* The locks of the peer connections are held by their callbacks, which do *)
(* nothing but give them back; the thread that accepts holds none, and the *)
(* one that stops the server holds its mutex while it waits for that.      *)
Owned ==
  /\ \A c \in Connections :
       IF owner[c] = Free THEN doing[MediaOf(c)] = <<>>
       ELSE owner[c] = MediaOf(c) /\ doing[MediaOf(c)] = <<Done>>
  /\ \A l \in {"server", "router"} : \A c \in Connections : owner[l] # MediaOf(c)
  /\ \A l \in Locks : owner[l] # Listener
  /\ \A l \in Locks : owner[l] = Main => l = "server" /\ AtStep(Main, "await")
  /\ \A t \in Threads : \A i \in DOMAIN doing[t] : Whose(t, doing[t][i].step)
  /\ doing[Main] # <<>> => ~running

(* A connection in hand has not been heard of before.                      *)
InHand ==
  \/ doing[Listener] = <<>>
  \/ \E c \in Connections : doing[Listener] = <<Accept(c)>> /\ socket[c] = "none"

(* The sockets that will be closed by who stops the server.                *)
Pending == {c \in Connections : \E i \in DOMAIN doing[Main] : doing[Main][i] = HangUp(c)}

(* A socket says first that it has opened, and at last that it has closed. *)
Hears(c) ==
  /\ \A i \in DOMAIN heard[c] :
       /\ heard[c][i] = "opened" => i = 1
       /\ heard[c][i] = "closed" => i = Len(heard[c]) /\ socket[c] = "closed"
  /\ heard[c] # <<>> => Head(heard[c]) = "opened" \/ c \in connections
  /\ socket[c] = "open" => c \in connections \/ (heard[c] # <<>> /\ Head(heard[c]) = "opened")
  /\ c \in connections \/ (heard[c] # <<>> /\ Head(heard[c]) = "opened") =>
       c \in sockets \cup Pending \/ socket[c] = "closed"
  /\ socket[c] = "none" =>
       heard[c] = <<>> /\ c \notin connections /\ c \notin sockets \cup Pending
  /\ c \in connections => heard[c] = <<>> \/ Head(heard[c]) # "opened"

(* The invariant.                                                          *)
IInv ==
  /\ Shape /\ inside \subseteq connections /\ Owned /\ InHand
  /\ \A t \in Threads : Sane(t)
  /\ \A c \in Connections : Hears(c)

(* No thread is another.                                                   *)
LEMMA Apart ==
  /\ \A c \in Connections : SocketOf(c) \in Threads /\ MediaOf(c) \in Threads
  /\ {Listener, Heartbeat, Worker, Main} \subseteq Threads
  /\ Free \notin Threads
  /\ \A c, d \in Connections : SocketOf(c) # MediaOf(d) /\ (MediaOf(c) = MediaOf(d) => c = d)
  /\ \A c \in Connections :
       /\ MediaOf(c) \notin {Listener, Heartbeat, Worker, Main}
       /\ SocketOf(c) \notin {Listener, Main}
  /\ Heartbeat # Main /\ Worker # Main
  /\ Listener # Main /\ Listener # Heartbeat /\ Listener # Worker
BY DEF Threads, SocketOf, MediaOf, Listener, Heartbeat, Worker, Main, Free

(* No connection is one of the two mutexes.                                *)
LEMMA LocksApart ==
  ASSUME SignalingServerAssumption
  PROVE  /\ "server" \in Locks /\ "router" \in Locks /\ Connections \subseteq Locks
         /\ \A c \in Connections : c # "server" /\ c # "router"
BY DEF Locks, SignalingServerAssumption

(* People in the order somebody goes through them.                         *)
LEMMA Queued ==
  ASSUME SignalingServerAssumption, NEW people \in SUBSET Connections
  PROVE  /\ SetToSeq(people) \in Seq(people)
         /\ \A c \in people : \E i \in DOMAIN SetToSeq(people) : SetToSeq(people)[i] = c
<1>1. IsFiniteSet(people)
  BY FS_Subset DEF SignalingServerAssumption
<1>2. Cardinality(people) \in Nat /\ ExistsBijection(1 .. Cardinality(people), people)
  BY <1>1, FS_CardinalityType
<1>3. PICK f : f \in Bijection(1 .. Cardinality(people), people)
  BY <1>2 DEF ExistsBijection
<1>4. f \in [1 .. Cardinality(people) -> people] /\ IsInjective(f)
  BY <1>3 DEF Bijection, Injection, IsInjective
<1>5. /\ SetToSeq(people) \in [1 .. Cardinality(people) -> people]
      /\ IsInjective(SetToSeq(people))
  BY <1>4 DEF SetToSeq
<1>. DEFINE q == SetToSeq(people)  n == Cardinality(people)
<1>6. q \in Injection(1 .. n, people)
  BY <1>5 DEF Injection, IsInjective
<1>7. Cardinality(1 .. n) = n
  BY <1>2, FS_Interval
<1>8. q \in Surjection(1 .. n, people)
  BY <1>1, <1>6, <1>7, FS_Injection
<1>9. \A c \in people : \E i \in 1 .. n : q[i] = c
  BY <1>8 DEF Surjection
<1>. QED BY <1>2, <1>5, <1>9

(* Calls into peer connections, one after the other.                       *)
LEMMA CallsAre ==
  ASSUME SignalingServerAssumption, NEW people \in SUBSET Connections
  PROVE  /\ ForEach(people, Call) \in Seq(Steps)
         /\ \A i \in DOMAIN ForEach(people, Call) :
              /\ ForEach(people, Call)[i].step = "call"
              /\ ForEach(people, Call)[i].of \in Connections
<1>1. ForEach(people, Call) = [i \in DOMAIN SetToSeq(people) |-> Call(SetToSeq(people)[i])]
  BY DEF ForEach
<1>. DEFINE q == SetToSeq(people)
<1>2. q \in Seq(people)
  BY Queued
<1>. HIDE DEF q
<1>3. \A i \in DOMAIN q : q[i] \in Connections
  BY <1>2
<1>4. \A i \in DOMAIN q : Call(q[i]) \in Steps /\ Call(q[i]).step = "call" /\
        Call(q[i]).of = q[i]
  BY <1>3 DEF Call, Step, Steps, Kinds
<1>5. Len(q) \in Nat /\ DOMAIN q = 1 .. Len(q)
  BY <1>2
<1>6. [i \in DOMAIN q |-> Call(q[i])] \in Seq(Steps)
  BY <1>4, <1>5
<1>. QED BY <1>1, <1>3, <1>4, <1>6 DEF q

(* Connections to be closed, one after the other.                          *)
LEMMA HangUpsAre ==
  ASSUME SignalingServerAssumption, NEW people \in SUBSET Connections
  PROVE  /\ ForEach(people, HangUp) \in Seq(Steps)
         /\ \A i \in DOMAIN ForEach(people, HangUp) :
              /\ ForEach(people, HangUp)[i].step = "hang_up"
              /\ ForEach(people, HangUp)[i].of \in Connections
         /\ \A c \in people : \E i \in DOMAIN ForEach(people, HangUp) :
              ForEach(people, HangUp)[i] = HangUp(c)
         /\ \A c \in Connections : \A i \in DOMAIN ForEach(people, HangUp) :
              ForEach(people, HangUp)[i] = HangUp(c) => c \in people
<1>1. ForEach(people, HangUp) = [i \in DOMAIN SetToSeq(people) |-> HangUp(SetToSeq(people)[i])]
  BY DEF ForEach
<1>. DEFINE q == SetToSeq(people)
<1>2. q \in Seq(people)
  BY Queued
<1>. HIDE DEF q
<1>3. \A i \in DOMAIN q : q[i] \in Connections
  BY <1>2
<1>4. \A i \in DOMAIN q :
        HangUp(q[i]) \in Steps /\ HangUp(q[i]).step = "hang_up" /\ HangUp(q[i]).of = q[i]
  BY <1>3 DEF HangUp, Step, Steps, Kinds
<1>5. Len(q) \in Nat /\ DOMAIN q = 1 .. Len(q)
  BY <1>2
<1>6. [i \in DOMAIN q |-> HangUp(q[i])] \in Seq(Steps)
  BY <1>4, <1>5
<1>7. \A c \in people : \E i \in DOMAIN q : q[i] = c
  BY Queued DEF q
<1>8. \A c \in people : \E i \in DOMAIN q : [k \in DOMAIN q |-> HangUp(q[k])][i] = HangUp(c)
  BY <1>7
<1>9. \A c \in Connections : \A i \in DOMAIN q : HangUp(q[i]) = HangUp(c) => c \in people
  BY <1>2 DEF HangUp, Step
<1>. QED BY <1>1, <1>3, <1>4, <1>6, <1>8, <1>9 DEF q

(* People to be put out, one after the other.                              *)
LEMMA PutOutsAre ==
  ASSUME SignalingServerAssumption, NEW people \in SUBSET Connections
  PROVE  /\ ForEach(people, PutOut) \in Seq(Steps)
         /\ \A i \in DOMAIN ForEach(people, PutOut) :
              /\ ForEach(people, PutOut)[i].step = "put_out"
              /\ ForEach(people, PutOut)[i].of \in Connections
<1>1. ForEach(people, PutOut) = [i \in DOMAIN SetToSeq(people) |-> PutOut(SetToSeq(people)[i])]
  BY DEF ForEach
<1>. DEFINE q == SetToSeq(people)
<1>2. q \in Seq(people)
  BY Queued
<1>. HIDE DEF q
<1>3. \A i \in DOMAIN q : q[i] \in Connections
  BY <1>2
<1>4. \A i \in DOMAIN q :
        PutOut(q[i]) \in Steps /\ PutOut(q[i]).step = "put_out" /\ PutOut(q[i]).of = q[i]
  BY <1>3 DEF PutOut, Step, Steps, Kinds
<1>5. Len(q) \in Nat /\ DOMAIN q = 1 .. Len(q)
  BY <1>2
<1>6. [i \in DOMAIN q |-> PutOut(q[i])] \in Seq(Steps)
  BY <1>4, <1>5
<1>. QED BY <1>1, <1>3, <1>4, <1>6 DEF q

(* What is left of a list.                                                 *)
LEMMA TailsAre ==
  ASSUME NEW S, NEW s \in Seq(S), s # <<>>
  PROVE  /\ Tail(s) \in Seq(S) /\ Len(Tail(s)) = Len(s) - 1 /\ Len(s) >= 1
         /\ Head(s) = s[1] /\ Head(s) \in S
         /\ \A i \in 1 .. Len(s) - 1 : Tail(s)[i] = s[i + 1]
         /\ <<>> \o Tail(s) = Tail(s)
OBVIOUS

(* What is left of a list in order is in order.                            *)
LEMMA OrderedTail ==
  ASSUME NEW s \in Seq(Steps), s # <<>>, NEW has, NEW has2, Ordered(s, has),
         has2 => s[1].step # "give" /\ (has \/ s[1].step = "take")
  PROVE  Ordered(Tail(s), has2)
<1>1. /\ Tail(s) \in Seq(Steps) /\ Len(Tail(s)) = Len(s) - 1 /\ Len(s) >= 1 /\ Len(s) \in Nat
      /\ \A i \in 1 .. Len(s) - 1 : Tail(s)[i] = s[i + 1]
  BY TailsAre
<1>2. ASSUME NEW i \in DOMAIN Tail(s) PROVE Tail(s)[i].step # "take"
  <2>1. i \in 1 .. Len(s) - 1 /\ i + 1 \in DOMAIN s /\ i + 1 # 1
    BY <1>1
  <2>. QED BY <1>1, <2>1 DEF Ordered
<1>3. ASSUME NEW j \in DOMAIN Tail(s), Tail(s)[j].step = "put_out",
             has2 \/ Tail(s)[1].step = "take"
      PROVE  \E i \in 1 .. j - 1 : Tail(s)[i].step = "give"
  <2>1. j \in 1 .. Len(s) - 1 /\ j + 1 \in DOMAIN s /\ s[j + 1].step = "put_out"
    BY <1>1, <1>3
  <2>2. 1 \in DOMAIN Tail(s)
    BY <1>1, <2>1
  <2>3. has2
    BY <1>2, <1>3, <2>2
  <2>4. PICK i \in 1 .. (j + 1) - 1 : s[i].step = "give"
    BY <2>1, <2>3 DEF Ordered
  <2>5. i # 1
    BY <2>3, <2>4
  <2>6. i - 1 \in 1 .. j - 1 /\ Tail(s)[i - 1] = s[i]
    BY <1>1, <2>1, <2>4, <2>5
  <2>. QED BY <2>4, <2>6
<1>. QED BY <1>2, <1>3 DEF Ordered

(* What is left of a list that gives back what it holds does so too.       *)
LEMMA GivesBackTail ==
  ASSUME NEW s \in Seq(Steps), s # <<>>, NEW holds, NEW holds2, GivesBack(s, holds),
         holds2 => s[1].step # "done" /\ (holds \/ s[1].step = "take")
  PROVE  GivesBack(Tail(s), holds2)
<1>1. /\ Tail(s) \in Seq(Steps) /\ Len(Tail(s)) = Len(s) - 1 /\ Len(s) >= 1 /\ Len(s) \in Nat
      /\ \A i \in 1 .. Len(s) - 1 : Tail(s)[i] = s[i + 1]
      /\ DOMAIN s = 1 .. Len(s) /\ DOMAIN Tail(s) = 1 .. Len(s) - 1
  BY TailsAre
<1>2. ASSUME NEW i \in DOMAIN Tail(s), NEW j \in DOMAIN Tail(s), Tail(s)[i].step = "done"
      PROVE  /\ Tail(s)[j].step = "hang_up" => i < j
             /\ Tail(s)[j].step \in {"take", "put_out"} => j < i
             /\ Tail(s)[j].step # "tick"
  <2>1. i + 1 \in DOMAIN s /\ j + 1 \in DOMAIN s /\ i \in Nat /\ j \in Nat
    BY <1>1
  <2>2. Tail(s)[i] = s[i + 1] /\ Tail(s)[j] = s[j + 1]
    BY <1>1
  <2>. QED BY <1>2, <2>1, <2>2 DEF GivesBack
<1>3. ASSUME NEW k \in DOMAIN s, s[k].step = "done", s[1].step # "done"
      PROVE  \E i \in DOMAIN Tail(s) : Tail(s)[i].step = "done"
  <2>1. k # 1
    BY <1>3
  <2>2. k - 1 \in DOMAIN Tail(s) /\ Tail(s)[k - 1] = s[k]
    BY <1>1, <2>1
  <2>. QED BY <1>3, <2>2
<1>4. ASSUME holds2 PROVE \E i \in DOMAIN Tail(s) : Tail(s)[i].step = "done"
  <2>1. 1 \in DOMAIN s
    BY <1>1
  <2>2. \E k \in DOMAIN s : s[k].step = "done"
    BY <1>4, <2>1 DEF GivesBack
  <2>. QED BY <1>3, <1>4, <2>2
<1>5. ASSUME NEW i \in DOMAIN Tail(s), Tail(s)[i].step \in {"take", "put_out"}
      PROVE  \E k \in DOMAIN Tail(s) : Tail(s)[k].step = "done"
  <2>1. i + 1 \in DOMAIN s /\ s[i + 1].step \in {"take", "put_out"} /\ i \in Nat /\ i >= 1
    BY <1>1, <1>5
  <2>2. PICK k \in DOMAIN s : s[k].step = "done"
    BY <2>1 DEF GivesBack
  <2>3. i + 1 < k
    BY <2>1, <2>2 DEF GivesBack
  <2>4. k - 1 \in DOMAIN Tail(s) /\ Tail(s)[k - 1] = s[k]
    BY <1>1, <2>1, <2>3
  <2>. QED BY <2>2, <2>4
<1>. QED BY <1>2, <1>4, <1>5 DEF GivesBack

(* Nobody but the callbacks of a peer connection only gives locks back.    *)
LEMMA NotMedia ==
  ASSUME Owned, NEW t \in Threads, doing[t] # <<>>, Head(doing[t]).step # "done"
  PROVE  \A c \in Connections : t # MediaOf(c)
<1>1. ASSUME NEW c \in Connections, t = MediaOf(c) PROVE FALSE
  <2>1. doing[t] = <<Done>>
    BY <1>1 DEF Owned
  <2>2. Head(<<Done>>).step = "done"
    BY DEF Done, Step
  <2>. QED BY <2>1, <2>2
<1>. QED BY <1>1

(* What comes next is the thread's own to do.                              *)
LEMMA NextIsWhose ==
  ASSUME Shape, Owned, NEW t \in Threads, doing[t] # <<>>
  PROVE  Whose(t, Head(doing[t]).step)
<1>1. doing[t] \in Seq(Steps)
  BY DEF Shape
<1>2. 1 \in DOMAIN doing[t] /\ Head(doing[t]) = doing[t][1]
  BY <1>1, TailsAre
<1>. QED BY <1>2 DEF Owned

(* The thread that accepts does nothing else.                              *)
LEMMA NotListener ==
  ASSUME InHand, NEW t \in Threads, doing[t] # <<>>, Head(doing[t]).step # "accept"
  PROVE  t # Listener
<1>1. ASSUME NEW c \in Connections, doing[t] = <<Accept(c)>> PROVE FALSE
  BY <1>1 DEF Accept, Step
<1>. QED BY <1>1 DEF InHand

(* Who is to be hung up on by who stops the server.                        *)
LEMMA PendingStays ==
  ASSUME doing'[Main] = doing[Main]
  PROVE  Pending' = Pending
BY DEF Pending

(* A connection in hand stays there.                                       *)
LEMMA InHandStays ==
  ASSUME InHand, doing'[Listener] = doing[Listener],
         \A c \in Connections : socket[c] = "none" => socket'[c] = "none"
  PROVE  InHand'
BY DEF InHand

(* A thread that has done a step goes on to the next.                      *)
LEMMA Popped ==
  ASSUME Shape, NEW t \in Threads, doing[t] # <<>>, GoesOn(t, <<>>)
  PROVE  /\ doing' \in [Threads -> Seq(Steps)] /\ doing'[t] = Tail(doing[t])
         /\ \A u \in Threads \ {t} : doing'[u] = doing[u]
         /\ \A i \in DOMAIN doing'[t] : \E j \in DOMAIN doing[t] : doing'[t][i] = doing[t][j]
<1>1. doing[t] \in Seq(Steps) /\ doing \in [Threads -> Seq(Steps)]
  BY DEF Shape
<1>2. /\ Tail(doing[t]) \in Seq(Steps) /\ <<>> \o Tail(doing[t]) = Tail(doing[t])
      /\ Len(Tail(doing[t])) = Len(doing[t]) - 1 /\ Len(doing[t]) >= 1
      /\ \A i \in 1 .. Len(doing[t]) - 1 : Tail(doing[t])[i] = doing[t][i + 1]
  BY <1>1, TailsAre
<1>3. doing' = [doing EXCEPT ![t] = Tail(doing[t])]
  BY <1>2 DEF GoesOn
<1>4. ASSUME NEW i \in DOMAIN Tail(doing[t])
      PROVE  \E j \in DOMAIN doing[t] : Tail(doing[t])[i] = doing[t][j]
  <2>1. i \in 1 .. Len(doing[t]) - 1 /\ i + 1 \in DOMAIN doing[t]
    BY <1>1, <1>2
  <2>. QED BY <1>2, <2>1
<1>. QED BY <1>1, <1>2, <1>3, <1>4

(* Who does nothing, and holds no more than before, is still in order.     *)
LEMMA SaneStays ==
  ASSUME NEW u \in Threads, Sane(u), doing'[u] = doing[u],
         \A l \in Locks : owner'[l] = u => owner[l] = u, "router" \in Locks
  PROVE  Sane(u)'
<1>1. Holds(u)' => Holds(u)
  BY DEF Holds
<1>2. Ordered(doing[u], owner["router"] = u)
  BY DEF Sane
<1>3. Ordered(doing[u], owner'["router"] = u)
  BY <1>2 DEF Ordered
<1>4. GivesBack(doing[u], Holds(u))
  BY DEF Sane
<1>5. GivesBack(doing[u], Holds(u)')
  BY <1>1, <1>4 DEF GivesBack
<1>. QED BY <1>3, <1>5 DEF Sane

(* Who has done a step is still in order.                                  *)
LEMMA SanePops ==
  ASSUME Shape, NEW t \in Threads, Sane(t), doing[t] # <<>>, GoesOn(t, <<>>),
         owner'["router"] = t =>
           Head(doing[t]).step # "give" /\
             (owner["router"] = t \/ Head(doing[t]).step = "take"),
         Holds(t)' =>
           Head(doing[t]).step # "done" /\ (Holds(t) \/ Head(doing[t]).step = "take")
  PROVE  Sane(t)'
<1>1. doing[t] \in Seq(Steps) /\ Head(doing[t]) = doing[t][1]
  BY TailsAre DEF Shape
<1>2. doing'[t] = Tail(doing[t])
  BY Popped
<1>3. Ordered(Tail(doing[t]), owner'["router"] = t)
  BY <1>1, OrderedTail DEF Sane
<1>4. GivesBack(Tail(doing[t]), Holds(t)')
  <2>. DEFINE holds == Holds(t)  holds2 == Holds(t)'
  <2>1. GivesBack(doing[t], holds)
    BY DEF Sane
  <2>2. holds2 => doing[t][1].step # "done" /\ (holds \/ doing[t][1].step = "take")
    BY <1>1
  <2>. HIDE DEF holds, holds2
  <2>3. GivesBack(Tail(doing[t]), holds2)
    BY <1>1, <2>1, <2>2, GivesBackTail
  <2>. QED BY <2>3 DEF holds2
<1>5. About(Tail(doing[t]))
  <2>1. \A i \in DOMAIN doing'[t] : \E j \in DOMAIN doing[t] : doing'[t][i] = doing[t][j]
    BY Popped
  <2>2. About(doing[t])
    BY DEF Sane
  <2>. QED BY <1>2, <2>1, <2>2 DEF About
<1>. QED BY <1>2, <1>3, <1>4, <1>5 DEF Sane

(* Who stops the server has one socket less to close, at most.             *)
LEMMA PendingPops ==
  ASSUME Shape, Owned, NEW t \in Threads, doing[t] # <<>>, GoesOn(t, <<>>)
  PROVE  /\ Pending' \subseteq Pending
         /\ \A c \in Pending : c \in Pending' \/ (t = Main /\ Head(doing[t]) = HangUp(c))
<1>. USE Apart
<1>1. CASE t # Main
  <2>1. doing'[Main] = doing[Main]
    BY <1>1, Popped
  <2>. QED BY <2>1, PendingStays
<1>2. CASE t = Main
  <2>. DEFINE s == doing[Main]
  <2>1. /\ s \in Seq(Steps) /\ Len(Tail(s)) = Len(s) - 1 /\ Len(s) >= 1 /\ Len(s) \in Nat
        /\ \A i \in 1 .. Len(s) - 1 : Tail(s)[i] = s[i + 1]
        /\ DOMAIN s = 1 .. Len(s) /\ Tail(s) \in Seq(Steps) /\ Head(s) = s[1]
    BY <1>2, TailsAre DEF Shape
  <2>2. doing'[Main] = Tail(s)
    BY <1>2, Popped
  <2>. HIDE DEF s
  <2>3. \A i \in DOMAIN Tail(s) : i + 1 \in DOMAIN s /\ Tail(s)[i] = s[i + 1]
    BY <2>1
  <2>4. \A i \in DOMAIN s : i = 1 \/ (i - 1 \in DOMAIN Tail(s) /\ Tail(s)[i - 1] = s[i])
    BY <2>1
  <2>5. Pending' = {c \in Connections : \E i \in DOMAIN Tail(s) : Tail(s)[i] = HangUp(c)}
    BY <2>2 DEF Pending
  <2>6. Pending = {c \in Connections : \E i \in DOMAIN s : s[i] = HangUp(c)}
    BY DEF Pending, s
  <2>7. Pending' \subseteq Pending
    BY <2>3, <2>5, <2>6
  <2>8. \A c \in Pending : c \in Pending' \/ s[1] = HangUp(c)
    BY <2>4, <2>5, <2>6
  <2>. QED BY <1>2, <2>1, <2>7, <2>8 DEF s
<1>. QED BY <1>1, <1>2

(* The locks are still in the right hands.                                 *)
LEMMA OwnedPops ==
  ASSUME SignalingServerAssumption, Shape, Owned, NEW t \in Threads, doing[t] # <<>>,
         t # Listener, Head(doing[t]).step \notin {"done", "await"},
         GoesOn(t, <<>>), running' = running, \A c \in Connections : owner'[c] = owner[c],
         \A l \in {"server", "router"} :
           owner'[l] \in {owner[l], Free} \/ (owner'[l] = t /\ t # Main)
  PROVE  Owned'
<1>. USE LocksApart, Apart
<1>1. \A c \in Connections : t # MediaOf(c)
  BY NotMedia
<1>2. \A u \in Threads \ {t} : doing'[u] = doing[u]
  BY Popped
<1>3. \A i \in DOMAIN doing'[t] : \E j \in DOMAIN doing[t] : doing'[t][i] = doing[t][j]
  BY Popped
<1>4. \A c \in Connections : doing'[MediaOf(c)] = doing[MediaOf(c)]
  BY <1>1, <1>2
<1>5. \A c \in Connections :
        IF owner'[c] = Free THEN doing'[MediaOf(c)] = <<>>
        ELSE owner'[c] = MediaOf(c) /\ doing'[MediaOf(c)] = <<Done>>
  BY <1>4 DEF Owned
<1>6. \A l \in {"server", "router"} : \A c \in Connections : owner'[l] # MediaOf(c)
  BY <1>1 DEF Owned
<1>7. \A l \in Locks : owner'[l] # Listener
  <2>1. Listener # Free /\ \A l \in {"server", "router"} : owner'[l] # Listener
    BY DEF Owned
  <2>. QED BY <2>1 DEF Locks, Owned
<1>8. ASSUME NEW l \in Locks, owner'[l] = Main PROVE l = "server" /\ AtStep(Main, "await")'
  <2>1. Main # Free /\ owner[l] = Main
    BY <1>8 DEF Locks
  <2>2. l = "server" /\ AtStep(Main, "await")
    BY <2>1 DEF Owned
  <2>3. t # Main
    BY <2>2 DEF AtStep
  <2>4. doing'[Main] = doing[Main]
    BY <1>2, <2>3
  <2>. QED BY <2>2, <2>4 DEF AtStep
<1>9. ASSUME NEW u \in Threads, NEW i \in DOMAIN doing'[u] PROVE Whose(u, doing'[u][i].step)
  <2>1. \A j \in DOMAIN doing[u] : Whose(u, doing[u][j].step)
    BY DEF Owned
  <2>2. \E j \in DOMAIN doing[u] : doing'[u][i] = doing[u][j]
    BY <1>2, <1>3
  <2>. QED BY <2>1, <2>2
<1>10. doing'[Main] # <<>> => ~running'
  BY <1>2 DEF Owned
<1>. QED BY <1>5, <1>6, <1>7, <1>8, <1>9, <1>10 DEF Owned

(* Nothing changed of a socket.                                            *)
LEMMA HearsStays ==
  ASSUME NEW c \in Connections, Hears(c), heard'[c] = heard[c], socket'[c] = socket[c],
         (c \in connections') = (c \in connections),
         (c \in sockets' \cup Pending') = (c \in sockets \cup Pending)
  PROVE  Hears(c)'
BY DEF Hears

(* A thread that has nothing to do holds nothing.                          *)
LEMMA IdleHoldsNothing ==
  ASSUME NEW t \in Threads, Sane(t), doing[t] = <<>>
  PROVE  t # Main => \A l \in Locks : owner[l] # t
<1>1. ~ \E i \in DOMAIN doing[t] : doing[t][i].step = "done"
  OBVIOUS
<1>. QED BY <1>1 DEF Sane, GivesBack, Holds

(* Nor does the heartbeat hold anything in its sleep.                      *)
LEMMA TickHoldsNothing ==
  ASSUME Shape, Sane(Heartbeat), AtStep(Heartbeat, "tick")
  PROVE  \A l \in Locks : owner[l] # Heartbeat
<1>. DEFINE s == doing[Heartbeat]
<1>1. Heartbeat \in Threads /\ Heartbeat # Main
  BY Apart
<1>2. s # <<>> /\ s \in Seq(Steps) /\ Head(s).step = "tick"
  BY <1>1 DEF Shape, AtStep
<1>3. 1 \in DOMAIN s /\ s[1].step = "tick"
  BY <1>2, TailsAre
<1>4. ~ \E i \in DOMAIN s : s[i].step = "done"
  BY <1>3 DEF Sane, GivesBack
<1>. QED BY <1>1, <1>4 DEF Sane, GivesBack, Holds

(* What the steps that take something off a thread's list have in common.  *)
LEMMA PopKeeps ==
  ASSUME SignalingServerAssumption, IInv, NEW t \in Threads, doing[t] # <<>>,
         Head(doing[t]).step \notin {"done", "accept", "await"}, GoesOn(t, <<>>),
         running' = running, owner' \in [Locks -> Threads \cup {Free}],
         \A c \in Connections : owner'[c] = owner[c],
         owner'["server"] = owner["server"],
         \/ owner'["router"] = Free
         \/ owner'["router"] = owner["router"] /\ Head(doing[t]).step # "give"
         \/ owner'["router"] = t /\ Head(doing[t]).step = "take"
  PROVE  /\ Owned' /\ (\A u \in Threads : Sane(u)') /\ doing' \in [Threads -> Seq(Steps)]
         /\ doing'[Listener] = doing[Listener]
         /\ Pending' \subseteq Pending
         /\ \A c \in Pending : c \in Pending' \/ (t = Main /\ Head(doing[t]) = HangUp(c))
         /\ Head(doing[t]).step # "hang_up" => Pending' = Pending
<1>. USE LocksApart, Apart
<1>1. Shape /\ Owned /\ InHand /\ \A u \in Threads : Sane(u)
  BY DEF IInv
<1>2. Head(doing[t]).step = "take" => t # Main
  BY <1>1, NextIsWhose DEF Whose, OfMain
<1>l. t # Listener
  BY <1>1, NotListener
<1>3. Owned'
  <2>1. \A l \in {"server", "router"} :
          owner'[l] \in {owner[l], Free} \/ (owner'[l] = t /\ t # Main)
    BY <1>2
  <2>. QED BY <1>1, <1>l, <2>1, OwnedPops
<1>4. \A l \in Locks :
        owner'[l] \in {owner[l], Free} \/ (owner'[l] = t /\ Head(doing[t]).step = "take")
  BY DEF Locks
<1>5. ASSUME NEW u \in Threads, u # t PROVE Sane(u)'
  <2>1. doing'[u] = doing[u]
    BY <1>1, <1>5, Popped
  <2>2. \A l \in Locks : owner'[l] = u => owner[l] = u
    BY <1>4, <1>5
  <2>. QED BY <1>1, <2>1, <2>2, SaneStays
<1>6. Sane(t)'
  <2>1. Holds(t)' => Holds(t) \/ Head(doing[t]).step = "take"
    BY <1>4 DEF Holds
  <2>2. owner'["router"] = t =>
          Head(doing[t]).step # "give" /\ (owner["router"] = t \/ Head(doing[t]).step = "take")
    <3>1. Free # t /\ "take" # "give"
      OBVIOUS
    <3>. QED BY <3>1
  <2>. QED BY <1>1, <2>1, <2>2, SanePops
<1>7. doing' \in [Threads -> Seq(Steps)] /\ doing'[Listener] = doing[Listener]
  BY <1>1, <1>l, Popped
<1>8. /\ Pending' \subseteq Pending
      /\ \A c \in Pending : c \in Pending' \/ (t = Main /\ Head(doing[t]) = HangUp(c))
  BY <1>1, PendingPops
<1>9. ASSUME NEW c \in Pending, Head(doing[t]).step # "hang_up" PROVE Head(doing[t]) # HangUp(c)
  BY <1>9 DEF HangUp, Step
<1>. QED BY <1>3, <1>5, <1>6, <1>7, <1>8, <1>9

(* Who is asked for has a name.                                            *)
LEMMA OfIsSomebody ==
  ASSUME Shape, NEW t \in Threads, Sane(t), doing[t] # <<>>,
         Head(doing[t]).step \in {"call", "answered", "close", "put_out", "hang_up"}
  PROVE  Of(t) \in Connections
<1>1. doing[t] \in Seq(Steps) /\ Head(doing[t]) = doing[t][1] /\ 1 \in DOMAIN doing[t]
  BY TailsAre DEF Shape
<1>2. About(doing[t])
  BY DEF Sane
<1>. QED BY <1>1, <1>2 DEF About, Of

(* The router's lock is taken.                                             *)
LEMMA TakesRouterKeeps ==
  ASSUME SignalingServerAssumption, IInv, NEW t \in Threads, TakesRouter(t)
  PROVE  IInv'
<1>. USE LocksApart, Apart
<1>1. /\ doing[t] # <<>> /\ Head(doing[t]).step = "take" /\ GoesOn(t, <<>>)
      /\ owner' = [owner EXCEPT !["router"] = t]
      /\ UNCHANGED <<running, network, sockets, hub, tasks>>
  BY DEF TakesRouter, AtStep
<1>2. Shape /\ InHand /\ \A c \in Connections : Hears(c)
  BY DEF IInv
<1>3. /\ owner' \in [Locks -> Threads \cup {Free}]
      /\ \A c \in Connections : owner'[c] = owner[c]
      /\ owner'["server"] = owner["server"] /\ owner'["router"] = t
  BY <1>1, <1>2 DEF Shape
<1>4. /\ Owned' /\ (\A u \in Threads : Sane(u)') /\ doing' \in [Threads -> Seq(Steps)]
      /\ doing'[Listener] = doing[Listener] /\ Pending' = Pending
  BY <1>1, <1>3, PopKeeps
<1>5. \A c \in Connections : Hears(c)'
  BY <1>1, <1>2, <1>4, HearsStays DEF network, hub
<1>6. Shape'
  BY <1>1, <1>2, <1>3, <1>4 DEF Shape, network, hub
<1>h. InHand'
  BY <1>1, <1>2, <1>4, InHandStays DEF network
<1>. QED BY <1>1, <1>4, <1>5, <1>6, <1>h DEF IInv, hub

(* The router's lock is given back.                                        *)
LEMMA GivesRouterKeeps ==
  ASSUME SignalingServerAssumption, IInv, NEW t \in Threads, GivesRouter(t)
  PROVE  IInv'
<1>. USE LocksApart, Apart
<1>1. /\ doing[t] # <<>> /\ Head(doing[t]).step = "give" /\ GoesOn(t, <<>>)
      /\ owner' = [owner EXCEPT !["router"] = Free]
      /\ UNCHANGED <<running, network, sockets, hub, tasks>>
  BY DEF GivesRouter, AtStep
<1>2. Shape /\ InHand /\ \A c \in Connections : Hears(c)
  BY DEF IInv
<1>3. /\ owner' \in [Locks -> Threads \cup {Free}]
      /\ \A c \in Connections : owner'[c] = owner[c]
      /\ owner'["server"] = owner["server"] /\ owner'["router"] = Free
  BY <1>1, <1>2 DEF Shape
<1>4. /\ Owned' /\ (\A u \in Threads : Sane(u)') /\ doing' \in [Threads -> Seq(Steps)]
      /\ doing'[Listener] = doing[Listener] /\ Pending' = Pending
  BY <1>1, <1>3, PopKeeps
<1>5. \A c \in Connections : Hears(c)'
  BY <1>1, <1>2, <1>4, HearsStays DEF network, hub
<1>6. Shape'
  BY <1>1, <1>2, <1>3, <1>4 DEF Shape, network, hub
<1>h. InHand'
  BY <1>1, <1>2, <1>4, InHandStays DEF network
<1>. QED BY <1>1, <1>4, <1>5, <1>6, <1>h DEF IInv, hub

(* A call into a peer connection.                                          *)
LEMMA NegotiatesKeeps ==
  ASSUME SignalingServerAssumption, IInv, NEW t \in Threads, Negotiates(t)
  PROVE  IInv'
<1>1. /\ doing[t] # <<>> /\ Head(doing[t]).step = "call" /\ GoesOn(t, <<>>)
      /\ tasks' \in {tasks, Append(tasks, Step("offer", Of(t)))}
      /\ UNCHANGED <<running, network, sockets, hub, owner>>
  BY DEF Negotiates, AtStep
<1>2. Shape /\ InHand /\ (\A c \in Connections : Hears(c)) /\ Of(t) \in Connections
  BY <1>1, OfIsSomebody DEF IInv
<1>3. /\ Owned' /\ (\A u \in Threads : Sane(u)') /\ doing' \in [Threads -> Seq(Steps)]
      /\ doing'[Listener] = doing[Listener] /\ Pending' = Pending
  <2>1. owner' \in [Locks -> Threads \cup {Free}]
    BY <1>1, <1>2 DEF Shape
  <2>. QED BY <1>1, <2>1, PopKeeps
<1>4. \A c \in Connections : Hears(c)'
  BY <1>1, <1>2, <1>3, HearsStays DEF network, hub
<1>5. tasks' \in Seq([step : {"offer", "look_again"}, of : Connections])
  <2>. DEFINE s == Step("offer", Of(t))  T == [step : {"offer", "look_again"}, of : Connections]
  <2>1. s \in T
    BY <1>2 DEF Step
  <2>2. tasks \in Seq(T)
    BY <1>2 DEF Shape
  <2>3. tasks' = tasks \/ tasks' = Append(tasks, s)
    BY <1>1
  <2>. HIDE DEF s, T
  <2>4. tasks' \in Seq(T)
    BY <2>1, <2>2, <2>3
  <2>. QED BY <2>4 DEF T
<1>6. Shape'
  BY <1>1, <1>2, <1>3, <1>5 DEF Shape, network, hub
<1>h. InHand'
  BY <1>1, <1>2, <1>3, InHandStays DEF network
<1>. QED BY <1>1, <1>3, <1>4, <1>6, <1>h DEF IInv, hub

(* An answer.                                                              *)
LEMMA BecomesStableKeeps ==
  ASSUME SignalingServerAssumption, IInv, NEW t \in Threads, BecomesStable(t)
  PROVE  IInv'
<1>1. /\ doing[t] # <<>> /\ Head(doing[t]).step = "answered" /\ GoesOn(t, <<>>)
      /\ tasks' = Append(tasks, Step("look_again", Of(t)))
      /\ UNCHANGED <<running, network, sockets, hub, owner>>
  BY DEF BecomesStable, AtStep, StableAgain
<1>2. Shape /\ InHand /\ (\A c \in Connections : Hears(c)) /\ Of(t) \in Connections
  BY <1>1, OfIsSomebody DEF IInv
<1>3. /\ Owned' /\ (\A u \in Threads : Sane(u)') /\ doing' \in [Threads -> Seq(Steps)]
      /\ doing'[Listener] = doing[Listener] /\ Pending' = Pending
  <2>1. owner' \in [Locks -> Threads \cup {Free}]
    BY <1>1, <1>2 DEF Shape
  <2>. QED BY <1>1, <2>1, PopKeeps
<1>4. \A c \in Connections : Hears(c)'
  BY <1>1, <1>2, <1>3, HearsStays DEF network, hub
<1>5. tasks' \in Seq([step : {"offer", "look_again"}, of : Connections])
  <2>1. Step("look_again", Of(t)) \in [step : {"offer", "look_again"}, of : Connections]
    BY <1>2 DEF Step
  <2>. QED BY <1>1, <1>2, <2>1 DEF Shape
<1>6. Shape'
  BY <1>1, <1>2, <1>3, <1>5 DEF Shape, network, hub
<1>h. InHand'
  BY <1>1, <1>2, <1>3, InHandStays DEF network
<1>. QED BY <1>1, <1>3, <1>4, <1>6, <1>h DEF IInv, hub

(* A peer connection is closed.                                            *)
LEMMA ClosesMediaKeeps ==
  ASSUME SignalingServerAssumption, IInv, NEW t \in Threads, ClosesMedia(t)
  PROVE  IInv'
<1>1. /\ doing[t] # <<>> /\ Head(doing[t]).step = "close" /\ GoesOn(t, <<>>)
      /\ media' = media \ {Of(t)}
      /\ UNCHANGED <<running, network, sockets, connections, inside, tasks, owner>>
  BY DEF ClosesMedia, AtStep
<1>2. Shape /\ InHand /\ \A c \in Connections : Hears(c)
  BY DEF IInv
<1>3. /\ Owned' /\ (\A u \in Threads : Sane(u)') /\ doing' \in [Threads -> Seq(Steps)]
      /\ doing'[Listener] = doing[Listener] /\ Pending' = Pending
  <2>1. owner' \in [Locks -> Threads \cup {Free}]
    BY <1>1, <1>2 DEF Shape
  <2>. QED BY <1>1, <2>1, PopKeeps
<1>4. \A c \in Connections : Hears(c)'
  BY <1>1, <1>2, <1>3, HearsStays DEF network
<1>5. Shape'
  BY <1>1, <1>2, <1>3 DEF Shape, network
<1>h. InHand'
  BY <1>1, <1>2, <1>3, InHandStays DEF network
<1>. QED BY <1>1, <1>3, <1>4, <1>5, <1>h DEF IInv

(* Whatever is held is given back.                                         *)
LEMMA IsDoneKeeps ==
  ASSUME SignalingServerAssumption, IInv, NEW t \in Threads, IsDone(t)
  PROVE  IInv'
<1>. USE LocksApart, Apart
<1>1. /\ doing[t] # <<>> /\ Head(doing[t]).step = "done" /\ GoesOn(t, <<>>)
      /\ owner' = [l \in Locks |-> IF owner[l] = t THEN Free ELSE owner[l]]
      /\ UNCHANGED <<running, network, sockets, hub, tasks>>
  BY DEF IsDone, AtStep
<1>2. Shape /\ Owned /\ InHand /\ (\A u \in Threads : Sane(u)) /\ \A c \in Connections : Hears(c)
  BY DEF IInv
<1>3. /\ doing' \in [Threads -> Seq(Steps)] /\ doing'[t] = Tail(doing[t])
      /\ \A u \in Threads \ {t} : doing'[u] = doing[u]
  BY <1>1, <1>2, Popped
<1>4. \A i \in DOMAIN doing'[t] : \E j \in DOMAIN doing[t] : doing'[t][i] = doing[t][j]
  BY <1>1, <1>2, Popped
<1>5. \A l \in Locks : owner'[l] = IF owner[l] = t THEN Free ELSE owner[l]
  BY <1>1
<1>6. \A l \in Locks : owner'[l] # t
  BY <1>5
<1>7. ASSUME NEW u \in Threads PROVE Sane(u)'
  <2>1. CASE u = t
    <3>1. ~Holds(t)' /\ owner'["router"] # t
      BY <1>6 DEF Holds
    <3>. QED BY <1>1, <1>2, <2>1, <3>1, SanePops
  <2>2. CASE u # t
    BY <1>2, <1>3, <1>5, <2>2, SaneStays
  <2>. QED BY <2>1, <2>2
<1>8. ASSUME NEW c \in Connections
      PROVE  IF owner'[c] = Free THEN doing'[MediaOf(c)] = <<>>
             ELSE owner'[c] = MediaOf(c) /\ doing'[MediaOf(c)] = <<Done>>
  <2>1. IF owner[c] = Free THEN doing[MediaOf(c)] = <<>>
        ELSE owner[c] = MediaOf(c) /\ doing[MediaOf(c)] = <<Done>>
    BY <1>2 DEF Owned
  <2>2. CASE t = MediaOf(c)
    <3>1. doing[t] = <<Done>> /\ owner[c] = t
      BY <1>1, <2>1, <2>2
    <3>. QED BY <1>3, <1>5, <2>2, <3>1
  <2>3. CASE t # MediaOf(c)
    BY <1>3, <1>5, <2>1, <2>3
  <2>. QED BY <2>2, <2>3
<1>9. Owned'
  <2>1. \A l \in {"server", "router"} : \A c \in Connections : owner'[l] # MediaOf(c)
    BY <1>2, <1>5 DEF Owned
  <2>2. \A l \in Locks : owner'[l] # Listener
    BY <1>2, <1>5 DEF Owned
  <2>3. ASSUME NEW l \in Locks, owner'[l] = Main PROVE l = "server" /\ AtStep(Main, "await")'
    <3>1. owner[l] = Main
      BY <1>5, <2>3
    <3>2. l = "server" /\ AtStep(Main, "await")
      BY <1>2, <3>1 DEF Owned
    <3>3. doing'[Main] = doing[Main]
      BY <1>1, <1>3, <3>2 DEF AtStep
    <3>. QED BY <3>2, <3>3 DEF AtStep
  <2>4. ASSUME NEW u \in Threads, NEW i \in DOMAIN doing'[u]
        PROVE  Whose(u, doing'[u][i].step)
    <3>1. \A j \in DOMAIN doing[u] : Whose(u, doing[u][j].step)
      BY <1>2 DEF Owned
    <3>2. \E j \in DOMAIN doing[u] : doing'[u][i] = doing[u][j]
      BY <1>3, <1>4
    <3>. QED BY <3>1, <3>2
  <2>5. doing'[Main] # <<>> => ~running'
    BY <1>1, <1>2, <1>3 DEF Owned
  <2>. QED BY <1>8, <2>1, <2>2, <2>3, <2>4, <2>5 DEF Owned
<1>m. t # Main
  BY <1>1, <1>2, NextIsWhose DEF Whose, OfMain
<1>l. t # Listener
  BY <1>1, <1>2, NotListener
<1>10. \A c \in Connections : Hears(c)'
  <2>1. Pending' = Pending
    BY <1>3, <1>m, PendingStays
  <2>. QED BY <1>1, <1>2, <2>1, HearsStays DEF network, hub
<1>11. Shape'
  <2>1. owner' \in [Locks -> Threads \cup {Free}]
    BY <1>1, <1>2 DEF Shape
  <2>. QED BY <1>1, <1>2, <1>3, <2>1 DEF Shape, network, hub
<1>12. InHand'
  BY <1>1, <1>2, <1>3, <1>l, InHandStays DEF network
<1>. QED BY <1>1, <1>7, <1>9, <1>10, <1>11, <1>12 DEF IInv, hub

(* A socket that is closed says so at last, if it was open.                *)
LEMMA ClosedHears ==
  ASSUME Shape, NEW c \in Connections, Closed(c), \A d \in Connections : Hears(d),
         UNCHANGED <<sockets, connections>>, c \in sockets \cup Pending,
         Pending' \subseteq Pending, Pending \subseteq Pending' \cup {c}
  PROVE  /\ \A d \in Connections : Hears(d)'
         /\ \A d \in Connections : socket[d] = "none" => socket'[d] = "none"
         /\ socket' \in [Connections -> {"none", "open", "closed"}]
         /\ heard' \in [Connections -> Seq(Callbacks)]
<1>1. /\ socket' = [socket EXCEPT ![c] = "closed"]
      /\ heard' = [heard EXCEPT ![c] = IF socket[c] = "open" THEN Append(heard[c], "closed")
                                       ELSE heard[c]]
  BY DEF Closed
<1>2. heard[c] \in Seq(Callbacks) /\ "closed" \in Callbacks
  BY DEF Shape, Callbacks
<1>. DEFINE h == heard[c]
<1>h. h \in Seq(Callbacks)
  BY <1>2
<1>. HIDE DEF h
<1>a. /\ Append(h, "closed") \in Seq(Callbacks)
      /\ Len(Append(h, "closed")) = Len(h) + 1 /\ Len(h) \in Nat
      /\ DOMAIN h = 1 .. Len(h)
      /\ DOMAIN Append(h, "closed") = 1 .. Len(h) + 1
  BY <1>h, <1>2
<1>b. /\ \A i \in 1 .. Len(h) : Append(h, "closed")[i] = h[i]
      /\ Append(h, "closed")[Len(h) + 1] = "closed"
      /\ Append(h, "closed") # <<>>
  BY <1>h, <1>2
<1>c. Head(Append(h, "closed")) = IF h = <<>> THEN "closed" ELSE Head(h)
  <2>1. h = <<>> => Len(h) = 0
    OBVIOUS
  <2>2. h # <<>> => Len(h) >= 1 /\ Head(h) = h[1]
    BY <1>h
  <2>3. Head(Append(h, "closed")) = Append(h, "closed")[1]
    BY <1>h, <1>a, <1>b
  <2>. QED BY <1>a, <1>b, <2>1, <2>2, <2>3
<1>3. /\ Append(heard[c], "closed") \in Seq(Callbacks)
      /\ Len(Append(heard[c], "closed")) = Len(heard[c]) + 1 /\ Len(heard[c]) \in Nat
      /\ DOMAIN heard[c] = 1 .. Len(heard[c])
      /\ DOMAIN Append(heard[c], "closed") = 1 .. Len(heard[c]) + 1
      /\ \A i \in 1 .. Len(heard[c]) : Append(heard[c], "closed")[i] = heard[c][i]
      /\ Append(heard[c], "closed")[Len(heard[c]) + 1] = "closed"
      /\ Head(Append(heard[c], "closed")) =
           IF heard[c] = <<>> THEN "closed" ELSE Head(heard[c])
      /\ Append(heard[c], "closed") # <<>>
  BY <1>a, <1>b, <1>c DEF h
<1>4. ASSUME NEW d \in Connections, d # c PROVE Hears(d)'
  <2>1. heard'[d] = heard[d] /\ socket'[d] = socket[d]
    BY <1>1, <1>4 DEF Shape
  <2>2. (d \in sockets' \cup Pending') = (d \in sockets \cup Pending)
    BY <1>4
  <2>. QED BY <2>1, <2>2, HearsStays
<1>5. socket'[c] = "closed"
  BY <1>1 DEF Shape
<1>6. Hears(c)'
  <2>1. CASE socket[c] = "open"
    <3>1. heard'[c] = Append(heard[c], "closed")
      BY <1>1, <2>1 DEF Shape
    <3>2. ASSUME NEW i \in DOMAIN heard'[c]
          PROVE  /\ heard'[c][i] = "opened" => i = 1
                 /\ heard'[c][i] = "closed" => i = Len(heard'[c])
      <4>1. CASE i = Len(heard[c]) + 1
        BY <1>3, <3>1, <4>1
      <4>2. CASE i # Len(heard[c]) + 1
        <5>1. i \in DOMAIN heard[c] /\ heard'[c][i] = heard[c][i]
          BY <1>3, <3>1, <3>2, <4>2
        <5>2. heard[c][i] # "closed" /\ (heard[c][i] = "opened" => i = 1)
          BY <2>1, <5>1 DEF Hears
        <5>. QED BY <5>1, <5>2
      <4>. QED BY <4>1, <4>2
    <3>3. Head(heard'[c]) = "opened" <=> (heard[c] # <<>> /\ Head(heard[c]) = "opened")
      BY <1>3, <3>1
    <3>4. /\ heard[c] # <<>> => Head(heard[c]) = "opened" \/ c \in connections
          /\ c \in connections \/ (heard[c] # <<>> /\ Head(heard[c]) = "opened")
          /\ c \in connections => heard[c] = <<>> \/ Head(heard[c]) # "opened"
      BY <2>1 DEF Hears
    <3>. QED BY <1>5, <3>2, <3>3, <3>4 DEF Hears
  <2>2. CASE socket[c] # "open"
    <3>1. heard'[c] = heard[c]
      BY <1>1, <2>2 DEF Shape
    <3>. QED BY <1>5, <2>2, <3>1 DEF Hears
  <2>. QED BY <2>1, <2>2
<1>7. ASSUME NEW d \in Connections, socket[d] = "none" PROVE socket'[d] = "none"
  <2>1. d # c
    BY <1>7 DEF Hears
  <2>. QED BY <1>1, <1>7, <2>1 DEF Shape
<1>. QED BY <1>1, <1>3, <1>4, <1>6, <1>7 DEF Shape

(* A connection is closed.                                                 *)
LEMMA close_connectionKeeps ==
  ASSUME SignalingServerAssumption, IInv, NEW t \in Threads, close_connection(t)
  PROVE  IInv'
<1>1. /\ doing[t] # <<>> /\ Head(doing[t]).step = "hang_up" /\ GoesOn(t, <<>>)
      /\ \/ t # Main /\ Of(t) \in sockets /\ Closed(Of(t))
         \/ t # Main /\ UNCHANGED <<socket, heard>>
         \/ t = Main /\ Closed(Of(t))
      /\ UNCHANGED <<running, events, sockets, hub, tasks, owner>>
  BY Apart DEF close_connection, AtStep
<1>2. /\ Shape /\ Owned /\ InHand /\ (\A c \in Connections : Hears(c))
      /\ Of(t) \in Connections
  BY <1>1, OfIsSomebody DEF IInv
<1>3. /\ Owned' /\ (\A u \in Threads : Sane(u)') /\ doing' \in [Threads -> Seq(Steps)]
      /\ doing'[Listener] = doing[Listener] /\ Pending' \subseteq Pending
      /\ \A c \in Pending : c \in Pending' \/ (t = Main /\ Head(doing[t]) = HangUp(c))
  <2>1. owner' \in [Locks -> Threads \cup {Free}]
    BY <1>1, <1>2 DEF Shape
  <2>. QED BY <1>1, <2>1, PopKeeps
<1>4. Pending \subseteq Pending' \cup {Of(t)} /\ (t # Main => Pending' = Pending)
  <2>1. \A c \in Connections : HangUp(c).of = c
    BY DEF HangUp, Step
  <2>. QED BY <1>3, <2>1 DEF Of, Pending
<1>5. t = Main => Of(t) \in Pending
  <2>1. ASSUME t = Main PROVE doing[Main] \in Seq(Steps) /\ doing[Main] # <<>>
    BY <1>1, <1>2, <2>1 DEF Shape
  <2>2. ASSUME t = Main
        PROVE  1 \in DOMAIN doing[Main] /\ Head(doing[Main]) = doing[Main][1]
               /\ Head(doing[Main]) \in Steps
    BY <2>1, <2>2, TailsAre
  <2>3. ASSUME t = Main PROVE Head(doing[Main]) = HangUp(Of(t))
    BY <1>1, <2>2, <2>3 DEF HangUp, Step, Steps, Of
  <2>. QED BY <1>2, <2>2, <2>3 DEF Pending
<1>6. /\ \A c \in Connections : Hears(c)'
      /\ \A c \in Connections : socket[c] = "none" => socket'[c] = "none"
      /\ socket' \in [Connections -> {"none", "open", "closed"}]
      /\ heard' \in [Connections -> Seq(Callbacks)]
  <2>1. CASE Closed(Of(t)) /\ Of(t) \in sockets \cup Pending
    BY <1>1, <1>2, <1>3, <1>4, <2>1, ClosedHears DEF hub
  <2>2. CASE UNCHANGED <<socket, heard>> /\ t # Main
    BY <1>1, <1>2, <1>4, <2>2, HearsStays DEF hub, Shape
  <2>. QED BY <1>1, <1>5, <2>1, <2>2
<1>7. Shape'
  BY <1>1, <1>2, <1>3, <1>6 DEF Shape, hub
<1>8. InHand'
  BY <1>2, <1>3, <1>6, InHandStays
<1>. QED BY <1>1, <1>3, <1>6, <1>7, <1>8 DEF IInv, hub

(* What a handler hands to its thread: it takes the router's lock first,   *)
(* gives back what it holds at last, and hangs up on nobody.               *)
Program(s) ==
  /\ s \in Seq(Steps) /\ About(s) /\ Ordered(s, FALSE) /\ GivesBack(s, TRUE)
  /\ \A i \in DOMAIN s : s[i].step \notin OfOne

(* A newcomer is offered to.                                               *)
LEMMA JoinedIs ==
  ASSUME SignalingServerAssumption, Shape, NEW c \in Connections
  PROVE  Program(on_participant_joined(c) \o <<Done>>)
<1>. DEFINE calls == ForEach(inside \cup {c}, Call)
<1>1. /\ calls \in Seq(Steps)
      /\ \A i \in DOMAIN calls : calls[i].step = "call" /\ calls[i].of \in Connections
  <2>1. inside \cup {c} \in SUBSET Connections
    BY DEF Shape
  <2>. QED BY <2>1, CallsAre
<1>2. on_participant_joined(c) \o <<Done>> = (<<TakeRouter>> \o calls) \o <<Done>>
  BY DEF on_participant_joined
<1>. HIDE DEF calls
<1>3. /\ TakeRouter \in Steps /\ TakeRouter.step = "take" /\ Done \in Steps /\
           Done.step = "done"
  BY DEF TakeRouter, Done, Step, Steps, Kinds
<1>. DEFINE s == (<<TakeRouter>> \o calls) \o <<Done>>  n == Len(calls)
<1>4. n \in Nat /\ DOMAIN calls = 1 .. n
  BY <1>1
<1>5. s \in Seq(Steps) /\ Len(s) = n + 2 /\ DOMAIN s = 1 .. n + 2
  BY <1>1, <1>3, <1>4
<1>6. s[1] = TakeRouter /\ s[n + 2] = Done /\ \A i \in 2 .. n + 1 : s[i] = calls[i - 1]
  BY <1>1, <1>3, <1>4
<1>7. \A i \in 2 .. n + 1 : s[i].step = "call" /\ s[i].of \in Connections
  <2>1. \A i \in 2 .. n + 1 : i - 1 \in 1 .. n
    BY <1>4
  <2>. QED BY <1>1, <1>4, <1>6, <2>1
<1>8. \A i \in DOMAIN s : i = 1 \/ i = n + 2 \/ i \in 2 .. n + 1
  BY <1>4, <1>5
<1>. HIDE DEF s, n
<1>9. About(s) /\ \A i \in DOMAIN s : s[i].step \notin OfOne
  BY <1>3, <1>6, <1>7, <1>8 DEF About, OfOne, OfMain
<1>10. Ordered(s, FALSE)
  BY <1>3, <1>6, <1>7, <1>8 DEF Ordered
<1>11. GivesBack(s, TRUE)
  <2>1. n + 2 \in DOMAIN s
    BY <1>4, <1>5
  <2>. QED BY <1>3, <1>4, <1>6, <1>7, <1>8, <2>1 DEF GivesBack
<1>. QED BY <1>2, <1>5, <1>9, <1>10, <1>11 DEF Program, s

(* Who leaves, and what the thread goes on with.                           *)
LEMMA LeftIs ==
  ASSUME SignalingServerAssumption, Shape, NEW c \in Connections,
         NEW rest \in Seq(Steps), About(rest),
         \A i \in DOMAIN rest : rest[i].step \notin {"take"} \cup OfOne,
         NEW holds \in BOOLEAN, GivesBack(rest, holds),
           \E i \in DOMAIN rest : rest[i].step = "done"
  PROVE  LET s == on_participant_left(c) \o rest
         IN /\ s \in Seq(Steps) /\ About(s) /\ Ordered(s, FALSE) /\ GivesBack(s, TRUE)
            /\ \A i \in DOMAIN s : s[i].step \notin OfOne
<1>. DEFINE calls == ForEach(inside \ {c}, Call)
<1>1. /\ calls \in Seq(Steps)
      /\ \A i \in DOMAIN calls : calls[i].step = "call" /\ calls[i].of \in Connections
  <2>1. inside \ {c} \in SUBSET Connections
    BY DEF Shape
  <2>. QED BY <2>1, CallsAre
<1>2. on_participant_left(c) \o rest
        = (<<TakeRouter>> \o calls \o <<GiveRouter, Close(c)>>) \o rest
  BY DEF on_participant_left
<1>. HIDE DEF calls
<1>3. /\ TakeRouter \in Steps /\ TakeRouter.step = "take"
      /\ GiveRouter \in Steps /\ GiveRouter.step = "give"
      /\ Close(c) \in Steps /\ Close(c).step = "close" /\ Close(c).of = c
  BY DEF TakeRouter, GiveRouter, Close, Step, Steps, Kinds
<1>. DEFINE n == Len(calls)  m == Len(rest)
            first == <<TakeRouter>> \o calls \o <<GiveRouter, Close(c)>>
            s == first \o rest
<1>4. n \in Nat /\ DOMAIN calls = 1 .. n /\ m \in Nat /\ DOMAIN rest = 1 .. m
  BY <1>1
<1>5. first \in Seq(Steps) /\ Len(first) = n + 3
  BY <1>1, <1>3, <1>4
<1>6. /\ first[1] = TakeRouter /\ first[n + 2] = GiveRouter /\ first[n + 3] = Close(c)
      /\ \A i \in 2 .. n + 1 : first[i] = calls[i - 1]
  BY <1>1, <1>3, <1>4
<1>7. \A i \in 2 .. n + 1 : first[i].step = "call" /\ first[i].of \in Connections
  <2>1. \A i \in 2 .. n + 1 : i - 1 \in 1 .. n
    BY <1>4
  <2>. QED BY <1>1, <1>4, <1>6, <2>1
<1>. HIDE DEF first, n, m
<1>8. s \in Seq(Steps) /\ Len(s) = n + 3 + m /\ DOMAIN s = 1 .. n + 3 + m
  BY <1>4, <1>5 DEF m
<1>9. /\ \A i \in 1 .. n + 3 : s[i] = first[i]
      /\ \A i \in n + 4 .. n + 3 + m : s[i] = rest[i - (n + 3)]
  BY <1>4, <1>5 DEF m
<1>. HIDE DEF s
<1>10. \A i \in DOMAIN s :
         \/ i = 1 \/ i \in 2 .. n + 1 \/ i = n + 2 \/ i = n + 3
         \/ i \in n + 4 .. n + 3 + m /\ i - (n + 3) \in DOMAIN rest
  BY ONLY <1>4, <1>8
<1>11. \A i \in DOMAIN s :
         \/ i = 1 /\ s[i].step = "take"
         \/ i \in 2 .. n + 1 /\ s[i].step = "call" /\ s[i].of \in Connections
         \/ i = n + 2 /\ s[i].step = "give"
         \/ i = n + 3 /\ s[i].step = "close" /\ s[i].of \in Connections
         \/ /\ i \in n + 4 .. n + 3 + m /\ i - (n + 3) \in DOMAIN rest
            /\ s[i] = rest[i - (n + 3)]
  <2>1. 1 \in 1 .. n + 3 /\ n + 2 \in 1 .. n + 3 /\ n + 3 \in 1 .. n + 3
        /\ \A i \in 2 .. n + 1 : i \in 1 .. n + 3
    BY <1>4
  <2>2. s[1] = TakeRouter /\ s[n + 2] = GiveRouter /\ s[n + 3] = Close(c)
        /\ \A i \in 2 .. n + 1 : s[i] = first[i]
    BY <1>6, <1>9, <2>1
  <2>. QED BY <1>3, <1>7, <1>9, <1>10, <2>2
<1>12. About(s) /\ \A i \in DOMAIN s : s[i].step \notin OfOne
  BY <1>11 DEF About, OfOne, OfMain
<1>13. Ordered(s, FALSE)
  <2>1. ASSUME NEW i \in DOMAIN s, s[i].step = "take" PROVE i = 1
    BY <1>11, <2>1
  <2>2. ASSUME NEW j \in DOMAIN s, s[j].step = "put_out"
        PROVE  \E i \in 1 .. j - 1 : s[i].step = "give"
    <3>1. j \in n + 4 .. n + 3 + m
      BY <1>11, <2>2
    <3>2. n + 2 \in 1 .. j - 1 /\ n + 2 \in DOMAIN s
      BY <1>4, <1>8, <3>1
    <3>3. s[n + 2].step = "give"
      BY <1>3, <1>4, <1>6, <1>9, <3>2
    <3>. QED BY <3>2, <3>3
  <2>. QED BY <2>1, <2>2 DEF Ordered
<1>14. GivesBack(s, TRUE)
  <2>1. ASSUME NEW i \in DOMAIN s, NEW j \in DOMAIN s, s[i].step = "done"
        PROVE  /\ s[j].step = "hang_up" => i < j
               /\ s[j].step \in {"take", "put_out"} => j < i
             /\ s[j].step # "tick"
    <3>1. /\ i \in n + 4 .. n + 3 + m /\ i - (n + 3) \in DOMAIN rest
          /\ s[i] = rest[i - (n + 3)]
      BY <1>11, <2>1
    <3>2. CASE j \in n + 4 .. n + 3 + m /\ j - (n + 3) \in DOMAIN rest
                 /\ s[j] = rest[j - (n + 3)]
      <4>1. /\ s[j].step = "hang_up" => i - (n + 3) < j - (n + 3)
            /\ s[j].step \in {"take", "put_out"} => j - (n + 3) < i - (n + 3)
            /\ s[j].step # "tick"
        BY <2>1, <3>1, <3>2 DEF GivesBack
      <4>. QED BY <1>4, <3>1, <3>2, <4>1
    <3>3. CASE j \in 1 .. n + 3 /\ s[j].step \notin {"hang_up", "tick"}
      BY <1>4, <3>1, <3>3
    <3>. QED BY <1>4, <1>11, <3>2, <3>3
  <2>2. \E i \in DOMAIN s : s[i].step = "done"
    <3>1. PICK k \in DOMAIN rest : rest[k].step = "done"
      OBVIOUS
    <3>2. k + (n + 3) \in n + 4 .. n + 3 + m /\ (k + (n + 3)) - (n + 3) = k
      BY <1>4, <3>1
    <3>3. s[k + (n + 3)] = rest[k] /\ k + (n + 3) \in DOMAIN s
      BY <1>4, <1>8, <1>9, <3>2
    <3>. QED BY <3>1, <3>3
  <2>. QED BY <2>1, <2>2 DEF GivesBack
<1>. QED BY <1>2, <1>8, <1>12, <1>13, <1>14 DEF s, first

(* A handler with nothing to do but to return.                             *)
LEMMA JustDone ==
  /\ <<Done>> \in Seq(Steps) /\ About(<<Done>>) /\ Program(<<Done>>)
  /\ \A i \in DOMAIN <<Done>> : <<Done>>[i].step = "done"
  /\ \E i \in DOMAIN <<Done>> : <<Done>>[i].step = "done"
<1>1. Done \in Steps /\ Done.step = "done"
  BY DEF Done, Step, Steps, Kinds
<1>2. <<Done>> \in Seq(Steps) /\ DOMAIN <<Done>> = {1} /\ <<Done>>[1] = Done
  BY <1>1
<1>. HIDE DEF Done
<1>3. About(<<Done>>) /\ Ordered(<<Done>>, FALSE) /\ GivesBack(<<Done>>, TRUE)
  BY <1>1, <1>2 DEF About, Ordered, GivesBack
<1>. QED BY <1>1, <1>2, <1>3 DEF Program, OfOne, OfMain

(* Somebody leaves.                                                        *)
LEMMA GoesIs ==
  ASSUME SignalingServerAssumption, Shape, NEW c \in Connections
  PROVE  Program(on_participant_left(c) \o <<Done>>)
<1>1. GivesBack(<<Done>>, TRUE)
  BY JustDone DEF Program
<1>2. \A i \in DOMAIN <<Done>> : <<Done>>[i].step \notin {"take"} \cup OfOne
  <2>1. \A i \in DOMAIN <<Done>> : <<Done>>[i].step = "done"
    BY JustDone
  <2>. QED BY <2>1 DEF OfOne, OfMain
<1>3. LET s == on_participant_left(c) \o <<Done>>
      IN /\ s \in Seq(Steps) /\ About(s) /\ Ordered(s, FALSE) /\ GivesBack(s, TRUE)
         /\ \A i \in DOMAIN s : s[i].step \notin OfOne
  BY <1>1, <1>2, JustDone, LeftIs
<1>. QED BY <1>3 DEF Program

(* Two lists, one after the other.                                         *)
LEMMA JoinIs ==
  ASSUME NEW S, NEW x \in Seq(S), NEW y \in Seq(S)
  PROVE  /\ x \o y \in Seq(S) /\ Len(x \o y) = Len(x) + Len(y)
         /\ \A i \in 1 .. Len(x) + Len(y) :
              (x \o y)[i] = IF i <= Len(x) THEN x[i] ELSE y[i - Len(x)]
OBVIOUS

(* An answer is relayed.                                                   *)
LEMMA AnswerIs ==
  ASSUME NEW c \in Connections
  PROVE  Program(on_media_signal(c) \o <<Done>>)
<1>1. /\ TakeRouter \in Steps /\ TakeRouter.step = "take" /\ Done \in Steps /\
           Done.step = "done"
      /\ Answered(c) \in Steps /\ Answered(c).step = "answered" /\ Answered(c).of = c
  BY DEF TakeRouter, Done, Answered, Step, Steps, Kinds
<1>. DEFINE s == on_media_signal(c) \o <<Done>>
<1>2. ASSUME NEW a \in Steps, NEW b \in Steps, NEW d \in Steps
      PROVE  /\ <<a, b>> \o <<d>> \in Seq(Steps) /\ DOMAIN (<<a, b>> \o <<d>>) = 1 .. 3
             /\ (<<a, b>> \o <<d>>)[1] = a /\ (<<a, b>> \o <<d>>)[2] = b
             /\ (<<a, b>> \o <<d>>)[3] = d
  <2>1. /\ <<a, b>> \in Seq(Steps) /\ Len(<<a, b>>) = 2 /\ <<d>> \in Seq(Steps) /\
             Len(<<d>>) = 1
        /\ <<a, b>>[1] = a /\ <<a, b>>[2] = b /\ <<d>>[1] = d
    BY <1>2
  <2>. DEFINE x == <<a, b>>  y == <<d>>
  <2>2. x \in Seq(Steps) /\ Len(x) = 2 /\ y \in Seq(Steps) /\ Len(y) = 1
    BY <2>1
  <2>3. x[1] = a /\ x[2] = b /\ y[1] = d
    BY <2>1
  <2>. HIDE DEF x, y
  <2>4. /\ x \o y \in Seq(Steps) /\ Len(x \o y) = 3
        /\ \A i \in 1 .. 3 : (x \o y)[i] = IF i <= 2 THEN x[i] ELSE y[i - 2]
    <3>1. Len(x) + Len(y) = 3
      BY <2>2
    <3>2. /\ x \o y \in Seq(Steps) /\ Len(x \o y) = Len(x) + Len(y)
          /\ \A i \in 1 .. Len(x) + Len(y) :
               (x \o y)[i] = IF i <= Len(x) THEN x[i] ELSE y[i - Len(x)]
      BY <2>2, JoinIs
    <3>. QED BY <2>2, <3>1, <3>2
  <2>5. (x \o y)[1] = x[1] /\ (x \o y)[2] = x[2] /\ (x \o y)[3] = y[1]
    BY <2>4
  <2>. QED BY <2>3, <2>4, <2>5 DEF x, y
<1>3. /\ s \in Seq(Steps) /\ DOMAIN s = 1 .. 3
      /\ s[1] = TakeRouter /\ s[2] = Answered(c) /\ s[3] = Done
  <2>1. s = <<TakeRouter, Answered(c)>> \o <<Done>>
    BY DEF on_media_signal
  <2>2. TakeRouter \in Steps /\ Answered(c) \in Steps /\ Done \in Steps
    BY <1>1
  <2>. HIDE DEF s
  <2>. QED BY ONLY <1>2, <2>1, <2>2
<1>. HIDE DEF s
<1>4. About(s) /\ Ordered(s, FALSE) /\ \A i \in DOMAIN s : s[i].step \notin OfOne
  BY <1>1, <1>3 DEF About, Ordered, OfOne, OfMain
<1>5. GivesBack(s, TRUE)
  BY <1>1, <1>3 DEF GivesBack
<1>. QED BY <1>3, <1>4, <1>5 DEF Program, s

(* A thread that holds nothing starts on what it has to do.                *)
LEMMA BeginsKeeps ==
  ASSUME SignalingServerAssumption, IInv, NEW t \in Threads, NEW s \in Seq(Steps),
         doing' = [doing EXCEPT ![t] = s], \A l \in Locks : owner[l] # t,
         t \notin {Main, Listener}, \A c \in Connections : t # MediaOf(c),
         About(s), GivesBack(s, TRUE), \A i \in DOMAIN s : s[i].step \notin OfOne,
         running' = running,
         \/ owner' = [owner EXCEPT !["server"] = t] /\ Ordered(s, FALSE)
         \/ owner' = [owner EXCEPT !["router"] = t] /\ Ordered(s, TRUE)
  PROVE  /\ Owned' /\ (\A u \in Threads : Sane(u)') /\ doing' \in [Threads -> Seq(Steps)]
         /\ owner' \in [Locks -> Threads \cup {Free}]
         /\ doing'[Listener] = doing[Listener] /\ Pending' = Pending
<1>. USE LocksApart, Apart
<1>1. Shape /\ Owned /\ \A u \in Threads : Sane(u)
  BY DEF IInv
<1>2. /\ doing' \in [Threads -> Seq(Steps)] /\ doing'[t] = s
      /\ \A u \in Threads \ {t} : doing'[u] = doing[u]
  BY <1>1 DEF Shape
<1>3. doing'[Listener] = doing[Listener] /\ doing'[Main] = doing[Main]
  BY <1>2
<1>4. /\ owner' \in [Locks -> Threads \cup {Free}]
      /\ \A c \in Connections : owner'[c] = owner[c]
      /\ \A l \in Locks : owner'[l] \in {owner[l], t}
      /\ (owner'["server"] = t /\ owner'["router"] = owner["router"]) \/ owner'["router"] = t
  BY <1>1 DEF Shape
<1>5. ASSUME NEW u \in Threads, u # t PROVE Sane(u)'
  BY <1>1, <1>2, <1>4, <1>5, SaneStays
<1>6. Sane(t)'
  <2>1. GivesBack(s, Holds(t)')
    <3>1. \E i \in DOMAIN s : s[i].step = "done"
      BY DEF GivesBack
    <3>. QED BY <3>1 DEF GivesBack
  <2>2. Ordered(s, owner'["router"] = t)
    <3>1. CASE owner' = [owner EXCEPT !["server"] = t] /\ Ordered(s, FALSE)
      <4>1. owner'["router"] # t
        BY <1>1, <3>1 DEF Shape
      <4>. QED BY <3>1, <4>1 DEF Ordered
    <3>2. CASE owner' = [owner EXCEPT !["router"] = t] /\ Ordered(s, TRUE)
      <4>1. owner'["router"] = t
        BY <1>1, <3>2 DEF Shape
      <4>. QED BY <3>2, <4>1 DEF Ordered
    <3>. QED BY <3>1, <3>2
  <2>. QED BY <1>2, <2>1, <2>2 DEF Sane
<1>7. Owned'
  <2>1. \A c \in Connections : doing'[MediaOf(c)] = doing[MediaOf(c)]
    BY <1>2
  <2>2. \A c \in Connections :
          IF owner'[c] = Free THEN doing'[MediaOf(c)] = <<>>
          ELSE owner'[c] = MediaOf(c) /\ doing'[MediaOf(c)] = <<Done>>
    BY <1>1, <1>4, <2>1 DEF Owned
  <2>3. \A l \in {"server", "router"} : \A c \in Connections : owner'[l] # MediaOf(c)
    BY <1>1, <1>4 DEF Owned
  <2>4. \A l \in Locks : owner'[l] # Listener
    BY <1>1, <1>4 DEF Owned
  <2>5. \A l \in Locks : owner'[l] = Main => l = "server" /\ AtStep(Main, "await")'
    <3>1. \A l \in Locks : owner'[l] = Main => owner[l] = Main
      BY <1>4
    <3>. QED BY <1>1, <1>3, <3>1 DEF Owned, AtStep
  <2>6. ASSUME NEW u \in Threads, NEW i \in DOMAIN doing'[u]
        PROVE  Whose(u, doing'[u][i].step)
    <3>1. CASE u = t
      BY <1>2, <2>6, <3>1 DEF Whose, OfOne, OfMain
    <3>2. CASE u # t
      BY <1>1, <1>2, <2>6, <3>2 DEF Owned
    <3>. QED BY <3>1, <3>2
  <2>7. doing'[Main] # <<>> => ~running'
    BY <1>1, <1>3 DEF Owned
  <2>. QED BY <2>2, <2>3, <2>4, <2>5, <2>6, <2>7 DEF Owned
<1>8. Pending' = Pending
  BY <1>3, PendingStays
<1>. QED BY <1>2, <1>3, <1>4, <1>5, <1>6, <1>7, <1>8

(* A handler starts, under the server's mutex.                             *)
LEMMA HandlesKeeps ==
  ASSUME SignalingServerAssumption, IInv, NEW c \in Connections, NEW what, NEW steps,
         Handles(c, what, steps), Program(steps \o <<Done>>)
  PROVE  /\ Owned' /\ (\A u \in Threads : Sane(u)') /\ doing' \in [Threads -> Seq(Steps)]
         /\ owner' \in [Locks -> Threads \cup {Free}]
         /\ InHand' /\ Pending' = Pending
<1>1. /\ SocketOf(c) \in Threads /\ SocketOf(c) \notin {Main, Listener}
      /\ \A d \in Connections : SocketOf(c) # MediaOf(d)
  BY Apart
<1>2. /\ doing[SocketOf(c)] = <<>>
      /\ doing' = [doing EXCEPT ![SocketOf(c)] = steps \o <<Done>>]
      /\ running' = running /\ socket' = socket
      /\ owner' = [owner EXCEPT !["server"] = SocketOf(c)]
  BY DEF Handles, Begins
<1>3. \A l \in Locks : owner[l] # SocketOf(c)
  BY <1>1, <1>2, IdleHoldsNothing DEF IInv
<1>4. /\ Owned' /\ (\A u \in Threads : Sane(u)') /\ doing' \in [Threads -> Seq(Steps)]
      /\ owner' \in [Locks -> Threads \cup {Free}]
      /\ doing'[Listener] = doing[Listener] /\ Pending' = Pending
  BY <1>1, <1>2, <1>3, BeginsKeeps DEF Program
<1>5. InHand'
  BY <1>2, <1>4, InHandStays DEF IInv
<1>. QED BY <1>4, <1>5

(* The callback that has run is off the list of the socket's.              *)
LEMMA HandlesHears ==
  ASSUME Shape, NEW c \in Connections, NEW what, NEW steps, Handles(c, what, steps),
         Pending' = Pending, \A d \in Connections : Hears(d),
         \A d \in Connections \ {c} : (d \in connections') = (d \in connections)
                                       /\ (d \in sockets') = (d \in sockets),
         \/ /\ what # "closed" /\ c \in connections' /\ (c \in sockets') = (c \in sockets)
            /\ what = "opened" \/ c \in connections
         \/ what = "closed" /\ c \notin connections'
  PROVE  /\ \A d \in Connections : Hears(d)'
         /\ heard' \in [Connections -> Seq(Callbacks)]
<1>1. /\ heard[c] # <<>> /\ Head(heard[c]) = what /\
           heard' = [heard EXCEPT ![c] = Tail(heard[c])]
      /\ UNCHANGED <<running, socket>>
  BY DEF Handles
<1>2. heard[c] \in Seq(Callbacks)
  BY DEF Shape
<1>3. /\ Tail(heard[c]) \in Seq(Callbacks) /\ Len(Tail(heard[c])) = Len(heard[c]) - 1
      /\ Len(heard[c]) >= 1 /\ Head(heard[c]) = heard[c][1]
      /\ \A i \in 1 .. Len(heard[c]) - 1 : Tail(heard[c])[i] = heard[c][i + 1]
  BY <1>1, <1>2, TailsAre
<1>4. Len(heard[c]) \in Nat /\ DOMAIN heard[c] = 1 .. Len(heard[c])
      /\ DOMAIN Tail(heard[c]) = 1 .. Len(heard[c]) - 1
  BY <1>2, <1>3
<1>5. ASSUME NEW d \in Connections, d # c PROVE Hears(d)'
  <2>1. heard'[d] = heard[d]
    BY <1>1, <1>5 DEF Shape
  <2>2. /\ socket'[d] = socket[d] /\ (d \in connections') = (d \in connections)
        /\ (d \in sockets') = (d \in sockets)
    BY <1>1, <1>5
  <2>. QED BY <1>1, <2>1, <2>2, HearsStays
<1>6. heard'[c] = Tail(heard[c]) /\ socket'[c] = socket[c]
  BY <1>1 DEF Shape
<1>7. ASSUME NEW i \in DOMAIN Tail(heard[c])
      PROVE  /\ Tail(heard[c])[i] # "opened"
             /\ Tail(heard[c])[i] = "closed" => i = Len(Tail(heard[c])) /\ socket[c] = "closed"
  <2>1. i + 1 \in DOMAIN heard[c] /\ Tail(heard[c])[i] = heard[c][i + 1] /\ i \in Nat /\ i >= 1
    BY <1>3, <1>4
  <2>. QED BY <1>3, <1>4, <2>1 DEF Hears
<1>8. heard'[c] # <<>> => Head(heard'[c]) # "opened"
  <2>1. Tail(heard[c]) # <<>> =>
          Head(Tail(heard[c])) = Tail(heard[c])[1] /\ 1 \in DOMAIN Tail(heard[c])
    BY <1>3
  <2>. QED BY <1>6, <1>7, <2>1
<1>9. socket[c] # "none"
  BY <1>1 DEF Hears
<1>10. CASE /\ what # "closed" /\ c \in connections' /\ (c \in sockets') = (c \in sockets)
            /\ what = "opened" \/ c \in connections
  <2>1. c \in sockets \cup Pending \/ socket[c] = "closed"
    BY <1>1, <1>10 DEF Hears
  <2>2. Hears(c)'
    BY <1>6, <1>7, <1>8, <1>9, <1>10, <2>1 DEF Hears
  <2>. QED BY <1>1, <1>3, <1>5, <2>2 DEF Shape
<1>11. CASE what = "closed" /\ c \notin connections'
  <2>1. 1 \in DOMAIN heard[c] /\ heard[c][1] = "closed"
    BY <1>1, <1>3, <1>4, <1>11
  <2>2. 1 = Len(heard[c]) /\ socket[c] = "closed"
    BY <2>1 DEF Hears
  <2>3. heard'[c] = <<>>
    <3>1. \A q \in Seq(Callbacks) : Len(q) = 0 => q = <<>>
      OBVIOUS
    <3>2. Tail(heard[c]) \in Seq(Callbacks) /\ Len(Tail(heard[c])) = 0
      BY <1>3, <2>2
    <3>3. Tail(heard[c]) = <<>>
      BY <3>1, <3>2
    <3>. QED BY <1>6, <3>3
  <2>4. socket'[c] = "closed" /\ c \notin connections'
    BY <1>6, <1>11, <2>2
  <2>5. Hears(c)'
    BY <2>3, <2>4 DEF Hears
  <2>. QED BY <1>1, <1>3, <1>5, <2>5 DEF Shape
<1>. QED BY <1>10, <1>11

(* A socket opens.                                                         *)
LEMMA on_connectKeeps ==
  ASSUME SignalingServerAssumption, IInv, NEW c \in Connections, on_connect(c)
  PROVE  IInv'
<1>1. /\ Handles(c, "opened", <<>>) /\ connections' = connections \cup {c}
      /\ UNCHANGED <<sockets, inside, media, running, socket, events, tasks>>
  BY DEF on_connect, Handles
<1>2. Program(<<>> \o <<Done>>)
  <2>1. <<>> \o <<Done>> = <<Done>>
    OBVIOUS
  <2>. QED BY <2>1, JustDone
<1>3. Shape /\ \A d \in Connections : Hears(d)
  BY DEF IInv
<1>4. /\ Owned' /\ (\A u \in Threads : Sane(u)') /\ doing' \in [Threads -> Seq(Steps)]
      /\ owner' \in [Locks -> Threads \cup {Free}]
      /\ InHand' /\ Pending' = Pending
  BY <1>1, <1>2, HandlesKeeps
<1>5. (\A d \in Connections : Hears(d)') /\ heard' \in [Connections -> Seq(Callbacks)]
  BY <1>1, <1>3, <1>4, HandlesHears
<1>6. Shape'
  BY <1>1, <1>3, <1>4, <1>5 DEF Shape
<1>. QED BY <1>1, <1>4, <1>5, <1>6 DEF IInv

(* Somebody joins the room.                                                *)
LEMMA handle_join_roomKeeps ==
  ASSUME SignalingServerAssumption, IInv, NEW c \in Connections, handle_join_room(c)
  PROVE  IInv'
<1>. DEFINE steps == IF c \in inside THEN <<>> ELSE on_participant_joined(c)
<1>1. /\ Handles(c, "join_room", steps)
      /\ inside' = inside \cup {c} /\ media' = media \cup {c}
      /\ UNCHANGED <<sockets, connections, running, socket, events, tasks>>
  BY DEF handle_join_room, Handles
<1>2. Shape /\ \A d \in Connections : Hears(d)
  BY DEF IInv
<1>3. Program(steps \o <<Done>>)
  <2>1. <<>> \o <<Done>> = <<Done>>
    OBVIOUS
  <2>. QED BY <1>2, <2>1, JustDone, JoinedIs
<1>. HIDE DEF steps
<1>4. /\ Owned' /\ (\A u \in Threads : Sane(u)') /\ doing' \in [Threads -> Seq(Steps)]
      /\ owner' \in [Locks -> Threads \cup {Free}]
      /\ InHand' /\ Pending' = Pending
  BY <1>1, <1>3, HandlesKeeps
<1>5. c \in connections
  <2>1. heard[c] # <<>> /\ Head(heard[c]) = "join_room"
    BY <1>1 DEF Handles
  <2>. QED BY <1>2, <2>1 DEF Hears
<1>6. (\A d \in Connections : Hears(d)') /\ heard' \in [Connections -> Seq(Callbacks)]
  BY <1>1, <1>2, <1>5, <1>4, HandlesHears
<1>7. Shape'
  BY <1>1, <1>2, <1>4, <1>6 DEF Shape
<1>. QED BY <1>1, <1>4, <1>5, <1>6, <1>7 DEF IInv

(* Somebody leaves it.                                                     *)
LEMMA handle_leave_roomKeeps ==
  ASSUME SignalingServerAssumption, IInv, NEW c \in Connections, handle_leave_room(c)
  PROVE  IInv'
<1>. DEFINE steps == IF c \in inside THEN on_participant_left(c) ELSE <<>>
<1>1. /\ Handles(c, "leave_room", steps) /\ inside' = inside \ {c}
      /\ UNCHANGED <<sockets, connections, media, running, socket, events, tasks>>
  BY DEF handle_leave_room, Handles
<1>2. Shape /\ \A d \in Connections : Hears(d)
  BY DEF IInv
<1>3. Program(steps \o <<Done>>)
  <2>1. <<>> \o <<Done>> = <<Done>>
    OBVIOUS
  <2>. QED BY <1>2, <2>1, JustDone, GoesIs
<1>. HIDE DEF steps
<1>4. /\ Owned' /\ (\A u \in Threads : Sane(u)') /\ doing' \in [Threads -> Seq(Steps)]
      /\ owner' \in [Locks -> Threads \cup {Free}]
      /\ InHand' /\ Pending' = Pending
  BY <1>1, <1>3, HandlesKeeps
<1>5. c \in connections
  <2>1. heard[c] # <<>> /\ Head(heard[c]) = "leave_room"
    BY <1>1 DEF Handles
  <2>. QED BY <1>2, <2>1 DEF Hears
<1>6. (\A d \in Connections : Hears(d)') /\ heard' \in [Connections -> Seq(Callbacks)]
  BY <1>1, <1>2, <1>5, <1>4, HandlesHears
<1>7. Shape'
  BY <1>1, <1>2, <1>4, <1>6 DEF Shape
<1>. QED BY <1>1, <1>4, <1>6, <1>7 DEF IInv

(* Somebody answers an offer.                                              *)
LEMMA handle_relayKeeps ==
  ASSUME SignalingServerAssumption, IInv, NEW c \in Connections, handle_relay(c)
  PROVE  IInv'
<1>. DEFINE steps == IF c \in inside THEN on_media_signal(c) ELSE <<>>
<1>1. /\ Handles(c, "answer", steps)
      /\ UNCHANGED <<sockets, connections, inside, media, running, socket, events, tasks>>
  BY DEF handle_relay, Handles
<1>2. Shape /\ \A d \in Connections : Hears(d)
  BY DEF IInv
<1>3. Program(steps \o <<Done>>)
  <2>1. <<>> \o <<Done>> = <<Done>>
    OBVIOUS
  <2>. QED BY <1>2, <2>1, JustDone, AnswerIs
<1>. HIDE DEF steps
<1>4. /\ Owned' /\ (\A u \in Threads : Sane(u)') /\ doing' \in [Threads -> Seq(Steps)]
      /\ owner' \in [Locks -> Threads \cup {Free}]
      /\ InHand' /\ Pending' = Pending
  BY <1>1, <1>3, HandlesKeeps
<1>5. c \in connections
  <2>1. heard[c] # <<>> /\ Head(heard[c]) = "answer"
    BY <1>1 DEF Handles
  <2>. QED BY <1>2, <2>1 DEF Hears
<1>6. (\A d \in Connections : Hears(d)') /\ heard' \in [Connections -> Seq(Callbacks)]
  BY <1>1, <1>2, <1>5, <1>4, HandlesHears
<1>7. Shape'
  BY <1>1, <1>2, <1>4, <1>6 DEF Shape
<1>. QED BY <1>1, <1>4, <1>6, <1>7 DEF IInv

(* A socket has closed.                                                    *)
LEMMA on_disconnectKeeps ==
  ASSUME SignalingServerAssumption, IInv, NEW c \in Connections, on_disconnect(c)
  PROVE  IInv'
<1>. DEFINE steps == IF c \in inside THEN on_participant_left(c) ELSE <<>>
<1>1. /\ Handles(c, "closed", steps) /\ inside' = inside \ {c}
      /\ connections' = connections \ {c} /\ sockets' = sockets \ {c}
      /\ UNCHANGED <<media, running, socket, events, tasks>>
  BY DEF on_disconnect, Handles
<1>2. Shape /\ \A d \in Connections : Hears(d)
  BY DEF IInv
<1>3. Program(steps \o <<Done>>)
  <2>1. <<>> \o <<Done>> = <<Done>>
    OBVIOUS
  <2>. QED BY <1>2, <2>1, JustDone, GoesIs
<1>. HIDE DEF steps
<1>4. /\ Owned' /\ (\A u \in Threads : Sane(u)') /\ doing' \in [Threads -> Seq(Steps)]
      /\ owner' \in [Locks -> Threads \cup {Free}]
      /\ InHand' /\ Pending' = Pending
  BY <1>1, <1>3, HandlesKeeps
<1>5. (\A d \in Connections : Hears(d)') /\ heard' \in [Connections -> Seq(Callbacks)]
  BY <1>1, <1>2, <1>4, HandlesHears
<1>6. Shape'
  BY <1>1, <1>2, <1>4, <1>5 DEF Shape
<1>. QED BY <1>1, <1>4, <1>5, <1>6 DEF IInv

(* Somebody is put out of the room.                                        *)
LEMMA LeavesRoomKeeps ==
  ASSUME SignalingServerAssumption, IInv, NEW t \in Threads, LeavesRoom(t)
  PROVE  IInv'
<1>. USE LocksApart, Apart
<1>1. /\ doing[t] # <<>> /\ Head(doing[t]).step = "put_out" /\ inside' = inside \ {Of(t)}
      /\ doing' = [doing EXCEPT ![t] = on_participant_left(Of(t)) \o Tail(doing[t])]
      /\ UNCHANGED <<running, network, sockets, connections, media, tasks, owner>>
  BY DEF LeavesRoom, AtStep, GoesOn
<1>2. Shape /\ Owned /\ InHand /\ (\A u \in Threads : Sane(u)) /\ \A c \in Connections : Hears(c)
  BY DEF IInv
<1>3. /\ Of(t) \in Connections /\ t # Main /\ t # Listener
      /\ \A c \in Connections : t # MediaOf(c)
  <2>1. Whose(t, "put_out")
    BY <1>1, <1>2, NextIsWhose
  <2>. QED BY <1>1, <1>2, <2>1, OfIsSomebody, NotListener, NotMedia DEF Whose, OfMain
<1>. DEFINE s == doing[t]  rest == Tail(doing[t])
<1>4. /\ s \in Seq(Steps) /\ rest \in Seq(Steps) /\ Len(rest) = Len(s) - 1 /\ Len(s) >= 1
      /\ s[1].step = "put_out" /\ \A i \in 1 .. Len(s) - 1 : rest[i] = s[i + 1]
  BY <1>1, <1>2, TailsAre DEF Shape
<1>5. About(s) /\ Ordered(s, owner["router"] = t) /\ GivesBack(s, Holds(t))
  BY <1>2 DEF Sane
<1>6. Len(s) \in Nat /\ DOMAIN s = 1 .. Len(s) /\ DOMAIN rest = 1 .. Len(s) - 1
  BY <1>4
<1>7. \A i \in DOMAIN s : s[i].step \notin OfOne
  <2>1. 1 \in DOMAIN s
    BY <1>4, <1>6
  <2>2. \E k \in DOMAIN s : s[k].step = "done"
    BY <1>4, <1>5, <2>1 DEF GivesBack
  <2>3. \A i \in DOMAIN s : s[i].step # "tick"
    BY <1>5, <2>2 DEF GivesBack
  <2>4. \A i \in DOMAIN s : Whose(t, s[i].step)
    BY <1>2 DEF Owned
  <2>. QED BY <1>3, <2>3, <2>4 DEF Whose, OfOne
<1>. HIDE DEF s, rest
<1>8. owner["router"] # t
  <2>1. 1 \in DOMAIN s
    BY <1>4, <1>6
  <2>. QED BY <1>4, <1>5, <2>1 DEF Ordered
<1>9. /\ About(rest) /\ \A i \in DOMAIN rest : rest[i].step \notin {"take"} \cup OfOne
  <2>1. ASSUME NEW i \in DOMAIN rest
        PROVE  i + 1 \in DOMAIN s /\ rest[i] = s[i + 1] /\ i + 1 # 1
    BY <1>4, <1>6
  <2>. QED BY <1>5, <1>7, <2>1 DEF About, Ordered
<1>10. GivesBack(rest, Holds(t)) /\ \E i \in DOMAIN rest : rest[i].step = "done"
  <2>1. s # <<>>
    BY <1>4, <1>6
  <2>. DEFINE holds == Holds(t)
  <2>2. GivesBack(s, holds)
    BY <1>5
  <2>3. 1 \in DOMAIN s
    BY <1>4, <1>6
  <2>4. PICK k \in DOMAIN s : s[k].step = "done"
    BY <1>4, <2>2, <2>3 DEF GivesBack
  <2>5. k - 1 \in DOMAIN rest /\ rest[k - 1] = s[k]
    <3>1. k # 1
      BY <1>4, <2>4
    <3>. QED BY <1>4, <1>6, <3>1
  <2>. HIDE DEF holds
  <2>6. GivesBack(s, FALSE)
    BY <2>2 DEF GivesBack
  <2>7. Tail(s) = rest
    BY DEF s, rest
  <2>8. GivesBack(rest, FALSE)
    BY <1>4, <2>1, <2>6, <2>7, GivesBackTail
  <2>. QED BY <2>4, <2>5, <2>8 DEF GivesBack
<1>11. GivesBack(rest, TRUE)
  BY <1>10 DEF GivesBack
<1>. DEFINE next == on_participant_left(Of(t)) \o rest
<1>12. /\ next \in Seq(Steps) /\ About(next) /\ Ordered(next, FALSE) /\ GivesBack(next, TRUE)
       /\ \A i \in DOMAIN next : next[i].step \notin OfOne
  BY <1>2, <1>3, <1>4, <1>9, <1>10, <1>11, LeftIs
<1>. HIDE DEF next
<1>13. doing' = [doing EXCEPT ![t] = next]
  BY <1>1 DEF next, rest
<1>14. /\ doing' \in [Threads -> Seq(Steps)] /\ doing'[t] = next
       /\ \A u \in Threads \ {t} : doing'[u] = doing[u]
  BY <1>2, <1>12, <1>13 DEF Shape
<1>15. ASSUME NEW u \in Threads PROVE Sane(u)'
  <2>1. CASE u = t
    <3>1. Ordered(next, owner'["router"] = t)
      BY <1>1, <1>8, <1>12 DEF Ordered
    <3>2. GivesBack(next, Holds(t)')
      <4>1. \E i \in DOMAIN next : next[i].step = "done"
        BY <1>12 DEF GivesBack
      <4>. QED BY <1>12, <4>1 DEF GivesBack
    <3>. QED BY <1>12, <1>14, <2>1, <3>1, <3>2 DEF Sane
  <2>2. CASE u # t
    BY <1>1, <1>2, <1>14, <2>2, SaneStays
  <2>. QED BY <2>1, <2>2
<1>16. Owned'
  <2>1. \A c \in Connections : doing'[MediaOf(c)] = doing[MediaOf(c)]
    BY <1>3, <1>14
  <2>2. doing'[Main] = doing[Main]
    BY <1>3, <1>14
  <2>3. ASSUME NEW u \in Threads, NEW i \in DOMAIN doing'[u]
        PROVE  Whose(u, doing'[u][i].step)
    <3>1. CASE u = t
      BY <1>3, <1>12, <1>14, <2>3, <3>1 DEF Whose, OfOne, OfMain
    <3>2. CASE u # t
      BY <1>2, <1>14, <2>3, <3>2 DEF Owned
    <3>. QED BY <3>1, <3>2
  <2>. QED BY <1>1, <1>2, <2>1, <2>2, <2>3 DEF Owned, AtStep
<1>17. (\A c \in Connections : Hears(c)') /\ InHand'
  <2>1. Pending' = Pending
    BY <1>3, <1>14, PendingStays
  <2>2. \A c \in Connections : Hears(c)'
    BY <1>1, <1>2, <2>1, HearsStays DEF network
  <2>3. InHand'
    BY <1>1, <1>2, <1>3, <1>14, InHandStays DEF network
  <2>. QED BY <2>2, <2>3
<1>18. Shape'
  BY <1>1, <1>2, <1>14 DEF Shape, network
<1>. QED BY <1>1, <1>15, <1>16, <1>17, <1>18 DEF IInv

(* The router's worker does a task.                                        *)
LEMMA worker_loopKeeps ==
  ASSUME SignalingServerAssumption, IInv, worker_loop
  PROVE  IInv'
<1>. USE LocksApart, Apart
<1>1. /\ tasks # <<>> /\ tasks' = Tail(tasks)
      /\ UNCHANGED <<running, network, sockets, hub>>
  BY DEF worker_loop
<1>2. Shape /\ Owned /\ InHand /\ (\A u \in Threads : Sane(u)) /\ \A c \in Connections : Hears(c)
  BY DEF IInv
<1>. DEFINE T == [step : {"offer", "look_again"}, of : Connections]
<1>3. Tail(tasks) \in Seq(T) /\ Head(tasks) \in T
  <2>1. tasks \in Seq(T)
    BY <1>2 DEF Shape
  <2>. HIDE DEF T
  <2>. QED BY <1>1, <2>1, TailsAre
<1>4. ASSUME Pending' = Pending, doing'[Listener] = doing[Listener]
      PROVE  (\A c \in Connections : Hears(c)') /\ InHand'
  <2>1. \A c \in Connections : Hears(c)'
    BY <1>1, <1>2, <1>4, HearsStays DEF network, hub
  <2>2. InHand'
    BY <1>1, <1>2, <1>4, InHandStays DEF network
  <2>. QED BY <2>1, <2>2
<1>5. ASSUME UNCHANGED <<owner, doing>> PROVE IInv'
  <2>1. \A u \in Threads : Sane(u)'
    BY <1>2, <1>5, SaneStays
  <2>2. Owned'
    BY <1>1, <1>2, <1>5 DEF Owned, AtStep
  <2>3. Shape'
    BY <1>1, <1>2, <1>3, <1>5 DEF Shape, network, hub
  <2>4. Pending' = Pending
    BY <1>5, PendingStays
  <2>. QED BY <1>1, <1>4, <1>5, <2>1, <2>2, <2>3, <2>4 DEF IInv, hub
<1>6. ASSUME NEW owed \in SUBSET Connections, Begins(Worker, ForEach(owed, Call) \o <<Done>>),
             owner' = [owner EXCEPT !["router"] = Worker]
      PROVE  IInv'
  <2>. DEFINE calls == ForEach(owed, Call)  s == calls \o <<Done>>  n == Len(calls)
  <2>1. /\ calls \in Seq(Steps)
        /\ \A i \in DOMAIN calls : calls[i].step = "call" /\ calls[i].of \in Connections
    BY CallsAre
  <2>. HIDE DEF calls
  <2>2. Done \in Steps /\ Done.step = "done" /\ n \in Nat /\ DOMAIN calls = 1 .. n
    BY <2>1 DEF Done, Step, Steps, Kinds
  <2>3. /\ s \in Seq(Steps) /\ DOMAIN s = 1 .. n + 1 /\ s[n + 1] = Done
        /\ \A i \in 1 .. n : s[i] = calls[i]
    BY <2>1, <2>2
  <2>. HIDE DEF s, n
  <2>4. \A i \in DOMAIN s :
          \/ i = n + 1 /\ s[i].step = "done"
          \/ s[i].step = "call" /\ s[i].of \in Connections
    BY <2>1, <2>2, <2>3
  <2>5. n + 1 \in DOMAIN s
    BY <2>2, <2>3
  <2>6. About(s) /\ Ordered(s, TRUE) /\ GivesBack(s, TRUE) /\
          \A i \in DOMAIN s : s[i].step \notin OfOne
    BY <2>2, <2>3, <2>4, <2>5 DEF About, Ordered, GivesBack, OfOne, OfMain
  <2>7. doing[Worker] = <<>> /\ doing' = [doing EXCEPT ![Worker] = s] /\ running' = running
    BY <1>1, <1>6 DEF s, calls, Begins
  <2>8. /\ Owned' /\ (\A u \in Threads : Sane(u)') /\ doing' \in [Threads -> Seq(Steps)]
        /\ owner' \in [Locks -> Threads \cup {Free}]
        /\ doing'[Listener] = doing[Listener] /\ Pending' = Pending
    <3>1. /\ Worker \in Threads /\ Worker \notin {Main, Listener}
          /\ \A c \in Connections : Worker # MediaOf(c)
      OBVIOUS
    <3>2. \A l \in Locks : owner[l] # Worker
      BY <1>2, <2>7, <3>1, IdleHoldsNothing
    <3>. QED BY <1>6, <2>3, <2>6, <2>7, <3>1, <3>2, BeginsKeeps
  <2>9. Shape'
    BY <1>1, <1>2, <1>3, <2>8 DEF Shape, network, hub
  <2>. QED BY <1>1, <1>4, <2>8, <2>9 DEF IInv, hub
<1>7. CASE UNCHANGED <<owner, doing>>
  BY <1>5, <1>7
<1>8. CASE \E owed \in {{}, {Head(tasks).of} \cap inside} :
             /\ Begins(Worker, ForEach(owed, Call) \o <<Done>>)
             /\ owner' = [owner EXCEPT !["router"] = Worker]
  <2>1. {{}, {Head(tasks).of} \cap inside} \subseteq SUBSET Connections
    BY <1>2 DEF Shape
  <2>. QED BY <1>6, <1>8, <2>1
<1>. QED BY <1>7, <1>8 DEF worker_loop

(* A peer connection calls back.                                           *)
LEMMA CalledBackKeeps ==
  ASSUME SignalingServerAssumption, IInv, NEW c \in Connections, CalledBack(c)
  PROVE  IInv'
<1>. USE LocksApart, Apart
<1>1. /\ owner[c] = Free /\ events < MaxEvents /\ events' = events + 1
      /\ owner' = [owner EXCEPT ![c] = MediaOf(c)]
      /\ tasks' = Append(tasks, Step("offer", c))
      /\ doing[MediaOf(c)] = <<>> /\ doing' = [doing EXCEPT ![MediaOf(c)] = <<Done>>]
      /\ UNCHANGED <<running, socket, heard, sockets, hub>>
  BY DEF CalledBack, Begins
<1>2. Shape /\ Owned /\ InHand /\ (\A u \in Threads : Sane(u)) /\ \A d \in Connections : Hears(d)
  BY DEF IInv
<1>3. /\ doing' \in [Threads -> Seq(Steps)] /\ doing'[MediaOf(c)] = <<Done>>
      /\ \A u \in Threads \ {MediaOf(c)} : doing'[u] = doing[u]
  BY <1>1, <1>2, JustDone DEF Shape
<1>4. /\ owner' \in [Locks -> Threads \cup {Free}] /\ owner'[c] = MediaOf(c)
      /\ \A l \in Locks \ {c} : owner'[l] = owner[l]
  BY <1>1, <1>2 DEF Shape
<1>5. ASSUME NEW u \in Threads PROVE Sane(u)'
  <2>1. CASE u = MediaOf(c)
    <3>1. owner'["router"] # u
      BY <1>2, <1>4, <2>1 DEF Owned
    <3>2. /\ About(<<Done>>) /\ Ordered(<<Done>>, FALSE) /\ GivesBack(<<Done>>, TRUE)
          /\ \E i \in DOMAIN <<Done>> : <<Done>>[i].step = "done"
      BY JustDone DEF Program
    <3>3. doing'[u] = <<Done>>
      BY <1>3, <2>1
    <3>4. Ordered(<<Done>>, owner'["router"] = u)
      BY <3>1, <3>2 DEF Ordered
    <3>5. GivesBack(<<Done>>, Holds(u)')
      BY <3>2 DEF GivesBack
    <3>. QED BY <3>2, <3>3, <3>4, <3>5 DEF Sane
  <2>2. CASE u # MediaOf(c)
    <3>1. \A l \in Locks : owner'[l] = u => owner[l] = u
      BY <1>4, <2>2
    <3>. QED BY <1>2, <1>3, <2>2, <3>1, SaneStays
  <2>. QED BY <2>1, <2>2
<1>6. Owned'
  <2>1. ASSUME NEW d \in Connections
        PROVE  IF owner'[d] = Free THEN doing'[MediaOf(d)] = <<>>
               ELSE owner'[d] = MediaOf(d) /\ doing'[MediaOf(d)] = <<Done>>
    <3>1. CASE d = c
      BY <1>3, <1>4, <3>1
    <3>2. CASE d # c
      <4>1. MediaOf(d) # MediaOf(c)
        BY <3>2
      <4>2. owner'[d] = owner[d] /\ doing'[MediaOf(d)] = doing[MediaOf(d)]
        BY <1>3, <1>4, <3>2, <4>1
      <4>. QED BY <1>2, <4>2 DEF Owned
    <3>. QED BY <3>1, <3>2
  <2>2. \A l \in {"server", "router"} : \A d \in Connections : owner'[l] # MediaOf(d)
    BY <1>2, <1>4 DEF Owned
  <2>3. doing'[Main] = doing[Main] /\ \A l \in Locks : owner'[l] # Listener
    BY <1>2, <1>3, <1>4 DEF Owned
  <2>4. \A l \in Locks : owner'[l] = Main => l = "server" /\ AtStep(Main, "await")'
    <3>1. \A l \in Locks : owner'[l] = Main => owner[l] = Main
      BY <1>4
    <3>. QED BY <1>2, <2>3, <3>1 DEF Owned, AtStep
  <2>5. ASSUME NEW u \in Threads, NEW i \in DOMAIN doing'[u]
        PROVE  Whose(u, doing'[u][i].step)
    <3>1. CASE u = MediaOf(c)
      <4>1. doing'[u][i].step = "done" /\ u # Main
        BY <1>3, <2>5, <3>1, JustDone
      <4>. QED BY <4>1 DEF Whose, OfMain
    <3>2. CASE u # MediaOf(c)
      BY <1>2, <1>3, <2>5, <3>2 DEF Owned
    <3>. QED BY <3>1, <3>2
  <2>. QED BY <1>1, <1>2, <2>1, <2>2, <2>3, <2>4, <2>5 DEF Owned
<1>7. (\A d \in Connections : Hears(d)') /\ InHand'
  <2>1. Pending' = Pending
    BY <1>3, PendingStays
  <2>2. \A d \in Connections : Hears(d)'
    BY <1>1, <1>2, <2>1, HearsStays DEF hub
  <2>3. InHand'
    BY <1>1, <1>2, <1>3, InHandStays
  <2>. QED BY <2>2, <2>3
<1>8. tasks' \in Seq([step : {"offer", "look_again"}, of : Connections])
  <2>. DEFINE s == Step("offer", c)  T == [step : {"offer", "look_again"}, of : Connections]
  <2>1. s \in T
    BY DEF Step
  <2>2. tasks \in Seq(T) /\ tasks' = Append(tasks, s)
    BY <1>1, <1>2 DEF Shape
  <2>. HIDE DEF s, T
  <2>3. tasks' \in Seq(T)
    BY <2>1, <2>2
  <2>. QED BY <2>3 DEF T
<1>9. Shape'
  <2>1. events' \in 0 .. MaxEvents
    BY <1>1, <1>2 DEF Shape, SignalingServerAssumption
  <2>. QED BY <1>1, <1>2, <1>3, <1>4, <1>8, <2>1 DEF Shape, hub
<1>. QED BY <1>1, <1>5, <1>6, <1>7, <1>9 DEF IInv, hub

(* The heartbeat.                                                          *)
LEMMA heartbeat_loopKeeps ==
  ASSUME SignalingServerAssumption, IInv, heartbeat_loop
  PROVE  IInv'
<1>. USE LocksApart, Apart
<1>1. PICK gone \in SUBSET inside, timed_out \in SUBSET connections :
        doing' = [doing EXCEPT ![Heartbeat] =
          ForEach(gone, PutOut) \o <<Done>> \o ForEach(timed_out, HangUp)]
  BY DEF heartbeat_loop
<1>2. /\ \/ doing[Heartbeat] = <<>> /\ events < MaxEvents /\ events' = events + 1
         \/ AtStep(Heartbeat, "tick") /\ events' = events
      /\ owner' = [owner EXCEPT !["server"] = Heartbeat]
      /\ UNCHANGED <<running, socket, heard, sockets, hub, tasks>>
  BY DEF heartbeat_loop
<1>3. Shape /\ InHand /\ (\A u \in Threads : Sane(u)) /\ \A c \in Connections : Hears(c)
  BY DEF IInv
<1>. DEFINE first == ForEach(gone, PutOut)  last == ForEach(timed_out, HangUp)
            n == Len(first)  m == Len(last)
            front == first \o <<Done>>  s == front \o last
<1>4. gone \in SUBSET Connections /\ timed_out \in SUBSET Connections
  BY <1>3 DEF Shape
<1>5. /\ first \in Seq(Steps)
      /\ \A i \in DOMAIN first : first[i].step = "put_out" /\ first[i].of \in Connections
      /\ last \in Seq(Steps)
      /\ \A i \in DOMAIN last : last[i].step = "hang_up" /\ last[i].of \in Connections
  BY <1>4, PutOutsAre, HangUpsAre
<1>6. doing' = [doing EXCEPT ![Heartbeat] = s]
  BY <1>1
<1>. HIDE DEF first, last
<1>7. /\ n \in Nat /\ m \in Nat /\ DOMAIN first = 1 .. n /\ DOMAIN last = 1 .. m
      /\ Done \in Steps /\ Done.step = "done"
  BY <1>5 DEF Done, Step, Steps, Kinds
<1>8. /\ front \in Seq(Steps) /\ Len(front) = n + 1 /\ front[n + 1] = Done
      /\ \A i \in 1 .. n : front[i] = first[i]
  BY <1>5, <1>7
<1>. HIDE DEF front
<1>9. /\ s \in Seq(Steps) /\ Len(s) = n + 1 + m /\ DOMAIN s = 1 .. n + 1 + m
      /\ \A i \in 1 .. n + 1 : s[i] = front[i]
      /\ \A i \in n + 2 .. n + 1 + m : s[i] = last[i - (n + 1)]
  <2>1. /\ front \o last \in Seq(Steps) /\ Len(front \o last) = Len(front) + Len(last)
        /\ \A i \in 1 .. Len(front) + Len(last) :
             (front \o last)[i] = IF i <= Len(front) THEN front[i] ELSE last[i - Len(front)]
    <3>1. front \in Seq(Steps) /\ last \in Seq(Steps)
      BY <1>5, <1>8
    <3>. QED BY ONLY <3>1, JoinIs
  <2>2. Len(front) = n + 1 /\ Len(last) = m
    BY <1>8
  <2>3. /\ s \in Seq(Steps) /\ Len(s) = n + 1 + m
        /\ \A i \in 1 .. n + 1 + m : s[i] = IF i <= n + 1 THEN front[i] ELSE last[i - (n + 1)]
    BY <2>1, <2>2
  <2>. HIDE DEF s, n, m
  <2>4. DOMAIN s = 1 .. n + 1 + m
    BY <1>7, <2>3
  <2>5. ASSUME NEW i \in 1 .. n + 1 PROVE s[i] = front[i]
    <3>1. i \in 1 .. n + 1 + m /\ i <= n + 1
      BY <1>7
    <3>. QED BY <2>3, <3>1
  <2>6. ASSUME NEW i \in n + 2 .. n + 1 + m PROVE s[i] = last[i - (n + 1)]
    <3>1. i \in 1 .. n + 1 + m /\ ~(i <= n + 1)
      BY <1>7
    <3>. QED BY <2>3, <3>1
  <2>. QED BY <2>3, <2>4, <2>5, <2>6
<1>. HIDE DEF s, n, m
<1>10. n + 1 \in DOMAIN s /\ s[n + 1].step = "done"
  BY <1>7, <1>8, <1>9
<1>11. \A i \in DOMAIN s :
         \/ i \in 1 .. n /\ s[i].step = "put_out" /\ s[i].of \in Connections
         \/ i = n + 1 /\ s[i].step = "done"
         \/ i \in n + 2 .. n + 1 + m /\ s[i].step = "hang_up" /\ s[i].of \in Connections
  <2>1. \A i \in DOMAIN s : i \in 1 .. n \/ i = n + 1 \/ i \in n + 2 .. n + 1 + m
    BY <1>7, <1>9
  <2>2. \A i \in 1 .. n : i \in 1 .. n + 1 /\ s[i] = first[i]
    BY <1>7, <1>8, <1>9
  <2>3. \A i \in n + 2 .. n + 1 + m : i - (n + 1) \in 1 .. m
    BY <1>7
  <2>4. \A i \in 1 .. n : s[i].step = "put_out" /\ s[i].of \in Connections
    BY <1>5, <1>7, <2>2
  <2>5. \A i \in n + 2 .. n + 1 + m : s[i].step = "hang_up" /\ s[i].of \in Connections
    <3>1. ASSUME NEW i \in n + 2 .. n + 1 + m
            PROVE s[i].step = "hang_up" /\ s[i].of \in Connections
      <4>1. i - (n + 1) \in DOMAIN last /\ s[i] = last[i - (n + 1)]
        BY <1>7, <1>9, <2>3
      <4>. QED BY <1>5, <4>1
    <3>. QED BY <3>1
  <2>. QED BY <1>10, <2>1, <2>4, <2>5
<1>12. About(s) /\ \A i \in DOMAIN s : s[i].step \notin OfOne
  BY <1>11 DEF About, OfOne, OfMain
<1>13. Ordered(s, FALSE)
  <2>1. \A i \in DOMAIN s : s[i].step # "take"
    BY <1>11
  <2>2. 1 \in DOMAIN s
    BY <1>7, <1>9
  <2>. QED BY <2>1, <2>2 DEF Ordered
<1>14. GivesBack(s, TRUE)
  BY <1>7, <1>10, <1>11 DEF GivesBack
<1>15. /\ Owned' /\ (\A u \in Threads : Sane(u)') /\ doing' \in [Threads -> Seq(Steps)]
       /\ owner' \in [Locks -> Threads \cup {Free}]
       /\ doing'[Listener] = doing[Listener] /\ Pending' = Pending
  <2>1. /\ Heartbeat \in Threads /\ Heartbeat \notin {Main, Listener}
        /\ \A c \in Connections : Heartbeat # MediaOf(c)
    OBVIOUS
  <2>2. \A l \in Locks : owner[l] # Heartbeat
    <3>1. CASE doing[Heartbeat] = <<>>
      BY <1>3, <2>1, <3>1, IdleHoldsNothing
    <3>2. CASE AtStep(Heartbeat, "tick")
      BY <1>3, <2>1, <3>2, TickHoldsNothing
    <3>. QED BY <1>2, <3>1, <3>2
  <2>3. running' = running
    BY <1>2
  <2>. QED BY <1>2, <1>6, <1>9, <1>12, <1>13, <1>14, <2>1, <2>2, <2>3, BeginsKeeps
<1>16. (\A c \in Connections : Hears(c)') /\ InHand'
  <2>1. \A c \in Connections : Hears(c)'
    BY <1>2, <1>3, <1>15, HearsStays DEF hub
  <2>2. InHand'
    BY <1>2, <1>3, <1>15, InHandStays
  <2>. QED BY <2>1, <2>2
<1>17. Shape'
  <2>1. events' \in 0 .. MaxEvents
    BY <1>2, <1>3 DEF Shape, SignalingServerAssumption
  <2>. QED BY <1>2, <1>3, <1>15, <2>1 DEF Shape, hub
<1>. QED BY <1>2, <1>15, <1>16, <1>17 DEF IInv, hub

(* The thread that stops the server goes on to what is its own to do, and  *)
(* may have woken the heartbeat.                                           *)
LEMMA MainGoesOn ==
  ASSUME SignalingServerAssumption, IInv, NEW next \in Seq(Steps),
         doing' \in [Threads -> Seq(Steps)], doing'[Main] = next,
         \A u \in Threads \ {Main, Heartbeat} : doing'[u] = doing[u],
         \/ doing'[Heartbeat] = doing[Heartbeat]
         \/ doing[Heartbeat] = <<>> /\ doing'[Heartbeat] = <<Tick>>,
         About(next), \A i \in DOMAIN next : next[i].step \in OfMain \cup {"hang_up"},
         ~running', \A l \in Locks \ {"server"} : owner'[l] = owner[l],
         \/ owner'["server"] = Free
         \/ owner'["server"] \in {Main, owner["server"]} /\ AtStep(Main, "await")'
         \/ owner'["server"] = owner["server"] /\ \A l \in Locks : owner[l] # Main,
         \A l \in Locks : owner[l] = Main => l = "server"
  PROVE  Owned' /\ (\A u \in Threads : Sane(u)') /\ doing'[Listener] = doing[Listener]
<1>. USE LocksApart, Apart
<1>1. Shape /\ Owned /\ \A u \in Threads : Sane(u)
  BY DEF IInv
<1>2. Tick \in Steps /\ Tick.step = "tick" /\ DOMAIN <<Tick>> = {1} /\ <<Tick>>[1] = Tick
  BY DEF Tick, Step, Steps, Kinds
<1>. HIDE DEF Tick
<1>3. doing'[Listener] = doing[Listener]
  OBVIOUS
<1>4. \A l \in Locks : \A u \in Threads \ {Main} : owner'[l] = u => owner[l] = u
  OBVIOUS
<1>5. Sane(Main)'
  <2>1. Ordered(next, owner'["router"] = Main)
    BY DEF Ordered, OfMain
  <2>2. GivesBack(next, Holds(Main)')
    BY DEF GivesBack, Holds, OfMain
  <2>. QED BY <2>1, <2>2 DEF Sane
<1>6. ASSUME NEW u \in Threads, u # Main, doing'[u] = doing[u] PROVE Sane(u)'
  BY <1>1, <1>4, <1>6, SaneStays
<1>7. ASSUME doing[Heartbeat] = <<>>, doing'[Heartbeat] = <<Tick>> PROVE Sane(Heartbeat)'
  <2>1. \A l \in Locks : owner'[l] # Heartbeat
    BY <1>1, <1>4, <1>7, IdleHoldsNothing
  <2>2. About(<<Tick>>) /\ Ordered(<<Tick>>, FALSE) /\ GivesBack(<<Tick>>, FALSE)
    BY <1>2 DEF About, Ordered, GivesBack
  <2>3. (owner'["router"] = Heartbeat) = FALSE /\ Holds(Heartbeat)' = FALSE
    BY <2>1 DEF Holds
  <2>. QED BY <1>7, <2>2, <2>3 DEF Sane
<1>8. \A u \in Threads : Sane(u)'
  BY <1>5, <1>6, <1>7
<1>9. ASSUME NEW u \in Threads, NEW i \in DOMAIN doing'[u]
      PROVE  Whose(u, doing'[u][i].step)
  <2>1. CASE u = Main
    BY <1>9, <2>1 DEF Whose, OfMain
  <2>2. CASE doing'[u] = doing[u]
    BY <1>1, <1>9, <2>2 DEF Owned
  <2>3. CASE u = Heartbeat /\ doing'[Heartbeat] = <<Tick>>
    BY <1>2, <1>9, <2>3 DEF Whose, OfMain
  <2>. QED BY <2>1, <2>2, <2>3
<1>10. Owned'
  <2>1. \A c \in Connections : doing'[MediaOf(c)] = doing[MediaOf(c)] /\ owner'[c] = owner[c]
    OBVIOUS
  <2>2. \A c \in Connections :
          IF owner'[c] = Free THEN doing'[MediaOf(c)] = <<>>
          ELSE owner'[c] = MediaOf(c) /\ doing'[MediaOf(c)] = <<Done>>
    BY <1>1, <2>1 DEF Owned
  <2>3. /\ owner'["server"] \in {Free, Main, owner["server"]}
        /\ \A l \in Locks \ {"server"} : owner'[l] = owner[l]
    OBVIOUS
  <2>4. /\ \A l \in {"server", "router"} : \A c \in Connections : owner'[l] # MediaOf(c)
        /\ \A l \in Locks : owner'[l] # Listener
    BY <1>1, <2>3 DEF Owned
  <2>5. \A l \in Locks : owner'[l] = Main => l = "server" /\ AtStep(Main, "await")'
    OBVIOUS
  <2>. QED BY <1>9, <2>2, <2>4, <2>5 DEF Owned
<1>. QED BY <1>3, <1>8, <1>10

(* The server is stopped.                                                  *)
LEMMA stopKeeps ==
  ASSUME SignalingServerAssumption, IInv, stop
  PROVE  IInv'
<1>. USE LocksApart, Apart
<1>1. Shape /\ Owned /\ InHand /\ \A c \in Connections : Hears(c)
  BY DEF IInv
<1>2. running /\ running' = FALSE /\ UNCHANGED <<network, sockets, hub, tasks, owner>>
  BY DEF stop
<1>3. doing[Main] = <<>> /\ \A l \in Locks : owner[l] # Main
  BY <1>1, <1>2 DEF Owned, AtStep
<1>4. Tick \in Steps /\ Join \in Steps /\ Join.step = "join" /\ \A c \in Connections : Join # HangUp(c)
  BY DEF Tick, Join, HangUp, Step, Steps, Kinds
<1>. HIDE DEF Join, Tick
<1>5. /\ <<Join>> \in Seq(Steps) /\ DOMAIN <<Join>> = {1} /\ <<Join>>[1] = Join
      /\ <<Tick>> \in Seq(Steps) /\ <<>> \o <<Tick>> = <<Tick>>
      /\ \A q \in Seq(Steps) : q \o <<>> = q
  BY <1>4
<1>6. /\ doing' \in [Threads -> Seq(Steps)] /\ doing'[Main] = <<Join>>
      /\ \A u \in Threads \ {Main, Heartbeat} : doing'[u] = doing[u]
      /\ \/ doing'[Heartbeat] = doing[Heartbeat]
         \/ doing[Heartbeat] = <<>> /\ doing'[Heartbeat] = <<Tick>>
  <2>1. /\ doing \in [Threads -> Seq(Steps)] /\ doing[Heartbeat] \in Seq(Steps)
        /\ doing[Heartbeat] \o <<>> = doing[Heartbeat]
    BY <1>1, <1>5 DEF Shape
  <2>2. CASE doing' = Stopping(<<>>)
    BY <1>5, <2>1, <2>2 DEF Stopping
  <2>3. CASE doing[Heartbeat] = <<>> /\ doing' = Stopping(<<Tick>>)
    BY <1>5, <2>1, <2>3 DEF Stopping
  <2>. QED BY <2>2, <2>3 DEF stop
<1>7. Owned' /\ (\A u \in Threads : Sane(u)') /\ doing'[Listener] = doing[Listener]
  <2>1. About(<<Join>>) /\ \A i \in DOMAIN <<Join>> : <<Join>>[i].step \in OfMain
    BY <1>4, <1>5 DEF About, OfMain
  <2>. QED BY <1>2, <1>3, <1>5, <1>6, <2>1, MainGoesOn
<1>8. Pending' = Pending
  BY <1>3, <1>4, <1>5, <1>6 DEF Pending
<1>9. (\A c \in Connections : Hears(c)') /\ InHand'
  <2>1. \A c \in Connections : Hears(c)'
    BY <1>1, <1>2, <1>8, HearsStays DEF network, hub
  <2>2. InHand'
    BY <1>1, <1>2, <1>7, InHandStays DEF network
  <2>. QED BY <2>1, <2>2
<1>10. Shape'
  BY <1>1, <1>2, <1>6 DEF Shape, network, hub
<1>. QED BY <1>2, <1>7, <1>9, <1>10 DEF IInv, hub

(* What the thread that stops the server does, but for what is before it.  *)
LEMMA MainIs ==
  ASSUME Shape, Owned, Sane(Main), NEW first \in Seq(Steps), doing[Main] # <<>>,
         GoesOn(Main, first), About(first),
         \A i \in DOMAIN first : first[i].step \in OfMain \cup {"hang_up"},
         \A c \in Connections : Head(doing[Main]) # HangUp(c)
  PROVE  /\ doing' \in [Threads -> Seq(Steps)] /\ About(doing'[Main])
         /\ \A i \in DOMAIN doing'[Main] : doing'[Main][i].step \in OfMain \cup {"hang_up"}
         /\ \A u \in Threads \ {Main} : doing'[u] = doing[u]
         /\ Pending' = Pending \cup
              {c \in Connections : \E i \in DOMAIN first : first[i] = HangUp(c)}
         /\ first # <<>> => doing'[Main] # <<>> /\ Head(doing'[Main]) = Head(first)
<1>. USE Apart
<1>. DEFINE s == doing[Main]  rest == Tail(s)  next == first \o rest  n == Len(first)
<1>1. /\ s \in Seq(Steps) /\ rest \in Seq(Steps) /\ Len(rest) = Len(s) - 1 /\ Len(s) >= 1
      /\ \A i \in 1 .. Len(s) - 1 : rest[i] = s[i + 1]
      /\ Len(s) \in Nat /\ DOMAIN s = 1 .. Len(s) /\ Head(s) = s[1]
  BY TailsAre DEF Shape
<1>2. \A i \in DOMAIN s : s[i].step \in OfMain \cup {"hang_up"}
  BY DEF Owned, Whose
<1>3. About(s)
  BY DEF Sane
<1>4. doing' = [doing EXCEPT ![Main] = next] /\ doing \in [Threads -> Seq(Steps)]
  BY DEF GoesOn, Shape
<1>5. \A c \in Connections : s[1] # HangUp(c)
  BY <1>1
<1>6. Pending = {c \in Connections : \E i \in DOMAIN s : s[i] = HangUp(c)}
  BY DEF Pending
<1>. HIDE DEF s
<1>7. /\ DOMAIN rest = 1 .. Len(s) - 1 /\ Len(rest) \in Nat
      /\ \A i \in DOMAIN rest : i + 1 \in DOMAIN s /\ rest[i] = s[i + 1]
  BY <1>1
<1>8. \A i \in DOMAIN s : i = 1 \/ (i - 1 \in DOMAIN rest /\ rest[i - 1] = s[i])
  BY <1>1
<1>. HIDE DEF rest
<1>9. \A i \in DOMAIN rest : rest[i].step \in OfMain \cup {"hang_up"}
  BY <1>2, <1>7
<1>10. About(rest)
  BY <1>3, <1>7 DEF About
<1>11. Pending = {c \in Connections : \E i \in DOMAIN rest : rest[i] = HangUp(c)}
  BY <1>5, <1>6, <1>7, <1>8
<1>12. /\ next \in Seq(Steps) /\ Len(next) = n + Len(rest)
       /\ \A i \in 1 .. n + Len(rest) : next[i] = IF i <= n THEN first[i] ELSE rest[i - n]
  <2>1. first \in Seq(Steps) /\ rest \in Seq(Steps)
    BY <1>1
  <2>. QED BY ONLY <2>1, JoinIs
<1>13. n \in Nat /\ DOMAIN first = 1 .. n /\ DOMAIN rest = 1 .. Len(rest)
       /\ DOMAIN next = 1 .. n + Len(rest)
  BY <1>1, <1>12
<1>. HIDE DEF next, n
<1>14. \A i \in DOMAIN next :
         \/ i \in DOMAIN first /\ next[i] = first[i]
         \/ i - n \in DOMAIN rest /\ next[i] = rest[i - n]
  BY <1>7, <1>12, <1>13
<1>15. \A i \in DOMAIN first : i \in DOMAIN next /\ next[i] = first[i]
  BY <1>7, <1>12, <1>13
<1>16. \A i \in DOMAIN rest : i + n \in DOMAIN next /\ next[i + n] = rest[i]
  <2>1. ASSUME NEW i \in DOMAIN rest PROVE i + n \in DOMAIN next /\ next[i + n] = rest[i]
    <3>1. i \in Nat /\ i >= 1 /\ i <= Len(rest) /\ i + n \in 1 .. n + Len(rest) /\ ~(i + n <= n)
          /\ (i + n) - n = i
      BY <1>7, <1>13
    <3>. QED BY <1>12, <1>13, <3>1
  <2>. QED BY <2>1
<1>17. doing' \in [Threads -> Seq(Steps)] /\ doing'[Main] = next
       /\ \A u \in Threads \ {Main} : doing'[u] = doing[u]
  BY <1>4, <1>12
<1>18. About(next)
  BY <1>10, <1>14 DEF About
<1>19. \A i \in DOMAIN next : next[i].step \in OfMain \cup {"hang_up"}
  BY <1>9, <1>14
<1>20. Pending' = {c \in Connections : \E i \in DOMAIN next : next[i] = HangUp(c)}
  BY <1>17 DEF Pending
<1>21. Pending' = Pending \cup
         {c \in Connections : \E i \in DOMAIN first : first[i] = HangUp(c)}
  BY <1>11, <1>14, <1>15, <1>16, <1>20
<1>22. first # <<>> => next # <<>> /\ Head(next) = Head(first)
  <2>1. ASSUME first # <<>> PROVE 1 \in DOMAIN first /\ Head(first) = first[1]
    BY <2>1, TailsAre
  <2>2. ASSUME first # <<>> PROVE 1 \in DOMAIN next /\ next[1] = first[1]
    BY <1>15, <2>1, <2>2
  <2>3. \A q \in Seq(Steps) : 1 \in DOMAIN q => q # <<>> /\ Head(q) = q[1]
    OBVIOUS
  <2>. QED BY <1>12, <2>1, <2>2, <2>3
<1>. QED BY <1>17, <1>18, <1>19, <1>21, <1>22

(* The heartbeat is over, and the mutex taken.                             *)
LEMMA StopsListeningKeeps ==
  ASSUME SignalingServerAssumption, IInv, StopsListening
  PROVE  IInv'
<1>. USE LocksApart, Apart
<1>1. /\ doing[Main] # <<>> /\ Head(doing[Main]).step = "join"
      /\ owner' = [owner EXCEPT !["server"] = Main] /\ GoesOn(Main, <<Await>>)
      /\ UNCHANGED <<running, network, sockets, hub, tasks>>
  BY DEF StopsListening, AtStep
<1>2. Shape /\ Owned /\ InHand /\ (\A u \in Threads : Sane(u)) /\ \A c \in Connections : Hears(c)
  BY DEF IInv
<1>3. Await \in Steps /\ Await.step = "await" /\ \A c \in Connections : Await # HangUp(c)
  BY DEF Await, HangUp, Step, Steps, Kinds
<1>. HIDE DEF Await
<1>4. /\ <<Await>> \in Seq(Steps) /\ DOMAIN <<Await>> = {1} /\ <<Await>>[1] = Await
      /\ <<Await>> # <<>> /\ Head(<<Await>>) = Await
  BY <1>3
<1>5. About(<<Await>>) /\ \A i \in DOMAIN <<Await>> : <<Await>>[i].step \in OfMain
  BY <1>3, <1>4 DEF About, OfMain
<1>6. \A c \in Connections : Head(doing[Main]) # HangUp(c)
  BY <1>1 DEF HangUp, Step
<1>7. /\ doing' \in [Threads -> Seq(Steps)] /\ About(doing'[Main])
      /\ \A i \in DOMAIN doing'[Main] : doing'[Main][i].step \in OfMain \cup {"hang_up"}
      /\ \A u \in Threads \ {Main} : doing'[u] = doing[u]
      /\ Pending' = Pending \cup
           {c \in Connections : \E i \in DOMAIN <<Await>> : <<Await>>[i] = HangUp(c)}
      /\ doing'[Main] # <<>> /\ Head(doing'[Main]) = Await
  BY <1>1, <1>2, <1>4, <1>5, <1>6, MainIs
<1>8. AtStep(Main, "await")' /\ Pending' = Pending
  BY <1>3, <1>4, <1>7 DEF AtStep
<1>9. /\ owner' \in [Locks -> Threads \cup {Free}] /\ owner'["server"] = Main
      /\ \A l \in Locks \ {"server"} : owner'[l] = owner[l]
  BY <1>1, <1>2 DEF Shape
<1>10. Owned' /\ (\A u \in Threads : Sane(u)') /\ doing'[Listener] = doing[Listener]
  <2>1. ~running' /\ \A l \in Locks : owner[l] = Main => l = "server"
    BY <1>1, <1>2 DEF Owned
  <2>2. doing'[Main] \in Seq(Steps) /\ doing'[Heartbeat] = doing[Heartbeat]
    BY <1>7
  <2>. QED BY <1>7, <1>8, <1>9, <2>1, <2>2, MainGoesOn
<1>11. \A c \in Connections : Hears(c)'
  BY <1>1, <1>2, <1>8, HearsStays DEF network, hub
<1>12. InHand'
  BY <1>1, <1>2, <1>10, InHandStays DEF network
<1>13. Shape'
  BY <1>1, <1>2, <1>7, <1>9 DEF Shape, network, hub
<1>. QED BY <1>1, <1>10, <1>11, <1>12, <1>13 DEF IInv, hub

(* Nobody listens any more: the sockets are taken, and the mutex is given  *)
(* back.                                                                   *)
LEMMA SocketsTakenKeeps ==
  ASSUME SignalingServerAssumption, IInv, SocketsTaken
  PROVE  IInv'
<1>. USE LocksApart, Apart
<1>. DEFINE calls == ForEach(sockets, HangUp)  first == calls \o <<Reset>>  n == Len(calls)
<1>1. /\ doing[Main] # <<>> /\ Head(doing[Main]).step = "await" /\ sockets' = {}
      /\ owner' = [owner EXCEPT !["server"] = Free] /\ GoesOn(Main, first)
      /\ UNCHANGED <<running, network, hub, tasks>>
  BY DEF SocketsTaken, AtStep
<1>2. Shape /\ Owned /\ InHand /\ (\A u \in Threads : Sane(u)) /\ \A c \in Connections : Hears(c)
  BY DEF IInv
<1>3. Reset \in Steps /\ Reset.step = "reset" /\ \A c \in Connections : Reset # HangUp(c)
  BY DEF Reset, HangUp, Step, Steps, Kinds
<1>4. sockets \in SUBSET Connections
  BY <1>2 DEF Shape
<1>5. /\ calls \in Seq(Steps)
      /\ \A i \in DOMAIN calls : calls[i].step = "hang_up" /\ calls[i].of \in Connections
      /\ \A c \in sockets : \E i \in DOMAIN calls : calls[i] = HangUp(c)
      /\ \A c \in Connections : \A i \in DOMAIN calls : calls[i] = HangUp(c) => c \in sockets
  BY <1>4, HangUpsAre
<1>. HIDE DEF calls, Reset
<1>6. /\ first \in Seq(Steps) /\ n \in Nat /\ DOMAIN calls = 1 .. n /\ DOMAIN first = 1 .. n + 1
      /\ first[n + 1] = Reset /\ \A i \in 1 .. n : first[i] = calls[i]
  BY <1>3, <1>5
<1>. HIDE DEF first, n
<1>7. \A i \in DOMAIN first : i = n + 1 \/ i \in DOMAIN calls
  BY <1>6
<1>8. About(first) /\ \A i \in DOMAIN first : first[i].step \in OfMain \cup {"hang_up"}
  BY <1>3, <1>5, <1>6, <1>7 DEF About, OfMain
<1>9. sockets = {c \in Connections : \E i \in DOMAIN first : first[i] = HangUp(c)}
  <2>1. \A i \in DOMAIN calls : i \in DOMAIN first
    BY <1>6
  <2>. QED BY <1>3, <1>4, <1>5, <1>6, <1>7, <2>1
<1>10. \A c \in Connections : Head(doing[Main]) # HangUp(c)
  BY <1>1 DEF HangUp, Step
<1>11. /\ doing' \in [Threads -> Seq(Steps)] /\ About(doing'[Main])
       /\ \A i \in DOMAIN doing'[Main] : doing'[Main][i].step \in OfMain \cup {"hang_up"}
       /\ \A u \in Threads \ {Main} : doing'[u] = doing[u]
       /\ Pending' = Pending \cup sockets
  BY <1>1, <1>2, <1>6, <1>8, <1>9, <1>10, MainIs
<1>12. /\ owner' \in [Locks -> Threads \cup {Free}] /\ owner'["server"] = Free
       /\ \A l \in Locks \ {"server"} : owner'[l] = owner[l]
  BY <1>1, <1>2 DEF Shape
<1>13. Owned' /\ (\A u \in Threads : Sane(u)') /\ doing'[Listener] = doing[Listener]
  <2>1. ~running' /\ \A l \in Locks : owner[l] = Main => l = "server"
    BY <1>1, <1>2 DEF Owned
  <2>2. doing'[Main] \in Seq(Steps) /\ doing'[Heartbeat] = doing[Heartbeat]
    BY <1>11
  <2>. QED BY <1>11, <1>12, <2>1, <2>2, MainGoesOn
<1>14. \A c \in Connections : Hears(c)'
  <2>1. sockets' \cup Pending' = sockets \cup Pending
    BY <1>1, <1>11
  <2>. QED BY <1>1, <1>2, <2>1, HearsStays DEF network, hub
<1>15. InHand'
  BY <1>1, <1>2, <1>13, InHandStays DEF network
<1>16. Shape'
  BY <1>1, <1>2, <1>11, <1>12 DEF Shape, network, hub
<1>. QED BY <1>1, <1>13, <1>14, <1>15, <1>16 DEF IInv, hub

(* The server is stopped.                                                  *)
LEMMA StoppedKeeps ==
  ASSUME SignalingServerAssumption, IInv, Stopped
  PROVE  IInv'
<1>1. /\ doing[Main] # <<>> /\ Head(doing[Main]).step = "reset" /\ GoesOn(Main, <<>>)
      /\ UNCHANGED <<running, network, sockets, hub, tasks, owner>>
  BY DEF Stopped, AtStep
<1>2. Shape /\ InHand /\ \A c \in Connections : Hears(c)
  BY DEF IInv
<1>3. /\ Owned' /\ (\A u \in Threads : Sane(u)') /\ doing' \in [Threads -> Seq(Steps)]
      /\ doing'[Listener] = doing[Listener] /\ Pending' = Pending
  <2>1. owner' \in [Locks -> Threads \cup {Free}] /\ Main \in Threads
    BY <1>1, <1>2, Apart DEF Shape
  <2>. QED BY <1>1, <2>1, PopKeeps
<1>4. \A c \in Connections : Hears(c)'
  BY <1>1, <1>2, <1>3, HearsStays DEF network, hub
<1>5. InHand'
  BY <1>1, <1>2, <1>3, InHandStays DEF network
<1>6. Shape'
  BY <1>1, <1>2, <1>3 DEF Shape, network, hub
<1>. QED BY <1>1, <1>3, <1>4, <1>5, <1>6 DEF IInv, hub

(* A connection comes into the hands of the thread that accepts.           *)
LEMMA KnocksKeeps ==
  ASSUME SignalingServerAssumption, IInv, NEW c \in Connections, Knocks(c)
  PROVE  IInv'
<1>. USE LocksApart, Apart
<1>1. /\ socket[c] = "none" /\ doing[Listener] = <<>>
      /\ doing' = [doing EXCEPT ![Listener] = <<Accept(c)>>]
      /\ UNCHANGED <<running, network, sockets, hub, tasks, owner>>
  BY DEF Knocks, Begins
<1>2. Shape /\ Owned /\ (\A u \in Threads : Sane(u)) /\ \A d \in Connections : Hears(d)
  BY DEF IInv
<1>3. Accept(c) \in Steps /\ Accept(c).step = "accept" /\ Accept(c).of = c
  BY DEF Accept, Step, Steps, Kinds
<1>4. /\ <<Accept(c)>> \in Seq(Steps) /\ DOMAIN <<Accept(c)>> = {1}
      /\ <<Accept(c)>>[1] = Accept(c)
  BY <1>3
<1>5. /\ doing' \in [Threads -> Seq(Steps)] /\ doing'[Listener] = <<Accept(c)>>
      /\ \A u \in Threads \ {Listener} : doing'[u] = doing[u]
  BY <1>1, <1>2, <1>4 DEF Shape
<1>6. ASSUME NEW u \in Threads PROVE Sane(u)'
  <2>1. CASE u = Listener
    <3>1. \A l \in Locks : owner'[l] # u
      BY <1>1, <1>2, <2>1 DEF Owned
    <3>. DEFINE s == <<Accept(c)>>
    <3>2. DOMAIN s = {1} /\ s[1].step = "accept" /\ s[1].of \in Connections
      BY <1>3, <1>4
    <3>3. doing'[u] = s
      BY <1>5, <2>1
    <3>. HIDE DEF s
    <3>4. About(s) /\ Ordered(s, FALSE) /\ GivesBack(s, FALSE)
      BY <3>2 DEF About, Ordered, GivesBack
    <3>5. (owner'["router"] = u) = FALSE /\ Holds(u)' = FALSE
      BY <3>1 DEF Holds
    <3>. QED BY <3>3, <3>4, <3>5 DEF Sane
  <2>2. CASE u # Listener
    BY <1>1, <1>2, <1>5, <2>2, SaneStays
  <2>. QED BY <2>1, <2>2
<1>7. Owned'
  <2>1. \A d \in Connections : doing'[MediaOf(d)] = doing[MediaOf(d)]
    BY <1>5
  <2>2. doing'[Main] = doing[Main]
    BY <1>5
  <2>3. ASSUME NEW u \in Threads, NEW i \in DOMAIN doing'[u]
        PROVE  Whose(u, doing'[u][i].step)
    <3>1. CASE u = Listener
      BY <1>3, <1>4, <1>5, <2>3, <3>1 DEF Whose, OfMain
    <3>2. CASE u # Listener
      BY <1>2, <1>5, <2>3, <3>2 DEF Owned
    <3>. QED BY <3>1, <3>2
  <2>. QED BY <1>1, <1>2, <2>1, <2>2, <2>3 DEF Owned, AtStep
<1>8. \A d \in Connections : Hears(d)'
  <2>1. Pending' = Pending
    BY <1>5, PendingStays
  <2>. QED BY <1>1, <1>2, <2>1, HearsStays DEF network, hub
<1>9. InHand'
  BY <1>1, <1>5 DEF InHand, network
<1>10. Shape'
  BY <1>1, <1>2, <1>5 DEF Shape, network, hub
<1>. QED BY <1>1, <1>6, <1>7, <1>8, <1>9, <1>10 DEF IInv, hub

(* The connection it has in hand is accepted.                              *)
LEMMA on_clientKeeps ==
  ASSUME SignalingServerAssumption, IInv, NEW c \in Connections, on_client(c)
  PROVE  IInv'
<1>. USE LocksApart, Apart
<1>1. /\ doing[Listener] # <<>> /\ c = Of(Listener)
      /\ socket' = [socket EXCEPT ![c] = "open"] /\ sockets' = sockets \cup {c}
      /\ heard' = [heard EXCEPT ![c] = <<"opened">>] /\ GoesOn(Listener, <<>>)
      /\ UNCHANGED <<running, hub, tasks, owner, events>>
  BY DEF on_client, AtStep
<1>2. /\ Shape /\ Owned /\ InHand /\ (\A u \in Threads : Sane(u))
      /\ \A d \in Connections : Hears(d)
  BY DEF IInv
<1>3. doing[Listener] = <<Accept(c)>> /\ socket[c] = "none"
  <2>1. PICK d \in Connections : doing[Listener] = <<Accept(d)>> /\ socket[d] = "none"
    BY <1>1, <1>2 DEF InHand
  <2>2. Head(<<Accept(d)>>).of = d
    BY DEF Accept, Step
  <2>3. c = d
    BY <1>1, <2>1, <2>2 DEF Of
  <2>. QED BY <2>1, <2>3
<1>4. /\ doing' \in [Threads -> Seq(Steps)] /\ doing'[Listener] = <<>>
      /\ \A u \in Threads \ {Listener} : doing'[u] = doing[u]
  <2>1. Tail(<<Accept(c)>>) = <<>>
    OBVIOUS
  <2>. QED BY <1>1, <1>2, <1>3, <2>1, Popped
<1>5. ASSUME NEW u \in Threads PROVE Sane(u)'
  <2>1. CASE u = Listener
    <3>1. \A l \in Locks : owner'[l] # u
      BY <1>1, <1>2, <2>1 DEF Owned
    <3>2. About(<<>>) /\ Ordered(<<>>, FALSE) /\ GivesBack(<<>>, FALSE)
      BY DEF About, Ordered, GivesBack
    <3>3. (owner'["router"] = u) = FALSE /\ Holds(u)' = FALSE
      BY <3>1 DEF Holds
    <3>. QED BY <1>4, <2>1, <3>2, <3>3 DEF Sane
  <2>2. CASE u # Listener
    BY <1>1, <1>2, <1>4, <2>2, SaneStays
  <2>. QED BY <2>1, <2>2
<1>6. Owned'
  <2>1. \A d \in Connections : doing'[MediaOf(d)] = doing[MediaOf(d)]
    BY <1>4
  <2>2. doing'[Main] = doing[Main]
    BY <1>4
  <2>3. ASSUME NEW u \in Threads, NEW i \in DOMAIN doing'[u]
        PROVE  Whose(u, doing'[u][i].step)
    <3>1. CASE u = Listener
      BY <1>4, <2>3, <3>1
    <3>2. CASE u # Listener
      BY <1>2, <1>4, <2>3, <3>2 DEF Owned
    <3>. QED BY <3>1, <3>2
  <2>. QED BY <1>1, <1>2, <2>1, <2>2, <2>3 DEF Owned, AtStep
<1>7. Pending' = Pending
  BY <1>4, PendingStays
<1>8. /\ <<"opened">> \in Seq(Callbacks) /\ DOMAIN <<"opened">> = {1} /\ <<"opened">>[1] = "opened"
      /\ Len(<<"opened">>) = 1 /\ <<"opened">> # <<>> /\ Head(<<"opened">>) = "opened"
  BY DEF Callbacks
<1>9. Hears(c)'
  <2>1. heard'[c] = <<"opened">> /\ socket'[c] = "open" /\ c \in sockets'
    BY <1>1, <1>2 DEF Shape
  <2>2. c \notin connections'
    BY <1>1, <1>2, <1>3 DEF Hears, hub
  <2>. QED BY <1>8, <2>1, <2>2 DEF Hears
<1>10. ASSUME NEW d \in Connections, d # c PROVE Hears(d)'
  <2>1. heard'[d] = heard[d] /\ socket'[d] = socket[d] /\ (d \in sockets) = (d \in sockets')
    BY <1>1, <1>2, <1>10 DEF Shape
  <2>. QED BY <1>1, <1>2, <1>7, <2>1, HearsStays DEF hub
<1>11. InHand'
  BY <1>4 DEF InHand
<1>12. Shape'
  BY <1>1, <1>2, <1>4, <1>8 DEF Shape, hub
<1>. QED BY <1>1, <1>5, <1>6, <1>9, <1>10, <1>11, <1>12 DEF IInv, hub

(* A socket speaks and hangs up.                                           *)
LEMMA NetworkKeeps ==
  ASSUME SignalingServerAssumption, IInv, NEW c \in Connections,
         Speaks(c) \/ HangsUp(c)
  PROVE  IInv'
<1>1. Shape /\ Owned /\ InHand /\ (\A u \in Threads : Sane(u)) /\ \A d \in Connections : Hears(d)
  BY DEF IInv
<1>2. UNCHANGED <<running, hub, tasks, owner, doing>>
  BY DEF Speaks, HangsUp
<1>3. \A u \in Threads : Sane(u)'
  BY <1>1, <1>2, SaneStays, LocksApart
<1>4. Owned' /\ Pending' = Pending
  BY <1>1, <1>2, PendingStays DEF Owned, AtStep
<1>5. \A f \in Callbacks : <<f>> \in Seq(Callbacks) /\ DOMAIN <<f>> = {1} /\ <<f>>[1] = f
        /\ Len(<<f>>) = 1 /\ <<f>> # <<>> /\ Head(<<f>>) = f
  OBVIOUS
<1>6. ASSUME Speaks(c) PROVE Shape' /\ \A d \in Connections : Hears(d)'
  <2>1. PICK frame \in Frames : heard' = [heard EXCEPT ![c] = <<frame>>]
    BY <1>6 DEF Speaks
  <2>2. /\ socket[c] = "open" /\ heard[c] = <<>> /\ events < MaxEvents /\ events' = events + 1
        /\ UNCHANGED <<socket, sockets>>
    BY <1>6 DEF Speaks
  <2>3. frame \in Callbacks /\ frame # "opened" /\ frame # "closed"
    BY DEF Callbacks, Frames
  <2>4. events' \in 0 .. MaxEvents
    BY <1>1, <2>2 DEF Shape, SignalingServerAssumption
  <2>5. Shape'
    BY <1>1, <1>2, <1>5, <2>1, <2>2, <2>3, <2>4 DEF Shape, hub
  <2>6. Hears(c)'
    <3>1. heard'[c] = <<frame>>
      BY <1>1, <2>1 DEF Shape
    <3>2. c \in connections
      BY <1>1, <2>2 DEF Hears
    <3>3. c \in sockets \cup Pending \/ socket[c] = "closed"
      BY <1>1, <3>2 DEF Hears
    <3>. QED BY <1>2, <1>4, <1>5, <2>2, <2>3, <3>1, <3>2, <3>3 DEF Hears, hub
  <2>7. ASSUME NEW d \in Connections, d # c PROVE Hears(d)'
    <3>1. heard'[d] = heard[d]
      BY <1>1, <2>1, <2>7 DEF Shape
    <3>. QED BY <1>1, <1>2, <1>4, <2>2, <3>1, HearsStays DEF hub
  <2>. QED BY <2>5, <2>6, <2>7
<1>7. ASSUME HangsUp(c) PROVE Shape' /\ (\A d \in Connections : Hears(d)')
             /\ \A d \in Connections : socket[d] = "none" => socket'[d] = "none"
  <2>1. /\ events < MaxEvents /\ events' = events + 1 /\ Closed(c) /\ sockets' = sockets
    BY <1>7 DEF HangsUp
  <2>2. /\ \A d \in Connections : Hears(d)'
        /\ \A d \in Connections : socket[d] = "none" => socket'[d] = "none"
        /\ socket' \in [Connections -> {"none", "open", "closed"}]
        /\ heard' \in [Connections -> Seq(Callbacks)]
    <3>1. CASE c \in sockets \cup Pending
      BY <1>1, <1>2, <1>4, <2>1, <3>1, ClosedHears DEF hub
    <3>2. c \in sockets \cup Pending
      BY <1>1, <1>7 DEF HangsUp, Hears
    <3>. QED BY <3>1, <3>2
  <2>3. events' \in 0 .. MaxEvents
    BY <1>1, <2>1 DEF Shape, SignalingServerAssumption
  <2>4. Shape'
    BY <1>1, <1>2, <2>1, <2>2, <2>3 DEF Shape, hub
  <2>. QED BY <2>2, <2>4
<1>8. Shape' /\ (\A d \in Connections : Hears(d)') /\ InHand'
  <2>1. CASE Speaks(c)
    <3>1. UNCHANGED socket
      BY <2>1 DEF Speaks
    <3>. QED BY <1>1, <1>2, <1>6, <2>1, <3>1, InHandStays
  <2>2. CASE HangsUp(c)
    BY <1>1, <1>2, <1>7, <2>2, InHandStays
  <2>. QED BY <2>1, <2>2
<1>. QED BY <1>2, <1>3, <1>4, <1>8 DEF IInv, hub

(* Nobody does anything.                                                   *)
LEMMA InitHolds ==
  ASSUME SignalingServerAssumption, Init
  PROVE  IInv
<1>. USE LocksApart, Apart
<1>1. Shape /\ inside \subseteq connections
  BY DEF Init, Shape, SignalingServerAssumption
<1>2. Owned /\ InHand
  BY DEF Init, Owned, InHand
<1>3. ASSUME NEW t \in Threads PROVE Sane(t)
  <2>1. doing[t] = <<>> /\ \A l \in Locks : owner[l] # t
    BY DEF Init
  <2>2. About(<<>>) /\ Ordered(<<>>, FALSE) /\ GivesBack(<<>>, FALSE)
    BY DEF About, Ordered, GivesBack
  <2>3. (owner["router"] = t) = FALSE
    BY <2>1
  <2>4. Holds(t) = FALSE
    BY <2>1 DEF Holds
  <2>. QED BY <2>1, <2>2, <2>3, <2>4 DEF Sane
<1>4. ASSUME NEW c \in Connections PROVE Hears(c)
  BY DEF Init, Hears, Pending
<1>. QED BY <1>1, <1>2, <1>3, <1>4 DEF IInv

(* Any step.                                                               *)
LEMMA NextKeeps ==
  ASSUME SignalingServerAssumption, IInv, [Next]_vars
  PROVE  IInv'
<1>1. ASSUME NEW t \in Threads, GoesAhead(t) PROVE IInv'
  BY <1>1, TakesRouterKeeps, GivesRouterKeeps, NegotiatesKeeps, BecomesStableKeeps,
     ClosesMediaKeeps, IsDoneKeeps, close_connectionKeeps, LeavesRoomKeeps DEF GoesAhead
<1>2. ASSUME NEW c \in Connections, Knocks(c) \/ on_client(c) \/ Speaks(c) \/ HangsUp(c)
      PROVE  IInv'
  BY <1>2, KnocksKeeps, on_clientKeeps, NetworkKeeps
<1>3. ASSUME NEW c \in Connections, CallsBack(c) PROVE IInv'
  BY <1>3, on_connectKeeps, handle_join_roomKeeps, handle_leave_roomKeeps,
     handle_relayKeeps,
     on_disconnectKeeps DEF CallsBack
<1>4. ASSUME NEW c \in Connections, CalledBack(c) PROVE IInv'
  BY <1>4, CalledBackKeeps
<1>5. CASE worker_loop \/ heartbeat_loop \/ stop \/ StopsListening \/ SocketsTaken \/ Stopped
  BY <1>5, worker_loopKeeps, heartbeat_loopKeeps, stopKeeps, StopsListeningKeeps,
     SocketsTakenKeeps, StoppedKeeps
<1>6. CASE UNCHANGED vars
  <2>1. Shape /\ Owned /\ InHand /\ (\A u \in Threads : Sane(u)) /\ \A c \in Connections : Hears(c)
    BY DEF IInv
  <2>2. UNCHANGED <<running, socket, heard, events, sockets, connections, inside, media,
                    tasks, owner, doing>>
    BY <1>6 DEF vars, network, hub
  <2>3. \A u \in Threads : Sane(u)'
    BY <2>1, <2>2, SaneStays, LocksApart
  <2>4. \A c \in Connections : Hears(c)'
    BY <2>1, <2>2, PendingStays, HearsStays
  <2>5. Shape' /\ Owned' /\ InHand' /\ inside' \subseteq connections'
    BY <2>1, <2>2 DEF Shape, Owned, InHand, AtStep, IInv
  <2>. QED BY <2>3, <2>4, <2>5 DEF IInv
<1>. QED BY <1>1, <1>2, <1>3, <1>4, <1>5, <1>6 DEF Next

(* Nobody but the thread that stops the server waits for another to end.   *)
LEMMA OnlyMainJoins ==
  ASSUME Shape, Owned, NEW t \in Threads, Joins(t) # {}
  PROVE  t = Main /\ (AtStep(Main, "await") => Joins(t) \subseteq {Listener})
<1>1. doing[t] # <<>> /\ Head(doing[t]).step \in {"join", "await"}
  BY DEF Joins, AtStep
<1>2. t = Main
  BY <1>1, NextIsWhose DEF Whose, OfMain
<1>. QED BY <1>2 DEF Joins, AtStep

(* Who holds the router's lock does not ask for it again, nobody who holds *)
(* a lock asks for the server's, and whoever holds a peer connection's     *)
(* waits for nothing.                                                      *)
LEMMA HoldersNeed ==
  ASSUME SignalingServerAssumption, IInv, NEW l \in Locks, owner[l] \notin {Free, Main}
  PROVE  /\ owner[l] \in Threads /\ owner[l] # Listener /\ Joins(owner[l]) = {}
         /\ Needs(owner[l]) \subseteq {"router"} \cup Connections
         /\ l = "router" => "router" \notin Needs(owner[l])
         /\ l \in Connections => WaitsFor(owner[l]) = {}
<1>. USE LocksApart, Apart
<1>1. Shape /\ Owned /\ InHand /\ \A u \in Threads : Sane(u)
  BY DEF IInv
<1>. DEFINE t == owner[l]  s == doing[t]
<1>2. t \in Threads /\ t # Main /\ t # Listener
  BY <1>1 DEF Shape, Owned
<1>3. Holds(t) /\ Joins(t) = {}
  BY <1>1, <1>2, OnlyMainJoins DEF Holds
<1>4. s \in Seq(Steps) /\ (s # <<>> => Head(s) = s[1] /\ 1 \in DOMAIN s)
  BY <1>1, <1>2, TailsAre DEF Shape
<1>5. GivesBack(s, Holds(t))
  BY <1>1, <1>2 DEF Sane
<1>6. PICK k \in DOMAIN s : s[k].step = "done"
  BY <1>3, <1>5 DEF GivesBack
<1>7. s # <<>>
  BY <1>6
<1>8. Head(s).step \notin {"hang_up", "tick"}
  <2>1. s[1].step = "hang_up" => k < 1
    BY <1>4, <1>5, <1>6, <1>7 DEF GivesBack
  <2>2. s[1].step # "tick"
    BY <1>4, <1>5, <1>6, <1>7 DEF GivesBack
  <2>. QED BY <1>4, <1>6, <1>7, <2>1, <2>2
<1>9. Head(s).step \notin {"join", "await", "reset", "accept"}
  <2>1. Whose(t, Head(s).step)
    BY <1>1, <1>2, <1>7, NextIsWhose
  <2>. QED BY <1>2, <2>1 DEF Whose, OfMain
<1>10. Head(s).step \in {"call", "answered", "close"} => Of(t) \in Connections
  BY <1>1, <1>2, <1>7, OfIsSomebody
<1>11. Needs(t) = IF Head(s).step = "take" THEN {"router"}
                  ELSE IF Head(s).step \in {"call", "answered", "close"} THEN {Of(t)} ELSE {}
  BY <1>7, <1>8, <1>9 DEF Needs, AtStep
<1>12. Needs(t) \subseteq {"router"} \cup Connections
  BY <1>10, <1>11
<1>13. ASSUME l = "router" PROVE "router" \notin Needs(t)
  <2>1. Ordered(s, owner["router"] = t)
    BY <1>1, <1>2 DEF Sane
  <2>2. s[1].step # "take"
    BY <1>4, <1>7, <1>13, <2>1 DEF Ordered
  <2>. QED BY <1>4, <1>7, <1>10, <1>11, <2>2
<1>14. ASSUME l \in Connections PROVE WaitsFor(t) = {}
  <2>1. s = <<Done>>
    BY <1>1, <1>14 DEF Owned
  <2>2. Head(<<Done>>).step = "done"
    BY DEF Done, Step
  <2>3. Needs(t) = {}
    BY <1>11, <2>1, <2>2
  <2>. QED BY <1>3, <2>3 DEF WaitsFor
<1>. QED BY <1>2, <1>3, <1>12, <1>13, <1>14

(* So there is an order to the locks; and the one circle is of who stops   *)
(* the server and the thread that accepts.                                 *)
LEMMA NobodyWaitsAround ==
  ASSUME SignalingServerAssumption, IInv
  PROVE  LocksAreLetGo
<1>. USE LocksApart, Apart
<1>1. Shape /\ Owned /\ InHand /\ (\A u \in Threads : Sane(u)) /\ \A c \in Connections : Hears(c)
  BY DEF IInv
<1>2. \A t \in Threads : Needs(t) \subseteq Locks
  <2>1. ASSUME NEW t \in Threads, doing[t] # <<>>,
               Head(doing[t]).step \in {"call", "answered", "close"}
        PROVE  Of(t) \in Connections
    BY <1>1, <2>1, OfIsSomebody
  <2>. QED BY <2>1 DEF Needs
<1>3. Needs(Listener) \subseteq {"server"}
  <2>1. doing[Listener] = <<>> \/ Head(doing[Listener]).step = "accept"
    BY <1>1, NotListener
  <2>. QED BY <2>1 DEF Needs, AtStep
<1>4. AtStep(Main, "await") => Needs(Main) = {}
  BY DEF Needs, AtStep
<1>5. ASSUME NEW waiting \in SUBSET Waiting, Circle(waiting), waiting # {}
      PROVE  waiting = {Main, Listener} /\ AtStep(Main, "await")
  <2>1. \A x \in waiting : x \in Threads /\ WaitsFor(x) # {}
    BY DEF Waiting
  <2>2. ASSUME NEW x \in waiting
        PROVE  \E y \in waiting : \/ \E k \in Needs(y) : x = owner[k]
                                  \/ x \in Joins(y)
    BY <1>5 DEF Circle, WaitsFor
  <2>3. ASSUME Main \in waiting
        PROVE  /\ AtStep(Main, "await") /\ owner["server"] = Main
               /\ \E y \in waiting : "server" \in Needs(y)
    <3>1. \A y \in waiting : Main \notin Joins(y)
      BY DEF Joins
    <3>2. PICK y \in waiting : \E k \in Needs(y) : Main = owner[k]
      BY <2>2, <2>3, <3>1
    <3>3. PICK k \in Needs(y) : Main = owner[k]
      BY <3>2
    <3>4. k \in Locks
      BY <1>2, <2>1
    <3>5. k = "server" /\ AtStep(Main, "await")
      BY <1>1, <3>3, <3>4 DEF Owned
    <3>. QED BY <3>3, <3>5
  <2>4. ASSUME NEW y \in waiting, Joins(y) # {} PROVE y = Main /\ Joins(y) \subseteq {Listener}
    <3>1. y = Main
      BY <1>1, <2>1, <2>4, OnlyMainJoins
    <3>2. AtStep(Main, "await")
      BY <2>3, <3>1
    <3>. QED BY <1>1, <2>1, <2>4, <3>1, <3>2, OnlyMainJoins
  <2>5. Listener \in waiting => Main \in waiting
    <3>1. ASSUME NEW y \in waiting, NEW k \in Needs(y) PROVE owner[k] # Listener
      <4>1. k \in Locks
        BY <1>2, <2>1
      <4>. QED BY <1>1, <4>1 DEF Owned
    <3>. QED BY <2>2, <2>4, <3>1
  <2>6. ASSUME NEW x \in waiting \ {Main, Listener}
        PROVE  \E y \in waiting : \E k \in Needs(y) \cap {"server", "router"} : x = owner[k]
    <3>1. PICK y \in waiting : \E k \in Needs(y) : x = owner[k]
      BY <2>2, <2>4
    <3>2. PICK k \in Needs(y) : x = owner[k]
      BY <3>1
    <3>3. k \in Locks /\ x \notin {Free, Main} /\ WaitsFor(x) # {}
      BY <1>2, <2>1
    <3>4. k \notin Connections
      BY <3>2, <3>3, HoldersNeed
    <3>. QED BY <3>2, <3>3, <3>4 DEF Locks
  <2>7. ASSUME NEW x \in waiting \ {Main, Listener}
        PROVE  /\ x \in Threads /\ Needs(x) \subseteq {"router"} \cup Connections
               /\ x = owner["router"] => "router" \notin Needs(x)
    <3>1. PICK k \in {"server", "router"} : x = owner[k]
      BY <2>6
    <3>2. k \in Locks /\ x \notin {Free, Main}
      BY <2>1
    <3>3. Needs(x) \subseteq {"router"} \cup Connections
      BY <3>1, <3>2, HoldersNeed
    <3>4. x = owner["router"] => "router" \notin Needs(x)
      BY <3>2, HoldersNeed
    <3>. QED BY <2>1, <3>3, <3>4
  <2>8. ASSUME NEW x \in waiting \ {Main, Listener}
        PROVE  x = owner["router"] /\ \E y \in waiting \ {Main, Listener} : "router" \in Needs(y)
    <3>1. PICK y \in waiting : \E k \in Needs(y) \cap {"server", "router"} : x = owner[k]
      BY <2>6
    <3>2. PICK k \in Needs(y) \cap {"server", "router"} : x = owner[k]
      BY <3>1
    <3>3. CASE k = "server"
      <4>1. Main \notin waiting /\ Listener \notin waiting
        BY <2>3, <2>5, <3>2, <3>3
      <4>2. "server" \notin Needs(y)
        BY <2>7, <4>1
      <4>. QED BY <3>2, <3>3, <4>2
    <3>4. CASE k = "router"
      <4>1. y # Main
        BY <1>4, <2>3, <3>2
      <4>2. y # Listener
        BY <1>3, <3>2, <3>4
      <4>. QED BY <3>2, <3>4, <4>1, <4>2
    <3>. QED BY <3>2, <3>3, <3>4
  <2>9. waiting \subseteq {Main, Listener}
    <3>1. ASSUME NEW x \in waiting \ {Main, Listener} PROVE FALSE
      <4>1. PICK y \in waiting \ {Main, Listener} : "router" \in Needs(y)
        BY <2>8
      <4>2. y = owner["router"]
        BY <2>8
      <4>. QED BY <2>7, <4>1, <4>2
    <3>. QED BY <3>1
  <2>10. Main \in waiting
    BY <1>5, <2>5, <2>9
  <2>11. Listener \in waiting
    <3>1. PICK y \in waiting : "server" \in Needs(y)
      BY <2>3, <2>10
    <3>2. y # Main
      BY <1>4, <2>3, <2>10, <3>1
    <3>. QED BY <2>9, <3>2
  <2>. QED BY <2>3, <2>9, <2>10, <2>11
<1>6. ASSUME NEW c \in connections
      PROVE  \/ c \in sockets \/ socket[c] = "closed"
             \/ \E i \in DOMAIN doing[Main] : doing[Main][i] = HangUp(c)
  <2>1. c \in Connections
    BY <1>1 DEF Shape
  <2>. QED BY <1>1, <2>1 DEF Hears, Pending
<1>. QED BY <1>5, <1>6 DEF LocksAreLetGo

(* SignalingServer, MediaRouter and their threads: every variable has its  *)
(* shape, and whoever is in the room is in the Hub.                        *)
THEOREM ServerIsTyped == ASSUME SignalingServerAssumption PROVE Spec => []TypeOK
<1>1. Init => IInv
  BY InitHolds
<1>2. IInv /\ [Next]_vars => IInv'
  BY NextKeeps
<1>3. IInv => TypeOK
  BY DEF IInv, Shape, TypeOK
<1>. QED BY <1>1, <1>2, <1>3, PTL DEF Spec

(* The mutexes of SignalingServer and of MediaRouter, and the callbacks of *)
(* libdatachannel: no thread waits, however far around, for one that waits *)
(* for it, but stop() and the thread that accepts, each for the other; and *)
(* whoever the Hub knows can be hung up on, has been, or will be.          *)
THEOREM NobodyWaitsForever == ASSUME SignalingServerAssumption PROVE Spec => []LocksAreLetGo
<1>1. Init => IInv
  BY InitHolds
<1>2. IInv /\ [Next]_vars => IInv'
  BY NextKeeps
<1>3. IInv => LocksAreLetGo
  BY NobodyWaitsAround
<1>. QED BY <1>1, <1>2, <1>3, PTL DEF Spec
=============================================================================
