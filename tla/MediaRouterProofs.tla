-------------------------- MODULE MediaRouterProofs --------------------------
(***************************************************************************)
(* What MediaRouter.tla guarantees for any number of people, rooms, stays  *)
(* and tasks: everybody hears everybody else of their room once the offers *)
(* and answers are over.                                                   *)
(*                                                                         *)
(* EveryoneIsHeard speaks of rest, and says nothing of how it is reached.  *)
(* The inductive invariant says of each session what keeps it going while  *)
(* its tracks and what its client heard of them differ: a task of the      *)
(* worker's queue, or an answer that the client owes.                      *)
(***************************************************************************)
EXTENDS MediaRouter, FiniteSetTheorems, SequenceTheorems, TLAPS

Offered == [what : {"offer"}, user : Users, stay : Stays]
LookedAt == [what : {"look_again"}, user : Users]

Queued(task) == \E i \in 1 .. Len(tasks) : tasks[i] = task

(* Of a session s of u's: what it has tracks for has been heard of, or is  *)
(* in the offer that is out; and a task of u's is there when it must be.   *)
HeardOf(s) == s.stable /\ ~s.pending => s.outbound \subseteq s.heard
InTheOffer(s) == ~s.stable /\ ~s.pending => s.outbound \subseteq s.offered
ToLookAt(u, s) == s.stable /\ s.pending => Queued(LookAgain(u))
ToOffer(u, s) == ~s.stable /\ ~s.delivered => Queued(Offer(u, s.stay))

KeptGoing ==
  \A u \in Present :
    /\ HeardOf(sessions[u]) /\ InTheOffer(sessions[u])
    /\ ToLookAt(u, sessions[u]) /\ ToOffer(u, sessions[u])

IInv == TypeOK /\ tasks \in Seq(Offered \cup LookedAt) /\ KeptGoing
-----------------------------------------------------------------------------
(* What is queued of a set is each of its members.                         *)
LEMMA Queueing ==
  ASSUME NEW S, IsFiniteSet(S)
  PROVE  /\ SetToSeq(S) \in Seq(S)
         /\ \A x \in S : \E i \in 1 .. Len(SetToSeq(S)) : SetToSeq(S)[i] = x
<1> DEFINE n == Cardinality(S)
           q == SetToSeq(S)
<1>1. n \in Nat /\ ExistsBijection(1 .. n, S)
  BY FS_CardinalityType
<1>2. \E f \in [1 .. n -> S] : IsInjective(f)
  BY <1>1 DEF ExistsBijection, Bijection, Injection
<1>3. q \in [1 .. n -> S] /\ IsInjective(q)
  BY <1>2 DEF SetToSeq
<1>4. q \in Injection(1 .. n, S)
  BY <1>3 DEF Injection
<1>5. IsFiniteSet(1 .. n) /\ Cardinality(1 .. n) = n
  BY <1>1, FS_Interval
<1>6. q \in Surjection(1 .. n, S)
  BY <1>4, <1>5, FS_Injection
<1> HIDE DEF n, q
<1>7. q \in Seq(S) /\ Len(q) = n
  BY <1>1, <1>3
<1>8. \A x \in S : \E i \in 1 .. Len(q) : q[i] = x
  BY <1>6, <1>7 DEF Surjection
<1> QED  BY <1>7, <1>8 DEF q

LEMMA Behind ==
  ASSUME NEW S, NEW p \in Seq(S), NEW q \in Seq(S)
  PROVE  /\ Len(p) \in Nat /\ Len(q) \in Nat
         /\ Len(p \o q) = Len(p) + Len(q)
         /\ \A i \in 1 .. Len(q) : (p \o q)[Len(p) + i] = q[i]
<1>1. Len(p) \in Nat /\ Len(q) \in Nat
  OBVIOUS
<1>2. ASSUME NEW i \in 1 .. Len(q) PROVE (p \o q)[Len(p) + i] = q[i]
  <2>1. /\ Len(p) + i \in 1 .. Len(p) + Len(q)
        /\ ~(Len(p) + i <= Len(p)) /\ (Len(p) + i) - Len(p) = i
    BY <1>1
  <2>2. (p \o q)[Len(p) + i] =
          IF Len(p) + i <= Len(p) THEN p[Len(p) + i] ELSE q[(Len(p) + i) - Len(p)]
    BY <2>1, ConcatProperties
  <2> QED  BY <2>1, <2>2
<1> QED  BY <1>1, <1>2, ConcatProperties

LEMMA Apart ==
  ASSUME MediaRouterAssumption
  PROVE  /\ NoSession \notin Session
         /\ \A s \in Session : s.stay \in Stays /\ s.stay # 0
  BY DEF MediaRouterAssumption, NoSession, Session, Stays

(* What negotiate makes of a session, and of what is heard of it.          *)
LEMMA Negotiating ==
  ASSUME NEW s \in Session
  PROVE  /\ negotiate(s) \in Session
         /\ negotiate(s).stay = s.stay /\ negotiate(s).room = s.room
         /\ negotiate(s).outbound = s.outbound
         /\ HeardOf(s) => HeardOf(negotiate(s))
         /\ InTheOffer(s) => InTheOffer(negotiate(s))
         /\ ~(negotiate(s).stable /\ negotiate(s).pending)
         /\ ~negotiate(s).stable /\ ~negotiate(s).delivered =>
              Offers(s) \/ (~s.stable /\ ~s.delivered)
  BY DEF Session, negotiate, Waits, Offers, HeardOf, InTheOffer

(* The sessions it makes, and the offers it queues behind what is there.   *)
LEMMA Renegotiating ==
  ASSUME MediaRouterAssumption, tasks \in Seq(Offered \cup LookedAt),
         NEW new \in [Users -> Session \cup {NoSession}], NEW who \in SUBSET Users,
         \A u \in who : new[u] \in Session,
         Negotiated(new, who)
  PROVE  /\ sessions' \in [Users -> Session \cup {NoSession}]
         /\ \A u \in Users :
              sessions'[u] = IF u \in who THEN negotiate(new[u]) ELSE new[u]
         /\ tasks' \in Seq(Offered \cup LookedAt)
         /\ \A i \in 1 .. Len(tasks) : i \in 1 .. Len(tasks') /\ tasks'[i] = tasks[i]
         /\ \A u \in who : Offers(new[u]) => Queued(Offer(u, new[u].stay))'
<1> DEFINE offering == {v \in who : Offers(new[v])}
           offers == {Offer(u, new[u].stay) : u \in offering}
           q == SetToSeq(offers)
<1>1. sessions' \in [Users -> Session \cup {NoSession}]
  BY Negotiating DEF Negotiated
<1>2. \A u \in Users : sessions'[u] = IF u \in who THEN negotiate(new[u]) ELSE new[u]
  BY DEF Negotiated
<1>3. tasks' = tasks \o q
  BY DEF Negotiated
<1>4. IsFiniteSet(offers)
  <2> DEFINE f == [u \in offering |-> Offer(u, new[u].stay)]
  <2>1. IsFiniteSet(offering)
    BY FS_Subset DEF MediaRouterAssumption
  <2>2. f \in Surjection(offering, offers)
    BY DEF Surjection
  <2> QED  BY <2>1, <2>2, FS_Surjection
<1>5. offers \subseteq Offered
  BY Apart DEF Offer, Offered
<1>6. q \in Seq(offers) /\ \A x \in offers : \E i \in 1 .. Len(q) : q[i] = x
  BY <1>4, Queueing
<1>7. \A u \in who : Offers(new[u]) => Offer(u, new[u].stay) \in offers
  OBVIOUS
<1> HIDE DEF offers, q
<1>8. tasks' \in Seq(Offered \cup LookedAt)
  BY <1>3, <1>5, <1>6
<1>9. \A i \in 1 .. Len(tasks) : i \in 1 .. Len(tasks') /\ tasks'[i] = tasks[i]
  BY <1>3, <1>6
<1>10. ASSUME NEW x \in offers PROVE Queued(x)'
  <2>1. PICK i \in 1 .. Len(q) : q[i] = x
    BY <1>6
  <2>2. /\ Len(tasks) \in Nat /\ Len(q) \in Nat
        /\ Len(tasks \o q) = Len(tasks) + Len(q)
        /\ (tasks \o q)[Len(tasks) + i] = q[i]
    BY <1>5, <1>6, Behind
  <2>3. tasks'[Len(tasks) + i] = x
    BY <1>3, <2>1, <2>2
  <2>4. Len(tasks') = Len(tasks) + Len(q)
    BY <1>3, <2>2
  <2>5. Len(tasks) + i \in 1 .. Len(tasks')
    BY <2>1, <2>2, <2>4
  <2> QED  BY <2>3, <2>5 DEF Queued
<1> QED  BY <1>1, <1>2, <1>7, <1>8, <1>9, <1>10

LEMMA StaysQueued ==
  ASSUME \A i \in 1 .. Len(tasks) : i \in 1 .. Len(tasks') /\ tasks'[i] = tasks[i]
  PROVE  \A task : Queued(task) => Queued(task)'
  BY DEF Queued

(* Whatever the sessions are made to be before they are negotiated, each   *)
(* is kept going after.                                                    *)
LEMMA KeptGoingByNegotiating ==
  ASSUME MediaRouterAssumption, tasks \in Seq(Offered \cup LookedAt),
         NEW new \in [Users -> Session \cup {NoSession}], NEW who \in SUBSET Users,
         \A u \in who : new[u] \in Session,
         \A u \in Users : new[u] # NoSession =>
           /\ HeardOf(new[u]) /\ InTheOffer(new[u]) /\ ToOffer(u, new[u])
           /\ u \notin who => ToLookAt(u, new[u]),
         Negotiated(new, who)
  PROVE  tasks' \in Seq(Offered \cup LookedAt) /\ KeptGoing'
<1>1. /\ \A u \in Users :
           sessions'[u] = IF u \in who THEN negotiate(new[u]) ELSE new[u]
      /\ tasks' \in Seq(Offered \cup LookedAt)
      /\ \A task : Queued(task) => Queued(task)'
      /\ \A u \in who : Offers(new[u]) => Queued(Offer(u, new[u].stay))'
  BY Renegotiating, StaysQueued
<1>2. ASSUME NEW u \in Users, sessions'[u] # NoSession
      PROVE  /\ HeardOf(sessions'[u]) /\ InTheOffer(sessions'[u])
             /\ ToLookAt(u, sessions[u])' /\ ToOffer(u, sessions[u])'
  <2>1. CASE u \in who
    <3>1. new[u] \in Session /\ new[u] # NoSession /\ sessions'[u] = negotiate(new[u])
      BY <1>1, <2>1, Apart
    <3>2. HeardOf(new[u]) /\ InTheOffer(new[u]) /\ ToOffer(u, new[u])
      BY <3>1
    <3>3. HeardOf(sessions'[u]) /\ InTheOffer(sessions'[u])
      BY <3>1, <3>2, Negotiating
    <3>4. ToLookAt(u, sessions[u])'
      BY <3>1, Negotiating DEF ToLookAt
    <3>5. ToOffer(u, sessions[u])'
      <4> SUFFICES ASSUME ~sessions'[u].stable, ~sessions'[u].delivered
                   PROVE  Queued(Offer(u, new[u].stay))'
        BY <3>1, Negotiating DEF ToOffer
      <4>1. Offers(new[u]) \/ (~new[u].stable /\ ~new[u].delivered)
        BY <3>1, Negotiating
      <4> QED  BY <1>1, <2>1, <3>2, <4>1 DEF ToOffer
    <3> QED  BY <3>3, <3>4, <3>5
  <2>2. CASE u \notin who
    <3>1. sessions'[u] = new[u] /\ new[u] # NoSession
      BY <1>1, <1>2, <2>2
    <3>2. HeardOf(new[u]) /\ InTheOffer(new[u]) /\ ToOffer(u, new[u]) /\ ToLookAt(u, new[u])
      BY <3>1, <2>2
    <3> QED  BY <1>1, <3>1, <3>2 DEF ToOffer, ToLookAt
  <2> QED  BY <2>1, <2>2
<1> QED  BY <1>1, <1>2 DEF KeptGoing, Present

-----------------------------------------------------------------------------
(* Tracks are of the others in the room, by whatever way sessions come to  *)
(* be: given who is where, and with which tracks.                          *)
LEMMA TypeOKByNegotiating ==
  ASSUME MediaRouterAssumption, tasks \in Seq(Offered \cup LookedAt),
         NEW new \in [Users -> Session \cup {NoSession}], NEW who \in SUBSET Users,
         \A u \in who : new[u] \in Session,
         \A u \in Users : new[u] # NoSession =>
           new[u].outbound =
             {v \in Users : new[v] # NoSession /\ new[v].room = new[u].room} \ {u},
         Negotiated(new, who)
  PROVE  TypeOK'
<1>1. /\ sessions' \in [Users -> Session \cup {NoSession}]
      /\ \A u \in Users :
           sessions'[u] = IF u \in who THEN negotiate(new[u]) ELSE new[u]
  BY Renegotiating
<1>2. \A u \in Users : /\ sessions'[u] # NoSession <=> new[u] # NoSession
                       /\ new[u] # NoSession => /\ sessions'[u].room = new[u].room
                                                /\ sessions'[u].outbound = new[u].outbound
  BY <1>1, Negotiating, Apart
<1>3. ASSUME NEW u \in Users, sessions'[u] # NoSession
      PROVE  sessions'[u].outbound =
               {v \in Users : sessions'[v] # NoSession /\ sessions'[v].room = sessions'[u].room}
                 \ {u}
  BY <1>2, <1>3
<1> QED  BY <1>1, <1>3 DEF TypeOK, Present, Roommates

LEMMA JoinedSafe ==
  ASSUME MediaRouterAssumption, IInv, NEW u \in Users, NEW r \in RoomIds,
         on_participant_joined(u, r)
  PROVE  IInv'
<1>1. PICK stay \in Stays :
        LET created == [stay |-> stay, room |-> r, outbound |-> Roommates(r), pending |-> TRUE,
                        stable |-> TRUE, offered |-> {}, delivered |-> FALSE, heard |-> {}]
        IN Negotiated([v \in Users |-> CASE v = u -> created
                                         [] v \in Roommates(r) -> WithTrackOf(sessions[v], u)
                                         [] OTHER -> sessions[v]],
                      Roommates(r) \cup {u})
  BY DEF on_participant_joined, FreshStay
<1> DEFINE created == [stay |-> stay, room |-> r, outbound |-> Roommates(r), pending |-> TRUE,
                       stable |-> TRUE, offered |-> {}, delivered |-> FALSE, heard |-> {}]
           new == [v \in Users |-> CASE v = u -> created
                                     [] v \in Roommates(r) -> WithTrackOf(sessions[v], u)
                                     [] OTHER -> sessions[v]]
           who == Roommates(r) \cup {u}
<1>2. Negotiated(new, who)
  BY <1>1
<1>3. u \notin Present /\ u \notin Roommates(r) /\ who \in SUBSET Users
  BY DEF on_participant_joined, Roommates, Present
<1>4. /\ new[u] = created
      /\ \A v \in Roommates(r) : new[v] = WithTrackOf(sessions[v], u)
      /\ \A v \in Users \ who : new[v] = sessions[v]
      /\ DOMAIN new = Users /\ new = [v \in Users |-> new[v]]
  BY <1>3
<1>5. TypeOK /\ tasks \in Seq(Offered \cup LookedAt) /\ KeptGoing
  BY DEF IInv
<1>6. created \in Session
  BY DEF Session, Roommates, Present
<1> HIDE DEF new, who
<1>7. \A v \in Roommates(r) : v \in Present /\ sessions[v] \in Session /\ sessions[v].room = r
  BY <1>5 DEF TypeOK, Roommates, Present
<1>8. ASSUME NEW v \in Roommates(r)
      PROVE  /\ WithTrackOf(sessions[v], u) \in Session
             /\ WithTrackOf(sessions[v], u).room = r
             /\ WithTrackOf(sessions[v], u).outbound = sessions[v].outbound \cup {u}
             /\ WithTrackOf(sessions[v], u).pending
             /\ WithTrackOf(sessions[v], u).stay = sessions[v].stay
             /\ WithTrackOf(sessions[v], u).stable = sessions[v].stable
             /\ WithTrackOf(sessions[v], u).delivered = sessions[v].delivered
  BY <1>7 DEF Session, WithTrackOf
<1>9. \A v \in who : new[v] \in Session
  BY <1>4, <1>6, <1>8 DEF who
<1>10. new \in [Users -> Session \cup {NoSession}]
  BY <1>4, <1>5, <1>9 DEF TypeOK
<1>11. ASSUME NEW v \in Users, new[v] # NoSession
       PROVE  /\ HeardOf(new[v]) /\ InTheOffer(new[v]) /\ ToOffer(v, new[v])
              /\ v \notin who => ToLookAt(v, new[v])
  <2>1. CASE v = u
    BY <1>3, <1>4, <2>1 DEF HeardOf, InTheOffer, ToOffer, who
  <2>2. CASE v \in Roommates(r)
    BY <1>4, <1>5, <1>7, <1>8, <2>2 DEF KeptGoing, HeardOf, InTheOffer, ToOffer, who
  <2>3. CASE v \notin who
    BY <1>4, <1>5, <1>11, <2>3 DEF KeptGoing, Present
  <2> QED  BY <2>1, <2>2, <2>3 DEF who
<1>12. ASSUME NEW v \in Users, new[v] # NoSession
       PROVE  new[v].outbound =
                {w \in Users : new[w] # NoSession /\ new[w].room = new[v].room} \ {v}
  <2>1. ASSUME NEW w \in Users PROVE new[w] # NoSession <=> w \in Present \cup {u}
    <3>1. CASE w \in who
      BY <1>7, <1>9, <3>1, Apart DEF who
    <3>2. CASE w \notin who
      BY <1>4, <3>2 DEF Present, who
    <3> QED  BY <3>1, <3>2
  <2>2. \A w \in Present : new[w].room = sessions[w].room
    BY <1>3, <1>4, <1>7, <1>8 DEF Present, who
  <2>3. new[u].room = r /\ new[u].outbound = Roommates(r)
    BY <1>4
  <2>4. CASE v = u
    BY <1>3, <2>1, <2>2, <2>3, <2>4 DEF Roommates, Present
  <2>5. CASE v \in Roommates(r)
    <3>1. new[v].outbound = (Roommates(r) \ {v}) \cup {u}
      BY <1>4, <1>5, <1>7, <1>8, <2>5 DEF TypeOK
    <3> QED  BY <1>3, <1>7, <2>1, <2>2, <2>3, <2>5, <3>1 DEF Roommates, Present
  <2>6. CASE v \notin who
    <3>1. /\ v \in Present /\ new[v] = sessions[v] /\ sessions[v].room # r
          /\ new[v].outbound = Roommates(sessions[v].room) \ {v}
      BY <1>4, <1>5, <2>1, <2>6, <1>12 DEF TypeOK, who, Roommates
    <3> QED  BY <1>3, <2>1, <2>2, <2>3, <3>1 DEF Roommates, Present
  <2> QED  BY <2>4, <2>5, <2>6 DEF who
<1>13. TypeOK'
  BY <1>2, <1>3, <1>5, <1>9, <1>10, <1>12, TypeOKByNegotiating
<1>14. tasks' \in Seq(Offered \cup LookedAt) /\ KeptGoing'
  BY <1>2, <1>3, <1>5, <1>9, <1>10, <1>11, KeptGoingByNegotiating
<1> QED  BY <1>13, <1>14 DEF IInv

LEMMA LeftSafe ==
  ASSUME MediaRouterAssumption, IInv, NEW u \in Users, on_participant_left(u)
  PROVE  IInv'
<1> DEFINE others == {v \in Roommates(sessions[u].room) \ {u} : u \in sessions[v].outbound}
           new == [v \in Users |-> CASE v = u -> NoSession
                                     [] v \in others ->
                                          [sessions[v] EXCEPT !.outbound = @ \ {u}]
                                     [] OTHER -> sessions[v]]
<1>1. Negotiated(new, others) /\ u \in Present
  BY DEF on_participant_left
<1>2. TypeOK /\ tasks \in Seq(Offered \cup LookedAt) /\ KeptGoing
  BY DEF IInv
<1>3. others = Roommates(sessions[u].room) \ {u}
  BY <1>1, <1>2 DEF TypeOK, Roommates, Present
<1>4. u \notin others /\ others \in SUBSET Users /\ others \subseteq Present
  BY DEF Roommates, Present
<1>5. /\ new[u] = NoSession
      /\ \A v \in others : new[v] = [sessions[v] EXCEPT !.outbound = @ \ {u}]
      /\ \A v \in Users \ (others \cup {u}) : new[v] = sessions[v]
      /\ DOMAIN new = Users /\ new = [v \in Users |-> new[v]]
  BY <1>4
<1> HIDE DEF new, others
<1>6. ASSUME NEW v \in others
      PROVE  /\ sessions[v] \in Session
             /\ new[v] \in Session
             /\ new[v].room = sessions[v].room
             /\ new[v].outbound = sessions[v].outbound \ {u}
             /\ HeardOf(sessions[v]) => HeardOf(new[v])
             /\ InTheOffer(sessions[v]) => InTheOffer(new[v])
             /\ ToOffer(v, sessions[v]) => ToOffer(v, new[v])
  <2>1. sessions[v] \in Session
    BY <1>2, <1>4 DEF TypeOK, Present
  <2>2. /\ new[v] \in Session
        /\ new[v].room = sessions[v].room
        /\ new[v].outbound = sessions[v].outbound \ {u}
        /\ new[v].stable = sessions[v].stable /\ new[v].pending = sessions[v].pending
        /\ new[v].heard = sessions[v].heard /\ new[v].offered = sessions[v].offered
        /\ new[v].delivered = sessions[v].delivered /\ new[v].stay = sessions[v].stay
    <3>1. new[v] = [sessions[v] EXCEPT !.outbound = sessions[v].outbound \ {u}]
      BY <1>5
    <3> QED  BY <2>1, <3>1 DEF Session
  <2> QED  BY <2>1, <2>2 DEF HeardOf, InTheOffer, ToOffer
<1>7. new \in [Users -> Session \cup {NoSession}]
  BY <1>2, <1>4, <1>5, <1>6 DEF TypeOK
<1>8. ASSUME NEW v \in Users, new[v] # NoSession
      PROVE  /\ HeardOf(new[v]) /\ InTheOffer(new[v]) /\ ToOffer(v, new[v])
             /\ v \notin others => ToLookAt(v, new[v])
  <2>1. CASE v \in others
    BY <1>2, <1>4, <1>6, <2>1 DEF KeptGoing
  <2>2. CASE v \notin others
    BY <1>2, <1>5, <1>8, <2>2 DEF KeptGoing, Present
  <2> QED  BY <2>1, <2>2
<1>9. ASSUME NEW v \in Users, new[v] # NoSession
      PROVE  new[v].outbound =
               {w \in Users : new[w] # NoSession /\ new[w].room = new[v].room} \ {v}
  <2>1. \A w \in Users : new[w] # NoSession <=> w \in Present \ {u}
    BY <1>4, <1>5, <1>6, Apart DEF Present
  <2>2. \A w \in Present \ {u} : new[w].room = sessions[w].room
    BY <1>5, <1>6 DEF Present
  <2>3. v \in Present \ {u}
    BY <1>9, <2>1
  <2>4. new[v].outbound = (Roommates(sessions[v].room) \ {v}) \ {u}
    <3>1. sessions[v].outbound = Roommates(sessions[v].room) \ {v}
      BY <1>2, <2>3 DEF TypeOK
    <3>2. CASE v \in others
      BY <1>6, <3>1, <3>2
    <3>3. CASE v \notin others
      <4>1. new[v] = sessions[v] /\ v \notin Roommates(sessions[u].room)
        BY <1>3, <1>5, <2>3, <3>3
      <4>2. u \notin Roommates(sessions[v].room)
        BY <2>3, <4>1 DEF Roommates
      <4> QED  BY <3>1, <4>1, <4>2
    <3> QED  BY <3>2, <3>3
  <2> QED  BY <2>1, <2>2, <2>3, <2>4 DEF Roommates, Present
<1>10. TypeOK'
  BY <1>1, <1>2, <1>4, <1>6, <1>7, <1>9, TypeOKByNegotiating
<1>11. tasks' \in Seq(Offered \cup LookedAt) /\ KeptGoing'
  BY <1>1, <1>2, <1>4, <1>6, <1>7, <1>8, KeptGoingByNegotiating
<1> QED  BY <1>10, <1>11 DEF IInv

LEMMA AnsweredSafe ==
  ASSUME MediaRouterAssumption, IInv, NEW u \in Users, on_media_signal(u)
  PROVE  IInv'
<1> DEFINE heard == [sessions[u] EXCEPT !.stable = TRUE, !.delivered = FALSE,
                                        !.heard = sessions[u].offered]
<1>1. TypeOK /\ tasks \in Seq(Offered \cup LookedAt) /\ KeptGoing
  BY DEF IInv
<1>2. /\ u \in Present /\ ~sessions[u].stable
      /\ sessions' = [sessions EXCEPT ![u] = heard]
      /\ tasks' = Append(tasks, LookAgain(u))
  BY <1>1 DEF on_media_signal, StableAgain, TypeOK
<1>3. sessions[u] \in Session
  BY <1>1, <1>2 DEF TypeOK, Present
<1>4. /\ heard \in Session /\ heard.room = sessions[u].room
      /\ heard.outbound = sessions[u].outbound
      /\ InTheOffer(sessions[u]) => HeardOf(heard)
      /\ heard.stable
  BY <1>2, <1>3 DEF Session, InTheOffer, HeardOf
<1> HIDE DEF heard
<1>5. /\ sessions'[u] = heard /\ \A v \in Users \ {u} : sessions'[v] = sessions[v]
      /\ sessions' \in [Users -> Session \cup {NoSession}]
  BY <1>1, <1>2, <1>4 DEF TypeOK
<1>6. TypeOK'
  BY <1>1, <1>2, <1>3, <1>4, <1>5, Apart DEF TypeOK, Present, Roommates
<1>7. tasks' \in Seq(Offered \cup LookedAt)
  BY <1>1, <1>2 DEF LookAgain, LookedAt
<1>8. Queued(LookAgain(u))' /\ \A task : Queued(task) => Queued(task)'
  BY <1>1, <1>2 DEF Queued
<1>9. KeptGoing'
  <2>1. ASSUME NEW v \in Present' PROVE v \in Present /\ v \in Users
    BY <1>2, <1>5, <2>1 DEF Present
  <2>2. /\ HeardOf(heard) /\ InTheOffer(heard)
        /\ ToLookAt(u, sessions[u])' /\ ToOffer(u, sessions[u])'
    BY <1>1, <1>2, <1>4, <1>5, <1>8 DEF KeptGoing, InTheOffer, ToLookAt, ToOffer
  <2>3. ASSUME NEW v \in Present', v # u
        PROVE  /\ HeardOf(sessions'[v]) /\ InTheOffer(sessions'[v])
               /\ ToLookAt(v, sessions[v])' /\ ToOffer(v, sessions[v])'
    BY <1>1, <1>5, <1>8, <2>1, <2>3 DEF KeptGoing, ToLookAt, ToOffer
  <2> QED  BY <1>5, <2>2, <2>3 DEF KeptGoing
<1> QED  BY <1>6, <1>7, <1>9 DEF IInv

(* What the worker takes is the first task, and the others stay queued.    *)
LEMMA TailKeeps ==
  ASSUME tasks \in Seq(Offered \cup LookedAt), tasks # <<>>
  PROVE  /\ Head(tasks) \in Offered \cup LookedAt
         /\ Tail(tasks) \in Seq(Offered \cup LookedAt)
         /\ \A task : Queued(task) /\ task # Head(tasks) =>
              \E i \in 1 .. Len(Tail(tasks)) : Tail(tasks)[i] = task
<1>1. /\ Len(tasks) \in Nat /\ Len(Tail(tasks)) = Len(tasks) - 1
      /\ Head(tasks) = tasks[1] /\ 1 \in 1 .. Len(tasks)
      /\ \A i \in 1 .. Len(Tail(tasks)) : Tail(tasks)[i] = tasks[i + 1]
      /\ Tail(tasks) \in Seq(Offered \cup LookedAt)
  OBVIOUS
<1>2. ASSUME NEW task, Queued(task), task # Head(tasks)
      PROVE  \E i \in 1 .. Len(Tail(tasks)) : Tail(tasks)[i] = task
  <2>1. PICK i \in 1 .. Len(tasks) : tasks[i] = task
    BY <1>2 DEF Queued
  <2>2. i - 1 \in 1 .. Len(Tail(tasks)) /\ Tail(tasks)[i - 1] = task
    BY <1>1, <1>2, <2>1
  <2> QED  BY <2>2
<1> QED  BY <1>1, <1>2

LEMMA Dequeuing ==
  ASSUME tasks \in Seq(Offered \cup LookedAt), tasks # <<>>, tasks' = Tail(tasks)
  PROVE  /\ Head(tasks) \in Offered \cup LookedAt
         /\ tasks' \in Seq(Offered \cup LookedAt)
         /\ \A task : Queued(task) /\ task # Head(tasks) => Queued(task)'
  BY TailKeeps DEF Queued

LEMMA SendsSafe ==
  ASSUME MediaRouterAssumption, IInv, WorkerSends
  PROVE  IInv'
<1> DEFINE u == Head(tasks).user
           stay == Head(tasks).stay
<1>1. TypeOK /\ tasks \in Seq(Offered \cup LookedAt) /\ KeptGoing
  BY DEF IInv
<1>2. /\ tasks # <<>> /\ Head(tasks).what = "offer" /\ tasks' = Tail(tasks)
      /\ sessions' = IF sessions[u].stay = stay
                     THEN [sessions EXCEPT ![u].delivered = TRUE] ELSE sessions
  BY DEF WorkerSends
<1>3. /\ Head(tasks) \in Offered \cup LookedAt
      /\ tasks' \in Seq(Offered \cup LookedAt)
      /\ \A task : Queued(task) /\ task # Head(tasks) => Queued(task)'
  BY <1>1, <1>2, Dequeuing
<1>4. Head(tasks) = Offer(u, stay) /\ u \in Users /\ stay \in Stays
  BY <1>2, <1>3 DEF Offered, LookedAt, Offer
<1> HIDE DEF u, stay
<1>5. ASSUME NEW v \in Users
      PROVE  /\ sessions'[v] \in Session \cup {NoSession}
             /\ sessions'[v] # NoSession <=> sessions[v] # NoSession
             /\ sessions[v] # NoSession =>
                  /\ sessions'[v].room = sessions[v].room
                  /\ sessions'[v].outbound = sessions[v].outbound
                  /\ sessions'[v].stay = sessions[v].stay
                  /\ sessions'[v].stable = sessions[v].stable
                  /\ sessions'[v].pending = sessions[v].pending
                  /\ sessions'[v].heard = sessions[v].heard
                  /\ sessions'[v].offered = sessions[v].offered
                  /\ ~sessions'[v].delivered =>
                       ~sessions[v].delivered /\ Offer(v, sessions[v].stay) # Head(tasks)
  <2>1. sessions \in [Users -> Session \cup {NoSession}]
    BY <1>1 DEF TypeOK
  <2>2. CASE v = u /\ sessions[u].stay = stay
    <3>1. sessions[u] \in Session
      BY <1>4, <2>1, <2>2 DEF NoSession, Stays, MediaRouterAssumption
    <3>2. sessions'[u] = [sessions[u] EXCEPT !.delivered = TRUE]
      BY <1>2, <1>4, <2>1, <2>2
    <3> QED  BY <2>2, <3>1, <3>2, Apart DEF Session
  <2>3. CASE ~(v = u /\ sessions[u].stay = stay)
    <3>1. sessions'[v] = sessions[v]
      BY <1>2, <1>4, <2>1, <2>3
    <3>2. Offer(v, sessions[v].stay) # Offer(u, stay)
      BY <2>3 DEF Offer
    <3> QED  BY <1>4, <2>1, <3>1, <3>2
  <2> QED  BY <2>2, <2>3
<1>6. sessions' \in [Users -> Session \cup {NoSession}]
  BY <1>1, <1>2, <1>5 DEF TypeOK
<1>7. TypeOK'
  BY <1>1, <1>5, <1>6 DEF TypeOK, Present, Roommates
<1>8. KeptGoing'
  <2>1. ASSUME NEW v \in Present'
        PROVE  /\ HeardOf(sessions'[v]) /\ InTheOffer(sessions'[v])
               /\ ToLookAt(v, sessions[v])' /\ ToOffer(v, sessions[v])'
    <3>1. v \in Users /\ sessions[v] # NoSession /\ v \in Present
      BY <1>5 DEF Present
    <3>2. HeardOf(sessions'[v]) /\ InTheOffer(sessions'[v])
      BY <1>1, <1>5, <3>1 DEF KeptGoing, HeardOf, InTheOffer
    <3>3. LookAgain(v) # Head(tasks)
      BY <1>4 DEF LookAgain, Offer
    <3>4. ToLookAt(v, sessions[v])'
      BY <1>1, <1>3, <1>5, <3>1, <3>3 DEF KeptGoing, ToLookAt
    <3>5. ToOffer(v, sessions[v])'
      BY <1>1, <1>3, <1>5, <3>1 DEF KeptGoing, ToOffer
    <3> QED  BY <3>2, <3>4, <3>5
  <2> QED  BY <2>1 DEF KeptGoing
<1> QED  BY <1>3, <1>7, <1>8 DEF IInv

LEMMA LooksAgainSafe ==
  ASSUME MediaRouterAssumption, IInv, WorkerLooksAgain
  PROVE  IInv'
<1> PICK u : u = Head(tasks).user
  OBVIOUS
<1>1. TypeOK /\ tasks \in Seq(Offered \cup LookedAt) /\ KeptGoing
  BY DEF IInv
<1>2. tasks # <<>> /\ Head(tasks).what = "look_again"
  BY DEF WorkerLooksAgain
<1>3. /\ Head(tasks) \in Offered \cup LookedAt
      /\ Tail(tasks) \in Seq(Offered \cup LookedAt)
      /\ \A task : Queued(task) /\ task # Head(tasks) =>
           \E i \in 1 .. Len(Tail(tasks)) : Tail(tasks)[i] = task
  BY <1>1, <1>2, TailKeeps
<1>4. Head(tasks) = LookAgain(u) /\ u \in Users
  BY <1>2, <1>3 DEF Offered, LookedAt, LookAgain
<1>5. CASE u \in Present /\ sessions[u].pending
  <2> PICK s : s = sessions[u]
    OBVIOUS
  <2>1. s \in Session /\ s.pending /\ s # NoSession
    BY <1>1, <1>5 DEF TypeOK, Present
  <2>2. /\ sessions' = [sessions EXCEPT ![u] = negotiate(s)]
        /\ tasks' = IF Offers(s) THEN Append(Tail(tasks), Offer(u, s.stay)) ELSE Tail(tasks)
    BY <1>1, <1>5 DEF WorkerLooksAgain, TypeOK
  <2>3. Offer(u, s.stay) \in Offered
    BY <1>4, <2>1, Apart DEF Offer, Offered
  <2>4. /\ tasks' \in Seq(Offered \cup LookedAt)
        /\ \A task : Queued(task) /\ task # Head(tasks) => Queued(task)'
        /\ Offers(s) => Queued(Offer(u, s.stay))'
    <3> PICK rest, offer : rest = Tail(tasks) /\ offer = Offer(u, s.stay)
      OBVIOUS
    <3>1. CASE Offers(s)
      <4>1. /\ Append(rest, offer) \in Seq(Offered \cup LookedAt)
            /\ Len(Append(rest, offer)) = Len(rest) + 1 /\ Len(rest) \in Nat
            /\ Append(rest, offer)[Len(rest) + 1] = offer
            /\ \A i \in 1 .. Len(rest) : Append(rest, offer)[i] = rest[i]
        BY <1>3, <2>3
      <4>2. tasks' = Append(rest, offer)
        BY <2>2, <3>1
      <4>3. Queued(offer)'
        BY <4>1, <4>2 DEF Queued
      <4>4. ASSUME NEW task, Queued(task), task # Head(tasks) PROVE Queued(task)'
        <5>1. PICK i \in 1 .. Len(rest) : rest[i] = task
          BY <1>3, <4>4
        <5>2. i \in 1 .. Len(tasks') /\ tasks'[i] = task
          BY <4>1, <4>2, <5>1
        <5> QED  BY <5>2 DEF Queued
      <4> QED  BY <4>1, <4>2, <4>3, <4>4
    <3>2. CASE ~Offers(s)
      BY <1>3, <2>2, <3>2 DEF Queued
    <3> QED  BY <3>1, <3>2
  <2>5. /\ sessions'[u] = negotiate(s) /\ \A v \in Users \ {u} : sessions'[v] = sessions[v]
        /\ sessions' \in [Users -> Session \cup {NoSession}]
    BY <1>1, <1>4, <2>1, <2>2, Negotiating DEF TypeOK
  <2>6. TypeOK'
    BY <1>1, <2>1, <2>5, Negotiating, Apart DEF TypeOK, Present, Roommates
  <2>7. /\ HeardOf(s) /\ InTheOffer(s) /\ ToOffer(u, s)
    BY <1>1, <1>5 DEF KeptGoing
  <2>8. ASSUME NEW v \in Present'
        PROVE  /\ HeardOf(sessions'[v]) /\ InTheOffer(sessions'[v])
               /\ ToLookAt(v, sessions[v])' /\ ToOffer(v, sessions[v])'
    <3>1. CASE v = u
      <4>1. HeardOf(sessions'[u]) /\ InTheOffer(sessions'[u])
        BY <2>1, <2>5, <2>7, Negotiating
      <4>2. ToLookAt(u, sessions[u])'
        BY <2>1, <2>5, Negotiating DEF ToLookAt
      <4>3. Offer(u, s.stay) # Head(tasks)
        BY <1>4 DEF Offer, LookAgain
      <4>4. ToOffer(u, sessions[u])'
        <5> SUFFICES ASSUME ~sessions'[u].stable, ~sessions'[u].delivered
                     PROVE  Queued(Offer(u, s.stay))'
          BY <2>1, <2>5, Negotiating DEF ToOffer
        <5>1. Offers(s) \/ (~s.stable /\ ~s.delivered)
          BY <2>1, <2>5, Negotiating
        <5> QED  BY <2>4, <2>7, <4>3, <5>1 DEF ToOffer
      <4> QED  BY <3>1, <4>1, <4>2, <4>4
    <3>2. CASE v # u
      <4>1. v \in Present /\ sessions'[v] = sessions[v]
        BY <2>5, <3>2 DEF Present
      <4>2. LookAgain(v) # Head(tasks) /\ Offer(v, sessions[v].stay) # Head(tasks)
        BY <1>4, <3>2 DEF LookAgain, Offer
      <4> QED  BY <1>1, <2>4, <4>1, <4>2 DEF KeptGoing, ToLookAt, ToOffer
    <3> QED  BY <3>1, <3>2
  <2> QED  BY <2>4, <2>6, <2>8 DEF IInv, KeptGoing
<1>6. CASE ~(u \in Present /\ sessions[u].pending)
  <2>1. sessions' = sessions /\ tasks' = Tail(tasks)
    BY <1>6 DEF WorkerLooksAgain
  <2>2. \A task : Queued(task) /\ task # Head(tasks) => Queued(task)'
    BY <1>3, <2>1 DEF Queued
  <2>3. ASSUME NEW v \in Present'
        PROVE  /\ HeardOf(sessions'[v]) /\ InTheOffer(sessions'[v])
               /\ ToLookAt(v, sessions[v])' /\ ToOffer(v, sessions[v])'
    <3>1. v \in Present /\ Offer(v, sessions[v].stay) # Head(tasks)
      BY <1>4, <2>1 DEF Present, Offer, LookAgain
    <3>2. sessions[v].pending => LookAgain(v) # Head(tasks)
      BY <1>4, <1>6, <3>1 DEF LookAgain
    <3> QED  BY <1>1, <2>1, <2>2, <3>1, <3>2 DEF KeptGoing, ToLookAt, ToOffer
  <2>4. TypeOK'
    BY <1>1, <2>1 DEF TypeOK, Present, Roommates
  <2> QED  BY <1>3, <2>1, <2>3, <2>4 DEF IInv, KeptGoing
<1> QED  BY <1>5, <1>6
-----------------------------------------------------------------------------
LEMMA InitSafe == Init => IInv
  BY DEF Init, IInv, TypeOK, KeptGoing, Present

LEMMA NextSafe ==
  ASSUME MediaRouterAssumption, IInv, [Next]_vars
  PROVE  IInv'
<1>1. CASE UNCHANGED vars
  BY <1>1 DEF vars, IInv, TypeOK, KeptGoing, Present, Roommates, ToLookAt, ToOffer, Queued
<1>2. CASE Next
  BY <1>2, JoinedSafe, LeftSafe, AnsweredSafe, SendsSafe, LooksAgainSafe DEF Next
<1> QED  BY <1>1, <1>2

LEMMA AlwaysSafe == MediaRouterAssumption => (Spec => []IInv)
<1> SUFFICES ASSUME MediaRouterAssumption PROVE Spec => []IInv
  OBVIOUS
<1>1. IInv /\ [Next]_vars => IInv'
  BY NextSafe
<1> QED  BY <1>1, InitSafe, PTL DEF Spec

(* on_participant_joined and on_participant_left keep the tracks of every  *)
(* session those of everybody else in its room: nobody is wired to one who *)
(* has gone, and nobody is left out.                                       *)
THEOREM TracksAreOfTheRoom == MediaRouterAssumption => (Spec => []TypeOK)
<1>1. IInv => TypeOK
  BY DEF IInv
<1> QED  BY <1>1, AlwaysSafe, PTL

(* Once the worker has nothing to do and no client owes an answer,         *)
(* everybody hears everybody else of their room, whoever came and went     *)
(* while earlier offers were out: negotiate(), pending until it can offer, *)
(* loses nobody, and no session waits for an offer that was never queued.  *)
THEOREM EverybodyIsHeard == MediaRouterAssumption => (Spec => []EveryoneIsHeard)
<1> SUFFICES ASSUME MediaRouterAssumption PROVE Spec => []EveryoneIsHeard
  OBVIOUS
<1>1. ASSUME IInv PROVE EveryoneIsHeard
  <2> SUFFICES ASSUME AtRest, NEW u \in Users, NEW v \in Users, u # v, InOneRoom(u, v)
               PROVE  v \in sessions[u].heard
    BY DEF EveryoneIsHeard
  <2>1. /\ TypeOK /\ HeardOf(sessions[u]) /\ u \in Present /\ v \in Present
        /\ ToLookAt(u, sessions[u]) /\ ToOffer(u, sessions[u])
    BY <1>1 DEF IInv, KeptGoing, InOneRoom
  <2>2. \A task : ~Queued(task)
    BY DEF AtRest, Queued
  <2>3. sessions[u].outbound \subseteq sessions[u].heard
    BY <2>1, <2>2 DEF AtRest, ToLookAt, ToOffer, HeardOf
  <2>4. v \in sessions[u].outbound
    BY <2>1 DEF TypeOK, InOneRoom, Roommates
  <2> QED  BY <2>3, <2>4
<1> QED  BY <1>1, AlwaysSafe, PTL
=============================================================================
