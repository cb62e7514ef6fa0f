------------------------------- MODULE Notices -------------------------------
(***************************************************************************)
(* What administrators write to one account, from the panel (Hub's         *)
(* send_notice) or past the server (dbadmin), and how it reaches the       *)
(* person: handed over at sign-in, at once, or by a heartbeat, once per    *)
(* sign-in; shown in a box; and outstanding in the store until a box is    *)
(* dismissed on a connection that still carries the account.  The account  *)
(* may be signed in from two sockets in turn, and either may drop.         *)
(***************************************************************************)
EXTENDS Sequences, SequencesExt, FiniteSets, Integers

CONSTANTS
  Sockets,                    \* the connections the account signs in from
  MaxNotices,                 \* written in all
  kMaxPendingPerDelivery,
  MaxSignIns, MaxRefusals     \* of the account; of acknowledgements, by the store

NoticesAssumption == {MaxNotices, kMaxPendingPerDelivery} \subseteq Nat \ {0}

Ids == 1 .. MaxNotices        \* in the order in which they were written

VARIABLES
  written, acknowledged,  \* the notices collection
  joined,      \* connections_
  identified,  \* those that carry the account
  delivered,   \* delivered_notice_ids
  down, up,    \* notices and acknowledgements on their way
  boxes,       \* the client's message boxes, the one in front first
  sign_ins, refused   \* bounds; refused: in this sign-in

frames == <<down, up>>
vars == <<written, acknowledged, joined, identified, delivered, frames, boxes,
          sign_ins, refused>>

Init ==
  /\ written = {} /\ acknowledged = {}
  /\ joined = {} /\ identified = {}
  /\ delivered = [s \in Sockets |-> {}]
  /\ down = [s \in Sockets |-> <<>>] /\ up = down /\ boxes = down
  /\ sign_ins = 0 /\ refused = {}

Outstanding(rows) == rows \ acknowledged

(* "Oldest first, at most kMaxPendingPerDelivery of them."                 *)
pending_for(rows) ==
  {n \in Outstanding(rows) :
     Cardinality({o \in Outstanding(rows) : o < n}) < kMaxPendingPerDelivery}

(* hand_over_notice, of each: "unless it already has it".                  *)
HandsOver(s, notices) ==
  /\ delivered' = [delivered EXCEPT ![s] = @ \cup notices]
  /\ down' = [down EXCEPT ![s] = @ \o SetToSortSeq(notices \ delivered[s], <)]
-----------------------------------------------------------------------------
(* A notice written is a row; one the store refuses is nothing.            *)
Appended == LET n == Cardinality(written) + 1
            IN n \in Ids /\ written' = written \cup {n}

(* The person is told at once where they are signed in.                    *)
handle_send_notice ==
  /\ Appended
  /\ IF identified = {} THEN UNCHANGED <<delivered, down>>
     ELSE \E s \in identified : HandsOver(s, written' \ written)
  /\ UNCHANGED <<acknowledged, joined, identified, up, boxes, sign_ins, refused>>

(* dbadmin: "the document alone, and that is enough".                      *)
SendNotice ==
  /\ Appended
  /\ UNCHANGED <<acknowledged, joined, identified, delivered, frames, boxes, sign_ins,
                 refused>>

WrittenElsewhereUnseen(s) == UNCHANGED <<delivered, down>>            \* a slip

(* deliver_notices_written_elsewhere; a store that cannot be read has      *)
(* nothing pending, and the next heartbeat asks again.                     *)
WrittenElsewhere(s) == HandsOver(s, pending_for(written))

tick ==
  /\ \E s \in identified : WrittenElsewhere(s)
  /\ UNCHANGED <<written, acknowledged, joined, identified, up, boxes, sign_ins, refused>>

on_connect(s) ==
  /\ s \notin joined /\ joined' = joined \cup {s}
  /\ UNCHANGED <<written, acknowledged, identified, delivered, frames, boxes, sign_ins,
                 refused>>

(* A second sign-in blanks the first; "a new identity is owed everything   *)
(* its account has pending", whatever this socket was handed before.       *)
handle_authenticate(s) ==
  /\ s \in joined /\ sign_ins < MaxSignIns /\ sign_ins' = sign_ins + 1
  /\ \E pending \in {pending_for(written), {}} :
       /\ delivered' = [t \in Sockets |-> IF t = s THEN pending ELSE {}]
       /\ down' = [down EXCEPT ![s] = @ \o SetToSortSeq(pending, <)]
  /\ identified' = {s} /\ refused' = {}
  /\ UNCHANGED <<written, acknowledged, joined, up, boxes>>

(* end_session_of: the socket stays, with nobody on it.                    *)
EndSession(s) ==
  /\ s \in identified /\ identified' = {}
  /\ delivered' = [delivered EXCEPT ![s] = {}]
  /\ UNCHANGED <<written, acknowledged, joined, frames, boxes, sign_ins, refused>>

(* The socket closes, with what was on its way, and perhaps the client.    *)
on_disconnect(s) ==
  /\ s \in joined /\ joined' = joined \ {s} /\ identified' = identified \ {s}
  /\ delivered' = [delivered EXCEPT ![s] = {}]
  /\ down' = [down EXCEPT ![s] = <<>>] /\ up' = [up EXCEPT ![s] = <<>>]
  /\ \E left \in {boxes[s], <<>>} : boxes' = [boxes EXCEPT ![s] = left]
  /\ UNCHANGED <<written, acknowledged, sign_ins, refused>>

(* apply_notice: a box, in front of those still open.                      *)
apply_notice(s) ==
  /\ down[s] # <<>>
  /\ boxes' = [boxes EXCEPT ![s] = <<Head(down[s])>> \o @]
  /\ down' = [down EXCEPT ![s] = Tail(@)]
  /\ UNCHANGED <<written, acknowledged, joined, identified, delivered, up, sign_ins,
                 refused>>

(* Dismissed, however: that is sent where there is a socket, and otherwise *)
(* "there is nothing else to do".                                          *)
acknowledge_notice(s) ==
  /\ boxes[s] # <<>> /\ boxes' = [boxes EXCEPT ![s] = Tail(@)]
  /\ up' = IF s \in joined THEN [up EXCEPT ![s] = Append(@, Head(boxes[s]))] ELSE up
  /\ UNCHANGED <<written, acknowledged, joined, identified, delivered, down, sign_ins,
                 refused>>

(* Taken from the account's own connection only; the store may refuse.     *)
handle_acknowledge_notice(s) ==
  /\ up[s] # <<>> /\ up' = [up EXCEPT ![s] = Tail(@)]
  /\ LET n == Head(up[s])
     IN \/ s \in identified /\ acknowledged' = acknowledged \cup {n} /\ UNCHANGED refused
        \/ s \notin identified /\ UNCHANGED <<acknowledged, refused>>
        \/ /\ s \in identified /\ Cardinality(refused) < MaxRefusals
           /\ refused' = refused \cup {n} /\ UNCHANGED acknowledged
  /\ UNCHANGED <<written, joined, identified, delivered, down, boxes, sign_ins>>

Reads(s) == apply_notice(s) \/ acknowledge_notice(s) \/ handle_acknowledge_notice(s)

Next ==
  \/ handle_send_notice \/ SendNotice \/ tick
  \/ \E s \in Sockets :
       \/ on_connect(s) \/ handle_authenticate(s) \/ EndSession(s) \/ on_disconnect(s)
       \/ Reads(s)

(* Heartbeats go on, frames arrive and boxes are dismissed.                *)
Fairness == WF_vars(tick) /\ \A s \in Sockets : WF_vars(Reads(s))

Spec == Init /\ [][Next]_vars /\ Fairness
-----------------------------------------------------------------------------
(* Every variable has its shape, and one socket at most is the account's.  *)
TypeOK ==
  /\ acknowledged \subseteq written /\ written \subseteq Ids
  /\ identified \subseteq joined /\ joined \subseteq Sockets /\ Cardinality(identified) < 2
  /\ delivered \in [Sockets -> SUBSET Ids]
  /\ {down, up, boxes} \subseteq [Sockets -> Seq(Ids)]

(* Nothing an administrator wrote stays unread while its person stays      *)
(* signed in, however often the connection was lost with it, whoever wrote *)
(* it and however much is pending: unless the store refused what they      *)
(* answered, which waits for the next sign-in (mongo_store.cpp, hub.cpp).  *)
EverythingIsRead ==
  <>[](identified # {}) => []<>(Outstanding(written) = {} \/ refused # {})
=============================================================================
