---------------------------- MODULE VideoStitcher ----------------------------
(***************************************************************************)
(* dv::server::sfu::VideoStitcher: the packets of whoever shares, renumber-*)
(* ed so that one viewer's track stays one stream across every handover.   *)
(*                                                                         *)
(* A sharer's encoder numbers its packets and stamps them from wherever it *)
(* likes; the network loses some and delivers the others out of order, the *)
(* last of one sharer after the first of the next too.  Numbers and stamps *)
(* wrap: 16 and 32 bits in the code, SeqModulus and StampModulus here,     *)
(* with the distances of the code in proportion.                           *)
(***************************************************************************)
EXTENDS Integers, FiniteSets

CONSTANTS
  Senders,
  SeqModulus, StampModulus,
  kMaxOrdinaryJump, kMaxOrdinaryRewind, kHandoverTicks,
  FrameTicks,          \* between two packets of one encoder
  Starts, StampStarts, \* where an encoder may start
  MaxSent, MaxInFlight \* bounds on the packets: in all, and on their way

VideoStitcherAssumption ==
  /\ {SeqModulus, StampModulus, kMaxOrdinaryJump, kMaxOrdinaryRewind, kHandoverTicks,
      FrameTicks, MaxSent, MaxInFlight} \subseteq Nat \ {0}
  /\ SeqModulus % 2 = 0 /\ StampModulus % 2 = 0
  /\ Starts \subseteq 0 .. SeqModulus - 1 /\ StampStarts \subseteq 0 .. StampModulus - 1

NoSource == "nobody"

VARIABLES
  source,              \* source_, NoSource until started_
  last_in,             \* last_in_sequence_ and last_in_timestamp_
  last_out,            \* last_out_sequence_ and last_out_timestamp_
  offset,              \* sequence_offset_ and timestamp_offset_
  encoder,             \* who shares, their next packet, whether one was sent
  sent,                \* the packets sent so far
  in_flight,           \* what is on its way
  base,                \* history: the number the series in hand was based on
  passed               \* history: what the viewer has been sent

stitcher == <<source, last_in, last_out, offset>>
vars == <<stitcher, encoder, sent, in_flight, base, passed>>

Mark(sequence, timestamp) == [sequence |-> sequence, timestamp |-> timestamp]

Init ==
  /\ source = NoSource
  /\ last_in = Mark(0, 0) /\ last_out = Mark(0, 0) /\ offset = Mark(0, 0)
  /\ \E u \in Senders, s \in Starts, t \in StampStarts :
       encoder = [who |-> u, next |-> Mark(s, t), started |-> FALSE]
  /\ sent = 0 /\ in_flight = {} /\ base = 0 /\ passed = {}
-----------------------------------------------------------------------------
(* A difference read as a signed number of its width.                      *)
Signed(d, modulus) ==
  LET m == d % modulus IN IF m < modulus \div 2 THEN m ELSE m - modulus

Magnitude(n) == IF n < 0 THEN -n ELSE n

is_after(later, earlier) == Signed(later - earlier, SeqModulus) > 0
distance(a, b) == Magnitude(Signed(a - b, SeqModulus))

Rewound(at) ==
  Signed(at.timestamp - last_in.timestamp, StampModulus) < -kMaxOrdinaryRewind

(* A new participant, an encoder that restarted, a gap too wide for loss.  *)
NewSeries(who, at) ==
  \/ who # source
  \/ distance(at.sequence, last_in.sequence) > kMaxOrdinaryJump
  \/ Rewound(at)

(* Immediately after everything this track has carried.                    *)
HandoverOffset(at) ==
  Mark((last_out.sequence + 1 - at.sequence) % SeqModulus,
       (last_out.timestamp + kHandoverTicks - at.timestamp) % StampModulus)

Shifted(at, by) ==
  Mark((at.sequence + by.sequence) % SeqModulus, (at.timestamp + by.timestamp) % StampModulus)

LatestOut(out, mark) == out                                          \* a slip

(* Only ever forwards: the next handover starts from there.                *)
HighestOut(out, mark) == IF is_after(out.sequence, mark.sequence) THEN out ELSE mark
-----------------------------------------------------------------------------
Starting(p) ==
  /\ source = NoSource
  /\ source' = p.who
  /\ offset' = Mark(0, 0) /\ last_in' = p.at /\ last_out' = p.at
  /\ base' = p.at.sequence
  /\ passed' = passed \cup {[out |-> p.at, packet |-> p, early |-> FALSE]}

(* The rest of rewrite().  A packet that arrives before the one its series *)
(* was based on has the number of something before the series.             *)
Continuing(p) ==
  /\ source # NoSource
  /\ LET new == NewSeries(p.who, p.at)
         by == IF new THEN HandoverOffset(p.at) ELSE offset
         out == Shifted(p.at, by)
     IN /\ source' = p.who /\ offset' = by
        /\ last_out' = HighestOut(out, last_out)
        /\ last_in' = IF new \/ is_after(p.at.sequence, last_in.sequence) THEN p.at ELSE last_in
        /\ base' = IF new THEN p.at.sequence ELSE base
        /\ passed' = passed \cup
             {[out |-> out, packet |-> p, early |-> ~new /\ is_after(base, p.at.sequence)]}

rewrite(p) ==
  /\ p \in in_flight
  /\ in_flight' = in_flight \ {p}
  /\ Starting(p) \/ Continuing(p)
  /\ UNCHANGED <<encoder, sent>>
-----------------------------------------------------------------------------
(* The encoders and the network.                                           *)

After(at, n) ==
  Mark((at.sequence + n) % SeqModulus, (at.timestamp + n * FrameTicks) % StampModulus)

Sends ==
  /\ sent < MaxSent
  /\ encoder' = [encoder EXCEPT !.next = After(@, 1), !.started = TRUE]
  /\ sent' = sent + 1
  /\ UNCHANGED <<stitcher, base, passed>>

Travels ==
  /\ Sends
  /\ Cardinality(in_flight) < MaxInFlight
  /\ in_flight' = in_flight \cup {[who |-> encoder.who, at |-> encoder.next, id |-> sent]}

IsLost ==
  /\ Sends
  /\ UNCHANGED in_flight

(* Somebody takes the screen, while the last of others may be on its way, *)
(* or the encoder in hand starts again.  Nothing of the newcomer's own     *)
(* older series is still travelling, and a series of whoever the stitcher  *)
(* follows is all far enough from the one before to be told from a loss,   *)
(* whichever packet of it arrives first.                                   *)
TakesOver(u, s, t) ==
  /\ sent < MaxSent /\ encoder.started
  /\ \A p \in in_flight : p.who # u
  /\ u = source => \A n \in 0 .. MaxSent - sent : NewSeries(u, After(Mark(s, t), n))
  /\ encoder' = [who |-> u, next |-> Mark(s, t), started |-> FALSE]
  /\ UNCHANGED <<stitcher, sent, in_flight, base, passed>>

Next ==
  \/ Travels \/ IsLost
  \/ \E p \in in_flight : rewrite(p)
  \/ \E u \in Senders, s \in Starts, t \in StampStarts : TakesOver(u, s, t)

Spec == Init /\ [][Next]_vars
-----------------------------------------------------------------------------
(* Every variable has its shape.                                           *)
TypeOK ==
  LET Marks == [sequence : 0 .. SeqModulus - 1, timestamp : 0 .. StampModulus - 1]
  IN /\ source \in Senders \cup {NoSource}
     /\ {last_in, last_out, offset, encoder.next} \subseteq Marks
     /\ encoder.who \in Senders /\ sent \in 0 .. MaxSent
     /\ Cardinality(in_flight) <= MaxInFlight
     /\ passed \subseteq [out : Marks, packet : [who : Senders, at : Marks, id : 0 .. MaxSent],
                          early : BOOLEAN]

InPlace == {x \in passed : ~x.early}

(* What a viewer is sent is one stream, across handovers, restarts and     *)
(* losses: no number is used twice, which would be taken for a duplicate,  *)
(* and the clock follows the numbers, or the picture stops (video_stitcher *)
(* .hpp).  What overtook the first of its own series is not covered: it    *)
(* gets a number of the series before (video_stitcher.cpp:55): README.md.  *)
OneStream ==
  \A x \in InPlace, y \in InPlace :
    /\ x.out.sequence = y.out.sequence => x.packet.id = y.packet.id
    /\ is_after(x.out.sequence, y.out.sequence) =>
         Signed(x.out.timestamp - y.out.timestamp, StampModulus) >= 0
=============================================================================
