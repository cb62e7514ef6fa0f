------------------------------ MODULE LossRepair ------------------------------
(***************************************************************************)
(* dv::server::sfu::LossRepair: the holes in a stream that reaches the SFU,*)
(* and the requests for what went missing.                                 *)
(*                                                                         *)
(* A packet of the sender is known by its index in its source, 0, 1, 2...; *)
(* the wire carries (first + index) % SeqModulus, 16 bits in the code.     *)
(* The network loses packets, reorders them and carries the ones that were *)
(* asked for again.  A sender that paused leaves a jump wider than max_gap *)
(* that was never sent, or comes back as another source with nothing of    *)
(* the old one on its way.  One packet reaches incoming() at a time, and   *)
(* time is counted in ticks.                                               *)
(***************************************************************************)
EXTENDS Integers, Functions

CONSTANTS
  SeqModulus,
  max_gap, max_requests, retry_after, give_up_after,
  Firsts,              \* where a source may start numbering
  MaxIndex, MaxSources \* bounds on the packets of a source and on the sources

LossRepairAssumption ==
  /\ {SeqModulus, max_gap, max_requests, retry_after, give_up_after, MaxIndex, MaxSources}
       \subseteq Nat \ {0}
  /\ SeqModulus % 2 = 0 /\ MaxIndex < SeqModulus \div 2
  /\ Firsts \subseteq 0 .. SeqModulus - 1

NoSource == 0          \* ssrc_ before the first packet

VARIABLES
  ssrc,                \* ssrc_
  started,             \* started_
  expected,            \* expected_
  missing,             \* missing_: requests, and the age of it and of the last one
  sender,              \* its source, where it numbers from, its next index
  sent,                \* the packets of the source that were sent, by index
  in_flight,           \* the ones on their way
  arrived,             \* history: the ones that arrived
  since,               \* history: the index the repair follows the source from
  asked                \* history: how often each was asked for

repair == <<ssrc, started, expected, missing>>
network == <<sender, sent, in_flight>>
vars == <<repair, network, arrived, since, asked>>

Indices == 0 .. SeqModulus - 1
Wire(i) == (sender.first + i) % SeqModulus
NeverAsked == [i \in Indices |-> 0]

Init ==
  /\ ssrc = NoSource /\ started = FALSE /\ expected = 0 /\ missing = <<>>
  /\ \E f \in Firsts : sender = [ssrc |-> 1, first |-> f, next |-> 0]
  /\ sent = {} /\ in_flight = {} /\ arrived = {} /\ since = 0 /\ asked = NeverAsked
-----------------------------------------------------------------------------
Signed(d) ==
  LET m == d % SeqModulus IN IF m < SeqModulus \div 2 THEN m ELSE m - SeqModulus

Following == started /\ ssrc = sender.ssrc
Distance(seq) == Signed(seq - expected)
Older(seq) == Following /\ Distance(seq) < 0
TooFar(seq) == Following /\ Distance(seq) > max_gap

HoleUnwrapped(seq) ==                                                \* a slip
  IF Following /\ Distance(seq) \in 1 .. max_gap THEN expected .. seq - 1 ELSE {}

(* From expected_ up to, and without, the packet that came.                *)
Hole(seq) ==
  IF Following /\ Distance(seq) \in 1 .. max_gap
    THEN {(expected + d) % SeqModulus : d \in 0 .. Distance(seq) - 1} ELSE {}

ExpectedFromLatest(seq) == (seq + 1) % SeqModulus                    \* a slip

New == [requests |-> 0, age |-> 0, idle |-> 0]

(* What is still missed of what was: nothing of another source, nothing    *)
(* from before a jump, and not the packet that came.                       *)
StillMissed(seq) ==
  IF ~Following \/ TooFar(seq) THEN <<>>
  ELSE IF Older(seq) THEN Restrict(missing, DOMAIN missing \ {seq})
  ELSE missing

(* observe() up to request(): try_emplace leaves an entry that exists.     *)
Observed(seq) ==
  LET before == StillMissed(seq)
  IN [s \in DOMAIN before \cup Hole(seq) |-> IF s \in DOMAIN before THEN before[s] ELSE New]

(* Asked for often enough, or too old for the decoder to want.             *)
WrittenOff(m) == m.requests >= max_requests \/ m.age >= give_up_after
Kept(pending) == {s \in DOMAIN pending : ~WrittenOff(pending[s])}

(* A first request at once, the next a retry_after later.                  *)
Wanted(pending) ==
  {s \in Kept(pending) : pending[s].requests = 0 \/ pending[s].idle >= retry_after}

AskedAgain(m) == [m EXCEPT !.requests = @ + 1, !.idle = 0]

Requested(pending) ==
  [s \in Kept(pending) |->
     IF s \in Wanted(pending) THEN AskedAgain(pending[s]) ELSE pending[s]]

(* A packet older than expected moves nothing.                             *)
ExpectedAfter(seq) == IF Older(seq) THEN expected ELSE (seq + 1) % SeqModulus

(* incoming(): observe() and request() for the packet of that index.       *)
incoming(i) ==
  LET seq == Wire(i) IN
  /\ i \in in_flight
  /\ in_flight' = in_flight \ {i}
  /\ ssrc' = sender.ssrc /\ started' = TRUE
  /\ expected' = ExpectedAfter(seq)
  /\ missing' = Requested(Observed(seq))
  /\ asked' = [j \in Indices |->
                 asked[j] + (IF Wire(j) \in Wanted(Observed(seq)) THEN 1 ELSE 0)]
  /\ arrived' = arrived \cup {i}
  /\ since' = IF ~Following \/ TooFar(seq) THEN i ELSE since
  /\ UNCHANGED <<sender, sent>>
-----------------------------------------------------------------------------
(* The sender, the network and the clock.                                  *)

Sends(travels) ==
  /\ sender.next <= MaxIndex
  /\ sender' = [sender EXCEPT !.next = @ + 1]
  /\ sent' = sent \cup {sender.next}
  /\ in_flight' = IF travels THEN in_flight \cup {sender.next} ELSE in_flight
  /\ UNCHANGED <<repair, arrived, since, asked>>

(* The sender keeps a history of what it sent, and answers a request.      *)
Retransmits(i) ==
  /\ i \in sent \ (arrived \cup in_flight) /\ asked[i] > 0
  /\ in_flight' = in_flight \cup {i}
  /\ UNCHANGED <<repair, sender, sent, arrived, since, asked>>

(* A share that stops and starts: numbers in between that nobody sent.     *)
Jumps ==
  /\ sender.next - 1 \in sent
  /\ sender.next + max_gap + 1 <= MaxIndex
  /\ sender' = [sender EXCEPT !.next = @ + max_gap + 1]
  /\ UNCHANGED <<repair, sent, in_flight, arrived, since, asked>>

Restarts(f) ==
  /\ sender.ssrc < MaxSources /\ arrived # {}
  /\ sender' = [ssrc |-> sender.ssrc + 1, first |-> f, next |-> 0]
  /\ sent' = {} /\ in_flight' = {} /\ arrived' = {} /\ since' = 0 /\ asked' = NeverAsked
  /\ UNCHANGED repair

Ages(m) ==
  [m EXCEPT !.age = IF @ < give_up_after THEN @ + 1 ELSE @,
            !.idle = IF @ < retry_after THEN @ + 1 ELSE @]

TimePasses ==
  /\ \E s \in DOMAIN missing : Ages(missing[s]) # missing[s]
  /\ missing' = [s \in DOMAIN missing |-> Ages(missing[s])]
  /\ UNCHANGED <<ssrc, started, expected, network, arrived, since, asked>>

Next ==
  \/ \E i \in in_flight : incoming(i)
  \/ \E travels \in BOOLEAN : Sends(travels)
  \/ \E i \in sent : Retransmits(i)
  \/ Jumps
  \/ \E f \in Firsts : Restarts(f)
  \/ TimePasses

Spec == Init /\ [][Next]_vars
-----------------------------------------------------------------------------
(* Every variable has its shape.                                           *)
TypeOK ==
  /\ ssrc \in 0 .. MaxSources /\ started \in BOOLEAN /\ expected \in Indices
  /\ DOMAIN missing \subseteq Indices
  /\ \A s \in DOMAIN missing :
       missing[s] \in [requests : 0 .. max_requests, age : 0 .. give_up_after,
                       idle : 0 .. retry_after]
  /\ sender \in [ssrc : 1 .. MaxSources, first : Firsts, next : 0 .. MaxIndex + 1]
  /\ UNION {sent, in_flight, arrived} \subseteq 0 .. MaxIndex
  /\ since \in 0 .. MaxIndex /\ asked \in [Indices -> 0 .. max_requests]

(* What is asked for is a packet this source sent and that has not arrived,*)
(* and no packet is asked for without end: "burst of requests for packets  *)
(* that were never sent" (loss_repair.cpp:66) is what a jump or another    *)
(* source must not bring, and asking for what has come adds traffic to a   *)
(* link that is already losing it (loss_repair.hpp:40).                    *)
AsksOnlyForMissing ==
  [][\A i \in Indices :
       asked'[i] > asked[i] => i \in sent \ arrived' /\ asked'[i] <= max_requests]_vars

Highest == CHOOSE i \in arrived : \A j \in arrived : j <= i

(* A hole is never overlooked: of what was sent since the repair follows   *)
(* the source, up to the latest that arrived, everything has arrived or    *)
(* was asked for.                                                          *)
EveryHoleIsAskedFor ==
  arrived # {} => \A i \in sent \ arrived : i \in since .. Highest => asked[i] > 0
=============================================================================
