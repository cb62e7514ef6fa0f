------------------------ MODULE SignalingClientProofs ------------------------
(***************************************************************************)
(* What SignalingClient.tla guarantees for any number of sockets, drops,   *)
(* retries, addresses and probes.                                          *)
(*                                                                         *)
(* The link has no lock of its own: a state is published after the mutex   *)
(* that decided it was let go.  Until disconnect() overlaps another thread *)
(* (~crossed), the inductive invariant says of each stretch of a sign-in   *)
(* what is already done and what is still owed: Quiet before connect and   *)
(* while its socket is being opened, Kept while the link is wanted, Left   *)
(* while disconnect() runs.  What makes it inductive is Living: a socket   *)
(* that can still call back is in place or in one thread's hand.           *)
(***************************************************************************)
EXTENDS SignalingClient, TLAPS

Handed == Sockets \cup {NoSocket}

Threading ==
  /\ interface \in [at : {"idle", "opening", "leaving", "closing", "probing"}, socket : Handed]
  /\ retrying \in [at : {"idle", "swapping", "dropping", "opening"}, socket : Handed]
  /\ calling \in [at : {"idle", "opened", "dropped", "scheduled", "given_up"}, socket : Handed]
  /\ interface.at = "idle" => interface = Idle
  /\ retrying.at = "idle" => retrying = Idle
  /\ calling.at = "idle" => calling = Idle
  /\ interface.at \in {"opening", "closing"} => interface.socket # NoSocket
  /\ interface.at = "probing" => sent # 0
  /\ retrying.at = "opening" => retrying.socket # NoSocket
  /\ calling.at # "idle" => calling.socket # NoSocket
  /\ pongs \in [Sockets -> SUBSET (1 .. sent)]

(* The round trip: what could still be timed was sent on the socket in     *)
(* place.  The address: of the sign-in, from the start.                    *)
Measures ==
  /\ nonce # NoNonce => nonce = sent
  /\ socket # NoSocket => /\ measured \in {NoSocket, socket}
                          /\ \A s \in Sockets : nonce \in pongs[s] => s = socket
                          /\ wire[socket] # "none" => reached[socket] = url
  /\ url = placed

(* The sockets that can still tell something.                              *)
Living ==
  \A s \in Sockets : wire[s] # "none" \/ told[s] # {} =>
    \/ s = socket
    \/ retrying.at = "dropping" /\ s = retrying.socket
    \/ interface.at = "closing" /\ s = interface.socket

Still == retrying = Idle /\ calling = Idle /\ ~retry_at

Quiet ==
  /\ Still /\ state = "Disconnected"
  /\ interface.at = "opening" =>
       wanted /\ socket = interface.socket /\ wire[socket] = "none" /\ told[socket] = {}
  /\ interface.at # "opening" => ~wanted /\ socket = NoSocket

Kept ==
  /\ wanted /\ state \in {"Connecting", "Connected", "Reconnecting"}
  /\ calling.at # "given_up"
  /\ calling # Idle => \/ calling.socket = socket
                       \/ retrying.at = "dropping" /\ calling.socket = retrying.socket
  /\ retrying = Idle => /\ socket # NoSocket /\ wire[socket] # "none"
                        /\ calling.at = "scheduled" \/ state = "Reconnecting" => retry_at
  /\ retrying.at = "dropping" => socket = NoSocket
  /\ retrying.at = "opening" => /\ calling = Idle /\ socket = retrying.socket
                                /\ wire[socket] = "none" /\ told[socket] = {}

Left ==
  /\ Still /\ ~wanted
  /\ interface.at = "closing" => socket = NoSocket /\ state = "Disconnected"

Stretch ==
  /\ interface.at = "opening" => Quiet
  /\ interface.at \in {"leaving", "closing"} => Left
  /\ interface.at \in {"idle", "probing"} => Quiet \/ Kept

Orderly == Living /\ Stretch

IInv == TypeOK /\ Threading /\ Measures /\ (~crossed => Orderly)
-----------------------------------------------------------------------------
LEMMA ThereIsAnAddress ==
  ASSUME SignalingClientAssumption
  PROVE  Configured \in Urls
  BY DEF SignalingClientAssumption, Configured

LEMMA TypingSafe ==
  ASSUME SignalingClientAssumption, IInv, NEW u \in Urls, set_url(u)
  PROVE  IInv'
<1>1. TypeOK /\ Threading /\ Measures
  BY DEF IInv
<1>2. TypeOK'
  BY <1>1 DEF TypeOK, set_url, link, probes
<1>3. Threading'
  BY <1>1 DEF Threading, set_url, probes
<1>4. Measures'
  BY <1>1 DEF Measures, set_url, link, probes
<1>5. ASSUME ~crossed' PROVE Orderly'
  <2>1. ~crossed
    BY <1>1, <1>5 DEF set_url
  <2>2. Living /\ Stretch
    BY <2>1 DEF IInv, Orderly
  <2>3. Living'
    BY <1>1, <1>5, <2>1, <2>2 DEF Living, set_url, link
  <2>4. Stretch'
    BY <1>1, <1>5, <2>1, <2>2 DEF Quiet, Kept, Still, Stretch, set_url, Idle,
       link
  <2> QED  BY <2>3, <2>4 DEF Orderly
<1> QED  BY <1>2, <1>3, <1>4, <1>5 DEF IInv

LEMMA ConnectSafe ==
  ASSUME SignalingClientAssumption, IInv, connect
  PROVE  IInv'
<1>1. TypeOK /\ Threading /\ Measures
  BY DEF IInv
<1>2. TypeOK'
  BY <1>1 DEF TypeOK, SignalingClientAssumption, connect, Installed,
     NoMeasure, Free, NoNonce
<1>3. Threading'
  BY <1>1 DEF Threading, Handed, connect, Installed, NoMeasure, Free, At
<1>4. Measures'
  BY <1>1 DEF Threading, Measures, connect, Installed, NoMeasure, Free,
     NoNonce
<1>5. ASSUME ~crossed' PROVE Orderly'
  <2>1. ~crossed
    BY <1>1, <1>5 DEF connect, Installed, NoMeasure, Free
  <2>2. Living /\ Stretch
    BY <2>1 DEF IInv, Orderly
  <2>3. Living'
    <3>1. PICK o \in Sockets : Installed(o, interface')
      BY DEF connect
    <3>2. socket' = o /\ interface'.at = "opening" /\ wire[o] = "none" /\ told[o] = {}
      BY <3>1 DEF Installed, At, Free
    <3>3. socket = NoSocket /\ interface.at = "idle" /\ UNCHANGED <<wire, told, retrying>>
      BY DEF connect, Idle
    <3> QED
      BY <2>2, <3>2, <3>3 DEF Living, Sockets, NoSocket
  <2>4. Stretch'
    BY <1>1, <1>5, <2>1, <2>2 DEF Quiet, Kept, Still, Stretch, connect,
       Installed, NoMeasure, Free, At, Idle
  <2> QED  BY <2>3, <2>4 DEF Orderly
<1> QED  BY <1>2, <1>3, <1>4, <1>5 DEF IInv

LEMMA OpeningSafe ==
  ASSUME SignalingClientAssumption, IInv, InterfaceOpens
  PROVE  IInv'
<1>1. TypeOK /\ Threading /\ Measures
  BY DEF IInv
<1>2. TypeOK'
  BY <1>1, ThereIsAnAddress DEF TypeOK, States, InterfaceOpens, Opened,
     UrlOfTheCall, probes
<1>3. Threading'
  BY <1>1 DEF Threading, Handed, InterfaceOpens, Opened, UrlOfTheCall, Idle,
     probes
<1>4. Measures'
  BY <1>1 DEF TypeOK, Measures, InterfaceOpens, Opened, UrlOfTheCall, probes
<1>5. ASSUME ~crossed' PROVE Orderly'
  <2>1. ~crossed
    BY <1>1, <1>5 DEF InterfaceOpens, Opened, UrlOfTheCall
  <2>2. Living /\ Stretch
    BY <2>1 DEF IInv, Orderly
  <2>3. Living'
    BY <1>1, <1>5, <2>1, <2>2 DEF Living, InterfaceOpens, Opened, UrlOfTheCall
  <2>4. Stretch'
    BY <1>1, <1>5, <2>1, <2>2 DEF TypeOK, Threading, Quiet, Kept, Still,
       Stretch, InterfaceOpens, Opened, UrlOfTheCall
  <2> QED  BY <2>3, <2>4 DEF Orderly
<1> QED  BY <1>2, <1>3, <1>4, <1>5 DEF IInv

LEMMA DisconnectSafe ==
  ASSUME SignalingClientAssumption, IInv, disconnect
  PROVE  IInv'
<1>1. TypeOK /\ Threading /\ Measures
  BY DEF IInv
<1>2. TypeOK'
  BY <1>1 DEF TypeOK, disconnect, RetryCancelled, link, probes
<1>3. Threading'
  BY <1>1 DEF Threading, disconnect, RetryCancelled, At, Idle, probes
<1>4. Measures'
  BY <1>1 DEF Measures, disconnect, RetryCancelled, link, probes
<1>5. ASSUME ~crossed' PROVE Orderly'
  <2>1. ~crossed
    BY <1>1, <1>5 DEF disconnect, RetryCancelled
  <2>2. Living /\ Stretch
    BY <2>1 DEF IInv, Orderly
  <2>3. Living'
    BY <1>1, <1>5, <2>1, <2>2 DEF Living, disconnect, RetryCancelled, Idle,
       link
  <2>4. Stretch'
    BY <1>1, <1>5, <2>1, <2>2 DEF Left, Still, Stretch, disconnect,
       RetryCancelled, At
  <2> QED  BY <2>3, <2>4 DEF Orderly
<1> QED  BY <1>2, <1>3, <1>4, <1>5 DEF IInv

LEMMA TakingSafe ==
  ASSUME SignalingClientAssumption, IInv, DisconnectTakesSocket
  PROVE  IInv'
<1>1. TypeOK /\ Threading /\ Measures
  BY DEF IInv
<1>2. TypeOK'
  BY <1>1 DEF TypeOK, States, DisconnectTakesSocket, NoMeasure, NoNonce
<1>3. Threading'
  BY <1>1 DEF TypeOK, Threading, Handed, DisconnectTakesSocket, NoMeasure, At,
     Idle
<1>4. Measures'
  BY <1>1 DEF Measures, DisconnectTakesSocket, NoMeasure
<1>5. ASSUME ~crossed' PROVE Orderly'
  <2>1. ~crossed
    BY <1>1, <1>5 DEF DisconnectTakesSocket, NoMeasure
  <2>2. Living /\ Stretch
    BY <2>1 DEF IInv, Orderly
  <2>3. Living'
    BY <1>1, <1>5, <2>1, <2>2 DEF Living, DisconnectTakesSocket, NoMeasure, At
  <2>4. Stretch'
    BY <1>1, <1>5, <2>1, <2>2 DEF Quiet, Left, Still, Stretch,
       DisconnectTakesSocket, NoMeasure, At, Idle
  <2> QED  BY <2>3, <2>4 DEF Orderly
<1> QED  BY <1>2, <1>3, <1>4, <1>5 DEF IInv

LEMMA ClosingSafe ==
  ASSUME SignalingClientAssumption, IInv, DisconnectCloses
  PROVE  IInv'
<1>1. TypeOK /\ Threading /\ Measures
  BY DEF IInv
<1>2. TypeOK'
  BY <1>1, ThereIsAnAddress DEF TypeOK, DisconnectCloses, Detached
<1>3. Threading'
  BY <1>1 DEF Threading, Handed, DisconnectCloses, Detached, Idle
<1>4. Measures'
  BY <1>1 DEF TypeOK, Measures, DisconnectCloses, Detached
<1>5. ASSUME ~crossed' PROVE Orderly'
  <2>1. ~crossed
    BY <1>1, <1>5 DEF DisconnectCloses, Detached
  <2>2. Living /\ Stretch
    BY <2>1 DEF IInv, Orderly
  <2>3. Living'
    BY <1>1, <1>5, <2>1, <2>2 DEF Living, DisconnectCloses, Detached
  <2>4. Stretch'
    BY <1>1, <1>5, <2>1, <2>2 DEF Quiet, Left, Still, Stretch,
       DisconnectCloses, Detached, Idle
  <2> QED  BY <2>3, <2>4 DEF Orderly
<1> QED  BY <1>2, <1>3, <1>4, <1>5 DEF IInv

LEMMA ProbeSafe ==
  ASSUME SignalingClientAssumption, IInv, probe
  PROVE  IInv'
<1>1. TypeOK /\ Threading /\ Measures
  BY DEF IInv
<1>2. TypeOK'
  BY <1>1 DEF TypeOK, SignalingClientAssumption, probe, link
<1>3. Threading'
  BY <1>1 DEF TypeOK, Threading, probe, At, Idle
<1>4. Measures'
  BY <1>1 DEF TypeOK, Threading, Measures, probe, link
<1>5. ASSUME ~crossed' PROVE Orderly'
  <2>1. ~crossed
    BY <1>1, <1>5 DEF probe
  <2>2. Living /\ Stretch
    BY <2>1 DEF IInv, Orderly
  <2>3. Living'
    BY <1>1, <1>5, <2>1, <2>2 DEF Living, probe, Idle, link
  <2>4. Stretch'
    BY <1>1, <1>5, <2>1, <2>2 DEF Quiet, Kept, Stretch, probe, At, Idle, link
  <2> QED  BY <2>3, <2>4 DEF Orderly
<1> QED  BY <1>2, <1>3, <1>4, <1>5 DEF IInv

LEMMA SendingSafe ==
  ASSUME SignalingClientAssumption, IInv, ProbeIsSent
  PROVE  IInv'
<1>1. TypeOK /\ Threading /\ Measures
  BY DEF IInv
<1>2. TypeOK'
  BY <1>1 DEF TypeOK, ProbeIsSent, link
<1>3. Threading'
  <2>1. pongs' \in [Sockets -> SUBSET (1 .. sent)]
    BY <1>1 DEF TypeOK, Threading, ProbeIsSent, SignalingClientAssumption
  <2> QED
    BY <1>1, <2>1 DEF Threading, ProbeIsSent, Handed, Idle, NoSocket, link
<1>4. Measures'
  BY <1>1 DEF Threading, Measures, ProbeIsSent, link
<1>5. ASSUME ~crossed' PROVE Orderly'
  <2>1. ~crossed
    BY <1>1, <1>5 DEF ProbeIsSent
  <2>2. Living /\ Stretch
    BY <2>1 DEF IInv, Orderly
  <2>3. Living'
    BY <1>1, <1>5, <2>1, <2>2 DEF Living, ProbeIsSent, link
  <2>4. Stretch'
    BY <1>1, <1>5, <2>1, <2>2 DEF Quiet, Kept, Still, Stretch, ProbeIsSent,
       Idle, link
  <2> QED  BY <2>3, <2>4 DEF Orderly
<1> QED  BY <1>2, <1>3, <1>4, <1>5 DEF IInv

LEMMA WakingSafe ==
  ASSUME SignalingClientAssumption, IInv, RetryWakes
  PROVE  IInv'
<1>1. TypeOK /\ Threading /\ Measures
  BY DEF IInv
<1>2. TypeOK'
  BY <1>1 DEF TypeOK, RetryWakes, link, probes
<1>3. Threading'
  BY <1>1 DEF Threading, RetryWakes, At, Idle, probes
<1>4. Measures'
  BY <1>1 DEF Measures, RetryWakes, link, probes
<1>5. ASSUME ~crossed' PROVE Orderly'
  <2>1. ~crossed
    BY <1>1, <1>5 DEF RetryWakes
  <2>2. Living /\ Stretch
    BY <2>1 DEF IInv, Orderly
  <2>3. Living'
    BY <1>1, <1>5, <2>1, <2>2 DEF Living, RetryWakes, Idle, link
  <2>4. Stretch'
    BY <1>1, <1>5, <2>1, <2>2 DEF Quiet, Kept, Left, Still, Stretch,
       RetryWakes, At, Idle, link
  <2> QED  BY <2>3, <2>4 DEF Orderly
<1> QED  BY <1>2, <1>3, <1>4, <1>5 DEF IInv

LEMMA SwappingSafe ==
  ASSUME SignalingClientAssumption, IInv, RetrySwaps
  PROVE  IInv'
<1>1. TypeOK /\ Threading /\ Measures
  BY DEF IInv
<1>2. TypeOK'
  BY <1>1 DEF TypeOK, RetrySwaps, probes
<1>3. Threading'
  BY <1>1 DEF TypeOK, Threading, Handed, RetrySwaps, At, probes
<1>4. Measures'
  BY <1>1 DEF Measures, RetrySwaps, probes
<1>5. ASSUME ~crossed' PROVE Orderly'
  <2>1. ~crossed
    BY <1>1, <1>5 DEF RetrySwaps
  <2>2. Living /\ Stretch
    BY <2>1 DEF IInv, Orderly
  <2>3. Living'
    BY <1>1, <1>5, <2>1, <2>2 DEF Living, RetrySwaps, At
  <2>4. Stretch'
    BY <1>1, <1>5, <2>1, <2>2 DEF Quiet, Kept, Left, Still, Stretch,
       RetrySwaps, At, Idle
  <2> QED  BY <2>3, <2>4 DEF Orderly
<1> QED  BY <1>2, <1>3, <1>4, <1>5 DEF IInv

LEMMA InstallingSafe ==
  ASSUME SignalingClientAssumption, IInv, RetryInstalls
  PROVE  IInv'
<1>1. TypeOK /\ Threading /\ Measures
  BY DEF IInv
<1>2. TypeOK'
  BY <1>1, ThereIsAnAddress DEF TypeOK, RetryInstalls, Installed, Detached,
     NoMeasure, Free, NoNonce
<1>3. Threading'
  BY <1>1 DEF Threading, Handed, Sockets, RetryInstalls, Installed, Detached,
     NoMeasure, Free, At, NoSocket
<1>4. Measures'
  BY <1>1 DEF Threading, Measures, RetryInstalls, Installed, Detached,
     NoMeasure, Free, NoNonce
<1>5. ASSUME ~crossed' PROVE Orderly'
  <2>1. ~crossed
    BY <1>1, <1>5 DEF RetryInstalls, Installed, Detached, NoMeasure, Free
  <2>2. Living /\ Stretch
    BY <2>1 DEF IInv, Orderly
  <2>3. Living'
    BY <1>1, <1>5, <2>1, <2>2 DEF Living, RetryInstalls, Installed, Detached,
       NoMeasure, Free
  <2>4. Stretch'
    BY <1>1, <1>5, <2>1, <2>2 DEF Threading, Quiet, Kept, Left, Still,
       Stretch, RetryInstalls, Installed, Detached, NoMeasure, Free, At
  <2> QED  BY <2>3, <2>4 DEF Orderly
<1> QED  BY <1>2, <1>3, <1>4, <1>5 DEF IInv

LEMMA ReopeningSafe ==
  ASSUME SignalingClientAssumption, IInv, RetryOpens
  PROVE  IInv'
<1>1. TypeOK /\ Threading /\ Measures
  BY DEF IInv
<1>2. TypeOK'
  BY <1>1, ThereIsAnAddress DEF TypeOK, States, RetryOpens, Opened,
     UrlOfTheCall, probes
<1>3. Threading'
  BY <1>1 DEF Threading, Handed, RetryOpens, Opened, UrlOfTheCall, Idle,
     probes
<1>4. Measures'
  BY <1>1 DEF TypeOK, Measures, RetryOpens, Opened, UrlOfTheCall, probes
<1>5. ASSUME ~crossed' PROVE Orderly'
  <2>1. ~crossed
    BY <1>1, <1>5 DEF RetryOpens, Opened, UrlOfTheCall
  <2>2. Living /\ Stretch
    BY <2>1 DEF IInv, Orderly
  <2>3. Living'
    BY <1>1, <1>5, <2>1, <2>2 DEF Living, RetryOpens, Opened, UrlOfTheCall
  <2>4. Stretch'
    BY <1>1, <1>5, <2>1, <2>2 DEF TypeOK, Threading, Quiet, Kept, Left, Still,
       Stretch, RetryOpens, Opened, UrlOfTheCall, Idle
  <2> QED  BY <2>3, <2>4 DEF Orderly
<1> QED  BY <1>2, <1>3, <1>4, <1>5 DEF IInv

LEMMA NetworkUpSafe ==
  ASSUME SignalingClientAssumption, IInv, NEW s \in Sockets, NetworkOpens(s)
  PROVE  IInv'
<1>1. TypeOK /\ Threading /\ Measures
  BY DEF IInv
<1>2. TypeOK'
  BY <1>1 DEF TypeOK, NetworkOpens, Others
<1>3. Threading'
  BY <1>1 DEF Threading, NetworkOpens, Others
<1>4. Measures'
  BY <1>1 DEF Measures, NetworkOpens, Others
<1>5. ASSUME ~crossed' PROVE Orderly'
  <2>1. ~crossed
    BY <1>1, <1>5 DEF NetworkOpens, Others
  <2>2. Living /\ Stretch
    BY <2>1 DEF IInv, Orderly
  <2>3. Living'
    BY <1>1, <1>5, <2>1, <2>2 DEF Living, NetworkOpens, Others
  <2>4. Stretch'
    BY <1>1, <1>5, <2>1, <2>2 DEF Quiet, Kept, Left, Still, Stretch,
       NetworkOpens, Others
  <2> QED  BY <2>3, <2>4 DEF Orderly
<1> QED  BY <1>2, <1>3, <1>4, <1>5 DEF IInv

LEMMA NetworkDownSafe ==
  ASSUME SignalingClientAssumption, IInv, NEW s \in Sockets, NetworkFails(s)
  PROVE  IInv'
<1>1. TypeOK /\ Threading /\ Measures
  BY DEF IInv
<1>2. TypeOK'
  BY <1>1 DEF TypeOK, NetworkFails, Others
<1>3. Threading'
  BY <1>1 DEF Threading, NetworkFails, Others
<1>4. Measures'
  BY <1>1 DEF Measures, NetworkFails, Others
<1>5. ASSUME ~crossed' PROVE Orderly'
  <2>1. ~crossed
    BY <1>1, <1>5 DEF NetworkFails, Others
  <2>2. Living /\ Stretch
    BY <2>1 DEF IInv, Orderly
  <2>3. Living'
    BY <1>1, <1>5, <2>1, <2>2 DEF Living, NetworkFails, Others
  <2>4. Stretch'
    BY <1>1, <1>5, <2>1, <2>2 DEF Quiet, Kept, Left, Still, Stretch,
       NetworkFails, Others
  <2> QED  BY <2>3, <2>4 DEF Orderly
<1> QED  BY <1>2, <1>3, <1>4, <1>5 DEF IInv

LEMMA OnOpenSafe ==
  ASSUME SignalingClientAssumption, IInv, NEW s \in Sockets, OnOpen(s)
  PROVE  IInv'
<1>1. TypeOK /\ Threading /\ Measures
  BY DEF IInv
<1>2. TypeOK'
  BY <1>1 DEF TypeOK, SignalingClientAssumption, OnOpen, Crosses, Rest
<1>3. Threading'
  BY <1>1 DEF Threading, Handed, Sockets, OnOpen, Crosses, Rest, At, NoSocket
<1>4. Measures'
  BY <1>1 DEF Measures, OnOpen, Crosses, Rest
<1>5. ASSUME ~crossed' PROVE Orderly'
  <2>1. ~crossed
    BY <1>1, <1>5 DEF OnOpen, Crosses, Rest
  <2>2. Living /\ Stretch
    BY <2>1 DEF IInv, Orderly
  <2>3. Living'
    BY <1>1, <1>5, <2>1, <2>2 DEF Living, OnOpen, Crosses, Rest
  <2>4. Stretch'
    <3>1. interface.at \in {"idle", "probing"}
      BY <1>1, <1>5, <2>2 DEF Threading, OnOpen, Crosses, Stretch, Quiet, Living, Still, Idle, At
    <3>2. Living /\ calling = Idle /\ told[s] # {} /\ calling' = At("opened", s)
      BY <2>2 DEF OnOpen
    <3>3. Kept
      BY <1>1, <2>2, <3>1, <3>2 DEF Threading, TypeOK, Stretch, Quiet, Living, Still, Idle, Sockets, NoSocket
    <3>4. s = socket \/ (retrying.at = "dropping" /\ s = retrying.socket)
      BY <3>1, <3>2 DEF Living
    <3>5. retrying.at # "opening"
      BY <3>2, <3>3, <3>4 DEF Kept
    <3>6. Kept'
      BY <3>2, <3>3, <3>4, <3>5 DEF Kept, OnOpen, Rest, At, Idle
    <3> QED
      BY <3>1, <3>6 DEF Stretch, OnOpen, Rest
  <2> QED  BY <2>3, <2>4 DEF Orderly
<1> QED  BY <1>2, <1>3, <1>4, <1>5 DEF IInv

LEMMA DropSafe ==
  ASSUME SignalingClientAssumption, IInv, NEW s \in Sockets, handle_drop(s)
  PROVE  IInv'
<1>1. TypeOK /\ Threading /\ Measures
  BY DEF IInv
<1>2. TypeOK'
  BY <1>1 DEF TypeOK, handle_drop, Crosses, NoMeasure, Rest, NoNonce
<1>3. Threading'
  BY <1>1 DEF Threading, Handed, Sockets, handle_drop, Crosses, NoMeasure,
     Rest, At, NoSocket
<1>4. Measures'
  BY <1>1 DEF Threading, Measures, handle_drop, Crosses, NoMeasure, Rest,
     NoNonce
<1>5. ASSUME ~crossed' PROVE Orderly'
  <2>1. ~crossed
    BY <1>1, <1>5 DEF handle_drop, Crosses, NoMeasure, Rest
  <2>2. Living /\ Stretch
    BY <2>1 DEF IInv, Orderly
  <2>3. Living'
    BY <1>1, <1>5, <2>1, <2>2 DEF Living, handle_drop, Crosses, NoMeasure,
       Rest
  <2>4. Stretch'
    <3>1. interface.at \in {"idle", "probing"}
      BY <1>1, <1>5, <2>2 DEF Threading, handle_drop, Crosses, Stretch, Quiet, Living, Still, Idle, At
    <3>2. Living /\ calling = Idle /\ told[s] # {}
      BY <2>2 DEF handle_drop
    <3>3. Kept
      BY <1>1, <2>2, <3>1, <3>2 DEF Threading, TypeOK, Stretch, Quiet, Living, Still, Idle, Sockets, NoSocket
    <3>4. s = socket \/ (retrying.at = "dropping" /\ s = retrying.socket)
      BY <3>1, <3>2 DEF Living
    <3>5. retrying.at # "opening" /\ calling' = At("dropped", s)
      BY <3>2, <3>3, <3>4 DEF Kept, handle_drop
    <3>6. Kept'
      BY <3>2, <3>3, <3>4, <3>5 DEF Kept, handle_drop, Rest, At, Idle
    <3> QED
      BY <3>1, <3>6 DEF Stretch, handle_drop, Rest
  <2> QED  BY <2>3, <2>4 DEF Orderly
<1> QED  BY <1>2, <1>3, <1>4, <1>5 DEF IInv

LEMMA SchedulingSafe ==
  ASSUME SignalingClientAssumption, IInv, HandleDropSchedules
  PROVE  IInv'
<1>1. TypeOK /\ Threading /\ Measures
  BY DEF IInv
<1>2. TypeOK'
  <2>1. attempts' \in 0 .. MaxAttempts /\ retry_at' \in BOOLEAN
    <3>1. MaxAttempts \in Nat /\ attempts \in 0 .. MaxAttempts /\ retry_at \in BOOLEAN
      BY <1>1 DEF TypeOK, SignalingClientAssumption
    <3>2. CASE wanted
      BY <3>1, <3>2 DEF HandleDropSchedules, DropSchedules
    <3>3. CASE ~wanted
      BY <3>1, <3>3 DEF HandleDropSchedules
    <3> QED  BY <3>2, <3>3
  <2> QED
    BY <1>1, <2>1 DEF TypeOK, HandleDropSchedules, Rest
<1>3. Threading'
  BY <1>1 DEF Threading, HandleDropSchedules, DropSchedules, Rest, At
<1>4. Measures'
  BY <1>1 DEF Measures, HandleDropSchedules, DropSchedules, Rest
<1>5. ASSUME ~crossed' PROVE Orderly'
  <2>1. ~crossed
    BY <1>1, <1>5 DEF HandleDropSchedules, DropSchedules, Rest
  <2>2. Living /\ Stretch
    BY <2>1 DEF IInv, Orderly
  <2>3. Living'
    BY <1>1, <1>5, <2>1, <2>2 DEF Living, HandleDropSchedules, DropSchedules,
       Rest
  <2>4. Stretch'
    BY <1>1, <1>5, <2>1, <2>2 DEF Quiet, Kept, Left, Still, Stretch,
       HandleDropSchedules, DropSchedules, Rest, At, Idle
  <2> QED  BY <2>3, <2>4 DEF Orderly
<1> QED  BY <1>2, <1>3, <1>4, <1>5 DEF IInv

LEMMA PublishingSafe ==
  ASSUME SignalingClientAssumption, IInv, CallbackPublishes
  PROVE  IInv'
<1>1. TypeOK /\ Threading /\ Measures
  BY DEF IInv
<1>2. TypeOK'
  BY <1>1 DEF TypeOK, States, CallbackPublishes, Rest
<1>3. Threading'
  BY <1>1 DEF Threading, Handed, CallbackPublishes, Rest, Idle
<1>4. Measures'
  BY <1>1 DEF Measures, CallbackPublishes, Rest
<1>5. ASSUME ~crossed' PROVE Orderly'
  <2>1. ~crossed
    BY <1>1, <1>5 DEF CallbackPublishes, Rest
  <2>2. Living /\ Stretch
    BY <2>1 DEF IInv, Orderly
  <2>3. Living'
    BY <1>1, <1>5, <2>1, <2>2 DEF Living, CallbackPublishes, Rest
  <2>4. Stretch'
    BY <1>1, <1>5, <2>1, <2>2 DEF Quiet, Kept, Left, Still, Stretch,
       CallbackPublishes, Rest, Idle
  <2> QED  BY <2>3, <2>4 DEF Orderly
<1> QED  BY <1>2, <1>3, <1>4, <1>5 DEF IInv

LEMMA PongSafe ==
  ASSUME SignalingClientAssumption, IInv, NEW s \in Sockets, HandlePong(s)
  PROVE  IInv'
<1>1. TypeOK /\ Threading /\ Measures
  BY DEF IInv
<1>2. TypeOK'
  BY <1>1 DEF TypeOK, HandlePong, NoNonce, link
<1>3. Threading'
  BY <1>1 DEF Threading, HandlePong
<1>4. Measures'
  BY <1>1 DEF Threading, Measures, HandlePong, NoNonce, link
<1>5. ASSUME ~crossed' PROVE Orderly'
  <2>1. ~crossed
    BY <1>1, <1>5 DEF HandlePong
  <2>2. Living /\ Stretch
    BY <2>1 DEF IInv, Orderly
  <2>3. Living'
    BY <1>1, <1>5, <2>1, <2>2 DEF Living, HandlePong, link
  <2>4. Stretch'
    BY <1>1, <1>5, <2>1, <2>2 DEF Quiet, Kept, Left, Still, Stretch,
       HandlePong, link
  <2> QED  BY <2>3, <2>4 DEF Orderly
<1> QED  BY <1>2, <1>3, <1>4, <1>5 DEF IInv
-----------------------------------------------------------------------------
LEMMA InitSafe ==
  ASSUME SignalingClientAssumption, Init
  PROVE  IInv
<1>1. Configured \in Urls
  BY ThereIsAnAddress
<1>2. TypeOK
  <2>1. /\ told \in [Sockets -> SUBSET {"open", "closed", "error"}]
        /\ wire \in [Sockets -> {"none", "opening", "open", "down"}]
        /\ reached \in [Sockets -> Urls]
    BY <1>1 DEF Init
  <2>2. state \in States /\ socket = NoSocket /\ measured = NoSocket /\ crossed = FALSE
    BY DEF Init, States
  <2>3. attempts \in 0 .. MaxAttempts /\ sent \in 0 .. MaxNonce /\ nonce \in 0 .. sent
    BY DEF Init, NoNonce, SignalingClientAssumption
  <2>4. {url, next_url, placed} \subseteq Urls /\ wanted \in BOOLEAN /\ retry_at \in BOOLEAN
    BY <1>1 DEF Init
  <2> QED  BY <2>1, <2>2, <2>3, <2>4 DEF TypeOK
<1>3. Threading
  BY DEF Init, Threading, Idle, Handed, NoSocket
<1>4. Measures
  BY DEF Init, Measures, NoSocket, NoNonce
<1>5. Living /\ Stretch
  BY DEF Init, Living, Stretch, Quiet, Still, Idle
<1> QED  BY <1>2, <1>3, <1>4, <1>5 DEF IInv, Orderly

LEMMA StepSafe ==
  ASSUME SignalingClientAssumption, IInv, [Next]_vars
  PROVE  IInv'
<1>1. CASE InterfaceNext
  BY <1>1, TypingSafe, ConnectSafe, OpeningSafe, DisconnectSafe, TakingSafe, ClosingSafe,
     ProbeSafe, SendingSafe
  DEF InterfaceNext
<1>2. CASE RetryNext
  BY <1>2, WakingSafe, SwappingSafe, InstallingSafe, ReopeningSafe DEF RetryNext
<1>3. CASE NetworkNext
  BY <1>3, NetworkUpSafe, NetworkDownSafe DEF NetworkNext
<1>4. CASE CallbackNext
  BY <1>4, OnOpenSafe, DropSafe, PongSafe, SchedulingSafe, PublishingSafe DEF CallbackNext
<1>5. CASE UNCHANGED vars
  <2>1. TypeOK' = TypeOK /\ Threading' = Threading /\ Measures' = Measures
    BY <1>5 DEF vars, link, probes, TypeOK, Threading, Measures, Idle
  <2>2. Living' = Living /\ Stretch' = Stretch /\ crossed' = crossed
    BY <1>5 DEF vars, link, Living, Stretch, Quiet, Left, Kept, Still, Idle
  <2> QED  BY <2>1, <2>2 DEF IInv, Orderly
<1> QED  BY <1>1, <1>2, <1>3, <1>4, <1>5 DEF Next

LEMMA AlwaysSafe == SignalingClientAssumption => (Spec => []IInv)
<1> SUFFICES ASSUME SignalingClientAssumption PROVE Spec => []IInv
  OBVIOUS
<1>1. Init => IInv
  BY InitSafe
<1>2. IInv /\ [Next]_vars => IInv'
  BY StepSafe
<1> QED  BY <1>1, <1>2, PTL DEF Spec

(* Every variable of the link keeps its shape.                             *)
THEOREM LinksAreTyped == SignalingClientAssumption => (Spec => []TypeOK)
<1>1. IInv => TypeOK
  BY DEF IInv
<1> QED  BY <1>1, AlwaysSafe, PTL

(* Whoever decides by the state (CallSession's sign-in, which waits for a  *)
(* link that is on its way) is told the truth by it: a retry is scheduled  *)
(* where it says so, a socket is there where it says so, and none is where *)
(* it says Disconnected; for any number of drops, retries and sockets that *)
(* fail, unless disconnect() overlapped another thread.                    *)
THEOREM TheStateIsTrue == SignalingClientAssumption => (Spec => []StateTellsTheTruth)
<1> SUFFICES ASSUME SignalingClientAssumption PROVE Spec => []StateTellsTheTruth
  OBVIOUS
<1>1. ASSUME IInv PROVE StateTellsTheTruth
  <2> SUFFICES ASSUME AtRest, ~crossed PROVE StateTellsTheTruth
    BY DEF StateTellsTheTruth
  <2>1. interface.at = "idle" /\ retrying = Idle /\ calling = Idle /\ Stretch
    BY <1>1 DEF AtRest, Idle, IInv, Orderly
  <2>2. Quiet \/ Kept
    BY <2>1 DEF Stretch
  <2>3. CASE Quiet
    BY <2>1, <2>3 DEF Quiet, Still, StateTellsTheTruth
  <2>4. CASE Kept
    <3>1. /\ wanted /\ socket # NoSocket /\ wire[socket] # "none"
          /\ state = "Reconnecting" => retry_at
          /\ state \in {"Connecting", "Connected", "Reconnecting"}
      BY <2>1, <2>4 DEF Kept
    <3> QED  BY <3>1 DEF StateTellsTheTruth
  <2> QED  BY <2>2, <2>3, <2>4
<1> QED  BY <1>1, AlwaysSafe, PTL

(* A round trip is shown of the socket it was measured on, and a retry     *)
(* knocks at the address of the sign-in, whatever was typed since and      *)
(* however disconnect() overlapped the others.                             *)
THEOREM TheLinkIsOfItsSignIn == SignalingClientAssumption => (Spec => []LinkIsOfThisSignIn)
<1>1. IInv => LinkIsOfThisSignIn
  BY DEF IInv, Measures, LinkIsOfThisSignIn, NoSocket
<1> QED  BY <1>1, AlwaysSafe, PTL
=============================================================================
