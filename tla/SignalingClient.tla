--------------------------- MODULE SignalingClient ---------------------------
(***************************************************************************)
(* dv::client::SignalingClient: one socket at a time to the server, and    *)
(* the thread that replaces it when it drops.                              *)
(*                                                                         *)
(* Three kinds of thread run its code: the interface's (connect,           *)
(* disconnect, set_url, probe), the retry thread (reconnect_loop) and the  *)
(* socket's (its callbacks, one at a time).  A step is what one of them    *)
(* does under one mutex, or the publication of one state; the mutexes are  *)
(* never held across two.                                                  *)
(*                                                                         *)
(* The socket is libdatachannel's: its callbacks are delivered one after   *)
(* the other, resetCallbacks waits for the one that runs, and one that     *)
(* nothing points to any more is closed.  It may fail as well as close,    *)
(* and tell both.                                                          *)
(***************************************************************************)
EXTENDS Integers, FiniteSets

CONSTANTS
  Urls,          \* the addresses somebody may type
  MaxSockets,    \* bound on the sockets something still refers to
  MaxAttempts,   \* the count of drops beyond which the model stops counting
  MaxNonce       \* bound on the probes sent

Sockets == 1 .. MaxSockets
NoSocket == 0
NoNonce == 0

States == {"Disconnected", "Connecting", "Connected", "Reconnecting"}

SignalingClientAssumption ==
  /\ Urls # {}
  /\ MaxSockets \in Nat /\ MaxAttempts \in Nat /\ MaxNonce \in Nat

VARIABLES
  state,         \* state_
  wanted,        \* wanted_
  attempts,      \* attempts_
  retry_at,      \* whether retry_at_ is set
  socket,        \* socket_
  wire,          \* of every socket: "none", "opening", "open", "down"
  told,          \* of every socket: what it still has to tell
  reached,       \* of every socket: the address it was opened on
  url, next_url, \* url_, next_url_
  sent,          \* probes_sent_
  nonce,         \* probe_nonce_
  measured,      \* the socket round_trip_ was measured on, if it is set
  pongs,         \* of every socket: the probes the server has yet to answer
  interface,     \* where the interface's thread is, and the socket in its hand
  retrying,      \* the same of the retry thread
  calling,       \* the same of the socket's callback
  placed,        \* history: the address connect() adopted
  crossed        \* history: disconnect() overlapped another thread's steps

link == <<socket, wire, told, reached>>
probes == <<sent, nonce, measured, pongs>>
vars == <<state, wanted, attempts, retry_at, link, url, next_url, probes,
          interface, retrying, calling, placed, crossed>>

(* The address of the options.                                             *)
Configured == CHOOSE u \in Urls : TRUE

Idle == [at |-> "idle", socket |-> NoSocket]
At(place, s) == [at |-> place, socket |-> s]

Init ==
  /\ state = "Disconnected" /\ wanted = FALSE /\ attempts = 0 /\ retry_at = FALSE
  /\ socket = NoSocket
  /\ wire = [s \in Sockets |-> "none"] /\ told = [s \in Sockets |-> {}]
  /\ url = Configured
  /\ next_url = url /\ placed = url
  /\ reached = [s \in Sockets |-> Configured]
  /\ sent = 0 /\ nonce = NoNonce /\ measured = NoSocket
  /\ pongs = [s \in Sockets |-> {}]
  /\ interface = Idle /\ retrying = Idle /\ calling = Idle
  /\ crossed = FALSE
-----------------------------------------------------------------------------
(* Sockets nothing refers to.                                              *)
Free == {s \in Sockets \ {socket, interface.socket, retrying.socket, calling.socket} :
           wire[s] = "none" /\ told[s] = {}}

(* Their callbacks detached, and closed: they tell nothing more.           *)
Detached(gone) ==
  /\ wire' = [s \in Sockets |-> IF s \in gone THEN "none" ELSE wire[s]]
  /\ told' = [s \in Sockets |-> IF s \in gone THEN {} ELSE told[s]]
  /\ pongs' = [s \in Sockets |-> IF s \in gone THEN {} ELSE pongs[s]]
  /\ reached' = [s \in Sockets |-> IF s \in gone THEN Configured ELSE reached[s]]

OldMeasure == UNCHANGED <<nonce, measured>>                          \* a slip
NoMeasure == nonce' = NoNonce /\ measured' = NoSocket

(* open_socket: the new socket is put in place with nothing measured on    *)
(* it...                                                                   *)
Installed(s, at) ==
  /\ s \in Free /\ \A other \in Free : s <= other
  /\ socket' = s
  /\ at = At("opening", s)
  /\ NoMeasure

UrlOfTheCall == url

(* ... then, outside the lock, Connecting is published and it is opened.   *)
(* What disconnect() has taken out of place meanwhile closes with the last *)
(* reference to it, which is this one.                                     *)
Opened(s) ==
  /\ state' = "Connecting"
  /\ wire' = [wire EXCEPT ![s] = IF socket = s THEN "opening" ELSE "none"]
  /\ reached' = [reached EXCEPT ![s] = IF socket = s THEN UrlOfTheCall ELSE Configured]
-----------------------------------------------------------------------------
(* The interface's thread.                                                 *)

(* Typed once, which is enough to move it between two sign-ins.            *)
set_url(u) ==
  /\ interface = Idle /\ next_url = Configured /\ u # Configured
  /\ next_url' = u
  /\ UNCHANGED <<state, wanted, attempts, retry_at, link, url, probes, interface, retrying,
                 calling, placed, crossed>>

(* connect(), called as CallSession calls it.                              *)
connect ==
  /\ interface = Idle /\ state = "Disconnected"
  /\ socket = NoSocket
  /\ url' = next_url /\ placed' = next_url
  /\ wanted' = TRUE /\ attempts' = 0
  /\ \E s \in Sockets : Installed(s, interface')
  /\ UNCHANGED <<state, retry_at, wire, told, reached, next_url, sent, pongs, 
                 retrying, calling, crossed>>

InterfaceOpens ==
  /\ interface.at = "opening"
  /\ Opened(interface.socket)
  /\ interface' = Idle
  /\ UNCHANGED <<wanted, attempts, retry_at, socket, told, url, next_url, probes, retrying,
                 calling, placed, crossed>>

RetryCancelled == retry_at' = FALSE

(* disconnect(): what was wanted, then the socket and the state, then the  *)
(* callbacks, which it waits for.                                          *)
disconnect ==
  /\ interface = Idle
  /\ wanted' = FALSE /\ RetryCancelled
  /\ interface' = At("leaving", NoSocket)
  /\ crossed' = (crossed \/ retrying # Idle \/ calling # Idle)
  /\ UNCHANGED <<state, attempts, link, url, next_url, probes, retrying, calling, placed>>

DisconnectTakesSocket ==
  /\ interface.at = "leaving"
  /\ socket' = NoSocket
  /\ NoMeasure
  /\ state' = "Disconnected"
  /\ interface' = IF socket = NoSocket THEN Idle ELSE At("closing", socket)
  /\ UNCHANGED <<wanted, attempts, retry_at, wire, told, reached, url, next_url, sent, pongs,
                 retrying, calling, placed, crossed>>

DisconnectCloses ==
  /\ interface.at = "closing" /\ calling.socket # interface.socket
  /\ Detached({interface.socket})
  /\ interface' = Idle
  /\ UNCHANGED <<state, wanted, attempts, retry_at, socket, url, next_url, sent, nonce,
                 measured, retrying, calling, placed, crossed>>

(* probe(): the nonce is stamped before the send, which may find another   *)
(* socket in place by then.                                                *)
probe ==
  /\ interface = Idle /\ socket # NoSocket /\ sent < MaxNonce
  /\ sent' = sent + 1 /\ nonce' = sent + 1
  /\ interface' = At("probing", NoSocket)
  /\ UNCHANGED <<state, wanted, attempts, retry_at, link, url, next_url, measured, pongs, 
                 retrying, calling, placed, crossed>>

ProbeIsSent ==
  /\ interface.at = "probing"
  /\ IF socket # NoSocket /\ wire[socket] = "open"
     THEN pongs' = [pongs EXCEPT ![socket] = @ \cup {sent}]
     ELSE UNCHANGED pongs
  /\ interface' = Idle
  /\ UNCHANGED <<state, wanted, attempts, retry_at, link, url, next_url, sent, nonce, measured,
                 retrying, calling, placed, crossed>>
-----------------------------------------------------------------------------
(* The retry thread.                                                       *)

(* reconnect_loop, under its mutex: the time has come.                     *)
RetryWakes ==
  /\ retrying = Idle /\ retry_at /\ wanted
  /\ retry_at' = FALSE
  /\ retrying' = At("swapping", NoSocket)
  /\ crossed' = (crossed \/ interface.at = "leaving")
  /\ UNCHANGED <<state, wanted, attempts, link, url, next_url, probes, interface, calling, placed>>

(* ... without it: the old socket is dropped first...                      *)
RetrySwaps ==
  /\ retrying.at = "swapping"
  /\ socket' = NoSocket
  /\ retrying' = At("dropping", socket)
  /\ UNCHANGED <<state, wanted, attempts, retry_at, wire, told, reached, url, next_url, probes,
                 interface, calling, placed, crossed>>

(* ... once its callbacks have returned, and another put in its place, or  *)
(* in that of one which connect() has opened meanwhile.                    *)
RetryInstalls ==
  /\ retrying.at = "dropping" /\ calling.socket \notin {retrying.socket, socket} \ {NoSocket}
  /\ Detached({retrying.socket, socket})
  /\ \E s \in Sockets : Installed(s, retrying')
  /\ UNCHANGED <<state, wanted, attempts, retry_at, url, next_url, sent, 
                 interface, calling, placed, crossed>>

RetryOpens ==
  /\ retrying.at = "opening"
  /\ Opened(retrying.socket)
  /\ retrying' = Idle
  /\ UNCHANGED <<wanted, attempts, retry_at, socket, told, url, next_url, probes, interface,
                 calling, placed, crossed>>
-----------------------------------------------------------------------------
(* The network.                                                            *)

Others == <<state, wanted, attempts, retry_at, socket, reached, url, next_url, sent, nonce,
            measured, interface, retrying, calling, placed, crossed>>

NetworkOpens(s) ==
  /\ wire[s] = "opening"
  /\ wire' = [wire EXCEPT ![s] = "open"] /\ told' = [told EXCEPT ![s] = {"open"}]
  /\ UNCHANGED <<Others, pongs>>

(* It is told once, or as an error and a close.                            *)
NetworkFails(s) ==
  /\ wire[s] \in {"opening", "open"}
  /\ wire' = [wire EXCEPT ![s] = "down"]
  /\ \E how \in {{"closed"}, {"error", "closed"}} : told' = [told EXCEPT ![s] = @ \cup how]
  /\ pongs' = [pongs EXCEPT ![s] = {}]
  /\ UNCHANGED Others
-----------------------------------------------------------------------------
(* The socket's thread.                                                    *)

Rest == <<wire, reached, url, next_url, interface, retrying, placed, sent, pongs>>

(* A callback that begins inside disconnect().                             *)
Crosses == crossed' = (crossed \/ interface.at \in {"leaving", "closing"})

(* onOpen.  A connection that lasted is evidence that the trouble is over. *)
OnOpen(s) ==
  /\ calling = Idle /\ "open" \in told[s]
  /\ told' = [told EXCEPT ![s] = @ \ {"open"}]
  /\ attempts' = 0
  /\ calling' = At("opened", s)
  /\ Crosses
  /\ UNCHANGED <<state, wanted, retry_at, socket, nonce, measured, Rest>>

(* onClosed and onError: handle_drop.                                      *)
handle_drop(s) ==
  /\ calling = Idle /\ told[s] # {} /\ "open" \notin told[s]
  /\ \E what \in told[s] : told' = [told EXCEPT ![s] = @ \ {what}]
  /\ IF state = "Disconnected" THEN calling' = calling /\ UNCHANGED <<nonce, measured>>
     ELSE calling' = At("dropped", s) /\ NoMeasure
  /\ Crosses
  /\ UNCHANGED <<state, wanted, attempts, retry_at, socket, Rest>>

DropSchedulesOnce ==                                                 \* a slip
  attempts' = attempts + 1 /\ retry_at' = (attempts = 0)
DropSchedules ==
  /\ attempts' = IF attempts < MaxAttempts THEN attempts + 1 ELSE attempts
  /\ retry_at' = TRUE

(* The retry, if there still is anybody to retry for...                    *)
HandleDropSchedules ==
  /\ calling.at = "dropped"
  /\ IF wanted THEN DropSchedules /\ calling' = At("scheduled", calling.socket)
     ELSE UNCHANGED <<attempts, retry_at>> /\ calling' = At("given_up", calling.socket)
  /\ UNCHANGED <<state, wanted, socket, told, nonce, measured, crossed, Rest>>

(* ... and what the callback publishes when it is done.                    *)
CallbackPublishes ==
  /\ calling.at \in {"opened", "scheduled", "given_up"}
  /\ state' = CASE calling.at = "opened" -> "Connected"
                [] calling.at = "scheduled" -> "Reconnecting"
                [] OTHER -> "Failed"
  /\ calling' = Idle
  /\ UNCHANGED <<wanted, attempts, retry_at, socket, told, nonce, measured, crossed, Rest>>

(* handle_payload: a pong that does not match is not timed.                *)
HandlePong(s) ==
  /\ calling = Idle /\ socket # NoSocket /\ "open" \notin told[s]
  /\ \E n \in pongs[s] :
       /\ pongs' = [pongs EXCEPT ![s] = @ \ {n}]
       /\ IF n = nonce THEN measured' = s /\ nonce' = NoNonce
          ELSE UNCHANGED <<nonce, measured>>
  /\ UNCHANGED <<state, wanted, attempts, retry_at, link, url, next_url, sent, 
                 interface, retrying, calling, placed, crossed>>
-----------------------------------------------------------------------------
InterfaceNext ==
  \/ connect \/ disconnect \/ probe \/ \E u \in Urls : set_url(u)
  \/ InterfaceOpens \/ DisconnectTakesSocket \/ DisconnectCloses \/ ProbeIsSent

RetryNext == RetryWakes \/ RetrySwaps \/ RetryInstalls \/ RetryOpens

NetworkNext == \E s \in Sockets : NetworkOpens(s) \/ NetworkFails(s)

CallbackNext ==
  \/ \E s \in Sockets : OnOpen(s) \/ handle_drop(s) \/ HandlePong(s)
  \/ HandleDropSchedules \/ CallbackPublishes

Next == InterfaceNext \/ RetryNext \/ NetworkNext \/ CallbackNext

(* The threads run, and the time a retry is due at comes.                  *)
Fairness ==
  /\ WF_vars(RetryNext) /\ WF_vars(CallbackNext)
  /\ WF_vars(InterfaceOpens \/ DisconnectTakesSocket \/ DisconnectCloses \/ ProbeIsSent)

Spec == Init /\ [][Next]_vars /\ Fairness
-----------------------------------------------------------------------------
(* Every variable has its shape, and a retry is scheduled or being served  *)
(* for a socket that went down.                                            *)
TypeOK ==
  /\ state \in States \cup {"Failed"} /\ wanted \in BOOLEAN /\ retry_at \in BOOLEAN
  /\ attempts \in 0 .. MaxAttempts /\ crossed \in BOOLEAN
  /\ socket \in Sockets \cup {NoSocket}
  /\ wire \in [Sockets -> {"none", "opening", "open", "down"}]
  /\ told \in [Sockets -> SUBSET {"open", "closed", "error"}]
  /\ reached \in [Sockets -> Urls] /\ {url, next_url, placed} \subseteq Urls
  /\ sent \in 0 .. MaxNonce /\ nonce \in 0 .. sent /\ measured \in Sockets \cup {NoSocket}

AtRest == interface = Idle /\ retrying = Idle /\ calling = Idle

(* What the state says is so, for whoever decides by it, as sign-in does   *)
(* ("on its way", call_session.cpp:122): Reconnecting is "down, and a      *)
(* retry is already scheduled" (signaling_client.hpp:46), Connected has a  *)
(* socket and Disconnected none, unless disconnect() overlapped a callback *)
(* or a retry that was past its check: see README.md.                      *)
StateTellsTheTruth ==
  AtRest /\ ~crossed =>
    CASE state = "Disconnected" -> socket = NoSocket /\ ~retry_at /\ ~wanted
      [] state = "Reconnecting" -> retry_at /\ wanted
      [] state = "Failed" -> FALSE
      [] OTHER -> socket # NoSocket /\ wanted /\ wire[socket] # "none"

(* The socket in place has gone down, and is missed.                       *)
Dropped == wanted /\ socket # NoSocket /\ wire[socket] = "down"

(* "Only disconnect() stops it": whatever overlaps what, a socket that is  *)
(* still wanted and has gone down is replaced (signaling_client.hpp:36).   *)
DroppedIsReplaced == Dropped ~> ~Dropped

(* A link is of this sign-in: the round trip shown was measured on the     *)
(* socket in place, not on the one before it (signaling_client.cpp:246,    *)
(* 199), and "a socket that drops in the middle of a call has to come back *)
(* on the server that call was placed on" (signaling_client.hpp:113).      *)
LinkIsOfThisSignIn ==
  socket # NoSocket =>
    /\ measured \in {NoSocket, socket}
    /\ wanted /\ wire[socket] # "none" => reached[socket] = placed
=============================================================================
