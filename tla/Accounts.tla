------------------------------- MODULE Accounts -------------------------------
(***************************************************************************)
(* The accounts collection between two programs: the server, which reads a *)
(* whole account, changes a copy of it and writes the copy back, and       *)
(* dbadmin, in as many terminals, which writes single fields.  Each looks  *)
(* before it writes, and nothing holds the others off meanwhile.  Within   *)
(* the server one handler, sign-in or heartbeat runs at a time.            *)
(*                                                                         *)
(* Every write may be refused, or be applied without an answer: what is    *)
(* said to the person then is left out, since nothing of it is kept.  A    *)
(* read that fails ends the operation as an account that does not exist,   *)
(* and a count that fails as one administrator: both leave the store as it *)
(* is.  Names are kept apart by a unique index, and are left out.          *)
(***************************************************************************)
EXTENDS FiniteSets, Integers

CONSTANTS
  Accounts,      \* identifiers
  Terminals,     \* dbadmin's
  Passwords,
  Flags,         \* what may be taken: "banned", ...
  MaxDecisions   \* writes there may be

AccountsAssumption ==
  MaxDecisions \in Nat /\ IsFiniteSet(Accounts) /\ Passwords # {}

Server == "server"
Hands == {Server} \cup Terminals
Roles == {"user", "admin"}
Unborn == [exists |-> FALSE, removed |-> FALSE]
Removed == [exists |-> FALSE, removed |-> TRUE]

VARIABLES
  accounts,    \* the collection
  doing,       \* of every hand: what it is in the middle of
  decided,     \* history: what each account was last said to be, by anybody
  decisions,   \* bound, and
  crossed,     \* history: accounts the server wrote back over another's write
  outdated     \* history: a hand wrote when its count was no longer true

vars == <<accounts, doing, decided, decisions, crossed, outdated>>

Idle == [at |-> "idle"]
Founder == [exists |-> TRUE, role |-> "admin", restrictions |-> {},
            password |-> CHOOSE p \in Passwords : TRUE, session_end_requested_at |-> FALSE]
Administrators == {u \in Accounts : accounts[u].exists /\ accounts[u].role = "admin"}

Init ==
  /\ \E u \in Accounts : accounts = [v \in Accounts |-> IF v = u THEN Founder ELSE Unborn]
  /\ doing = [h \in Hands |-> Idle] /\ decided = accounts
  /\ decisions = 0 /\ crossed = {} /\ outdated = FALSE
-----------------------------------------------------------------------------
(* What an operation makes of the account it found: the fields it changes. *)

(* The server's: a role or a password or both, in one write; the flags that*)
(* were named, of those in force; one's own password; a request spent.     *)
handle_update_user ==
  {[role |-> r] : r \in Roles} \cup {[password |-> p] : p \in Passwords}
    \cup {[role |-> r, password |-> p] : r \in Roles, p \in Passwords}

handle_restrict_user(account) ==
  {[restrictions |-> account.restrictions \cup {f}] : f \in Flags \ account.restrictions}
    \cup {[restrictions |-> account.restrictions \ {f}] : f \in account.restrictions}

set_password == {[password |-> p] : p \in Passwords}

discard_session_end_request(account) ==
  IF account.session_end_requested_at THEN {[session_end_requested_at |-> FALSE]} ELSE {}

(* dbadmin's: the role of a form; all the flags of a form; a password; and *)
(* a request for the session to end, of somebody who has one.              *)
UpdateAccount == {[role |-> r] : r \in Roles}
SetRestrictions(account) == {[restrictions |-> fs] : fs \in SUBSET Flags \ {account.restrictions}}
SetPassword == {[password |-> p] : p \in Passwords}
EndSession == {[session_end_requested_at |-> TRUE]}

Edits(h, account) ==
  {Removed} \cup                      \* handle_delete_user, DeleteAccount
  IF h = Server
  THEN handle_update_user \cup handle_restrict_user(account) \cup set_password
         \cup discard_session_end_request(account)
  ELSE UpdateAccount \cup SetRestrictions(account) \cup SetPassword \cup EndSession

(* Which of them take an administrator away, as far as it was read.        *)
Takes(edit, account) ==
  /\ account.role = "admin"
  /\ \/ edit = Removed
     \/ "role" \in DOMAIN edit /\ edit.role # "admin"
     \/ "restrictions" \in DOMAIN edit /\ "banned" \in edit.restrictions \ account.restrictions
-----------------------------------------------------------------------------
(* find_by_id, findAccount.                                                *)
Finds(h, u) ==
  /\ doing[h] = Idle /\ accounts[u].exists /\ decisions < MaxDecisions /\ decisions' = decisions + 1
  /\ \E edit \in Edits(h, accounts[u]) :
       doing' = [doing EXCEPT ![h] = [at |-> "found", user |-> u, account |-> accounts[u],
                                      edit |-> edit]]
  /\ UNCHANGED <<accounts, decided, crossed, outdated>>

(* count_with_role, countAdmins: "the last administrator cannot be         *)
(* demoted", banned or deleted; a role that stays is not counted.          *)
LastOne(h) == Takes(doing[h].edit, doing[h].account) /\ Cardinality(Administrators) <= 1

Counts(h) ==
  /\ doing[h].at = "found"
  /\ doing' = [doing EXCEPT ![h] =
       IF LastOne(h) THEN Idle
       ELSE [at |-> "counted", user |-> @.user, account |-> @.account, edit |-> @.edit,
             administrators |-> Administrators]]
  /\ UNCHANGED <<accounts, decided, decisions, crossed, outdated>>

(* An account with those fields changed.                                   *)
With(edit, account) ==
  [field \in DOMAIN account |-> IF field \in DOMAIN edit THEN edit[field] ELSE account[field]]

(* The server's write is of every field in the $set.                       *)
WrittenBeforeRequests == {"role", "password", "restrictions"}        \* a slip
Written == {"role", "password", "restrictions", "session_end_requested_at"}

update(edit, account, stored) ==
  [field \in DOMAIN stored |->
    IF field \in Written THEN With(edit, account)[field] ELSE stored[field]]

AfterWrite(h, stored) ==
  IF ~stored.exists THEN stored                  \* matched nothing
  ELSE IF doing[h].edit = Removed THEN Removed
  ELSE IF h = Server THEN update(doing[h].edit, doing[h].account, stored)
  ELSE With(doing[h].edit, stored)               \* $set of these fields

Writes(h) ==
  /\ doing[h].at = "counted" /\ doing' = [doing EXCEPT ![h] = Idle]
  /\ LET u == doing[h].user
         over == accounts[u] # doing[h].account
     IN /\ accounts' = [accounts EXCEPT ![u] = AfterWrite(h, @)]
        /\ decided' = [decided EXCEPT ![u] =
             IF ~accounts'[u].exists THEN Removed ELSE With(doing[h].edit, @)]
        /\ crossed' = IF over /\ h = Server THEN crossed \cup {u} ELSE crossed
        /\ outdated' = (outdated \/ over \/ Administrators # doing[h].administrators)
  /\ UNCHANGED decisions

(* The store refuses, or the account is another program's business now.    *)
GivesUp(h) ==
  /\ doing[h].at # "idle" /\ doing' = [doing EXCEPT ![h] = Idle]
  /\ UNCHANGED <<accounts, decided, decisions, crossed, outdated>>

(* add_user, CreateAccount: a new identifier, with nothing taken.          *)
Creates(u) ==
  /\ accounts[u] = Unborn /\ decisions < MaxDecisions /\ decisions' = decisions + 1
  /\ \E r \in Roles, p \in Passwords :
       accounts' = [accounts EXCEPT ![u] = [Founder EXCEPT !.role = r, !.password = p]]
  /\ decided' = [decided EXCEPT ![u] = accounts'[u]]
  /\ UNCHANGED <<doing, crossed, outdated>>

Next ==
  \/ \E h \in Hands, u \in Accounts : Finds(h, u)
  \/ \E h \in Hands : Counts(h) \/ Writes(h) \/ GivesUp(h)
  \/ \E u \in Accounts : Creates(u)

Spec == Init /\ [][Next]_vars
-----------------------------------------------------------------------------
(* Every variable has its shape.                                           *)
TypeOK ==
  /\ \A u \in Accounts : accounts[u] \notin {Unborn, Removed} =>
       /\ accounts[u].exists /\ accounts[u].role \in Roles /\ accounts[u].password \in Passwords
       /\ accounts[u].restrictions \subseteq Flags
       /\ accounts[u].session_end_requested_at \in BOOLEAN
  /\ \A h \in Hands : doing[h].at \in {"idle", "found", "counted"}
  /\ crossed \subseteq Accounts /\ outdated \in BOOLEAN /\ decisions \in 0 .. MaxDecisions

(* What was decided of an account stands, whoever else writes another of   *)
(* its fields, until somebody decides otherwise: unless the server had     *)
(* read the account before, and writes its copy back after; and somebody   *)
(* holds the role that administers, unless what a hand counted had changed *)
(* by the time it wrote.                                                   *)
DecisionsStand ==
  /\ \A u \in Accounts \ crossed : accounts[u] = decided[u]
  /\ ~outdated => Administrators # {}
=============================================================================
