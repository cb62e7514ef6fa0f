------------------------------ MODULE AdminPanel ------------------------------
(***************************************************************************)
(* An administrator's panel of accounts: a table the server's answers      *)
(* redraw at any moment, the row that is current in it, the pane that      *)
(* shows that row, a menu opened over a row, and questions asked before a  *)
(* request goes out.  Menus and questions run the interface's events while *)
(* they wait, so that answers are applied underneath them.                 *)
(*                                                                         *)
(* One restriction stands for the four, and every row passes the filter.   *)
(* What the server makes of a request is Accounts' and Hub's business:     *)
(* here it does as it is asked, and other administrators do the like.      *)
(***************************************************************************)
EXTENDS TLC, FiniteSets, Integers, SequencesExt

CONSTANTS
  Accounts,
  Nobody,
  MaxChanges,      \* made elsewhere
  MaxRequests,
  MaxAnswers       \* on their way

AdminPanelAssumption ==
  Nobody \notin Accounts /\ {MaxChanges, MaxRequests, MaxAnswers} \subseteq Nat

VARIABLES
  accounts,        \* the server's, by identifier
  answers,         \* lists on their way to the panel
  accounts_,       \* the panel's
  row,             \* the current row of the table, 0 for none
  pane,            \* whom the pane is about, the role it shows, and its box
  open,            \* the menu or the question in front
  requests, changes,   \* bounds
  picked,          \* history: whose row the administrator put the current one on
  asked            \* history: the last request, and what was read when it was chosen

vars == <<accounts, answers, accounts_, row, pane, open, requests, changes, picked, asked>>

Created == SetToSeq(Accounts)        \* in the order of creation, as they are listed
Rows(listed) == SelectSeq(Created, LAMBDA u : u \in DOMAIN listed)
selected_id(listed, r) == IF r = 0 THEN Nobody ELSE Rows(listed)[r]
RowOf(listed, u) == CHOOSE r \in 1 .. Len(Rows(listed)) : Rows(listed)[r] = u
Selected == selected_id(accounts_, row)

Closed == [is |-> "nothing", redrawn |-> FALSE]
NothingShown == [id |-> Nobody, admin |-> FALSE, banned |-> FALSE]
show_account(listed, u) ==
  IF u = Nobody THEN NothingShown
  ELSE [id |-> u, admin |-> listed[u].admin, banned |-> listed[u].banned]

Init ==
  /\ accounts = [u \in Accounts |-> [admin |-> FALSE, banned |-> FALSE]]
  /\ accounts_ = accounts /\ answers = <<>> /\ row = 0 /\ pane = NothingShown
  /\ open = Closed /\ requests = 0 /\ changes = 0 /\ asked = <<>>
  /\ picked = Nobody
-----------------------------------------------------------------------------
(* What an action would do to an account, as it is listed.                 *)
RoleChange(account) == IF account.admin THEN "demote" ELSE "promote"
BanChange(account) == IF account.banned THEN "lift" ELSE "ban"

Done(listed, request) ==
  LET u == request.user
  IN IF u \notin DOMAIN listed THEN listed
     ELSE CASE request.does = "delete" -> [v \in DOMAIN listed \ {u} |-> listed[v]]
       [] request.does \in {"promote", "demote"} ->
            [listed EXCEPT ![u].admin = request.does = "promote"]
       [] request.does \in {"ban", "lift"} ->
            [listed EXCEPT ![u].banned = request.does = "ban"]
       [] OTHER -> listed

(* send, and the server's answer: the list as it has become.               *)
act(request, read) ==
  /\ requests < MaxRequests /\ requests' = requests + 1
  /\ Len(answers) < MaxAnswers
  /\ accounts' = Done(accounts, request) /\ answers' = Append(answers, accounts')
  /\ asked' = <<[request |-> request, read |-> read, redrawn |-> open.redrawn]>>
  /\ UNCHANGED <<accounts_, row, changes, picked>>

Nothing ==
  UNCHANGED <<accounts, answers, accounts_, row, pane, requests, changes, picked, asked>>

(* Another administrator, or dbadmin; and the panel asks for the list.     *)
Elsewhere ==
  /\ changes < MaxChanges /\ changes' = changes + 1 /\ Len(answers) < MaxAnswers
  /\ \E u \in DOMAIN accounts :
       \E does \in {"delete", RoleChange(accounts[u]), BanChange(accounts[u])} :
         accounts' = Done(accounts, [user |-> u, does |-> does])
  /\ answers' = Append(answers, accounts')
  /\ UNCHANGED <<accounts_, row, pane, open, requests, picked, asked>>
-----------------------------------------------------------------------------
(* The rows are drawn again and the current one found by its identifier;   *)
(* where that has gone, the table keeps the place, or the last one left.   *)
RowKept(listed) == Min({row, Cardinality(DOMAIN listed)})                \* a slip

RowRestored(listed) ==
  IF Selected \in DOMAIN listed THEN RowOf(listed, Selected)
  ELSE Min({row, Cardinality(DOMAIN listed)})

apply_users ==
  /\ answers # <<>> /\ answers' = Tail(answers) /\ accounts_' = Head(answers)
  /\ row' = RowRestored(accounts_')
  /\ pane' = show_account(accounts_', selected_id(accounts_', row'))
  /\ open' = [open EXCEPT !.redrawn = open.is = "menu" \/ @]
  /\ picked' = IF picked \in DOMAIN accounts_' THEN picked ELSE selected_id(accounts_', row')
  /\ UNCHANGED <<accounts, requests, changes, asked>>

on_account_selected(u) ==
  /\ open = Closed /\ u \in DOMAIN accounts_ /\ row' = RowOf(accounts_, u)
  /\ pane' = show_account(accounts_, u) /\ picked' = u
  /\ UNCHANGED <<accounts, answers, accounts_, open, requests, changes, asked>>

(* A box is ticked, and not applied yet.                                   *)
Ticks ==
  /\ open = Closed /\ pane.id # Nobody /\ pane' = [pane EXCEPT !.banned = ~@]
  /\ UNCHANGED <<accounts, answers, accounts_, row, open, requests, changes, picked, asked>>

on_apply ==
  /\ open = Closed /\ pane.id # Nobody
  /\ LET request == [user |-> pane.id, does |-> IF pane.banned THEN "ban" ELSE "lift"]
     IN act(request, request)
  /\ UNCHANGED <<pane, open>>
-----------------------------------------------------------------------------
(* The menu over a row, which becomes the current one.                     *)
on_user_menu(u) ==
  /\ open = Closed /\ u \in DOMAIN accounts_ /\ row' = RowOf(accounts_, u)
  /\ pane' = show_account(accounts_, u) /\ picked' = u
  /\ open' = [is |-> "menu", user |-> u, account |-> accounts_[u], redrawn |-> FALSE]
  /\ UNCHANGED <<accounts, answers, accounts_, requests, changes, asked>>

Questions(request, read) ==
  open' = [is |-> "question", request |-> request, read |-> read, redrawn |-> open.redrawn]

(* Of the account that is current by now; `read` is what was chosen, and   *)
(* a question that names somebody is what is read from then on.            *)
on_change_role(read) ==
  IF Selected = Nobody THEN open' = Closed /\ Nothing
  ELSE /\ act([user |-> Selected, does |-> RoleChange(accounts_[Selected])], read)
       /\ open' = Closed /\ UNCHANGED pane

on_reset_password(read) ==
  IF Selected = Nobody THEN open' = Closed /\ Nothing
  ELSE Questions([user |-> Selected, does |-> "password"], read) /\ Nothing

on_delete_user ==
  IF Selected = Nobody THEN open' = Closed /\ Nothing
  ELSE LET request == [user |-> Selected, does |-> "delete"]
       IN Questions(request, request) /\ Nothing

(* A ban asks for its reason and says whom it bans; the rest goes at once. *)
toggle_flag(u, read) ==
  IF u \notin DOMAIN accounts_ THEN open' = Closed /\ Nothing
  ELSE LET request == [user |-> u, does |-> BanChange(accounts_[u])]
       IN IF request.does = "ban" THEN Questions(request, request) /\ Nothing
          ELSE act(request, read) /\ open' = Closed /\ UNCHANGED pane

Chooses ==
  /\ open.is = "menu"
  /\ LET Read(does) == [user |-> open.user, does |-> does]
     IN \/ on_change_role(Read(RoleChange(open.account)))
        \/ on_reset_password(Read("password"))
        \/ on_delete_user
        \/ toggle_flag(open.user, Read(BanChange(open.account)))
        \/ open' = Closed /\ Nothing

(* The pane's buttons and the table's keys, with nothing in front.         *)
Presses ==
  /\ open = Closed /\ pane.id # Nobody
  /\ \/ on_change_role([user |-> pane.id, does |-> RoleChange(pane)])
     \/ on_reset_password([user |-> pane.id, does |-> "password"])
     \/ on_delete_user
     \/ toggle_flag(Selected, [user |-> pane.id, does |-> BanChange(accounts_[pane.id])])

(* A question is about whom it was about when it was asked.                *)
Answers ==
  /\ open.is = "question"
  /\ \/ act(open.request, open.read) /\ open' = Closed /\ UNCHANGED pane
     \/ open' = Closed /\ Nothing

Next ==
  \/ Elsewhere \/ apply_users \/ Ticks \/ on_apply \/ Chooses \/ Presses \/ Answers
  \/ \E u \in Accounts : on_account_selected(u) \/ on_user_menu(u)

Spec == Init /\ [][Next]_vars
-----------------------------------------------------------------------------
(* Every variable has its shape.                                           *)
TypeOK ==
  /\ DOMAIN accounts \subseteq Accounts /\ DOMAIN accounts_ \subseteq Accounts
  /\ row \in 0 .. Cardinality(DOMAIN accounts_) /\ pane.id \in Accounts \cup {Nobody}
  /\ open.is \in {"nothing", "menu", "question"}
  /\ Len(answers) <= MaxAnswers

(* What goes out is what was read: of the account that was named, by the   *)
(* question, the menu or the pane, and to the effect that was announced,   *)
(* however the table was redrawn meanwhile, but for a menu it was redrawn  *)
(* under; nobody is deleted or banned whom no question named; and the pane *)
(* is about the current row, which stays on the account it was put on as   *)
(* long as that is listed.                                                 *)
AskedIsRead ==
  /\ \A i \in DOMAIN asked :
       \/ asked[i].request = asked[i].read
       \/ asked[i].redrawn /\ asked[i].request.does \notin {"delete", "ban"}
  /\ pane.id = Selected /\ Selected = picked
  /\ pane.id # Nobody => pane.admin = accounts_[pane.id].admin
=============================================================================
