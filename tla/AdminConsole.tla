---------------------------- MODULE AdminConsole ----------------------------
(***************************************************************************)
(* dbadmin's terminal: a screen over a collection, users, rooms, sessions  *)
(* or the audit log, with its list, its filter, its cursor and the card or *)
(* form in front.  Every question to the database is a command, run beside *)
(* the screen and answered by a message; the messages of several commands  *)
(* arrive in any order, and lists are redrawn under an open card.          *)
(*                                                                         *)
(* The screens share nothing but the refresh, which reads all of them, so  *)
(* a behaviour is of one.  What is stored of an item is whether it was     *)
(* changed; how a change meets the server's writes is Accounts' business.  *)
(***************************************************************************)
EXTENDS TLC, FiniteSets, Integers, SequencesExt

CONSTANTS
  Items,
  Nobody,
  Screens,         \* which of the four behaviours are of
  Filters,         \* what somebody types: the items each lets through
  MaxPresses,      \* of the keys that read again
  MaxChanges       \* asked for here

AdminConsoleAssumption ==
  /\ Nobody \notin Items /\ {MaxPresses, MaxChanges} \subseteq Nat
  /\ Screens \subseteq {"users", "rooms", "sessions", "audit"}
  /\ Items \in Filters /\ \A f \in Filters : f \subseteq Items

VARIABLES
  screen,
  stored,          \* the collection
  list, shown,     \* what was read last, and for which page of it
  page,            \* the page the next read asks for
  filter, cursor,
  mode, target,    \* "list", or what the card in front is for, and of whom
  focus,           \* where the cursor goes with the next list
  reading, doing,  \* commands
  answers,         \* messages on their way back
  started, presses, changes,   \* bounds
  latest,          \* history: the read of the list shown
  asked,           \* history: the last change, and whom its card named
  excused          \* history: a read failed or was overtaken, or another wrote

screen_vars == <<list, shown, filter, cursor, mode, target, focus, latest>>
vars == <<screen, stored, screen_vars, page, reading, doing, answers, started, presses,
          changes, asked, excused>>

Order == SetToSeq(Items)
Rows(listed, typed) == SelectSeq(Order, LAMBDA i : i \in DOMAIN listed \cap typed)
selected == IF cursor = 0 THEN Nobody ELSE Rows(list, filter)[cursor]

First(rows) == IF rows = <<>> THEN 0 ELSE 1
Placed(rows, i, otherwise) ==
  IF i \in ToSet(rows) THEN CHOOSE r \in DOMAIN rows : rows[r] = i ELSE otherwise

(* On the users screen the cursor stays on its account; on the others      *)
(* every redrawing takes it to the first row.                              *)
applyFilter(listed, typed) ==
  LET rows == Rows(listed, typed)
  IN IF screen = "users" THEN Placed(rows, selected, First(rows)) ELSE First(rows)

Everything == [i \in Items |-> "plain"]

Init ==
  /\ screen \in Screens /\ stored = Everything
  /\ list = <<>> /\ shown = "first" /\ page = "first" /\ filter = Items /\ cursor = 0
  /\ mode = "list" /\ target = Nobody /\ focus = Nobody
  /\ reading = {[number |-> 1, page |-> "first"]} /\ started = 1
  /\ doing = {} /\ answers = {} /\ presses = 0 /\ changes = 0
  /\ latest = 0 /\ asked = <<>> /\ excused = FALSE
-----------------------------------------------------------------------------
(* One command for the screen, with the page it asks for at this moment.   *)
refresh(of_page) ==
  /\ started' = started + 1
  /\ reading' = reading \cup {[number |-> started + 1, page |-> of_page]}

(* A command's question reaches the database: its answer, or none.         *)
load(command) ==
  /\ reading' = reading \ {command}
  /\ \/ answers' = answers \cup
          {[is |-> "list", number |-> command.number, page |-> command.page, rows |-> stored]}
     \/ answers' = answers \cup {[is |-> "failure", of |-> command]}
  /\ UNCHANGED <<screen, stored, screen_vars, page, doing, started, presses, changes, asked,
                 excused>>

Stored(change) ==
  CASE change.does = "create" -> stored @@ (change.to :> "plain")
    [] change.does = "delete" -> [i \in DOMAIN stored \ {change.to} |-> stored[i]]
    [] OTHER -> [stored EXCEPT ![change.to] = "changed"]

Possible(change) == (change.does = "create") # (change.to \in DOMAIN stored)

(* A change is refused, made, or made and not recorded in the audit log,   *)
(* in which case the message that warns of it names nobody.                *)
Outcomes(change) ==
  \/ stored' = stored /\ answers' = answers \cup {[is |-> "failure", of |-> change]}
  \/ /\ Possible(change) /\ stored' = Stored(change)
     /\ LET where == IF screen = "users" /\ change.does # "delete" THEN change.to ELSE Nobody
        IN \/ answers' = answers \cup {[is |-> "done", of |-> change, focus |-> where]}
           \/ answers' = answers \cup {[is |-> "warning", of |-> change]}

write(change) ==
  /\ doing' = doing \ {change} /\ Outcomes(change)
  /\ UNCHANGED <<screen, screen_vars, page, reading, started, presses, changes, asked, excused>>

(* A server, or another terminal.                                          *)
Elsewhere ==
  /\ ~excused /\ excused' = TRUE
  /\ \E i \in DOMAIN stored, does \in {"edit", "delete"} :
       stored' = Stored([does |-> does, to |-> i])
  /\ UNCHANGED <<screen, screen_vars, page, reading, doing, answers, started, presses,
                 changes, asked>>
-----------------------------------------------------------------------------
(* Update: a message.                                                      *)
setList(message) ==
  /\ list' = message.rows /\ shown' = message.page
  /\ LET kept == applyFilter(message.rows, filter)
     IN cursor' = IF focus = Nobody THEN kept
                  ELSE Placed(Rows(message.rows, filter), focus, kept)
  /\ focus' = Nobody /\ latest' = message.number
  /\ excused' = (excused \/ message.number < latest)
  /\ UNCHANGED <<reading, started>>

Focused(message) == IF message.is = "done" THEN message.focus ELSE focus

Handles(message) ==
  /\ answers' = answers \ {message}
  /\ \/ message.is = "list" /\ setList(message)
     \/ /\ message.is \in {"done", "warning"} /\ refresh(page)
        /\ focus' = Focused(message)
        /\ UNCHANGED <<list, shown, cursor, latest, excused>>
     \/ /\ message.is = "failure" /\ excused' = TRUE
        /\ UNCHANGED <<list, shown, cursor, latest, focus, reading, started>>
  /\ UNCHANGED <<screen, stored, page, filter, mode, target, doing, presses, changes, asked>>
-----------------------------------------------------------------------------
(* updateKey and the screens' own keys, with nothing in front.             *)
Typing ==
  /\ mode = "list"
  /\ UNCHANGED <<screen, stored, list, shown, focus, doing, answers, changes, latest, asked,
                 excused>>

Refreshes ==
  /\ presses < MaxPresses /\ presses' = presses + 1 /\ Typing /\ refresh(page)
  /\ UNCHANGED <<page, filter, cursor, mode, target>>

(* Another page of the sessions or of the log; another actor of the log.   *)
nextLimit ==
  /\ screen \in {"sessions", "audit"}
  /\ presses < MaxPresses /\ presses' = presses + 1 /\ Typing
  /\ page' = IF page = "first" THEN "next" ELSE "first"
  /\ refresh(page')
  /\ UNCHANGED <<filter, cursor, mode, target>>

Moves ==
  /\ Typing /\ cursor' \in DOMAIN Rows(list, filter)
  /\ UNCHANGED <<page, filter, mode, target, reading, started, presses>>

updateFilter(typed) ==
  /\ Typing /\ filter' = typed /\ cursor' = applyFilter(list, typed)
  /\ UNCHANGED <<page, mode, target, reading, started, presses>>

(* Cards and forms, by the screen they are of: a form edits an account,    *)
(* its password or its restrictions, or writes it a notice; a session that *)
(* does not answer is not ended.                                           *)
UserCards == {"edit", "delete", "look"}
RoomCards == {"delete"}
SessionCards == IF list[selected] = "plain" THEN {"end", "look"} ELSE {"look"}
EntryCards == {"look"}

Cards ==
  CASE screen = "users" -> UserCards [] screen = "rooms" -> RoomCards
    [] screen = "sessions" -> SessionCards [] screen = "audit" -> EntryCards

openCreate ==
  /\ Typing /\ screen = "users" /\ mode' = "create" /\ target' = Nobody
  /\ UNCHANGED <<page, filter, cursor, reading, started, presses>>

Opens(does) ==
  /\ Typing /\ selected # Nobody /\ does \in Cards /\ mode' = does /\ target' = selected
  /\ UNCHANGED <<page, filter, cursor, reading, started, presses>>

Cancels ==
  /\ mode # "list" /\ mode' = "list"
  /\ UNCHANGED <<screen, stored, list, shown, page, filter, cursor, target, focus, reading,
                 doing, answers, started, presses, changes, latest, asked, excused>>

(* "Read from the table on every keystroke instead, a refresh arriving     *)
(* mid-edit would move it under the form" (users.go:127).                  *)
Target == target

Changes == {"create", "edit", "delete", "end"}

submit ==
  /\ mode \in Changes /\ mode' = "list"
  /\ changes < MaxChanges /\ changes' = changes + 1
  /\ \E i \in IF mode = "create" THEN Items ELSE {Target} :
       /\ doing' = doing \cup {[does |-> mode, to |-> i, number |-> changes]}
       /\ asked' = <<[to |-> i, named |-> IF mode = "create" THEN i ELSE target]>>
  /\ UNCHANGED <<screen, stored, list, shown, page, filter, cursor, target, focus, reading,
                 answers, started, presses, latest, excused>>

Next ==
  \/ \E command \in reading : load(command)
  \/ \E change \in doing : write(change)
  \/ \E message \in answers : Handles(message)
  \/ Elsewhere \/ Refreshes \/ nextLimit \/ Moves \/ Cancels \/ submit
  \/ \E typed \in Filters : updateFilter(typed)
  \/ openCreate \/ \E does \in {"edit", "delete", "end", "look"} : Opens(does)

Spec == Init /\ [][Next]_vars
-----------------------------------------------------------------------------
(* Every variable has its shape.                                           *)
TypeOK ==
  /\ screen \in Screens /\ DOMAIN stored \subseteq Items /\ DOMAIN list \subseteq Items
  /\ {shown, page} \subseteq {"first", "next"} /\ filter \in Filters
  /\ cursor \in 0 .. Cardinality(Items) /\ {target, focus} \subseteq Items \cup {Nobody}
  /\ mode \in {"list", "create", "edit", "delete", "end", "look"}

(* The change that goes out is to whom the card named, whatever was read   *)
(* again underneath it, by whichever terminal the list was changed.  And   *)
(* when every message has come back, the list is what is stored, with each *)
(* change made here, for the page the screen says it is of: unless a read  *)
(* failed, an answer overtook a later one, or somebody else wrote.         *)
AskedIsShown ==
  /\ \A i \in DOMAIN asked : asked[i].to = asked[i].named
  /\ cursor # 0 => cursor \in DOMAIN Rows(list, filter)
  /\ reading = {} /\ doing = {} /\ answers = {} /\ ~excused =>
       list = stored /\ shown = page
=============================================================================
