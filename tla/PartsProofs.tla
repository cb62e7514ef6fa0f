------------------------------ MODULE PartsProofs ------------------------------
(***************************************************************************)
(* What the parts of MCParts promise for every value of the constants: the *)
(* accounts (Accounts, here Roll), and what MediaRouterProofs, Signaling-  *)
(* ServerProofs and CallMediaProofs say of the router, the locks and the   *)
(* media of a call, its sound, pictures and settings.                      *)
(*                                                                         *)
(* Accounts: a hand keeps a copy of what it read until it writes.  The in- *)
(* ductive invariant says what that copy may be trusted for: it is of an   *)
(* account that was once there, the edit is one of those the hand makes of *)
(* it, and a hand that has counted takes nobody's role away unless it      *)
(* counted two.                                                            *)
(***************************************************************************)
EXTENDS MCParts, FiniteSetTheorems, TLAPS

Living ==
  [exists : {TRUE}, role : Roll!Roles, restrictions : SUBSET Flags, password : Passwords,
   session_end_requested_at : BOOLEAN]

(* Accounts are accounts.                                                  *)
Whole == a_accounts \in [Accounts -> Living \cup {Roll!Unborn, Roll!Removed}]

(* What a hand is in the middle of.                                        *)
Holds(h) ==
  /\ a_doing[h].at \in {"found", "counted"}
  /\ a_doing[h].user \in Accounts /\ a_accounts[a_doing[h].user] # Roll!Unborn
  /\ a_doing[h].account \in Living /\ a_doing[h].edit \in Roll!Edits(h, a_doing[h].account)
  /\ a_doing[h].at = "counted" =>
       ~(Roll!Takes(a_doing[h].edit, a_doing[h].account) /\
         Cardinality(a_doing[h].administrators) <= 1)

Holding == DOMAIN a_doing = Roll!Hands /\
  \A h \in Roll!Hands : a_doing[h] = Roll!Idle \/ Holds(h)

(* The histories keep their types.                                         *)
Histories ==
  /\ DOMAIN a_decided = Accounts /\ a_crossed \subseteq Accounts /\ a_outdated \in BOOLEAN
  /\ a_decisions \in 0 .. MaxDecisions

(* The invariant of the accounts.                                          *)
RollHolds == Whole /\ Holding /\ Histories /\ Roll!DecisionsStand

-----------------------------------------------------------------------------
(* Fields that an edit may change, and to what.                            *)
Change(edit) ==
  /\ edit = [field \in DOMAIN edit |-> edit[field]] /\ DOMAIN edit \subseteq Roll!Written
  /\ "role" \in DOMAIN edit => edit["role"] \in Roll!Roles
  /\ "restrictions" \in DOMAIN edit => edit["restrictions"] \in SUBSET Flags
  /\ "password" \in DOMAIN edit => edit["password"] \in Passwords
  /\ "session_end_requested_at" \in DOMAIN edit => edit["session_end_requested_at"] \in BOOLEAN

(* An instance counts as the standard module does.                         *)
LEMMA CardinalityIs ==
  /\ \A S : Roll!Cardinality(S) = Cardinality(S)
  /\ \A S : Roll!IsFiniteSet(S) <=> IsFiniteSet(S)
BY DEF Roll!Cardinality, Cardinality, Roll!IsFiniteSet, IsFiniteSet

LEMMA Apart ==
  /\ Roll!Unborn # Roll!Removed /\ Roll!Unborn \notin Living /\ Roll!Removed \notin Living
  /\ ~Roll!Unborn.exists /\ ~Roll!Removed.exists /\ \A account \in Living : account.exists
  BY DEF Roll!Unborn, Roll!Removed, Living

(* Every edit is the account's removal or changes only fields of it that   *)
(* the server's write names.                                               *)
LEMMA EditsAreChanges ==
  ASSUME NEW h \in Roll!Hands, NEW account \in Living, NEW edit \in Roll!Edits(h, account)
  PROVE  edit = Roll!Removed \/ Change(edit)
<1>1. account.restrictions \in SUBSET Flags
  BY DEF Living
<1>2. CASE \E r \in Roll!Roles : edit = [role |-> r]
  BY <1>2 DEF Change, Roll!Written
<1>3. CASE \E p \in Passwords : edit = [password |-> p]
  BY <1>3 DEF Change, Roll!Written
<1>4. CASE \E r \in Roll!Roles, p \in Passwords : edit = [role |-> r, password |-> p]
  BY <1>4 DEF Change, Roll!Written
<1>5. CASE \E fs \in SUBSET Flags : edit = [restrictions |-> fs]
  BY <1>5 DEF Change, Roll!Written
<1>6. CASE \E b \in BOOLEAN : edit = [session_end_requested_at |-> b]
  BY <1>6 DEF Change, Roll!Written
<1>7. CASE h = Roll!Server /\ edit # Roll!Removed
  <2>1. edit \in Roll!handle_update_user \cup Roll!handle_restrict_user(account) \cup Roll!set_password
                   \cup Roll!discard_session_end_request(account)
    BY <1>7 DEF Roll!Edits
  <2>2. CASE edit \in Roll!handle_restrict_user(account)
    BY <1>1, <1>5, <2>2 DEF Roll!handle_restrict_user
  <2>3. CASE edit \in Roll!discard_session_end_request(account)
    BY <1>6, <2>3 DEF Roll!discard_session_end_request
  <2> QED  BY <1>2, <1>3, <1>4, <2>1, <2>2, <2>3 DEF Roll!handle_update_user,
              Roll!set_password
<1>8. CASE h # Roll!Server /\ edit # Roll!Removed
  <2>1. edit \in Roll!UpdateAccount \cup Roll!SetRestrictions(account) \cup Roll!SetPassword \cup Roll!EndSession
    BY <1>8 DEF Roll!Edits
  <2> QED  BY <1>2, <1>3, <1>5, <1>6, <2>1
           DEF Roll!UpdateAccount, Roll!SetRestrictions, Roll!SetPassword, Roll!EndSession
<1> QED  BY <1>7, <1>8

LEMMA Fields ==
  ASSUME NEW account \in Living
  PROVE  DOMAIN account = {"exists", "role", "restrictions", "password",
                           "session_end_requested_at"}
  BY DEF Living

(* A changed account is one still, with the role it was given.             *)
LEMMA WithIsLiving ==
  ASSUME NEW account \in Living, NEW edit, Change(edit)
  PROVE  /\ Roll!With(edit, account) \in Living
         /\ Roll!With(edit, account).role =
              IF "role" \in DOMAIN edit THEN edit["role"] ELSE account.role
<1> DEFINE new == Roll!With(edit, account)
<1>1. /\ new["exists"] = TRUE
      /\ new["role"] = IF "role" \in DOMAIN edit THEN edit["role"] ELSE account.role
      /\ new["restrictions"] =
           IF "restrictions" \in DOMAIN edit THEN edit["restrictions"] ELSE account.restrictions
      /\ new["password"] =
           IF "password" \in DOMAIN edit THEN edit["password"] ELSE account.password
      /\ new["session_end_requested_at"] =
           IF "session_end_requested_at" \in DOMAIN edit
           THEN edit["session_end_requested_at"] ELSE account.session_end_requested_at
      /\ "exists" \notin DOMAIN edit
  BY Fields DEF Living, Roll!With, Change, Roll!Written
<1>2. /\ new["role"] \in Roll!Roles /\ new["restrictions"] \in SUBSET Flags
      /\ new["password"] \in Passwords /\ new["session_end_requested_at"] \in BOOLEAN
  BY <1>1 DEF Change, Living
<1>3. new = [exists |-> new["exists"], role |-> new["role"],
             restrictions |-> new["restrictions"], password |-> new["password"],
             session_end_requested_at |-> new["session_end_requested_at"]]
  BY Fields DEF Roll!With
<1> HIDE DEF new
<1>4. new \in Living
  BY <1>1, <1>2, <1>3 DEF Living
<1> QED  BY <1>1, <1>4 DEF new

(* The server's write over what it read is the edit, and nothing else.     *)
LEMMA UpdateIsWith ==
  ASSUME NEW old \in Living, NEW edit, Change(edit)
  PROVE  Roll!update(edit, old, old) = Roll!With(edit, old)
  BY DEF Roll!update, Roll!With, Change, Roll!Written

(* The server's write over another's is an account all the same.           *)
LEMMA UpdateIsLiving ==
  ASSUME NEW old \in Living, NEW account \in Living, NEW edit, Change(edit)
  PROVE  Roll!update(edit, account, old) \in Living
<1> DEFINE new == Roll!update(edit, account, old)
           whole == Roll!With(edit, account)
<1>1. whole \in Living
  BY WithIsLiving
<1> HIDE DEF whole
<1>2. /\ new["exists"] = TRUE /\ new["role"] = whole.role
      /\ new["restrictions"] = whole.restrictions /\ new["password"] = whole.password
      /\ new["session_end_requested_at"] = whole.session_end_requested_at
  BY <1>1, Fields DEF Roll!update, Roll!Written, Living, whole
<1>3. new = [exists |-> new["exists"], role |-> new["role"],
             restrictions |-> new["restrictions"], password |-> new["password"],
             session_end_requested_at |-> new["session_end_requested_at"]]
  BY Fields DEF Roll!update
<1> HIDE DEF new
<1>4. new \in Living
  BY <1>1, <1>2, <1>3 DEF Living
<1> QED  BY <1>4 DEF new

-----------------------------------------------------------------------------
LEMMA InitSafe ==
  ASSUME Roll!AccountsAssumption, Roll!Init
  PROVE  RollHolds
<1>1. PICK u \in Accounts : a_accounts = [v \in Accounts |-> IF v = u THEN Roll!Founder
        ELSE Roll!Unborn]
  BY DEF Roll!Init
<1>2. Roll!Founder \in Living /\ Roll!Founder.exists /\ Roll!Founder.role = "admin"
  BY DEF Roll!Founder, Living, Roll!Roles, Roll!AccountsAssumption
<1>3. Whole
  BY <1>1, <1>2 DEF Whole
<1>4. Holding
  BY DEF Roll!Init, Holding
<1>5. Histories
  <2>1. DOMAIN a_decided = Accounts
    BY <1>3 DEF Roll!Init, Whole
  <2>2. a_decisions = 0 /\ a_crossed = {} /\ a_outdated = FALSE
    BY DEF Roll!Init
  <2>3. a_decisions \in 0 .. MaxDecisions
    BY <2>2 DEF Roll!AccountsAssumption
  <2> QED  BY <2>1, <2>2, <2>3 DEF Histories
<1>6. Roll!DecisionsStand
  BY <1>1, <1>2 DEF Roll!Init, Roll!DecisionsStand, Roll!Administrators
<1> QED  BY <1>3, <1>4, <1>5, <1>6 DEF RollHolds

LEMMA FindsSafe ==
  ASSUME Roll!AccountsAssumption, RollHolds, NEW h \in Roll!Hands, NEW u \in Accounts,
         Roll!Finds(h, u)
  PROVE  RollHolds'
<1>1. /\ Whole /\ Holding /\ Histories /\ Roll!DecisionsStand
      /\ UNCHANGED <<a_accounts, a_decided, a_crossed, a_outdated>>
  BY DEF RollHolds, Roll!Finds
<1>2. a_accounts[u] \in Living
  BY <1>1, Apart DEF Whole, Roll!Finds
<1>3. PICK edit \in Roll!Edits(h, a_accounts[u]) :
        a_doing' = [a_doing EXCEPT ![h] = [at |-> "found", user |-> u,
          account |-> a_accounts[u],
                                       edit |-> edit]]
  BY DEF Roll!Finds
<1>4. Holding'
  <2>1. DOMAIN a_doing' = Roll!Hands /\ \A g \in Roll!Hands \ {h} : a_doing'[g] = a_doing[g]
    BY <1>1, <1>3 DEF Holding
  <2>2. a_doing'[h] = [at |-> "found", user |-> u, account |-> a_accounts[u], edit |-> edit]
    BY <1>1, <1>3 DEF Holding
  <2>3. Holds(h)'
    BY <1>1, <1>2, <2>2, Apart DEF Holds
  <2>4. ASSUME NEW g \in Roll!Hands, g # h PROVE a_doing'[g] = Roll!Idle \/ Holds(g)'
    BY <1>1, <2>1, <2>4 DEF Holding, Holds
  <2> QED  BY <2>1, <2>3, <2>4 DEF Holding
<1>5. Whole' /\ Roll!DecisionsStand'
  BY <1>1 DEF Whole, Roll!DecisionsStand, Roll!Administrators
<1>6. Histories'
  BY <1>1 DEF Histories, Roll!Finds, Roll!AccountsAssumption
<1> QED  BY <1>4, <1>5, <1>6 DEF RollHolds

LEMMA CountsSafe ==
  ASSUME Roll!AccountsAssumption, RollHolds, NEW h \in Roll!Hands, Roll!Counts(h)
  PROVE  RollHolds'
<1>1. /\ Whole /\ Holding /\ Histories /\ Roll!DecisionsStand
      /\ UNCHANGED <<a_accounts, a_decided, a_decisions, a_crossed, a_outdated>>
  BY DEF RollHolds, Roll!Counts
<1>2. Holds(h) /\ a_doing[h].at = "found"
  BY <1>1 DEF Holding, Roll!Counts, Roll!Idle
<1>3. a_doing' = [a_doing EXCEPT ![h] =
        IF Roll!LastOne(h) THEN Roll!Idle
        ELSE [at |-> "counted", user |-> a_doing[h].user, account |-> a_doing[h].account,
              edit |-> a_doing[h].edit, administrators |-> Roll!Administrators]]
  BY <1>1 DEF Roll!Counts
<1>4. Holding'
  <2>1. DOMAIN a_doing' = Roll!Hands /\ \A g \in Roll!Hands \ {h} : a_doing'[g] = a_doing[g]
    BY <1>1, <1>3 DEF Holding
  <2>2. CASE Roll!LastOne(h)
    BY <1>1, <1>3, <2>1, <2>2 DEF Holding, Holds
  <2>3. CASE ~Roll!LastOne(h)
    <3>1. a_doing'[h] = [at |-> "counted", user |-> a_doing[h].user,
            account |-> a_doing[h].account,
                       edit |-> a_doing[h].edit, administrators |-> Roll!Administrators]
      BY <1>1, <1>3, <2>3 DEF Holding
    <3>2. Holds(h)'
      BY <1>1, <1>2, <2>3, <3>1, CardinalityIs DEF Holds, Roll!LastOne
    <3>3. ASSUME NEW g \in Roll!Hands, g # h PROVE a_doing'[g] = Roll!Idle \/ Holds(g)'
      BY <1>1, <2>1, <3>3 DEF Holding, Holds
    <3> QED  BY <2>1, <3>2, <3>3 DEF Holding
  <2> QED  BY <2>2, <2>3
<1>5. Whole' /\ Histories' /\ Roll!DecisionsStand'
  BY <1>1 DEF Whole, Histories, Roll!DecisionsStand, Roll!Administrators
<1> QED  BY <1>4, <1>5 DEF RollHolds

LEMMA GivesUpSafe ==
  ASSUME RollHolds, NEW h \in Roll!Hands, Roll!GivesUp(h)
  PROVE  RollHolds'
<1>1. /\ Whole /\ Holding /\ Histories /\ Roll!DecisionsStand
      /\ UNCHANGED <<a_accounts, a_decided, a_decisions, a_crossed, a_outdated>>
      /\ a_doing' = [a_doing EXCEPT ![h] = Roll!Idle]
  BY DEF RollHolds, Roll!GivesUp
<1>2. Holding'
  BY <1>1 DEF Holding, Holds
<1>3. Whole' /\ Histories' /\ Roll!DecisionsStand'
  BY <1>1 DEF Whole, Histories, Roll!DecisionsStand, Roll!Administrators
<1> QED  BY <1>2, <1>3 DEF RollHolds

LEMMA CreatesSafe ==
  ASSUME Roll!AccountsAssumption, RollHolds, NEW u \in Accounts, Roll!Creates(u)
  PROVE  RollHolds'
<1>1. /\ Whole /\ Holding /\ Histories /\ Roll!DecisionsStand
      /\ a_accounts[u] = Roll!Unborn /\ UNCHANGED <<a_doing, a_crossed, a_outdated>>
      /\ a_decided' = [a_decided EXCEPT ![u] = a_accounts'[u]]
  BY DEF RollHolds, Roll!Creates
<1>2. PICK new \in Living : a_accounts' = [a_accounts EXCEPT ![u] = new]
  BY DEF Roll!Creates, Roll!Founder, Living
<1>3. a_accounts'[u] = new /\ \A v \in Accounts \ {u} : a_accounts'[v] = a_accounts[v]
  BY <1>1, <1>2 DEF Whole
<1>4. Whole'
  BY <1>1, <1>2 DEF Whole
<1>5. Holding'
  BY <1>1, <1>2, <1>3, Apart DEF Holding, Holds
<1>6. Histories'
  BY <1>1 DEF Histories, Roll!Creates, Roll!AccountsAssumption
<1>7. Roll!DecisionsStand'
  <2>1. \A v \in Accounts \ a_crossed : a_accounts'[v] = a_decided'[v]
    BY <1>1, <1>3 DEF Roll!DecisionsStand, Histories
  <2>2. Roll!Administrators \subseteq Roll!Administrators'
    BY <1>1, <1>3, Apart DEF Roll!Administrators
  <2> QED  BY <1>1, <2>1, <2>2 DEF Roll!DecisionsStand
<1> QED  BY <1>4, <1>5, <1>6, <1>7 DEF RollHolds

(* A hand that writes leaves an administrator, if it counted those there   *)
(* are: it takes nobody's role, or there is another.                       *)
LEMMA SomebodyIsLeft ==
  ASSUME Roll!AccountsAssumption, NEW u \in Accounts, NEW account \in Living,
         NEW edit, edit = Roll!Removed \/ Change(edit),
         Whole, a_accounts[u] = account, Roll!Administrators # {},
         ~(Roll!Takes(edit, account) /\ Cardinality(Roll!Administrators) <= 1),
         a_accounts' = [a_accounts EXCEPT ![u] = IF edit = Roll!Removed THEN Roll!Removed
                                             ELSE Roll!With(edit, account)]
  PROVE  Roll!Administrators' # {}
<1>1. \A a \in Roll!Administrators \ {u} : a \in Roll!Administrators'
  BY DEF Roll!Administrators, Whole
<1>2. CASE Roll!Takes(edit, account)
  <2>1. IsFiniteSet(Roll!Administrators) /\ Cardinality(Roll!Administrators) \in Nat
    BY CardinalityIs, FS_Subset, FS_CardinalityType DEF Roll!AccountsAssumption,
       Roll!Administrators
  <2>2. ~(Roll!Administrators \subseteq {u})
    <3> SUFFICES ASSUME Roll!Administrators \subseteq {u} PROVE FALSE
      OBVIOUS
    <3>1. IsFiniteSet({u}) /\ Cardinality({u}) = 1
      BY CardinalityIs, FS_Singleton
    <3>2. Cardinality(Roll!Administrators) <= 1
      BY <3>1, CardinalityIs, FS_Subset
    <3> QED  BY <1>2, <3>2
  <2> QED  BY <1>1, <2>2
<1>3. CASE ~Roll!Takes(edit, account)
  <2>1. PICK a \in Roll!Administrators : TRUE
    OBVIOUS
  <2>2. CASE a # u
    BY <1>1, <2>1, <2>2
  <2>3. CASE a = u
    <3>1. account.role = "admin"
      BY <2>1, <2>3 DEF Roll!Administrators
    <3>2. edit # Roll!Removed /\ Change(edit) /\ ("role" \in DOMAIN edit =>
            edit["role"] = "admin")
      BY <1>3, <3>1 DEF Roll!Takes
    <3>3. a_accounts'[u] = Roll!With(edit, account)
      BY <3>2 DEF Whole
    <3>4. a_accounts'[u].exists /\ a_accounts'[u].role = "admin"
      BY <3>1, <3>2, <3>3, WithIsLiving, Apart
    <3> QED  BY <3>4 DEF Roll!Administrators
  <2> QED  BY <2>2, <2>3
<1> QED  BY <1>2, <1>3

LEMMA WritesSafe ==
  ASSUME Roll!AccountsAssumption, RollHolds, NEW h \in Roll!Hands, Roll!Writes(h)
  PROVE  RollHolds'
<1>1. /\ Whole /\ Holding /\ Histories /\ Roll!DecisionsStand
      /\ a_doing[h].at = "counted" /\ a_doing' = [a_doing EXCEPT ![h] = Roll!Idle]
      /\ a_decisions' = a_decisions
  BY DEF RollHolds, Roll!Writes
<1>2. Holds(h)
  BY <1>1 DEF Holding, Roll!Idle
<1>3. PICK u \in Accounts, account \in Living, edit \in Roll!Edits(h, a_doing[h].account) :
        u = a_doing[h].user /\ account = a_doing[h].account /\ edit = a_doing[h].edit
  BY <1>2 DEF Holds
<1> DEFINE over == a_accounts[u] # account
<1>4. /\ a_accounts' = [a_accounts EXCEPT ![u] = Roll!AfterWrite(h, a_accounts[u])]
      /\ a_decided' = [a_decided EXCEPT ![u] =
           IF ~a_accounts'[u].exists THEN Roll!Removed ELSE Roll!With(edit, a_decided[u])]
      /\ a_crossed' = IF over /\ h = Roll!Server THEN a_crossed \cup {u} ELSE a_crossed
      /\ a_outdated' = (a_outdated \/ over \/ Roll!Administrators # a_doing[h].administrators)
  BY <1>1, <1>3 DEF Roll!Writes, Whole, Histories
<1>5. edit = Roll!Removed \/ Change(edit)
  BY <1>3, EditsAreChanges
<1>6. a_accounts[u] \in Living \cup {Roll!Removed} /\ a_accounts[u] # Roll!Unborn
  BY <1>1, <1>2, <1>3 DEF Whole, Holds
<1>7. /\ a_accounts[u] = Roll!Removed => Roll!AfterWrite(h, a_accounts[u]) = Roll!Removed
      /\ a_accounts[u] \in Living =>
           /\ edit = Roll!Removed => Roll!AfterWrite(h, a_accounts[u]) = Roll!Removed
           /\ edit # Roll!Removed /\ h = Roll!Server =>
                Roll!AfterWrite(h, a_accounts[u]) = Roll!update(edit, account, a_accounts[u])
           /\ edit # Roll!Removed /\ h # Roll!Server =>
                Roll!AfterWrite(h, a_accounts[u]) = Roll!With(edit, a_accounts[u])
  BY <1>3, Apart DEF Roll!AfterWrite
<1>8. Roll!AfterWrite(h, a_accounts[u]) \in Living \cup {Roll!Removed}
  BY <1>5, <1>6, <1>7, WithIsLiving, UpdateIsLiving
<1>9. /\ a_accounts'[u] = Roll!AfterWrite(h, a_accounts[u])
      /\ \A v \in Accounts \ {u} : a_accounts'[v] = a_accounts[v]
  BY <1>1, <1>4 DEF Whole
<1>10. Whole'
  BY <1>1, <1>4, <1>8 DEF Whole
<1>11. Holding'
  <2>1. \A v \in Accounts : a_accounts[v] # Roll!Unborn => a_accounts'[v] # Roll!Unborn
    BY <1>8, <1>9, Apart
  <2> QED  BY <1>1, <2>1 DEF Holding, Holds
<1>12. Histories'
  BY <1>1, <1>4 DEF Histories
<1>13. ASSUME NEW v \in Accounts \ a_crossed' PROVE a_accounts'[v] = a_decided'[v]
  <2>1. a_accounts[v] = a_decided[v]
    BY <1>1, <1>4 DEF Roll!DecisionsStand
  <2>2. CASE v # u
    BY <1>1, <1>4, <1>9, <2>1, <2>2 DEF Histories
  <2>3. CASE v = u
    <3>1. a_decided'[u] = IF ~a_accounts'[u].exists THEN Roll!Removed
            ELSE Roll!With(edit, a_accounts[u])
      BY <1>1, <1>4, <2>1, <2>3 DEF Histories
    <3>2. CASE a_accounts'[u] = Roll!Removed
      BY <2>3, <3>1, <3>2, Apart
    <3>3. CASE a_accounts'[u] \in Living
      <4>1. a_accounts[u] \in Living /\ edit # Roll!Removed /\ Change(edit)
        BY <1>5, <1>6, <1>7, <1>9, <3>3, Apart
      <4>2. h = Roll!Server => a_accounts[u] = account
        BY <1>4, <2>3
      <4>3. a_accounts'[u] = Roll!With(edit, a_accounts[u])
        BY <1>7, <1>9, <4>1, <4>2, UpdateIsWith
      <4> QED  BY <2>3, <3>1, <3>3, <4>3, Apart
    <3> QED  BY <1>8, <1>9, <3>2, <3>3
  <2> QED  BY <2>2, <2>3
<1>14. ASSUME ~a_outdated' PROVE Roll!Administrators' # {}
  <2>1. /\ ~a_outdated /\ a_accounts[u] = account /\
             a_doing[h].administrators = Roll!Administrators
    BY <1>4, <1>14
  <2>2. Roll!Administrators # {} /\ ~(Roll!Takes(edit, account) /\
          Cardinality(Roll!Administrators) <= 1)
    BY <1>1, <1>2, <1>3, <2>1 DEF Roll!DecisionsStand, Holds
  <2>3. Roll!AfterWrite(h, a_accounts[u]) = IF edit = Roll!Removed THEN Roll!Removed
          ELSE Roll!With(edit, account)
    BY <1>5, <1>7, <2>1, UpdateIsWith
  <2>4. a_accounts' = [a_accounts EXCEPT ![u] = IF edit = Roll!Removed THEN Roll!Removed
                                            ELSE Roll!With(edit, account)]
    BY <1>4, <2>3
  <2> QED  BY <1>1, <1>5, <2>1, <2>2, <2>4, SomebodyIsLeft
<1>15. Roll!DecisionsStand'
  BY <1>13, <1>14 DEF Roll!DecisionsStand
<1> QED  BY <1>10, <1>11, <1>12, <1>15 DEF RollHolds
-----------------------------------------------------------------------------
LEMMA NextSafe ==
  ASSUME Roll!AccountsAssumption, RollHolds, [Roll!Next]_(Roll!vars)
  PROVE  RollHolds'
<1>1. CASE UNCHANGED Roll!vars
  BY <1>1 DEF Roll!vars, RollHolds, Whole, Holding, Holds, Histories, Roll!DecisionsStand,
     Roll!Administrators
<1>2. CASE Roll!Next
  BY <1>2, FindsSafe, CountsSafe, WritesSafe, GivesUpSafe, CreatesSafe DEF Roll!Next
<1> QED  BY <1>1, <1>2

LEMMA AlwaysSafe == Roll!AccountsAssumption => (Roll!Spec => []RollHolds)
<1> SUFFICES ASSUME Roll!AccountsAssumption PROVE Roll!Spec => []RollHolds
  OBVIOUS
<1>1. Roll!Init => RollHolds
  BY InitSafe
<1>2. RollHolds /\ [Roll!Next]_(Roll!vars) => RollHolds'
  BY NextSafe
<1> QED  BY <1>1, <1>2, PTL DEF Roll!Spec

(* Accounts stay accounts, whatever copies of them are written back.       *)
THEOREM AccountsAreTyped == Roll!AccountsAssumption => (Roll!Spec => []Roll!TypeOK)
<1>1. ASSUME RollHolds PROVE Roll!TypeOK
  <2>1. Whole /\ Holding /\ Histories
    BY <1>1 DEF RollHolds
  <2>2. ASSUME NEW u \in Accounts, a_accounts[u] \notin {Roll!Unborn, Roll!Removed}
        PROVE  /\ a_accounts[u].exists /\ a_accounts[u].role \in Roll!Roles
               /\ a_accounts[u].password \in Passwords
               /\ a_accounts[u].restrictions \subseteq Flags
               /\ a_accounts[u].session_end_requested_at \in BOOLEAN
    <3>1. a_accounts[u] \in Living
      BY <2>1, <2>2 DEF Whole
    <3> QED  BY <3>1 DEF Living
  <2>3. \A h \in Roll!Hands : a_doing[h].at \in {"idle", "found", "counted"}
    BY <2>1 DEF Holding, Holds, Roll!Idle
  <2> QED  BY <2>1, <2>2, <2>3 DEF Roll!TypeOK, Histories
<1> QED  BY <1>1, AlwaysSafe, PTL

(* MongoUserStore::update and dbadmin's $set: what was decided of an       *)
(* account stands against any number of terminals at once, but where the   *)
(* server wrote its copy over another's write; and the counting before a   *)
(* role, a ban or a removal leaves an administrator, but where the count   *)
(* was out of date by the write.                                           *)
THEOREM WhatWasDecidedStands == Roll!AccountsAssumption => (Roll!Spec => []Roll!DecisionsStand)
<1>1. RollHolds => Roll!DecisionsStand
  BY DEF RollHolds
<1> QED  BY <1>1, AlwaysSafe, PTL
-----------------------------------------------------------------------------
(* The variables of every part.                                            *)
PartsVars ==
  <<part, r_vars, s_vars, p_vars, t_vars, c_vars, a_vars, talk_vars, panel_vars, vars,
  console_vars, n_vars, k_vars, e_vars, m_vars>>

(* MediaRouter, as the run has it, for any callers: a part's behaviour is  *)
(* one of MediaRouter.                                                     *)
THEOREM EverybodyIsHeard == PartsSpec => []EveryoneIsHeard
<1>1. PartsInit => Router!Init
  BY DEF PartsInit
<1>2. [PartsNext]_PartsVars => [Router!Next]_(Router!vars)
  BY DEF PartsNext, r_vars, Router!vars, PartsVars
<1>3. Router!MediaRouterAssumption
  BY PartsAssumption DEF PartsAssumption
<1>4. Router!Spec => []Router!EveryoneIsHeard
  BY <1>3, Router!EverybodyIsHeard
<1>5. Router!EveryoneIsHeard => EveryoneIsHeard
  BY DEF EveryoneIsHeard
<1> QED  BY <1>1, <1>2, <1>4, <1>5, PTL DEF PartsSpec, PartsVars, Router!Spec

(* ScreenShare, as the run has it, for any number of captures and          *)
(* failures.                                                               *)
THEOREM TheRoomIsTold == PartsSpec => []RoomIsTold
<1>1. PartsInit => Capture!Init
  BY DEF PartsInit
<1>2. [PartsNext]_PartsVars => [Capture!Next]_(Capture!vars)
  BY DEF PartsNext, c_vars, Capture!vars, Capture!flags, PartsVars
<1>3. Capture!ScreenShareAssumption
  BY PartsAssumption DEF PartsAssumption
<1>4. Capture!Spec => []Capture!RoomIsTold
  BY <1>3, Capture!TheRoomIsTold
<1>5. Capture!RoomIsTold => RoomIsTold
  BY DEF RoomIsTold
<1> QED  BY <1>1, <1>2, <1>4, <1>5, PTL DEF PartsSpec, PartsVars, Capture!Spec

(* Accounts, as the run has it, for any accounts, terminals and decisions. *)
THEOREM DecisionsAreKept == PartsSpec => []DecisionsStand
<1>1. PartsInit => Roll!Init
  BY DEF PartsInit
<1>2. [PartsNext]_PartsVars => [Roll!Next]_(Roll!vars)
  BY DEF PartsNext, a_vars, Roll!vars, PartsVars
<1>3. Roll!AccountsAssumption
  BY PartsAssumption DEF PartsAssumption
<1>4. Roll!Spec => []Roll!DecisionsStand
  BY <1>3, WhatWasDecidedStands
<1>5. Roll!DecisionsStand => DecisionsStand
  BY DEF DecisionsStand
<1> QED  BY <1>1, <1>2, <1>4, <1>5, PTL DEF PartsSpec, PartsVars, Roll!Spec

(* CallMediaProofs speaks of ScreenSound by an instance of its own: its    *)
(* states, steps and promise are those of the run's.                       *)
LEMMA SoundAtFirst == Sound!Init => Capture!Sound!Init
BY DEF Sound!Init, Sound!NoCapture, Sound!Empty, Sound!Captures, Capture!Sound!Init,
       Capture!Sound!NoCapture, Capture!Sound!Empty, Capture!Sound!Captures

(* The same steps.                                                         *)
LEMMA SoundSteps == Sound!Next => Capture!Sound!Next
BY DEF Sound!Next, Sound!NoCapture, Sound!Captures, Sound!vars, Sound!Ring, Sound!Empty,
       Sound!push, Sound!Gives, Sound!take, Sound!Free, Sound!GoesTo, Sound!Enters,
       Sound!StopsCapture, Sound!Joins, Sound!Releases, Sound!Clears, Sound!CreationFails,
       Sound!Creates, Sound!Opens, Sound!Activates, Sound!ThreadGoesTo, Sound!StreamOpens,
       Sound!StreamIsRefused, Sound!Gone, Sound!drain, Sound!Delivers, Sound!fail,
       Sound!note_failure, Sound!mix, Sound!Process, Sound!ThreadsAreJoined,
       Capture!Sound!Next, Capture!Sound!NoCapture, Capture!Sound!Captures,
       Capture!Sound!vars, Capture!Sound!Ring, Capture!Sound!Empty, Capture!Sound!push,
       Capture!Sound!Gives, Capture!Sound!take, Capture!Sound!Free, Capture!Sound!GoesTo,
       Capture!Sound!Enters, Capture!Sound!StopsCapture, Capture!Sound!Joins,
       Capture!Sound!Releases, Capture!Sound!Clears, Capture!Sound!CreationFails,
       Capture!Sound!Creates, Capture!Sound!Opens, Capture!Sound!Activates,
       Capture!Sound!ThreadGoesTo, Capture!Sound!StreamOpens, Capture!Sound!StreamIsRefused,
       Capture!Sound!Gone, Capture!Sound!drain, Capture!Sound!Delivers, Capture!Sound!fail,
       Capture!Sound!note_failure, Capture!Sound!mix, Capture!Sound!Process,
       Capture!Sound!ThreadsAreJoined

(* The same promise.                                                       *)
LEMMA SoundPromise == Capture!Sound!SoundIsTrue => Sound!SoundIsTrue
BY DEF Sound!SoundIsTrue, Sound!SoundIsNotLate, Sound!SoundIsOfThisShare,
       Sound!ActiveIsCaptured, Sound!Free, Sound!NoCapture, Sound!Captures, Sound!Ring,
       Capture!Sound!SoundIsTrue, Capture!Sound!SoundIsNotLate,
       Capture!Sound!SoundIsOfThisShare, Capture!Sound!ActiveIsCaptured, Capture!Sound!Free,
       Capture!Sound!NoCapture, Capture!Sound!Captures, Capture!Sound!Ring

(* ScreenSound, as the run has it, for any drivers, packets and captures.  *)
THEOREM SoundIsKeptTrue == PartsSpec => []SoundIsTrue
<1>1. PartsInit => Capture!Sound!Init
  BY SoundAtFirst DEF PartsInit
<1>2. [PartsNext]_PartsVars => [Capture!Sound!Next]_(Capture!Sound!vars)
  BY SoundSteps DEF PartsNext, n_vars, Capture!Sound!vars, PartsVars
<1>3. Sound!ScreenSoundAssumption => Capture!Sound!ScreenSoundAssumption
  BY DEF Sound!ScreenSoundAssumption, Capture!Sound!ScreenSoundAssumption
<1>4. Capture!Sound!ScreenSoundAssumption
  BY <1>3, PartsAssumption DEF PartsAssumption
<1>5. Capture!Sound!Spec => []Capture!Sound!SoundIsTrue
  BY <1>4, Capture!SoundInShare
<1>6. Capture!Sound!SoundIsTrue => SoundIsTrue
  BY SoundPromise DEF SoundIsTrue
<1> QED  BY <1>1, <1>2, <1>5, <1>6, PTL DEF PartsSpec, PartsVars, Capture!Sound!Spec

(* SignalingServer, as the run has it, for any connections and events: the *)
(* only threads that wait for each other are stop() and the accepting one. *)
THEOREM LocksAreKeptLetGo == PartsSpec => []LocksAreLetGo
<1>1. PartsInit => Locks!Init
  BY DEF PartsInit
<1>2. [PartsNext]_PartsVars => [Locks!Next]_(Locks!vars)
  BY DEF PartsNext, t_vars, Locks!vars, Locks!hub, Locks!network, PartsVars
<1>3. Locks!SignalingServerAssumption
  BY PartsAssumption DEF PartsAssumption
<1>4. Locks!Spec => []Locks!LocksAreLetGo
  BY <1>3, Locks!NobodyWaitsForever
<1>5. Locks!LocksAreLetGo => LocksAreLetGo
  BY DEF LocksAreLetGo
<1> QED  BY <1>1, <1>2, <1>4, <1>5, PTL DEF PartsSpec, PartsVars, Locks!Spec

(* CallMediaProofs speaks of MediaSession by an instance of its own: its   *)
(* settings, states, steps and promise are those of the run's.             *)
LEMMA SameAtFirst == Call!Init => Capture!Call!Init
BY DEF Call!Init, Call!Settings, Call!Seeded, Call!Later, Call!Devices, Call!EngineSettings,
       Call!TrackSettings, Call!NotSet, Call!Threads, Call!Waiting, Call!NoCall, Call!Nothing,
       Capture!Call!Init, Capture!Call!Settings, Capture!Call!Seeded, Capture!Call!Later,
       Capture!Call!Devices, Capture!Call!EngineSettings, Capture!Call!TrackSettings,
       Capture!Call!NotSet, Capture!Call!Threads, Capture!Call!Waiting, Capture!Call!NoCall,
       Capture!Call!Nothing

(* The same steps.                                                         *)
LEMMA SameSteps == Call!Next => Capture!Call!Next
BY DEF Call!Next, Call!vars, Call!call, Call!track, Call!sound, Call!EngineSettings,
       Call!TrackSettings, Call!Seeded, Call!Devices, Call!Later, Call!Settings, Call!NotSet,
       Call!Undone, Call!Threads, Call!Waiting, Call!NoCall, Call!Nothing,
       Call!CreatesConnection, Call!decline_platform_echo_canceller,
       Call!set_audio_processing, Call!Opens, Call!start, Call!Reads, Call!Sets,
       Call!handle_offer, Call!Fails, Call!Publishes, Call!Mutes, Call!ReadsLater, Call!Found,
       Call!Switches, Call!Refuses, Call!VolumesIn, Call!AppliesVolumes, Call!AppliesDevice,
       Call!on_local_description_set, Call!Passes, Call!Choose, Call!set_video_quality,
       Call!Told, Call!TellsNobody, Call!OnItsOwn, Call!KeptInForce, Call!Tells,
       Call!HearsOfMute, Call!MutesAsHeard, Call!Keeps, Call!Mixes, Call!start_screen_audio,
       Call!stop_screen_audio, Call!note_failure, Call!OnTrack, Call!OnRemoveTrack,
       Call!close, Capture!Call!Next, Capture!Call!vars, Capture!Call!call,
       Capture!Call!track, Capture!Call!sound, Capture!Call!EngineSettings,
       Capture!Call!TrackSettings, Capture!Call!Seeded, Capture!Call!Devices,
       Capture!Call!Later, Capture!Call!Settings, Capture!Call!NotSet, Capture!Call!Undone,
       Capture!Call!Threads, Capture!Call!Waiting, Capture!Call!NoCall, Capture!Call!Nothing,
       Capture!Call!CreatesConnection, Capture!Call!decline_platform_echo_canceller,
       Capture!Call!set_audio_processing, Capture!Call!Opens, Capture!Call!start,
       Capture!Call!Reads, Capture!Call!Sets, Capture!Call!handle_offer, Capture!Call!Fails,
       Capture!Call!Publishes, Capture!Call!Mutes, Capture!Call!ReadsLater,
       Capture!Call!Found, Capture!Call!Switches, Capture!Call!Refuses,
       Capture!Call!VolumesIn, Capture!Call!AppliesVolumes, Capture!Call!AppliesDevice,
       Capture!Call!on_local_description_set, Capture!Call!Passes, Capture!Call!Choose,
       Capture!Call!set_video_quality, Capture!Call!Told, Capture!Call!TellsNobody,
       Capture!Call!OnItsOwn, Capture!Call!KeptInForce, Capture!Call!Tells,
       Capture!Call!HearsOfMute, Capture!Call!MutesAsHeard, Capture!Call!Keeps,
       Capture!Call!Mixes, Capture!Call!start_screen_audio, Capture!Call!stop_screen_audio,
       Capture!Call!note_failure, Capture!Call!OnTrack, Capture!Call!OnRemoveTrack,
       Capture!Call!close

(* The same promise.                                                       *)
LEMMA SamePromise == Capture!Call!CallRunsAsChosen => Call!CallRunsAsChosen
BY DEF Call!CallRunsAsChosen, Call!Settled, Call!VoiceLeaves, Call!Stuck, Call!Settings,
       Call!Seeded, Call!Later, Call!Devices, Call!EngineSettings, Call!TrackSettings,
       Call!NotSet, Call!Threads, Call!Waiting, Call!NoCall, Call!Nothing,
       Capture!Call!CallRunsAsChosen, Capture!Call!Settled, Capture!Call!VoiceLeaves,
       Capture!Call!Stuck, Capture!Call!Settings, Capture!Call!Seeded, Capture!Call!Later,
       Capture!Call!Devices, Capture!Call!EngineSettings, Capture!Call!TrackSettings,
       Capture!Call!NotSet, Capture!Call!Threads, Capture!Call!Waiting, Capture!Call!NoCall,
       Capture!Call!Nothing

(* MediaSession, as the run has it, for any voices, changes and sessions.  *)
THEOREM CallsAreKeptAsChosen == PartsSpec => []CallRunsAsChosen
<1>1. PartsInit => Capture!Call!Init
  BY SameAtFirst DEF PartsInit
<1>2. [PartsNext]_PartsVars => [Capture!Call!Next]_(Capture!Call!vars)
  BY SameSteps
  DEF PartsNext, m_vars, Capture!Call!vars, Capture!Call!call, Capture!Call!track,
      Capture!Call!sound, PartsVars
<1>3. Call!MediaSessionAssumption => Capture!Call!MediaSessionAssumption
  BY DEF Call!MediaSessionAssumption, Capture!Call!MediaSessionAssumption
<1>4. Capture!Call!MediaSessionAssumption
  BY <1>3, PartsAssumption DEF PartsAssumption
<1>5. Capture!Call!Spec => []Capture!Call!CallRunsAsChosen
  BY <1>4, Capture!CallsRunAsChosen
<1>6. Capture!Call!CallRunsAsChosen => CallRunsAsChosen
  BY SamePromise DEF CallRunsAsChosen
<1> QED  BY <1>1, <1>2, <1>5, <1>6, PTL DEF PartsSpec, PartsVars, Capture!Call!Spec

(* CallMediaProofs speaks of Encoder by an instance of its own: its states,*)
(* steps and promise are those of the run's.                               *)
LEMMA PicturesHelpers ==
  /\ \A S : /\ Pictures!Max(S) = Capture!Pictures!Max(S)
           /\ Pictures!ToSet(S) = Capture!Pictures!ToSet(S)
           /\ Pictures!Cardinality(S) = Capture!Pictures!Cardinality(S)
  /\ \A machine : Pictures!Chosen(machine) = Capture!Pictures!Chosen(machine)
<1>1. \A S : Pictures!Max(S) = Capture!Pictures!Max(S)
  BY DEF Pictures!Max, Capture!Pictures!Max
<1>2. \A S : Pictures!ToSet(S) = Capture!Pictures!ToSet(S)
  BY DEF Pictures!ToSet, Capture!Pictures!ToSet
<1>3. \A S : Pictures!Cardinality(S) = Capture!Pictures!Cardinality(S)
  BY DEF Pictures!Cardinality, Capture!Pictures!Cardinality
<1>4. \A machine : Pictures!Chosen(machine) = Capture!Pictures!Chosen(machine)
  BY DEF Pictures!Chosen, Pictures!probe, Pictures!Needs, Pictures!compiled_backends,
         Capture!Pictures!Chosen, Capture!Pictures!probe, Capture!Pictures!Needs,
         Capture!Pictures!compiled_backends
<1> QED  BY <1>1, <1>2, <1>3, <1>4

(* The same first state.                                                   *)
LEMMA PicturesAtFirst == Pictures!Init => Capture!Pictures!Init
BY DEF Pictures!Init, Pictures!NoSession, Pictures!Fresh, Pictures!Own, Pictures!Idle,
       Pictures!Deaf, Pictures!NoFrame, Capture!Pictures!Init, Capture!Pictures!NoSession,
       Capture!Pictures!Fresh, Capture!Pictures!Own, Capture!Pictures!Idle,
       Capture!Pictures!Deaf, Capture!Pictures!NoFrame

(* The same steps.                                                         *)
LEMMA PicturesSteps == Pictures!Next => Capture!Pictures!Next
<1>1. \A machine \in Machines, format \in {"H264", "VP8"} :
        Pictures!Make(machine, format) => Capture!Pictures!Make(machine, format)
  BY PicturesHelpers DEF Pictures!Make, Pictures!Create, Pictures!line, Pictures!counts,
         Capture!Pictures!Make, Capture!Pictures!Create, Capture!Pictures!line,
         Capture!Pictures!counts
<1>2. ASSUME NEW offer \in Openings, Pictures!InitEncode(offer)
      PROVE  Capture!Pictures!InitEncode(offer)
  <2>1. Pictures!Opened(offer) = Capture!Pictures!Opened(offer)
    <3> DEFINE first == IF offer.start > 0 THEN offer.start ELSE offer.max
               bitrate == IF first = 0 THEN 1500 ELSE first
    <3>1. Pictures!Max({bitrate, offer.max}) = Capture!Pictures!Max({bitrate, offer.max})
      BY PicturesHelpers
    <3>2. Pictures!NoSession = Capture!Pictures!NoSession
      BY DEF Pictures!NoSession, Capture!Pictures!NoSession
    <3> DEFINE Made(none, peak) ==
                 [none EXCEPT !.size = offer.size, !.bitrate = bitrate, !.peak = peak]
    <3>3. Pictures!Opened(offer) = Made(Pictures!NoSession, Pictures!Max({bitrate, offer.max}))
      BY DEF Pictures!Opened
    <3>4. Capture!Pictures!Opened(offer)
            = Made(Capture!Pictures!NoSession, Capture!Pictures!Max({bitrate, offer.max}))
      BY DEF Capture!Pictures!Opened
    <3> HIDE DEF Made
    <3> QED  BY <3>1, <3>2, <3>3, <3>4
  <2>2. \A s : Pictures!configure(s) = Capture!Pictures!configure(s)
    BY DEF Pictures!configure, Pictures!set_types, Pictures!apply_static_codec_settings,
           Pictures!set_codec_value, Pictures!Own, Pictures!Fresh, Pictures!Fixed,
           Capture!Pictures!configure, Capture!Pictures!set_types,
           Capture!Pictures!apply_static_codec_settings, Capture!Pictures!set_codec_value,
           Capture!Pictures!Own, Capture!Pictures!Fresh, Capture!Pictures!Fixed
  <2>3. /\ Pictures!NoSession = Capture!Pictures!NoSession
        /\ Pictures!Fresh = Capture!Pictures!Fresh
        /\ Pictures!Listening = Capture!Pictures!Listening
        /\ Pictures!Deaf = Capture!Pictures!Deaf
    BY DEF Pictures!NoSession, Pictures!Fresh, Pictures!Own, Pictures!Listening,
           Pictures!Deaf, Pictures!NoFrame, Capture!Pictures!NoSession,
           Capture!Pictures!Fresh, Capture!Pictures!Own, Capture!Pictures!Listening,
           Capture!Pictures!Deaf, Capture!Pictures!NoFrame
  <2>4. Pictures!Detached => Capture!Pictures!Detached
    BY DEF Pictures!Detached, Pictures!Free, Pictures!NoFrame, Capture!Pictures!Detached,
           Capture!Pictures!Free, Capture!Pictures!NoFrame
  <2>5. Pictures!Cleared => Capture!Pictures!Cleared
    BY DEF Pictures!Cleared, Pictures!Idle, Pictures!NoFrame, Capture!Pictures!Cleared,
           Capture!Pictures!Idle, Capture!Pictures!NoFrame
  <2>6. CASE Pictures!FallsBack /\ UNCHANGED e_told
    <3>1. Capture!Pictures!FallsBack
      BY <2>3, <2>6 DEF Pictures!FallsBack, Capture!Pictures!FallsBack
    <3> QED  BY <1>2, <2>4, <2>5, <2>6, <3>1 DEF Pictures!InitEncode, Capture!Pictures!InitEncode
  <2>7. ASSUME e_made.backend # "none", NEW steered \in BOOLEAN, NEW constrained \in BOOLEAN,
               Pictures!StartsOn(Pictures!Probed(Pictures!Opened(offer), steered, constrained))
        PROVE  Capture!Pictures!InitEncode(offer)
    <3> DEFINE s == Pictures!Probed(Pictures!Opened(offer), steered, constrained)
               t == Capture!Pictures!Probed(Capture!Pictures!Opened(offer), steered, constrained)
    <3>1. s = t
      BY <2>1 DEF Pictures!Probed, Capture!Pictures!Probed
    <3>2. Pictures!StartsOn(s)
      BY <2>7
    <3>3. Capture!Pictures!StartsOn(t)
      <4> HIDE DEF s, t
      <4> QED
        BY <2>2, <2>3, <3>1, <3>2
        DEF Pictures!StartsOn, Capture!Pictures!StartsOn, Pictures!apply_rate_control,
            Capture!Pictures!apply_rate_control
    <3> QED
      BY <1>2, <2>4, <2>5, <2>7, <3>3 DEF Pictures!InitEncode, Capture!Pictures!InitEncode
  <2> QED  BY <1>2, <2>6, <2>7 DEF Pictures!InitEncode
<1>3. \A offer \in Openings :
        Pictures!EncodesAtOnce(offer.size) => Capture!Pictures!EncodesAtOnce(offer.size)
  BY PicturesHelpers DEF Pictures!EncodesAtOnce, Pictures!Encoding, Pictures!Loses,
         Pictures!FallsBack, Pictures!NoSession, Pictures!Fresh, Pictures!Own,
         Pictures!Deaf, Pictures!NoFrame, Capture!Pictures!EncodesAtOnce,
         Capture!Pictures!Encoding, Capture!Pictures!Loses, Capture!Pictures!FallsBack,
         Capture!Pictures!NoSession, Capture!Pictures!Fresh, Capture!Pictures!Own,
         Capture!Pictures!Deaf, Capture!Pictures!NoFrame
<1>4. \A bitrate \in Rates :
        Pictures!SetRates(bitrate) => Capture!Pictures!SetRates(bitrate)
  BY DEF Pictures!SetRates, Pictures!Free, Pictures!NoFrame, Pictures!apply_rate_control,
         Pictures!set_codec_value, Pictures!Fixed, Pictures!line, Pictures!counts,
         Capture!Pictures!SetRates, Capture!Pictures!Free, Capture!Pictures!NoFrame,
         Capture!Pictures!apply_rate_control, Capture!Pictures!set_codec_value,
         Capture!Pictures!Fixed, Capture!Pictures!line, Capture!Pictures!counts
<1>5. Pictures!Release => Capture!Pictures!Release
  BY DEF Pictures!Release, Pictures!Detached, Pictures!Free, Pictures!NoFrame,
         Pictures!Cleared, Pictures!Idle, Pictures!NoSession, Pictures!Fresh, Pictures!Own,
         Pictures!Deaf, Pictures!counts, Capture!Pictures!Release,
         Capture!Pictures!Detached, Capture!Pictures!Free, Capture!Pictures!NoFrame,
         Capture!Pictures!Cleared, Capture!Pictures!Idle, Capture!Pictures!NoSession,
         Capture!Pictures!Fresh, Capture!Pictures!Own, Capture!Pictures!Deaf,
         Capture!Pictures!counts
<1>6. Pictures!Encode => Capture!Pictures!Encode
  BY DEF Pictures!Encode, Pictures!Encoding, Pictures!Free, Pictures!NoFrame,
         Pictures!Queue, Pictures!Take, Pictures!kMaxQueuedFrames, Capture!Pictures!Encode,
         Capture!Pictures!Encoding, Capture!Pictures!Free, Capture!Pictures!NoFrame,
         Capture!Pictures!Queue, Capture!Pictures!Take, Capture!Pictures!kMaxQueuedFrames
<1>7. Pictures!Feeds => Capture!Pictures!Feeds
  BY PicturesHelpers DEF Pictures!Feeds, Pictures!Free, Pictures!NoFrame, Pictures!feed,
         Pictures!Loses, Capture!Pictures!Feeds, Capture!Pictures!Free,
         Capture!Pictures!NoFrame, Capture!Pictures!feed, Capture!Pictures!Loses
<1>8. Pictures!Asks => Capture!Pictures!Asks
  BY DEF Pictures!Asks, Pictures!Speaks, Pictures!Running, Pictures!Says, Pictures!Encoding,
         Pictures!line, Pictures!counts, Capture!Pictures!Asks, Capture!Pictures!Speaks,
         Capture!Pictures!Running, Capture!Pictures!Says, Capture!Pictures!Encoding,
         Capture!Pictures!line, Capture!Pictures!counts
<1>9. Pictures!IsReady => Capture!Pictures!IsReady
  BY DEF Pictures!IsReady, Pictures!Speaks, Pictures!Running, Pictures!Says,
         Pictures!Encoding, Pictures!line, Pictures!counts, Capture!Pictures!IsReady,
         Capture!Pictures!Speaks, Capture!Pictures!Running, Capture!Pictures!Says,
         Capture!Pictures!Encoding, Capture!Pictures!line, Capture!Pictures!counts
<1>10. Pictures!BreaksDown => Capture!Pictures!BreaksDown
  BY PicturesHelpers DEF Pictures!BreaksDown, Pictures!Speaks, Pictures!Running,
         Pictures!Says, Pictures!Encoding, Pictures!line, Pictures!counts,
         Capture!Pictures!BreaksDown, Capture!Pictures!Speaks, Capture!Pictures!Running,
         Capture!Pictures!Says, Capture!Pictures!Encoding, Capture!Pictures!line,
         Capture!Pictures!counts
<1>11. Pictures!on_need_input => Capture!Pictures!on_need_input
  BY DEF Pictures!on_need_input, Pictures!Invoke, Pictures!Heard, Pictures!Listening,
         Pictures!NoFrame, Capture!Pictures!on_need_input, Capture!Pictures!Invoke,
         Capture!Pictures!Heard, Capture!Pictures!Listening, Capture!Pictures!NoFrame
<1>12. Pictures!EventFeeds => Capture!Pictures!EventFeeds
  BY PicturesHelpers DEF Pictures!EventFeeds, Pictures!feed, Pictures!Loses,
         Pictures!Listening, Pictures!NoFrame, Capture!Pictures!EventFeeds,
         Capture!Pictures!feed, Capture!Pictures!Loses, Capture!Pictures!Listening,
         Capture!Pictures!NoFrame
<1>13. Pictures!on_have_output => Capture!Pictures!on_have_output
  BY PicturesHelpers DEF Pictures!on_have_output, Pictures!Invoke, Pictures!Heard,
         Pictures!Loses, Pictures!Listening, Pictures!NoFrame,
         Capture!Pictures!on_have_output, Capture!Pictures!Invoke, Capture!Pictures!Heard,
         Capture!Pictures!Loses, Capture!Pictures!Listening, Capture!Pictures!NoFrame
<1>14. Pictures!deliver => Capture!Pictures!deliver
  BY PicturesHelpers DEF Pictures!deliver, Pictures!Loses, Pictures!Listening,
         Pictures!NoFrame, Capture!Pictures!deliver, Capture!Pictures!Loses,
         Capture!Pictures!Listening, Capture!Pictures!NoFrame
<1>15. Pictures!GoesQuiet => Capture!Pictures!GoesQuiet
  BY DEF Pictures!GoesQuiet, Pictures!Invoke, Pictures!Heard, Pictures!Listening,
         Pictures!Deaf, Pictures!NoFrame, Capture!Pictures!GoesQuiet,
         Capture!Pictures!Invoke, Capture!Pictures!Heard, Capture!Pictures!Listening,
         Capture!Pictures!Deaf, Capture!Pictures!NoFrame
<1> QED  BY <1>1, <1>2, <1>3, <1>4, <1>5, <1>6, <1>7, <1>8, <1>9, <1>10, <1>11, <1>12,
       <1>13, <1>14, <1>15 DEF Pictures!Next, Capture!Pictures!Next

(* The same promise.                                                       *)
LEMMA PicturesPromise == Capture!Pictures!EncodesAsTold => Pictures!EncodesAsTold
<1>1. Pictures!Line = Capture!Pictures!Line /\ Pictures!InHand = Capture!Pictures!InHand
      /\ \A doing : Pictures!When(doing) = Capture!Pictures!When(doing)
  BY DEF Pictures!Line, Pictures!When, Pictures!InHand, Pictures!Free, Pictures!NoFrame,
         Capture!Pictures!Line, Capture!Pictures!When, Capture!Pictures!InHand,
         Capture!Pictures!Free, Capture!Pictures!NoFrame
<1>2. Pictures!NeedsTold = Capture!Pictures!NeedsTold
  BY DEF Pictures!NeedsTold, Capture!Pictures!NeedsTold
<1>3. Capture!Pictures!FramesFlow => Pictures!FramesFlow
  BY <1>1, <1>2, PicturesHelpers DEF Pictures!FramesFlow, Pictures!Encoding,
         Pictures!kMaxQueuedFrames, Capture!Pictures!FramesFlow, Capture!Pictures!Encoding,
         Capture!Pictures!kMaxQueuedFrames
<1>4. Capture!Pictures!RatesHold => Pictures!RatesHold
  BY DEF Pictures!RatesHold, Capture!Pictures!RatesHold
<1> QED  BY <1>3, <1>4 DEF Pictures!EncodesAsTold, Capture!Pictures!EncodesAsTold

(* Encoder, as the run has it, for any machines, openings, rates, frames,  *)
(* sessions and losses.                                                    *)
THEOREM PicturesAreKeptAsTold == PartsSpec => []EncodesAsTold
<1>1. PartsInit => Capture!Pictures!Init
  BY PicturesAtFirst DEF PartsInit
<1>2. [PartsNext]_PartsVars => [Capture!Pictures!Next]_(Capture!Pictures!vars)
  BY PicturesSteps
  DEF PartsNext, e_vars, Capture!Pictures!vars, Capture!Pictures!line,
      Capture!Pictures!counts, PartsVars
<1>3. Pictures!EncoderAssumption => Capture!Pictures!EncoderAssumption
  BY DEF Pictures!EncoderAssumption, Capture!Pictures!EncoderAssumption
<1>4. Capture!Pictures!EncoderAssumption
  BY <1>3, PartsAssumption DEF PartsAssumption
<1>5. Capture!Pictures!Spec => []Capture!Pictures!EncodesAsTold
  BY <1>4, Capture!PicturesEncodeAsTold
<1>6. Capture!Pictures!EncodesAsTold => EncodesAsTold
  BY PicturesPromise DEF EncodesAsTold
<1> QED  BY <1>1, <1>2, <1>5, <1>6, PTL DEF PartsSpec, PartsVars, Capture!Pictures!Spec
=============================================================================
