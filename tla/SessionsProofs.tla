---------------------------- MODULE SessionsProofs ---------------------------
(***************************************************************************)
(* Theorems about the parts of MCSessions, for any number of people,       *)
(* requests and rows, and for every bound.                                 *)
(***************************************************************************)
EXTENDS MCSessions, FiniteSetTheorems, SequenceTheorems, TLAPS

------------------------------------------------------------------------------
(* Staff                                                                    *)

AccountRow == [there : BOOLEAN, role : {"admin", "worker"}, active : BOOLEAN, grants : SUBSET Sections]
OrderRow == [step : {"idle", "account", "access", "create"}, of : Colleagues,
             role : {StaffKept, "admin", "worker"}, active : {StaffKept, "on", "off"},
             revokes : BOOLEAN, grants : SUBSET Sections]

StaffTypes ==
    /\ account \in [Colleagues -> AccountRow]
    /\ orders \in [Colleagues -> OrderRow]
    /\ \A a \in Colleagues : orders[a].step = "create" => orders[a].role # StaffKept
    /\ server \in {"down", "up", "failed"}
    /\ crossed \in BOOLEAN

\* An order about to take a right of administrator from an account
TakesFrom(o, p) ==
    /\ o.step = "account" /\ o.of = p
    /\ o.role = "worker" \/ o.active = "off"

\* Nobody takes a right from himself
OrdersAreChecked == \A a \in Colleagues : ~TakesFrom(orders[a], a)

OrdersNeedAServer == server # "up" => \A a \in Colleagues : orders[a] = NoOrder
OrdersNeedAPerson == \A a \in Colleagues : orders[a].step # "idle" => \E p \in Colleagues : account[p].there

(***************************************************************************)
(* Why an administrator remains: who takes the right from one is another,  *)
(* and he remains unless somebody took it from him meanwhile.              *)
(***************************************************************************)
StaffInv == StaffTypes /\ OrdersAreChecked /\ OrdersNeedAServer /\ OrdersNeedAPerson /\ AdminRemains

LEMMA NoOrderTyped == NoOrder \in OrderRow /\ NoOrder.step = "idle"
  BY FounderAssumption DEF NoOrder, OrderRow, StaffKept

LEMMA StaffBegins == StaffInit => StaffInv
  <1> SUFFICES ASSUME StaffInit PROVE StaffInv
    OBVIOUS
  <1>1. NoAccount \in AccountRow /\ ~NoAccount.there
    BY DEF NoAccount, AccountRow
  <1>2. StaffTypes
    BY <1>1, NoOrderTyped DEF StaffInit, StaffTypes
  <1>3. OrdersNeedAServer /\ OrdersNeedAPerson /\ OrdersAreChecked
    BY NoOrderTyped DEF StaffInit, OrdersNeedAServer, OrdersNeedAPerson, OrdersAreChecked, TakesFrom
  <1>4. AdminRemains
    BY <1>1 DEF StaffInit, AdminRemains
  <1> QED  BY <1>2, <1>3, <1>4 DEF StaffInv

LEMMA BootstrapKeeps ==
    ASSUME StaffInv, bootstrap_admin
    PROVE  StaffInv'
  <1> DEFINE made == [NoAccount EXCEPT !.there = TRUE, !.role = "admin", !.active = TRUE]
  <1>1. made \in AccountRow /\ made.there /\ made.role = "admin" /\ made.active
    BY DEF NoAccount, AccountRow
  <1> HIDE DEF made
  <1>2. /\ orders' = orders /\ crossed' = crossed /\ Founder \in Colleagues
        /\ \A a \in Colleagues : orders[a] = NoOrder
        /\ \A a \in Colleagues : orders[a].step = "idle"
    BY FounderAssumption, NoOrderTyped DEF bootstrap_admin, StaffInv, OrdersNeedAServer
  <1>3. account' = account \/ account' = [account EXCEPT ![Founder] = made]
    BY DEF bootstrap_admin, made
  <1>4. StaffTypes'
    BY <1>1, <1>2, <1>3 DEF StaffInv, StaffTypes, bootstrap_admin
  <1>5. OrdersNeedAServer' /\ OrdersNeedAPerson' /\ OrdersAreChecked'
    BY <1>2 DEF OrdersNeedAServer, OrdersNeedAPerson, OrdersAreChecked, TakesFrom
  <1>6. AdminRemains'
    <2>1. CASE crossed
      BY <2>1, <1>2 DEF AdminRemains
    <2>2. CASE AdminSet # {} /\ server' = "up" /\ account' = account
      BY <2>2, <1>2 DEF AdminRemains, StaffInv, ActiveAdmins, AdminSet
    <2>3. CASE ~crossed /\ AdminSet = {} /\ account[Founder].there
      BY <2>3, <1>2 DEF AdminRemains, StaffInv, ActiveAdmins
    <2>4. CASE AdminSet = {} /\ server' = "up" /\ account' = [account EXCEPT ![Founder] = made]
      <3>1. account'[Founder] = made
        BY <2>4, <1>2 DEF StaffInv, StaffTypes
      <3>2. Founder \in ActiveAdmins'
        BY <3>1, <1>1, <1>2 DEF ActiveAdmins, AdminSet
      <3> QED  BY <3>2, <2>4 DEF AdminRemains
    <2> QED  BY <2>1, <2>2, <2>3, <2>4 DEF bootstrap_admin, made
  <1> QED  BY <1>4, <1>5, <1>6 DEF StaffInv

\* Only who is there can be an administrator, and the accounts stay as they are.
LEMMA AccountsStay ==
    ASSUME StaffInv, account' = account
    PROVE  ActiveAdmins' = ActiveAdmins /\ AdminSet' = AdminSet
  BY DEF ActiveAdmins, AdminSet

LEMMA StopKeeps ==
    ASSUME StaffInv, StaffStops
    PROVE  StaffInv'
  <1>1. /\ account' = account /\ crossed' = crossed /\ server' = "down"
        /\ \A a \in Colleagues : orders'[a] = NoOrder
    BY DEF StaffStops
  <1>2. \A a \in Colleagues : orders'[a].step = "idle"
    BY <1>1, NoOrderTyped
  <1>3. StaffTypes'
    BY <1>1, NoOrderTyped DEF StaffInv, StaffTypes, StaffStops
  <1>4. OrdersNeedAServer' /\ OrdersNeedAPerson' /\ OrdersAreChecked'
    BY <1>1, <1>2 DEF OrdersNeedAServer, OrdersNeedAPerson, OrdersAreChecked, TakesFrom
  <1>5. AdminRemains'
    BY <1>1, AccountsStay DEF AdminRemains, StaffInv
  <1> QED  BY <1>3, <1>4, <1>5 DEF StaffInv

\* A request of someone who is let in may be filed, if it takes nothing from
\* himself.
LEMMA OrderKeeps ==
    ASSUME StaffInv, NEW a \in Colleagues, NEW o \in OrderRow,
           server = "up", o.step # "idle" => \E p \in Colleagues : account[p].there,
           ~TakesFrom(o, a),
           o.step = "create" => o.role # StaffKept, StaffOrders(a, o)
    PROVE  StaffInv'
  <1>1. /\ account' = account /\ crossed' = crossed /\ server' = server
        /\ orders' = [orders EXCEPT ![a] = o]
    BY DEF StaffOrders
  <1>3. \A b \in Colleagues : orders'[b] = IF b = a THEN o ELSE orders[b]
    BY <1>1 DEF StaffInv, StaffTypes
  <1>2. StaffTypes'
    BY <1>1, <1>3 DEF StaffInv, StaffTypes
  <1>4. OrdersNeedAServer' /\ OrdersNeedAPerson'
    BY <1>1, <1>3 DEF OrdersNeedAServer, OrdersNeedAPerson, StaffInv
  <1>5. OrdersAreChecked'
    BY <1>3 DEF OrdersAreChecked, StaffInv, TakesFrom
  <1>6. AdminRemains'
    BY <1>1, AccountsStay DEF AdminRemains, StaffInv
  <1> QED  BY <1>2, <1>4, <1>5, <1>6 DEF StaffInv

\* An account is changed in what was asked, of the accounts that are.
LEMMA ChangeFiled ==
    ASSUME StaffInv, NEW a \in Colleagues, NEW p \in Colleagues,
           NEW role \in {StaffKept, "admin", "worker"}, NEW active \in {StaffKept, "on", "off"},
           update_user(a, p, role, active)
    PROVE  StaffInv'
  <1> DEFINE newRole == IF changes_role(p, role) THEN role ELSE StaffKept
             newActive == IF (active = "on") = account[p].active THEN StaffKept ELSE active
             o == [NoOrder EXCEPT !.step = "account", !.of = p, !.revokes = role = "admin",
                                  !.role = newRole, !.active = newActive]
  <1>1. newRole \in {StaffKept, "admin", "worker"} /\ newActive \in {StaffKept, "on", "off"}
    OBVIOUS
  <1>2. /\ newRole = "worker" => changes_role(p, role)
        /\ newActive = "off" => active = "off" /\ account[p].active
    BY DEF StaffKept, StaffInv, StaffTypes, AccountRow
  <1>3. (role = "admin") \in BOOLEAN
    OBVIOUS
  <1> HIDE DEF newRole, newActive
  <1>4. o \in OrderRow /\ o.step = "account" /\ o.of = p /\ o.role = newRole /\ o.active = newActive
    BY <1>1, <1>3 DEF NoOrder, OrderRow
  <1>5. /\ StaffOrders(a, o) /\ server = "up" /\ account[p].there
        /\ apply_account_change(a, p, role, active)
    BY DEF update_user, LetIn, newRole, newActive
  <1> HIDE DEF o
  <1>6. ~TakesFrom(o, a)
    <2> SUFFICES ASSUME TakesFrom(o, a) PROVE FALSE
      OBVIOUS
    <2>1. a = p /\ (newRole = "worker" \/ newActive = "off")
      BY <1>4 DEF TakesFrom
    <2> QED  BY <2>1, <1>2, <1>5 DEF apply_account_change, disables
  <1> QED  BY <1>4, <1>5, <1>6, OrderKeeps

LEMMA AccessFiled ==
    ASSUME StaffInv, NEW a \in Colleagues, NEW p \in Colleagues, NEW grants \in SUBSET Sections,
           update_user_access(a, p, grants)
    PROVE  StaffInv'
  <1> DEFINE o == [NoOrder EXCEPT !.step = "access", !.of = p, !.grants = grants]
  <1>1. o \in OrderRow /\ o.step = "access"
    BY DEF NoOrder, OrderRow, StaffKept
  <1>2. StaffOrders(a, o) /\ server = "up" /\ account[p].there
    BY DEF update_user_access, LetIn
  <1> HIDE DEF o
  <1>3. ~TakesFrom(o, a)
    BY <1>1 DEF TakesFrom
  <1> QED  BY <1>1, <1>2, <1>3, OrderKeeps

LEMMA CreationFiled ==
    ASSUME StaffInv, NEW a \in Colleagues, NEW p \in Colleagues, NEW grants \in SUBSET Sections,
           NEW role \in {"admin", "worker"}, create_user(a, p, role, grants)
    PROVE  StaffInv'
  <1> DEFINE o == [NoOrder EXCEPT !.step = "create", !.of = p, !.role = role, !.grants = grants]
  <1>1. o \in OrderRow /\ o.step = "create" /\ o.role # StaffKept
    BY DEF NoOrder, OrderRow, StaffKept
  <1>2. StaffOrders(a, o) /\ server = "up" /\ account[a].there
    BY DEF create_user, LetIn, ActiveAdmins, AdminSet
  <1> HIDE DEF o
  <1>3. ~TakesFrom(o, a)
    BY <1>1 DEF TakesFrom
  <1> QED  BY <1>1, <1>2, <1>3, OrderKeeps

LEMMA TakenKeeps ==
    ASSUME StaffInv, NEW a \in Colleagues, EmailTaken(a)
    PROVE  StaffInv'
  <1>1. orders[a].step = "create" /\ StaffOrders(a, NoOrder)
    BY DEF EmailTaken
  <1>2. server = "up"
    BY <1>1, NoOrderTyped DEF StaffInv, OrdersNeedAServer
  <1>3. ~TakesFrom(NoOrder, a)
    BY NoOrderTyped DEF TakesFrom
  <1> QED  BY <1>1, <1>2, <1>3, NoOrderTyped, OrderKeeps

\* What is written of an account: it is there, and it stays an administrator's
\* unless the order takes that from it.
LEMMA WrittenTyped ==
    ASSUME StaffInv, NEW o \in OrderRow, o.step # "idle",
           o.step = "create" => o.role # StaffKept
    PROVE  /\ AccountWritten(o) \in AccountRow
           /\ o.step = "create" \/ account[o.of].there => AccountWritten(o).there
           /\ o.step # "create" /\ o.of \in ActiveAdmins /\ ~TakesFrom(o, o.of) =>
                 AccountWritten(o).role = "admin" /\ AccountWritten(o).active
  <1> DEFINE row == account[o.of]
             newRole == IF o.role = StaffKept THEN row.role ELSE o.role
             newActive == IF o.active = StaffKept THEN row.active ELSE o.active = "on"
             newGrants == IF o.revokes THEN {} ELSE row.grants
  <1>1. /\ row \in AccountRow /\ o.of \in Colleagues /\ o.grants \in SUBSET Sections
        /\ o.step \in {"account", "access", "create"}
        /\ o.role \in {StaffKept, "admin", "worker"} /\ o.active \in {StaffKept, "on", "off"}
    BY DEF StaffInv, StaffTypes, OrderRow
  <1>2. newRole \in {"admin", "worker"} /\ newActive \in BOOLEAN /\ newGrants \in SUBSET Sections
    BY <1>1 DEF AccountRow
  <1>3. o.of \in ActiveAdmins => row.role = "admin" /\ row.active
    BY DEF ActiveAdmins, AdminSet
  <1> HIDE DEF row
  <1>4. CASE o.step = "account"
    <2>1. AccountWritten(o) = [row EXCEPT !.role = newRole, !.active = newActive, !.grants = newGrants]
      BY <1>4, <1>1 DEF AccountWritten, row, AccountRow
    <2>2. o.of \in ActiveAdmins /\ ~TakesFrom(o, o.of) => newRole = "admin" /\ newActive
      BY <1>1, <1>3, <1>4 DEF TakesFrom, StaffKept
    <2> HIDE DEF newRole, newActive, newGrants
    <2>3. /\ AccountWritten(o) \in AccountRow /\ AccountWritten(o).there = row.there
          /\ AccountWritten(o).role = newRole /\ AccountWritten(o).active = newActive
      BY <2>1, <1>1, <1>2 DEF AccountRow
    <2> QED  BY <2>2, <2>3, <1>4 DEF row
  <1>5. CASE o.step = "access"
    <2>1. AccountWritten(o) = [row EXCEPT !.grants = o.grants]
      BY <1>5 DEF AccountWritten, row
    <2>2. /\ AccountWritten(o) \in AccountRow /\ AccountWritten(o).there = row.there
          /\ AccountWritten(o).role = row.role /\ AccountWritten(o).active = row.active
      BY <2>1, <1>1 DEF AccountRow
    <2> QED  BY <2>2, <1>3, <1>5 DEF row
  <1>6. CASE o.step = "create"
    <2>1. AccountWritten(o) = [there |-> TRUE, role |-> o.role, active |-> TRUE, grants |-> o.grants]
      BY <1>6 DEF AccountWritten
    <2>2. AccountWritten(o) \in AccountRow /\ AccountWritten(o).there
      BY <2>1, <1>1, <1>6 DEF AccountRow
    <2> QED  BY <2>2, <1>6
  <1> QED  BY <1>1, <1>4, <1>5, <1>6

\* Who takes a right from another keeps his own.
LEMMA CommitKeeps ==
    ASSUME StaffInv, NEW a \in Colleagues, Commits(a)
    PROVE  StaffInv'
  <1> DEFINE o == orders[a]
             row == AccountWritten(o)
  <1>1. /\ o \in OrderRow /\ o.step # "idle" /\ o.of \in Colleagues
        /\ o.step = "create" => o.role # StaffKept
        /\ o.step = "create" => ~account[o.of].there
    BY DEF StaffInv, StaffTypes, Commits, OrderRow
  <1>2. server = "up" /\ server' = server
    BY <1>1, NoOrderTyped DEF Commits, StaffInv, OrdersNeedAServer
  <1>3. /\ row \in AccountRow
        /\ o.step = "create" \/ account[o.of].there => row.there
        /\ o.step # "create" /\ o.of \in ActiveAdmins /\ ~TakesFrom(o, o.of) =>
              row.role = "admin" /\ row.active
    BY <1>1, WrittenTyped
  <1>4. /\ account' = [account EXCEPT ![o.of] = row]
        /\ orders' = [orders EXCEPT ![a] = NoOrder]
        /\ crossed' = (crossed \/ (a \notin ActiveAdmins /\ ~(ActiveAdmins \subseteq ActiveAdmins')))
    BY DEF Commits
  <1> HIDE DEF row
  <1>6. \A p \in Colleagues :
            /\ orders'[p] \in OrderRow /\ orders'[p] = (IF p = a THEN NoOrder ELSE orders[p])
            /\ orders'[p].step = "create" => orders'[p].role # StaffKept
    BY <1>4, NoOrderTyped DEF StaffInv, StaffTypes
  <1>7. \A p \in Colleagues : account'[p] = IF p = o.of THEN row ELSE account[p]
    BY <1>4 DEF StaffInv, StaffTypes
  <1>8. StaffTypes'
    BY <1>1, <1>2, <1>3, <1>4, <1>6 DEF StaffInv, StaffTypes
  <1>9. OrdersNeedAServer'
    BY <1>2 DEF OrdersNeedAServer
  <1>10. OrdersAreChecked'
    BY <1>6, NoOrderTyped DEF StaffInv, OrdersAreChecked, TakesFrom
  <1>11. \E p \in Colleagues : account[p].there /\ account'[p].there
    BY <1>1, <1>3, <1>7 DEF StaffInv, OrdersNeedAPerson
  <1>12. OrdersNeedAPerson'
    BY <1>11 DEF OrdersNeedAPerson
  <1>13. AdminRemains'
    <2> SUFFICES ASSUME ~crossed, a \in ActiveAdmins \/ ActiveAdmins \subseteq ActiveAdmins'
                 PROVE  \E q \in ActiveAdmins' : TRUE
      <3>1. (~crossed /\ (a \in ActiveAdmins \/ ActiveAdmins \subseteq ActiveAdmins') => ActiveAdmins' # {})
            => AdminRemains'
        BY <1>2, <1>4 DEF AdminRemains
      <3> QED  BY <3>1
    <2>1. ActiveAdmins # {}
      BY <1>11 DEF StaffInv, AdminRemains
    <2>2. \A q \in ActiveAdmins : q # o.of => q \in ActiveAdmins'
      BY <1>7 DEF ActiveAdmins, AdminSet
    <2>3. CASE o.of \notin ActiveAdmins
      BY <2>1, <2>2, <2>3
    <2>4. CASE o.of \in ActiveAdmins /\ TakesFrom(o, o.of)
      <3>1. a # o.of
        BY <2>4 DEF StaffInv, OrdersAreChecked
      <3>2. CASE a \in ActiveAdmins
        BY <2>2, <3>1, <3>2
      <3>3. CASE ActiveAdmins \subseteq ActiveAdmins'
        BY <2>1, <3>3
      <3> QED  BY <3>2, <3>3
    <2>5. CASE o.of \in ActiveAdmins /\ ~TakesFrom(o, o.of)
      <3>1. account[o.of].there /\ o.step # "create"
        BY <2>5, <1>1 DEF ActiveAdmins, AdminSet
      <3>2. row.there /\ row.role = "admin" /\ row.active
        BY <3>1, <2>5, <1>3
      <3>3. o.of \in ActiveAdmins'
        BY <3>2, <1>1, <1>7 DEF ActiveAdmins, AdminSet
      <3> QED  BY <3>3
    <2> QED  BY <2>3, <2>4, <2>5
  <1> QED  BY <1>8, <1>9, <1>10, <1>12, <1>13 DEF StaffInv

LEMMA StaffStays ==
    ASSUME StaffInv, UNCHANGED staffVars
    PROVE  StaffInv'
  BY DEF StaffInv, StaffTypes, OrdersAreChecked, OrdersNeedAServer, OrdersNeedAPerson, AdminRemains,
         ActiveAdmins, AdminSet, TakesFrom, staffVars

\* Accounts change, are counted and committed, and the server stops and starts.
LEMMA StaffKeeps == StaffInv /\ [StaffNext]_staffVars => StaffInv'
  <1> SUFFICES ASSUME StaffInv, [StaffNext]_staffVars
               PROVE  StaffInv'
    OBVIOUS
  <1>1. CASE bootstrap_admin
    BY <1>1, BootstrapKeeps
  <1>2. CASE StaffStops
    BY <1>2, StopKeeps
  <1>3. ASSUME NEW a \in Colleagues, NEW p \in Colleagues,
               NEW role \in {StaffKept, "admin", "worker"}, NEW active \in {StaffKept, "on", "off"},
               update_user(a, p, role, active)
        PROVE  StaffInv'
    BY <1>3, ChangeFiled
  <1>4. ASSUME NEW a \in Colleagues, NEW p \in Colleagues, NEW grants \in SUBSET Sections,
               \/ update_user_access(a, p, grants)
               \/ \E role \in {"admin", "worker"} : create_user(a, p, role, grants)
        PROVE  StaffInv'
    BY <1>4, AccessFiled, CreationFiled
  <1>5. ASSUME NEW a \in Colleagues, Commits(a) \/ EmailTaken(a)
        PROVE  StaffInv'
    BY <1>5, CommitKeeps, TakenKeeps
  <1>6. CASE UNCHANGED staffVars
    BY <1>6, StaffStays
  <1> QED  BY <1>1, <1>2, <1>3, <1>4, <1>5, <1>6 DEF StaffNext

(***************************************************************************)
(* However requests cross, an active administrator remains and the server  *)
(* starts, until one who has lost the right while his request ran takes it *)
(* from another (users/service.py, apply_account_change and                *)
(* bootstrap_admin); for any number of accounts and of requests at once.   *)
(***************************************************************************)
THEOREM AdministratorsRemain == StaffSpec => []AdminRemains
  <1>1. StaffInit => StaffInv
    BY StaffBegins
  <1>2. StaffInv /\ [StaffNext]_staffVars => StaffInv'
    BY StaffKeeps
  <1>3. StaffInv => AdminRemains
    BY DEF StaffInv
  <1> QED  BY <1>1, <1>2, <1>3, PTL DEF StaffSpec

------------------------------------------------------------------------------
(* Answers that are kept                                                    *)

EntryRow == [there : BOOLEAN, generated : Nat, picks : SUBSET Chores, light : Red..Unrated, floor : Red..Unrated]
AskingVisit == [at : {"asking"}, kind : AnswerKinds, own : SUBSET Chores, floor : Red..Unrated, asked : Nat]
AnsweredVisit == [at : {"answered"}, kind : AnswerKinds, own : SUBSET Chores, answer : EntryRow, insert : BOOLEAN]

CachedTypes ==
    /\ hour \in Nat /\ openChores \subseteq Chores /\ worst \in Lights
    /\ entries \in [AnswerKinds -> EntryRow]
    /\ visits \in [Visits -> {NoVisit} \cup AskingVisit \cup AnsweredVisit]

\* What an answer of a kind may say to somebody whose tasks are own.
StandsOn(kind, own, e) ==
    /\ e.picks \subseteq own
    /\ e.floor # Unrated => e.light <= e.floor
    /\ kind = "priorities" => Cardinality(e.picks) <= MaxPriorities
    /\ kind \notin Picking => e.picks = {}

KeptStands == \A k \in AnswerKinds : entries[k].there => StandsOn(k, Chores, entries[k])
AnsweredStands ==
    \A v \in Visits : visits[v].at = "answered" => StandsOn(visits[v].kind, visits[v].own, visits[v].answer)

(***************************************************************************)
(* Why answers stand on facts: so does everything that is kept and         *)
(* everything a request is about to keep, for as long as the tasks are     *)
(* those of the request.                                                   *)
(***************************************************************************)
CachedInv == CachedTypes /\ KeptStands /\ AnsweredStands /\ AnswersStandOnFacts

LEMMA FewerPicks ==
    ASSUME NEW S \in SUBSET Chores, NEW T \in SUBSET S, Cardinality(S) <= MaxPriorities
    PROVE  Cardinality(T) <= MaxPriorities
  <1>1. IsFiniteSet(S)
    BY FS_Subset, CachedAssumption
  <1>2. Cardinality(T) <= Cardinality(S) /\ Cardinality(S) \in Nat /\ Cardinality(T) \in Nat
    BY <1>1, FS_Subset, FS_CardinalityType
  <1>3. MaxPriorities \in Nat
    BY CachedAssumption
  <1> QED  BY <1>2, <1>3

LEMMA EntryFields ==
    ASSUME NEW h, NEW picks, NEW light, NEW floor
    PROVE  /\ Entry(h, picks, light, floor).picks = picks
           /\ Entry(h, picks, light, floor).light = light
           /\ Entry(h, picks, light, floor).floor = floor
           /\ h \in Nat /\ picks \in SUBSET Chores /\ light \in Red..Unrated /\ floor \in Red..Unrated
                => Entry(h, picks, light, floor) \in EntryRow
  BY DEF Entry, EntryRow

LEMMA NothingStands ==
    ASSUME NEW kind, NEW own, NEW h
    PROVE  StandsOn(kind, own, Entry(h, {}, Unrated, Unrated))
  <1>1. Cardinality({}) = 0 /\ 0 <= MaxPriorities
    BY FS_EmptySet, CachedAssumption
  <1> QED  BY <1>1, EntryFields DEF StandsOn

LEMMA CachedBegins == CachedInit => CachedInv
  <1> SUFFICES ASSUME CachedInit PROVE CachedInv
    OBVIOUS
  <1>1. ~NoEntry.there /\ NoEntry \in EntryRow /\ NoVisit.at = "away"
    BY DEF NoEntry, NoVisit, EntryRow, Red, Unrated
  <1>2. AnswersStandOnFacts
    BY DEF CachedInit, AnswersStandOnFacts, NothingShown
  <1>3. hour \in Nat
    BY DEF CachedInit, DayLength
  <1>4. CachedTypes
    BY <1>1, <1>3 DEF CachedInit, CachedTypes, Lights, Green, Red
  <1> QED  BY <1>1, <1>2, <1>4 DEF CachedInit, CachedInv, KeptStands, AnsweredStands

\* What is shown stands on facts.
LEMMA ShownStands ==
    ASSUME NEW kind, NEW own, NEW e, StandsOn(kind, own, e), Shows(kind, own, e)
    PROVE  AnswersStandOnFacts'
  BY DEF Shows, StandsOn, AnswersStandOnFacts

\* A request goes on with what stands.
LEMMA VisitGoesOn ==
    ASSUME CachedInv, NEW v \in Visits, NEW x \in {NoVisit} \cup AskingVisit \cup AnsweredVisit,
           x.at = "answered" => StandsOn(x.kind, x.own, x.answer), Left(v, x)
    PROVE  /\ visits' \in [Visits -> {NoVisit} \cup AskingVisit \cup AnsweredVisit]
           /\ AnsweredStands'
  <1>1. visits' = [visits EXCEPT ![v] = x]
    BY DEF Left
  <1>2. visits \in [Visits -> {NoVisit} \cup AskingVisit \cup AnsweredVisit] /\ AnsweredStands
    BY DEF CachedInv, CachedTypes
  <1>3. \A w \in Visits : visits'[w] = IF w = v THEN x ELSE visits[w]
    BY <1>1, <1>2
  <1>4. visits' \in [Visits -> {NoVisit} \cup AskingVisit \cup AnsweredVisit]
    BY <1>1, <1>2
  <1> QED  BY <1>2, <1>3, <1>4 DEF AnsweredStands

\* Nothing but the world goes on.
LEMMA WorldKeeps ==
    ASSUME CachedInv, ChoreChanges \/ FactsChange \/ HourPasses \/ UNCHANGED cacheVars
    PROVE  CachedInv'
  <1>1. UNCHANGED <<entries, visits, shown>>
    BY DEF ChoreChanges, FactsChange, HourPasses, World, cacheVars
  <1>2. hour' \in Nat /\ openChores' \subseteq Chores /\ worst' \in Lights
    BY DEF ChoreChanges, FactsChange, HourPasses, World, cacheVars, CachedInv, CachedTypes
  <1> QED  BY <1>1, <1>2 DEF CachedInv, CachedTypes, KeptStands, AnsweredStands, AnswersStandOnFacts

\* What is found in the cache.
LEMMA FoundStands ==
    ASSUME CachedInv, NEW kind \in AnswerKinds, NEW force \in BOOLEAN, get(kind, force).there
    PROVE  /\ get(kind, force) \in EntryRow
           /\ StandsOn(kind, Chores, get(kind, force))
  BY DEF get, NoEntry, CachedInv, CachedTypes, KeptStands

LEMMA AskingKeeps ==
    ASSUME CachedInv, NEW v \in Visits, NEW kind \in AnswerKinds, NEW own \in SUBSET Chores,
           NEW floor \in Red..Unrated, AsksModel(v, kind, own, floor),
           UNCHANGED <<hour, openChores, worst, entries, shown>>
    PROVE  CachedInv'
  <1> DEFINE x == [at |-> "asking", kind |-> kind, own |-> own, floor |-> floor, asked |-> hour]
  <1>1. x \in AskingVisit /\ x.at # "answered" /\ Left(v, x)
    BY DEF AsksModel, AskingVisit, CachedInv, CachedTypes
  <1> HIDE DEF x
  <1>2. visits' \in [Visits -> {NoVisit} \cup AskingVisit \cup AnsweredVisit] /\ AnsweredStands'
    BY <1>1, VisitGoesOn
  <1>3. CachedTypes' /\ KeptStands' /\ AnswersStandOnFacts'
    BY <1>2 DEF CachedInv, CachedTypes, KeptStands, AnswersStandOnFacts
  <1> QED  BY <1>2, <1>3 DEF CachedInv

\* An answer that stands is shown at once.
LEMMA ShowingKeeps ==
    ASSUME CachedInv, NEW kind, NEW own, NEW e, StandsOn(kind, own, e), Shows(kind, own, e),
           UNCHANGED <<hour, openChores, worst, entries, visits>>
    PROVE  CachedInv'
  <1>1. AnswersStandOnFacts'
    BY ShownStands
  <1> QED  BY <1>1 DEF CachedInv, CachedTypes, KeptStands, AnsweredStands

\* Of a person's tasks only those that are open are shown.
LEMMA TasksKeep ==
    ASSUME CachedInv, NEW v \in Visits, NEW kind \in Picking, NEW force \in BOOLEAN,
           OfTasks(v, kind, force), UNCHANGED <<hour, openChores, worst, entries, news>>
    PROVE  CachedInv'
  <1> DEFINE e == get(kind, force)
             stillOpen == [e EXCEPT !.picks = @ \intersect openChores]
             none == Entry(hour, {}, Unrated, Unrated)
  <1>1. kind \in AnswerKinds /\ openChores \in SUBSET Chores
    BY DEF Picking, AnswerKinds, CachedInv, CachedTypes
  <1>2. CASE e.there /\ Shows(kind, openChores, stillOpen) /\ UNCHANGED visits
    <2>1. e \in EntryRow /\ StandsOn(kind, Chores, e)
      BY <1>1, <1>2, FoundStands
    <2> HIDE DEF e
    <2>2. kind = "priorities" => Cardinality(e.picks \intersect openChores) <= MaxPriorities
      <3>1. e.picks \in SUBSET Chores /\ e.picks \intersect openChores \in SUBSET e.picks
        BY <2>1 DEF EntryRow
      <3> QED  BY <2>1, <3>1, FewerPicks DEF StandsOn
    <2>3. /\ stillOpen.picks = e.picks \intersect openChores
          /\ stillOpen.floor = e.floor /\ stillOpen.light = e.light
      BY <2>1 DEF EntryRow
    <2>4. StandsOn(kind, openChores, stillOpen)
      BY <2>1, <2>2, <2>3 DEF StandsOn
    <2> HIDE DEF stillOpen
    <2> QED  BY <1>2, <2>4, ShowingKeeps
  <1>3. CASE Shows(kind, openChores, none) /\ UNCHANGED visits
    <2>1. StandsOn(kind, openChores, none)
      BY NothingStands
    <2> HIDE DEF none
    <2> QED  BY <1>3, <2>1, ShowingKeeps
  <1>4. CASE AsksModel(v, kind, openChores, Unrated) /\ UNCHANGED shown
    <2>1. Unrated \in Red..Unrated
      BY DEF Unrated, Red
    <2> QED  BY <1>1, <1>4, <2>1, AskingKeeps
  <1> QED  BY <1>2, <1>3, <1>4 DEF OfTasks

\* What is kept of a section is shown as it was made.
LEMMA FactsKeep ==
    ASSUME CachedInv, NEW v \in Visits, NEW kind \in AnswerKinds \ Picking, NEW force \in BOOLEAN,
           OfFacts(v, kind, force), UNCHANGED <<hour, openChores, worst, entries, news>>
    PROVE  CachedInv'
  <1> DEFINE e == get(kind, force)
  <1>1. CASE e.there /\ Shows(kind, {}, e) /\ UNCHANGED visits
    <2>1. StandsOn(kind, Chores, e)
      BY <1>1, FoundStands
    <2> HIDE DEF e
    <2>2. StandsOn(kind, {}, e)
      BY <2>1 DEF StandsOn
    <2> QED  BY <1>1, <2>2, ShowingKeeps
  <1>2. CASE AsksModel(v, kind, {}, worst) /\ UNCHANGED shown
    <2>1. worst \in Red..Unrated /\ {} \in SUBSET Chores
      BY DEF CachedInv, CachedTypes, Lights, Red, Green, Unrated
    <2> QED  BY <1>2, <2>1, AskingKeeps
  <1> QED  BY <1>1, <1>2 DEF OfFacts

LEMMA VisitKeeps ==
    ASSUME CachedInv, NEW v \in Visits, Visit(v)
    PROVE  CachedInv'
  <1>1. PICK force \in BOOLEAN :
            \/ OfTasks(v, "plan", force) \/ OfTasks(v, "priorities", force)
            \/ OfFacts(v, "analytics", force) \/ OfFacts(v, "signal", force) \/ OfFacts(v, "news", force)
    BY DEF Visit, generate_daily_plan, generate_task_priorities, generate_section_analytics,
           _generate_section_signal, generate_aktualnoe
  <1>2. UNCHANGED <<hour, openChores, worst, entries, news>>
    BY DEF Visit
  <1>3. /\ {"plan", "priorities"} \subseteq Picking
        /\ {"analytics", "signal", "news"} \subseteq AnswerKinds \ Picking
    BY DEF Picking, AnswerKinds
  <1>4. CASE OfTasks(v, "plan", force) \/ OfTasks(v, "priorities", force)
    BY <1>2, <1>3, <1>4, TasksKeep
  <1>5. CASE OfFacts(v, "analytics", force) \/ OfFacts(v, "signal", force) \/ OfFacts(v, "news", force)
    BY <1>2, <1>3, <1>5, FactsKeep
  <1> QED  BY <1>1, <1>4, <1>5

\* What the request was sent for.
LEMMA AskingTyped ==
    ASSUME CachedInv, NEW v \in Visits, visits[v].at = "asking"
    PROVE  visits[v] \in AskingVisit
  BY DEF CachedInv, CachedTypes, NoVisit, AnsweredVisit

LEMMA ReadyKeeps ==
    ASSUME CachedInv, NEW v \in Visits, visits[v].at = "asking", NEW a \in EntryRow,
           StandsOn(visits[v].kind, visits[v].own, a), AnswerReady(v, a)
    PROVE  CachedInv'
  <1> DEFINE visit == visits[v]
             insert == ~entries[visit.kind].there
                       \/ (visit.kind = "plan" /\ DayOf(entries[visit.kind].generated) # DayOf(visit.asked))
             x == [at |-> "answered", kind |-> visit.kind, own |-> visit.own, answer |-> a, insert |-> insert]
  <1>1. visit \in AskingVisit
    BY AskingTyped
  <1>2. insert \in BOOLEAN
    OBVIOUS
  <1>3. Left(v, x) /\ UNCHANGED <<hour, openChores, worst, entries, shown, news, visited>>
    BY DEF AnswerReady
  <1> HIDE DEF insert
  <1>4. x \in AnsweredVisit /\ StandsOn(x.kind, x.own, x.answer)
    BY <1>1, <1>2 DEF AskingVisit, AnsweredVisit
  <1> HIDE DEF x
  <1>5. visits' \in [Visits -> {NoVisit} \cup AskingVisit \cup AnsweredVisit] /\ AnsweredStands'
    BY <1>3, <1>4, VisitGoesOn
  <1>6. CachedTypes' /\ KeptStands' /\ AnswersStandOnFacts'
    BY <1>3, <1>5 DEF CachedInv, CachedTypes, KeptStands, AnswersStandOnFacts
  <1> QED  BY <1>5, <1>6 DEF CachedInv

\* Of what the model names only the tasks it was given are taken.
LEMMA NamedKeep ==
    ASSUME CachedInv, NEW v \in Visits, DayPlanned(v) \/ Preferred(v)
    PROVE  CachedInv'
  <1>1. visits[v].at = "asking" /\ visits[v].kind \in Picking
    BY DEF DayPlanned, Preferred, Asking, Picking
  <1>2. visits[v] \in AskingVisit
    BY <1>1, AskingTyped
  <1>3. PICK named \in SUBSET Chores :
            /\ visits[v].kind = "priorities" => Cardinality(named \intersect visits[v].own) <= MaxPriorities
            /\ AnswerReady(v, Entry(visits[v].asked, named \intersect visits[v].own, Unrated, Unrated))
    BY DEF DayPlanned, Preferred, Asking
  <1> DEFINE picks == named \intersect visits[v].own
             a == Entry(visits[v].asked, picks, Unrated, Unrated)
  <1>4. /\ picks \in SUBSET Chores /\ picks \subseteq visits[v].own
        /\ visits[v].asked \in Nat /\ Unrated \in Red..Unrated
    BY <1>2 DEF AskingVisit, Red, Unrated
  <1>5. a \in EntryRow /\ a.picks = picks /\ a.floor = Unrated
    BY <1>4, EntryFields
  <1>6. visits[v].kind = "priorities" => Cardinality(picks) <= MaxPriorities
    BY <1>3
  <1>7. StandsOn(visits[v].kind, visits[v].own, a)
    BY <1>1, <1>4, <1>5, <1>6 DEF StandsOn
  <1>8. AnswerReady(v, a)
    BY <1>3
  <1> HIDE DEF a
  <1> QED  BY <1>1, <1>5, <1>7, <1>8, ReadyKeeps

\* The light of a section is lowered to what the facts allow.
LEMMA RatedKeep ==
    ASSUME CachedInv, NEW v \in Visits, _ask_model(v) \/ Signalled(v)
    PROVE  CachedInv'
  <1>1. visits[v].at = "asking" /\ visits[v].kind \in AnswerKinds \ Picking
    BY DEF _ask_model, Signalled, Asking, Picking, AnswerKinds
  <1>2. visits[v] \in AskingVisit
    BY <1>1, AskingTyped
  <1> DEFINE floor == visits[v].floor
  <1>3. floor \in Red..Unrated /\ floor \in Int /\ visits[v].asked \in Nat /\ hour \in Nat /\ {} \in SUBSET Chores
    BY <1>2 DEF AskingVisit, CachedInv, CachedTypes, Red, Unrated
  <1>4. \E at \in Nat, light \in Red..Unrated : light <= floor /\ AnswerReady(v, Entry(at, {}, light, floor))
    <2>1. CASE _ask_model(v)
      <3>1. PICK light \in Lights : AnswerReady(v, Entry(hour, {}, IF light > floor THEN floor ELSE light, floor))
        BY <2>1 DEF _ask_model
      <3>2. light \in Int /\ light \in Red..Unrated
        BY DEF Lights, Red, Green, Unrated
      <3> DEFINE lowered == IF light > floor THEN floor ELSE light
      <3>3. lowered \in Red..Unrated /\ lowered <= floor
        BY <1>3, <3>2
      <3> HIDE DEF lowered
      <3>4. AnswerReady(v, Entry(hour, {}, lowered, floor))
        BY <3>1 DEF lowered
      <3> QED  BY <1>3, <3>3, <3>4
    <2>2. CASE Signalled(v)
      <3>1. AnswerReady(v, Entry(visits[v].asked, {}, floor, floor)) /\ floor <= floor
        BY <2>2, <1>3 DEF Signalled
      <3> QED  BY <1>3, <3>1
    <2> QED  BY <2>1, <2>2
  <1>5. PICK at \in Nat, light \in Red..Unrated : light <= floor /\ AnswerReady(v, Entry(at, {}, light, floor))
    BY <1>4
  <1> DEFINE a == Entry(at, {}, light, floor)
  <1>6. a \in EntryRow /\ a.picks = {} /\ a.floor = floor /\ a.light = light
    BY <1>3, <1>5, EntryFields
  <1>7. StandsOn(visits[v].kind, visits[v].own, a)
    BY <1>1, <1>5, <1>6 DEF StandsOn, Picking
  <1>8. AnswerReady(v, a)
    BY <1>5
  <1> HIDE DEF a
  <1> QED  BY <1>1, <1>6, <1>7, <1>8, ReadyKeeps

\* Nothing of an answer the model did not give is kept.
LEMMA RulesKeep ==
    ASSUME CachedInv, NEW v \in Visits, _rules_result(v)
    PROVE  CachedInv'
  <1> DEFINE visit == visits[v]
             a == Entry(visit.asked, {}, visit.floor, visit.floor)
  <1>1. visit \in AskingVisit /\ Left(v, NoVisit) /\ UNCHANGED <<hour, openChores, worst, entries, news, visited>>
    BY AskingTyped DEF _rules_result
  <1>2. visits' \in [Visits -> {NoVisit} \cup AskingVisit \cup AnsweredVisit] /\ AnsweredStands'
    <2>1. NoVisit.at # "answered"
      BY DEF NoVisit
    <2> QED  BY <1>1, <2>1, VisitGoesOn
  <1>3. AnswersStandOnFacts'
    <2>1. CASE UNCHANGED shown
      BY <2>1 DEF CachedInv, AnswersStandOnFacts
    <2>2. CASE visit.kind \notin Picking /\ Shows(visit.kind, {}, a)
      <3>1. visit.floor \in Int
        BY <1>1 DEF AskingVisit, Red, Unrated
      <3>2. StandsOn(visit.kind, {}, a)
        BY <2>2, <3>1, EntryFields DEF StandsOn, Picking
      <3> HIDE DEF a
      <3> QED  BY <2>2, <3>2, ShownStands
    <2> QED  BY <2>1, <2>2 DEF _rules_result
  <1>4. CachedTypes' /\ KeptStands'
    BY <1>1, <1>2 DEF CachedInv, CachedTypes, KeptStands
  <1> QED  BY <1>2, <1>3, <1>4 DEF CachedInv

LEMMA SetKeeps ==
    ASSUME CachedInv, NEW v \in Visits, set(v)
    PROVE  CachedInv'
  <1> DEFINE visit == visits[v]
             k == visit.kind
             a == visit.answer
  <1>1. /\ visit \in AnsweredVisit /\ StandsOn(k, visit.own, a)
        /\ Left(v, NoVisit) /\ UNCHANGED <<hour, openChores, worst, news, visited>>
    BY DEF set, CachedInv, CachedTypes, AnsweredStands, NoVisit, AskingVisit
  <1>2. a \in EntryRow /\ k \in AnswerKinds /\ visit.own \subseteq Chores
    BY <1>1 DEF AnsweredVisit
  <1>3. visits' \in [Visits -> {NoVisit} \cup AskingVisit \cup AnsweredVisit] /\ AnsweredStands'
    <2>1. NoVisit.at # "answered"
      BY DEF NoVisit
    <2> QED  BY <1>1, <2>1, VisitGoesOn
  <1>4. \/ UNCHANGED <<entries, shown>>
        \/ entries' = [entries EXCEPT ![k] = a] /\ Shows(k, visit.own, a)
    BY DEF set
  <1> HIDE DEF k, a, visit
  <1>5. CASE UNCHANGED <<entries, shown>>
    BY <1>1, <1>3, <1>5 DEF CachedInv, CachedTypes, KeptStands, AnswersStandOnFacts
  <1>6. CASE entries' = [entries EXCEPT ![k] = a] /\ Shows(k, visit.own, a)
    <2>1. AnswersStandOnFacts'
      BY <1>1, <1>6, ShownStands
    <2>2. \A x \in AnswerKinds : entries'[x] = IF x = k THEN a ELSE entries[x]
      BY <1>6 DEF CachedInv, CachedTypes
    <2>3. StandsOn(k, Chores, a)
      BY <1>1, <1>2 DEF StandsOn
    <2>4. KeptStands'
      BY <2>2, <2>3 DEF CachedInv, KeptStands
    <2>5. CachedTypes'
      BY <1>1, <1>2, <1>3, <1>6 DEF CachedInv, CachedTypes
    <2> QED  BY <1>3, <2>1, <2>4, <2>5 DEF CachedInv
  <1> QED  BY <1>4, <1>5, <1>6

\* Visits ask, answer and show, and the world goes on.
LEMMA CachedStays == CachedInv /\ [CachedNext]_cacheVars => CachedInv'
  <1> SUFFICES ASSUME CachedInv, [CachedNext]_cacheVars
               PROVE  CachedInv'
    OBVIOUS
  <1>1. CASE ChoreChanges \/ FactsChange \/ HourPasses \/ UNCHANGED cacheVars
    BY <1>1, WorldKeeps
  <1>2. ASSUME NEW v \in Visits,
               Visit(v) \/ DayPlanned(v) \/ Preferred(v) \/ _ask_model(v) \/ Signalled(v) \/ _rules_result(v) \/ set(v)
        PROVE  CachedInv'
    BY <1>2, VisitKeeps, NamedKeep, RatedKeep, RulesKeep, SetKeeps
  <1> QED  BY <1>1, <1>2 DEF CachedNext

(***************************************************************************)
(* What is shown stands on the tasks the request has seen and on the facts *)
(* of its light, whoever asks and answers at once and however long it is   *)
(* kept (ai/cache.py, ai/analytics.py).                                    *)
(***************************************************************************)
THEOREM AnswersStand == CachedSpec => []AnswersStandOnFacts
  <1>1. CachedInit => CachedInv
    BY CachedBegins
  <1>2. CachedInv /\ [CachedNext]_cacheVars => CachedInv'
    BY CachedStays
  <1>3. CachedInv => AnswersStandOnFacts
    BY DEF CachedInv
  <1> QED  BY <1>1, <1>2, <1>3, PTL DEF CachedSpec

------------------------------------------------------------------------------
(* Blocks of a house                                                        *)

NormRow == [material : BOOLEAN, required : BOOLEAN, requested : BOOLEAN, provided : BOOLEAN]

\* Nothing was asked for where there is no norm
NormsFirst == \A b \in Blocks : ~blockNorm[b].material => blockNorm[b] = NoNorm

AskRow == [block : SUBSET Blocks, status : {"none", "pending", "decided", "gone"},
           task : {"none", "open", "closed", "submitted", "left"}]

\* What waits is asked for a block there is
AsksTyped ==
    /\ asks \in [AskNumbers -> AskRow]
    /\ \A r \in AskNumbers : asks[r].status = "pending" => \E b \in blocks : asks[r].block = {b}

\* A decision that goes on after its commit is about a request that waits no more
ClosersDecided ==
    /\ DOMAIN desk = Desks
    /\ \A d \in Desks : desk[d].op = "close" =>
          desk[d].ask \in AskNumbers /\ asks[desk[d].ask].status \in {"decided", "gone"}

(***************************************************************************)
(* Why the board and the norms tell the same of a request: a norm is made  *)
(* before it is asked for, a request waits only for a block there is, and  *)
(* what a decision closes late is a task of a request that was decided.    *)
(***************************************************************************)
HouseInv ==
    /\ blocks \subseteq Blocks
    /\ blockNorm \in [Blocks -> NormRow]
    /\ NormsFirst
    /\ AsksTyped
    /\ ClosersDecided
    /\ TasksMatchRequests

LEMMA NormsTyped ==
    /\ NoNorm \in NormRow /\ ~NoNorm.material /\ ~NoNorm.required /\ ~NoNorm.requested
    /\ \A required \in BOOLEAN :
          /\ NormWith(required) \in NormRow /\ NormWith(required).material /\ ~NormWith(required).requested
  BY DEF NormRow, NoNorm, NormWith

LEMMA BlocksBegin == BlocksInit => HouseInv
  <1> SUFFICES ASSUME BlocksInit PROVE HouseInv
    OBVIOUS
  <1>1. blockNorm \in [Blocks -> NormRow] /\ NormsFirst /\ \A b \in Blocks : ~blockNorm[b].requested
    <2>1. CASE \E required \in BOOLEAN : blockNorm = [b \in Blocks |-> NormWith(required)]
      BY <2>1, NormsTyped DEF NormsFirst
    <2>2. CASE blockNorm = [b \in Blocks |-> NoNorm]
      BY <2>2, NormsTyped DEF NormsFirst
    <2> QED  BY <2>1, <2>2 DEF BlocksInit
  <1>2. \A r \in AskNumbers : asks[r].status = "none" /\ asks[r].task = "none" /\ asks[r].block = {}
    BY DEF BlocksInit, NoAsk
  <1>3. AsksTyped
    BY <1>2 DEF BlocksInit, AsksTyped, AskRow, NoAsk
  <1>4. ClosersDecided
    BY DEF BlocksInit, ClosersDecided, AtRest
  <1>5. TasksMatchRequests
    BY <1>1, <1>2 DEF BlocksInit, TasksMatchRequests, TasksHaveRequests, RequestsHaveTasks,
                      NormsShowRequests, AskWaits
  <1> QED  BY <1>1, <1>3, <1>4, <1>5 DEF BlocksInit, HouseInv

\* The desks of decisions stay as they are.
ClosersStay ==
    /\ DOMAIN desk' = Desks
    /\ \A d \in Desks : desk'[d] = desk[d] \/ (desk[d].op # "close" /\ desk'[d].op # "close")

\* A step that leaves the requests, and what is requested of a block, alone.
LEMMA AsksStay ==
    ASSUME HouseInv, UNCHANGED asks, ClosersStay, blocks \subseteq blocks', blocks' \subseteq Blocks,
           blockNorm' \in [Blocks -> NormRow], NormsFirst',
           \A b \in blocks : blockNorm'[b].requested <=> blockNorm[b].requested,
           \A b \in blocks' \ blocks : ~blockNorm'[b].requested
    PROVE  HouseInv'
  <1>1. AsksTyped'
    BY DEF HouseInv, AsksTyped
  <1>2. ClosersDecided'
    BY DEF HouseInv, ClosersDecided, ClosersStay
  <1>3. TasksHaveRequests' /\ RequestsHaveTasks'
    BY DEF HouseInv, TasksMatchRequests, TasksHaveRequests, RequestsHaveTasks, ClosersStay
  <1>4. NormsShowRequests'
    <2>1. ASSUME NEW b \in blocks', b \notin blocks, NEW r \in AskNumbers, AskWaits(r, b)
          PROVE  FALSE
      BY <2>1 DEF HouseInv, AsksTyped, AskWaits
    <2> QED
      BY <2>1 DEF HouseInv, TasksMatchRequests, NormsShowRequests, AskWaits
  <1> QED  BY <1>1, <1>2, <1>3, <1>4 DEF HouseInv, TasksMatchRequests

\* One request moves, and with it at most the desks that hold it.
LEMMA AskMoves ==
    ASSUME HouseInv, UNCHANGED blocks, NEW r \in AskNumbers, NEW row \in AskRow,
           asks' = [asks EXCEPT ![r] = row], DOMAIN desk' = Desks,
           row.status = "pending" =>
               row.task \in {"open", "submitted"} /\ \E b \in blocks : row.block = {b},
           row.task = "open" => \/ row.status \in {"pending", "gone"}
                                \/ \E d \in Desks : desk'[d].op = "close" /\ desk'[d].ask = r,
           asks[r].status \in {"decided", "gone"} => row.status \in {"decided", "gone"},
           \A d \in Desks : \/ desk'[d] = desk[d]
                            \/ /\ desk[d].op = "close" => desk[d].ask = r
                               /\ desk'[d].op = "close" =>
                                     desk'[d].ask = r /\ row.status \in {"decided", "gone"}
    PROVE  AsksTyped' /\ ClosersDecided' /\ TasksHaveRequests' /\ RequestsHaveTasks'
  <1>1. asks \in [AskNumbers -> AskRow] /\ \A s \in AskNumbers : asks'[s] = IF s = r THEN row ELSE asks[s]
    BY DEF HouseInv, AsksTyped
  <1>2. AsksTyped'
    BY <1>1 DEF HouseInv, AsksTyped
  <1>3. ClosersDecided'
    BY <1>1 DEF HouseInv, ClosersDecided
  <1>4. TasksHaveRequests'
    BY <1>1 DEF HouseInv, TasksMatchRequests, TasksHaveRequests
  <1>5. RequestsHaveTasks'
    BY <1>1 DEF HouseInv, TasksMatchRequests, RequestsHaveTasks
  <1> QED  BY <1>2, <1>3, <1>4, <1>5

\* One norm is changed.
LEMMA NormChanges ==
    ASSUME HouseInv, NEW b \in blocks, NEW norm \in NormRow, norm.material,
           NormBecomes(b, norm), UNCHANGED blocks
    PROVE  /\ blockNorm' \in [Blocks -> NormRow]
           /\ NormsFirst'
           /\ \A c \in Blocks : blockNorm'[c] = IF c = b THEN norm ELSE blockNorm[c]
  <1>1. \A c \in Blocks : blockNorm'[c] = IF c = b THEN norm ELSE blockNorm[c]
    BY DEF NormBecomes, HouseInv
  <1>2. blockNorm' \in [Blocks -> NormRow]
    BY DEF NormBecomes, HouseInv
  <1>3. NormsFirst'
    BY <1>1 DEF NormsFirst, HouseInv
  <1> QED  BY <1>1, <1>2, <1>3

\* What a block's norm shows, and that a request for it has one.
LEMMA NormOfBlock ==
    ASSUME HouseInv, NEW b \in blocks
    PROVE  /\ b \in Blocks /\ blockNorm[b] \in NormRow
           /\ ~blockNorm[b].material => blockNorm[b] = NoNorm
           /\ \A r \in AskNumbers : AskWaits(r, b) => blockNorm[b].requested
           /\ blockNorm[b].required \/ blockNorm[b].requested => blockNorm[b].material
  BY NormsTyped DEF HouseInv, NormsFirst, TasksMatchRequests, NormsShowRequests

LEMMA WaitsForBlock ==
    ASSUME HouseInv, NEW r \in AskNumbers, NEW b, AskWaits(r, b)
    PROVE  b \in blocks /\ asks[r] \in AskRow
  BY DEF HouseInv, AsksTyped, AskWaits

\* The norm of a block is made, edited, or served in part.
LEMMA OneNormKeeps ==
    ASSUME HouseInv, NEW b \in Blocks,
           \/ add_block_material(b)
           \/ \E required \in BOOLEAN : update_required_quantity(b, required)
           \/ \E r \in AskNumbers : approve_request(r, b, FALSE)
    PROVE  HouseInv'
  <1>1. /\ b \in blocks /\ UNCHANGED <<blocks, asks, desk>>
    <2>1. ASSUME NEW r \in AskNumbers, approve_request(r, b, FALSE)
          PROVE  b \in blocks /\ UNCHANGED <<blocks, asks, desk>>
      BY <2>1, WaitsForBlock DEF approve_request, Changing
    <2> QED
      BY <2>1 DEF add_block_material, update_required_quantity, Changing
  <1>2. ClosersStay
    BY <1>1 DEF ClosersStay, HouseInv, ClosersDecided
  <1>3. ASSUME NEW norm \in NormRow, norm.material, NormBecomes(b, norm),
               norm.requested <=> blockNorm[b].requested
        PROVE  HouseInv'
    BY <1>1, <1>2, <1>3, NormChanges, AsksStay DEF HouseInv
  <1> DEFINE n == blockNorm[b]
  <1>4. n \in NormRow /\ (~n.material => ~n.requested)
    BY <1>1, NormOfBlock
  <1>5. CASE add_block_material(b)
    <2>1. PICK required \in BOOLEAN : NormBecomes(b, NormWith(required))
      BY <1>5 DEF add_block_material
    <2>2. ~n.material
      BY <1>5 DEF add_block_material
    <2> QED  BY <1>3, <1>4, <2>1, <2>2, NormsTyped
  <1>6. CASE \E required \in BOOLEAN : update_required_quantity(b, required)
    <2>1. PICK required \in BOOLEAN : update_required_quantity(b, required)
      BY <1>6
    <2> DEFINE new == [n EXCEPT !.required = required]
    <2>2. new \in NormRow /\ new.material = n.material /\ new.requested = n.requested
      BY <1>4 DEF NormRow
    <2>3. n.material /\ NormBecomes(b, new)
      BY <2>1 DEF update_required_quantity
    <2> HIDE DEF new
    <2> QED  BY <1>3, <2>2, <2>3
  <1>7. CASE \E r \in AskNumbers : approve_request(r, b, FALSE)
    <2>1. PICK r \in AskNumbers : approve_request(r, b, FALSE)
      BY <1>7
    <2> DEFINE new == [n EXCEPT !.requested = ~FALSE \/ OthersWait(r, b), !.provided = TRUE]
    <2>2. new \in NormRow /\ new.material = n.material /\ new.requested
      BY <1>4 DEF NormRow
    <2>3. NormBecomes(b, new) /\ AskWaits(r, b)
      BY <2>1 DEF approve_request
    <2>4. n.material /\ n.requested
      BY <1>1, <2>3, NormOfBlock
    <2> HIDE DEF new
    <2> QED  BY <1>3, <2>2, <2>3, <2>4
  <1> QED  BY <1>5, <1>6, <1>7

LEMMA RequestMadeKeeps ==
    ASSUME HouseInv, NEW r \in AskNumbers, NEW b \in Blocks, request_material(r, b)
    PROVE  HouseInv'
  <1> DEFINE n == blockNorm[b]
             row == [block |-> {b}, status |-> "pending", task |-> "open"]
  <1>1. /\ b \in blocks /\ n.required /\ UNCHANGED <<blocks, desk>>
        /\ asks[r] = NoAsk /\ asks' = [asks EXCEPT ![r] = row]
    BY DEF request_material, Changing, NextAsk
  <1>3. n \in NormRow /\ n.material
    BY <1>1, NormOfBlock
  <1>4. PICK new \in NormRow : new.material /\ new.requested /\ NormBecomes(b, new)
    <2>1. PICK rest \in BOOLEAN : NormBecomes(b, [n EXCEPT !.required = rest, !.requested = TRUE])
      BY DEF request_material
    <2> DEFINE lacking == [n EXCEPT !.required = rest, !.requested = TRUE]
    <2>2. lacking \in NormRow /\ lacking.material /\ lacking.requested
      BY <1>3 DEF NormRow
    <2>3. NormBecomes(b, lacking)
      BY <2>1
    <2> HIDE DEF lacking
    <2> QED  BY <2>2, <2>3
  <1>6. row \in AskRow /\ row.status = "pending" /\ row.task = "open" /\ row.block = {b}
    BY DEF AskRow
  <1>7. asks[r].status = "none" /\ asks[r].block = {} /\ DOMAIN desk' = Desks
    BY <1>1 DEF NoAsk, HouseInv, ClosersDecided
  <1> HIDE DEF n, row
  <1>8. AsksTyped' /\ ClosersDecided' /\ TasksHaveRequests' /\ RequestsHaveTasks'
    BY <1>1, <1>6, <1>7, AskMoves
  <1>9. /\ blockNorm' \in [Blocks -> NormRow] /\ NormsFirst'
        /\ \A c \in Blocks : blockNorm'[c] = IF c = b THEN new ELSE blockNorm[c]
    BY <1>1, <1>4, NormChanges
  <1>10. NormsShowRequests'
    <2>1. \A s \in AskNumbers : asks'[s] = IF s = r THEN row ELSE asks[s]
      BY <1>1 DEF HouseInv, AsksTyped
    <2>2. \A s \in AskNumbers, c \in Blocks : AskWaits(s, c)' <=> IF s = r THEN c = b ELSE AskWaits(s, c)
      BY <1>6, <2>1 DEF AskWaits
    <2>3. \A c \in blocks : c # b => ~AskWaits(r, c)
      BY <1>7 DEF AskWaits
    <2>4. \A c \in blocks : c \in Blocks /\ (blockNorm[c].requested <=> \E s \in AskNumbers : AskWaits(s, c))
      BY DEF HouseInv, TasksMatchRequests, NormsShowRequests
    <2> QED  BY <1>1, <1>4, <1>9, <2>2, <2>3, <2>4 DEF NormsShowRequests
  <1> QED  BY <1>1, <1>8, <1>9, <1>10 DEF HouseInv, TasksMatchRequests

\* Closing the task of a request.
LEMMA ClosesTyped ==
    ASSUME HouseInv, NEW r \in AskNumbers
    PROVE  /\ asks[r] \in AskRow /\ Closes(r) \in AskRow
           /\ Closes(r).task # "open" /\ Closes(r).status = asks[r].status
           /\ [Closes(r) EXCEPT !.status = "decided"] \in AskRow
           /\ [Closes(r) EXCEPT !.status = "decided"].status = "decided"
           /\ [Closes(r) EXCEPT !.status = "decided"].task # "open"
  <1>1. asks[r] \in AskRow
    BY DEF HouseInv, AsksTyped
  <1>2. Closes(r) \in AskRow /\ Closes(r).task # "open" /\ Closes(r).status = asks[r].status
    BY <1>1 DEF Closes, AskRow
  <1> HIDE DEF Closes
  <1> QED  BY <1>1, <1>2 DEF AskRow

\* What is decided, of a request that waits: its task is closed with it, or on a desk.
LEMMA DecidesMoves ==
    ASSUME HouseInv, NEW r \in AskNumbers, NEW b, AskWaits(r, b), Decides(r), UNCHANGED blocks
    PROVE  /\ AsksTyped' /\ ClosersDecided' /\ TasksHaveRequests' /\ RequestsHaveTasks'
           /\ \A s \in AskNumbers, c \in Blocks : AskWaits(s, c)' <=> s # r /\ AskWaits(s, c)
  <1>1. asks \in [AskNumbers -> AskRow] /\ DOMAIN desk = Desks /\ asks[r].status = "pending"
    BY DEF HouseInv, AsksTyped, ClosersDecided, AskWaits
  <1>2. ASSUME NEW row \in AskRow, row.status = "decided", asks' = [asks EXCEPT ![r] = row]
        PROVE  \A s \in AskNumbers, c \in Blocks : AskWaits(s, c)' <=> s # r /\ AskWaits(s, c)
    BY <1>1, <1>2 DEF AskWaits
  <1>3. CASE asks' = [asks EXCEPT ![r] = [Closes(r) EXCEPT !.status = "decided"]] /\ UNCHANGED desk
    <2> DEFINE row == [Closes(r) EXCEPT !.status = "decided"]
    <2>1. row \in AskRow /\ row.status = "decided" /\ row.task # "open"
      BY ClosesTyped
    <2>2. asks' = [asks EXCEPT ![r] = row]
      BY <1>3
    <2> HIDE DEF row
    <2> QED  BY <1>1, <1>2, <1>3, <2>1, <2>2, AskMoves
  <1>4. CASE \E d \in Desks :
                /\ desk[d] = AtRest
                /\ desk' = [desk EXCEPT ![d] = [AtRest EXCEPT !.op = "close", !.ask = r]]
                /\ asks' = [asks EXCEPT ![r].status = "decided"]
    <2>1. PICK d \in Desks :
                /\ desk[d] = AtRest
                /\ desk' = [desk EXCEPT ![d] = [AtRest EXCEPT !.op = "close", !.ask = r]]
                /\ asks' = [asks EXCEPT ![r].status = "decided"]
      BY <1>4
    <2> DEFINE row == [asks[r] EXCEPT !.status = "decided"]
               at == [AtRest EXCEPT !.op = "close", !.ask = r]
    <2>2. row \in AskRow /\ row.status = "decided"
      BY <1>1 DEF AskRow
    <2>3. asks' = [asks EXCEPT ![r] = row]
      BY <1>1, <2>1
    <2>4. at.op = "close" /\ at.ask = r /\ AtRest.op # "close"
      BY DEF AtRest
    <2>5. DOMAIN desk' = Desks /\ \A e \in Desks : desk'[e] = IF e = d THEN at ELSE desk[e]
      BY <1>1, <2>1
    <2> HIDE DEF row, at
    <2>6. \A e \in Desks : \/ desk'[e] = desk[e]
                           \/ desk[e].op # "close" /\ desk'[e].ask = r
      BY <2>1, <2>4, <2>5
    <2>7. \E e \in Desks : desk'[e].op = "close" /\ desk'[e].ask = r
      BY <2>4, <2>5
    <2>8. AsksTyped' /\ ClosersDecided' /\ TasksHaveRequests' /\ RequestsHaveTasks'
      BY <1>1, <2>2, <2>3, <2>5, <2>6, <2>7, AskMoves
    <2> QED  BY <1>2, <2>2, <2>3, <2>8
  <1> QED  BY <1>3, <1>4 DEF Decides

LEMMA DecisionKeeps ==
    ASSUME HouseInv, NEW r \in AskNumbers, NEW b \in Blocks,
           approve_request(r, b, TRUE) \/ reject_request(r, b)
    PROVE  HouseInv'
  <1> DEFINE n == blockNorm[b]
  <1>1. AskWaits(r, b) /\ Decides(r) /\ UNCHANGED blocks
    BY DEF approve_request, reject_request
  <1>2. b \in blocks /\ n \in NormRow /\ n.material
    BY <1>1, WaitsForBlock, NormOfBlock
  <1>3. PICK new \in NormRow : NormBecomes(b, new) /\ new.material /\ (new.requested <=> OthersWait(r, b))
    <2>0. OthersWait(r, b) \in BOOLEAN
      BY DEF OthersWait
    <2> HIDE DEF n
    <2>1. CASE approve_request(r, b, TRUE)
      <3> DEFINE row == [n EXCEPT !.requested = ~TRUE \/ OthersWait(r, b), !.provided = TRUE]
      <3>1. row \in NormRow /\ row.material = n.material /\ (row.requested <=> OthersWait(r, b))
        BY <1>2, <2>0 DEF NormRow
      <3>2. NormBecomes(b, row)
        BY <2>1 DEF approve_request, n
      <3> HIDE DEF row
      <3> QED  BY <1>2, <3>1, <3>2
    <2>2. CASE reject_request(r, b)
      <3> DEFINE row == [n EXCEPT !.requested = OthersWait(r, b), !.required = TRUE]
      <3>1. row \in NormRow /\ row.material = n.material /\ (row.requested <=> OthersWait(r, b))
        BY <1>2, <2>0 DEF NormRow
      <3>2. NormBecomes(b, row)
        BY <2>2 DEF reject_request, n
      <3> HIDE DEF row
      <3> QED  BY <1>2, <3>1, <3>2
    <2> QED  BY <2>1, <2>2
  <1>4. /\ AsksTyped' /\ ClosersDecided' /\ TasksHaveRequests' /\ RequestsHaveTasks'
        /\ \A s \in AskNumbers, c \in Blocks : AskWaits(s, c)' <=> s # r /\ AskWaits(s, c)
    BY <1>1, DecidesMoves
  <1>5. /\ blockNorm' \in [Blocks -> NormRow] /\ NormsFirst'
        /\ \A c \in Blocks : blockNorm'[c] = IF c = b THEN new ELSE blockNorm[c]
    BY <1>1, <1>2, <1>3, NormChanges
  <1>6. NormsShowRequests'
    <2>1. \A c \in blocks : c \in Blocks /\ (blockNorm[c].requested <=> \E s \in AskNumbers : AskWaits(s, c))
      BY DEF HouseInv, TasksMatchRequests, NormsShowRequests
    <2>2. \A c \in blocks : c # b => ~AskWaits(r, c)
      BY <1>1 DEF AskWaits
    <2>3. new.requested <=> \E s \in AskNumbers : AskWaits(s, b)'
      BY <1>3, <1>4 DEF OthersWait
    <2>4. ASSUME NEW c \in blocks, c # b
          PROVE  blockNorm'[c].requested <=> \E s \in AskNumbers : AskWaits(s, c)'
      BY <1>4, <1>5, <2>1, <2>2, <2>4
    <2> QED  BY <1>1, <1>5, <2>3, <2>4 DEF NormsShowRequests
  <1> QED  BY <1>1, <1>4, <1>5, <1>6 DEF HouseInv, TasksMatchRequests

\* A task is submitted, closed late or left: what waits is not touched.
LEMMA TaskStepKeeps ==
    ASSUME HouseInv,
           \/ \E r \in AskNumbers : SubmitsRequestTask(r)
           \/ \E d \in Desks : TaskClosedLate(d) \/ TaskIsLeft(d)
    PROVE  HouseInv'
  <1>1. asks \in [AskNumbers -> AskRow] /\ DOMAIN desk = Desks /\ AtRest.op # "close"
    BY DEF HouseInv, AsksTyped, ClosersDecided, AtRest
  <1>2. UNCHANGED <<blocks, blockNorm>>
    BY DEF SubmitsRequestTask, TaskClosedLate, TaskIsLeft
  <1>3. ASSUME NEW r \in AskNumbers, NEW row \in AskRow, asks' = [asks EXCEPT ![r] = row],
               row.status = asks[r].status, row.block = asks[r].block,
               AsksTyped', ClosersDecided', TasksHaveRequests', RequestsHaveTasks'
        PROVE  HouseInv'
    <2>1. \A s \in AskNumbers : asks'[s].status = asks[s].status /\ asks'[s].block = asks[s].block
      BY <1>1, <1>3
    <2>2. NormsShowRequests'
      BY <1>2, <2>1 DEF HouseInv, TasksMatchRequests, NormsShowRequests, AskWaits
    <2>3. NormsFirst'
      BY <1>2 DEF HouseInv, NormsFirst
    <2> QED  BY <1>2, <1>3, <2>2, <2>3 DEF HouseInv, TasksMatchRequests
  <1>4. ASSUME NEW r \in AskNumbers, SubmitsRequestTask(r) PROVE HouseInv'
    <2> DEFINE row == [asks[r] EXCEPT !.task = "submitted"]
    <2>1. /\ row \in AskRow /\ row.task = "submitted"
          /\ row.status = asks[r].status /\ row.block = asks[r].block
      BY <1>1 DEF AskRow
    <2>2. asks' = [asks EXCEPT ![r] = row] /\ UNCHANGED desk
      BY <1>1, <1>4 DEF SubmitsRequestTask
    <2>3. row.status = "pending" => \E b \in blocks : row.block = {b}
      BY <2>1 DEF HouseInv, AsksTyped
    <2> HIDE DEF row
    <2>4. AsksTyped' /\ ClosersDecided' /\ TasksHaveRequests' /\ RequestsHaveTasks'
      BY <1>1, <1>2, <2>1, <2>2, <2>3, AskMoves
    <2> QED  BY <1>3, <2>1, <2>2, <2>4
  <1>5. ASSUME NEW d \in Desks, TaskClosedLate(d) \/ TaskIsLeft(d) PROVE HouseInv'
    <2> DEFINE r == desk[d].ask
    <2>1. /\ desk[d].op = "close" /\ r \in AskNumbers /\ asks[r].status \in {"decided", "gone"}
          /\ desk' = [desk EXCEPT ![d] = AtRest]
      BY <1>5 DEF TaskClosedLate, TaskIsLeft, DeskWrites, HouseInv, ClosersDecided
    <2>2. \E row \in AskRow :
              /\ asks' = [asks EXCEPT ![r] = row] /\ row.task # "open"
              /\ row.status = asks[r].status /\ row.block = asks[r].block
      <3>1. CASE TaskClosedLate(d)
        <4>1. Closes(r) \in AskRow /\ Closes(r).task # "open" /\ Closes(r).status = asks[r].status
          BY <2>1, ClosesTyped
        <4>2. Closes(r).block = asks[r].block
          BY <1>1, <2>1 DEF Closes, AskRow
        <4> QED  BY <3>1, <4>1, <4>2 DEF TaskClosedLate
      <3>2. CASE TaskIsLeft(d)
        <4> DEFINE row == [asks[r] EXCEPT !.task = IF @ = "open" THEN "left" ELSE @]
        <4>1. /\ row \in AskRow /\ row.task # "open"
              /\ row.status = asks[r].status /\ row.block = asks[r].block
          BY <1>1, <2>1 DEF AskRow
        <4>2. asks' = [asks EXCEPT ![r] = row]
          BY <1>1, <2>1, <3>2 DEF TaskIsLeft
        <4> HIDE DEF row
        <4> QED  BY <4>1, <4>2
      <3> QED  BY <1>5, <3>1, <3>2
    <2>3. PICK row \in AskRow :
              /\ asks' = [asks EXCEPT ![r] = row] /\ row.task # "open"
              /\ row.status = asks[r].status /\ row.block = asks[r].block
      BY <2>2
    <2>4. DOMAIN desk' = Desks /\ \A e \in Desks : desk'[e] = IF e = d THEN AtRest ELSE desk[e]
      BY <1>1, <2>1
    <2> HIDE DEF r
    <2>5. AsksTyped' /\ ClosersDecided' /\ TasksHaveRequests' /\ RequestsHaveTasks'
      <3>1. \A e \in Desks : \/ desk'[e] = desk[e]
                             \/ /\ desk[e].op = "close" => desk[e].ask = r
                                /\ desk'[e].op # "close"
        BY <1>1, <2>4 DEF r
      <3> QED  BY <1>2, <2>1, <2>3, <2>4, <3>1, AskMoves
    <2> QED  BY <1>3, <2>1, <2>3, <2>5
  <1> QED  BY <1>4, <1>5

LEMMA IssueKeeps ==
    ASSUME HouseInv, issue_by_techcard
    PROVE  HouseInv'
  <1>1. /\ blockNorm' = [b \in Blocks |-> IF blockNorm[b].required
                                          THEN [blockNorm[b] EXCEPT !.required = FALSE, !.provided = TRUE]
                                          ELSE blockNorm[b]]
        /\ UNCHANGED <<blocks, asks, desk>>
    BY DEF issue_by_techcard, Changing
  <1>2. ASSUME NEW b \in Blocks
        PROVE  /\ blockNorm'[b] \in NormRow
               /\ blockNorm'[b].requested = blockNorm[b].requested
               /\ ~blockNorm'[b].material => blockNorm'[b] = NoNorm
    <2> DEFINE n == blockNorm[b]
    <2>1. n \in NormRow /\ (~n.material => n = NoNorm)
      BY DEF HouseInv, NormsFirst
    <2>2. blockNorm'[b] = IF n.required THEN [n EXCEPT !.required = FALSE, !.provided = TRUE] ELSE n
      BY <1>1
    <2> HIDE DEF n
    <2>3. CASE n.required
      <3>1. n.material
        BY <2>1, <2>3, NormsTyped
      <3>2. blockNorm'[b] = [n EXCEPT !.required = FALSE, !.provided = TRUE]
        BY <2>2, <2>3
      <3>3. blockNorm'[b] \in NormRow /\ blockNorm'[b].requested = n.requested /\ blockNorm'[b].material = n.material
        BY <2>1, <3>2 DEF NormRow
      <3> QED  BY <3>1, <3>3 DEF n
    <2>4. CASE ~n.required
      BY <2>1, <2>2, <2>4 DEF n
    <2> QED  BY <2>3, <2>4
  <1>3. blockNorm' \in [Blocks -> NormRow]
    <2>1. DOMAIN blockNorm' = Blocks /\ blockNorm' = [b \in Blocks |-> blockNorm'[b]]
      BY <1>1
    <2> QED  BY <1>2, <2>1
  <1>4. NormsFirst'
    BY <1>2 DEF NormsFirst
  <1>5. ClosersStay /\ blocks \subseteq Blocks
    BY <1>1 DEF ClosersStay, HouseInv, ClosersDecided
  <1> QED  BY <1>1, <1>2, <1>3, <1>4, <1>5, AsksStay

LEMMA CreationKeeps ==
    ASSUME HouseInv, NEW b \in Blocks, create_block(b)
    PROVE  HouseInv'
  <1>1. /\ b \notin blocks /\ blocks' = blocks \cup {b} /\ UNCHANGED <<asks, desk>>
        /\ blockNorm' = [blockNorm EXCEPT ![b] = NoNorm]
    BY DEF create_block, Changing
  <1>2. \A c \in Blocks : blockNorm'[c] = IF c = b THEN NoNorm ELSE blockNorm[c]
    BY <1>1 DEF HouseInv
  <1>3. blockNorm' \in [Blocks -> NormRow]
    BY <1>1, NormsTyped DEF HouseInv
  <1>4. NormsFirst'
    BY <1>2 DEF HouseInv, NormsFirst
  <1>5. ClosersStay /\ blocks \subseteq Blocks
    BY <1>1 DEF ClosersStay, HouseInv, ClosersDecided
  <1> QED  BY <1>1, <1>2, <1>3, <1>4, <1>5, NormsTyped, AsksStay

\* The requests for a deleted block go with it, and their tasks are left to people.
LEMMA DeletionKeeps ==
    ASSUME HouseInv, NEW d \in Desks, BlockDeleted(d)
    PROVE  HouseInv'
  <1> DEFINE dropped == desk[d].block
             Row(r) == IF asks[r].block \cap dropped # {}
                       THEN [asks[r] EXCEPT !.status = "gone", !.block = {}] ELSE asks[r]
  <1>1. /\ blocks' = blocks \ dropped /\ asks' = [r \in AskNumbers |-> Row(r)]
        /\ blockNorm' = [b \in Blocks |-> IF b \in dropped THEN NoNorm ELSE blockNorm[b]]
        /\ desk[d].op = "delete" /\ desk' = [desk EXCEPT ![d] = AtRest]
    BY DEF BlockDeleted, DeskWrites
  <1>2. blockNorm' \in [Blocks -> NormRow]
    BY <1>1, NormsTyped DEF HouseInv
  <1>3. NormsFirst'
    BY <1>1 DEF HouseInv, NormsFirst
  <1>4. DOMAIN desk' = Desks /\ \A e \in Desks : desk'[e] = IF e = d THEN AtRest ELSE desk[e]
    BY <1>1 DEF HouseInv, ClosersDecided
  <1>5. ASSUME NEW r \in AskNumbers
        PROVE  /\ asks'[r] \in AskRow /\ asks'[r].task = asks[r].task
               /\ \/ asks'[r] = asks[r] /\ asks[r].block \cap dropped = {}
                  \/ asks'[r].status = "gone" /\ asks[r].block \cap dropped # {}
    <2>1. asks[r] \in AskRow /\ asks'[r] = Row(r)
      BY <1>1 DEF HouseInv, AsksTyped
    <2> HIDE DEF dropped
    <2> QED  BY <2>1 DEF AskRow
  <1> HIDE DEF dropped, Row
  <1>6. AsksTyped'
    <2>1. asks' \in [AskNumbers -> AskRow]
      BY <1>1, <1>5
    <2>2. ASSUME NEW r \in AskNumbers, asks'[r].status = "pending"
          PROVE  \E b \in blocks' : asks'[r].block = {b}
      BY <1>1, <1>5, <2>2 DEF HouseInv, AsksTyped
    <2> QED  BY <2>1, <2>2 DEF AsksTyped
  <1>7. ClosersDecided'
    BY <1>4, <1>5 DEF HouseInv, ClosersDecided, AtRest
  <1>8. TasksHaveRequests' /\ RequestsHaveTasks'
    BY <1>1, <1>4, <1>5 DEF HouseInv, TasksMatchRequests, TasksHaveRequests, RequestsHaveTasks
  <1>9. NormsShowRequests'
    <2>1. ASSUME NEW b \in blocks', NEW r \in AskNumbers PROVE AskWaits(r, b)' <=> AskWaits(r, b)
      BY <1>1, <1>5 DEF AskWaits
    <2> QED  BY <1>1, <2>1 DEF HouseInv, TasksMatchRequests, NormsShowRequests
  <1> QED  BY <1>1, <1>2, <1>3, <1>6, <1>7, <1>8, <1>9 DEF HouseInv, TasksMatchRequests

\* The rest leaves blocks, norms and requests alone.
LEMMA OthersKeepNorms ==
    ASSUME HouseInv, BlocksNext,
           ~issue_by_techcard,
           ~\E b \in Blocks : \/ add_block_material(b)
                              \/ \E required \in BOOLEAN : update_required_quantity(b, required)
                              \/ \E r \in AskNumbers : \/ request_material(r, b) \/ reject_request(r, b)
                                                 \/ \E whole \in BOOLEAN : approve_request(r, b, whole),
           ~\E b \in Blocks : create_block(b),
           ~\E r \in AskNumbers : SubmitsRequestTask(r),
           ~\E d \in Desks : BlockDeleted(d) \/ TaskClosedLate(d) \/ TaskIsLeft(d)
    PROVE  UNCHANGED <<blocks, blockNorm, asks>> /\ ClosersStay
  <1>1. UNCHANGED <<blocks, blockNorm, asks>>
    BY DEF BlocksNext, AnswerAges, update_block, create_task, DeadlinePasses, TaskCloses,
           remove_block_dependency, generate_deadline_insight, InsightEnds, DependencyAdded,
           delete_block, add_block_dependency, Looks
  <1>2. DOMAIN desk = Desks /\ AtRest.op = "none"
    BY DEF HouseInv, ClosersDecided, AtRest
  <1>3. ASSUME NEW d \in Desks, NEW row, desk' = [desk EXCEPT ![d] = row], desk[d].op # "close", row.op # "close"
        PROVE  ClosersStay
    BY <1>2, <1>3 DEF ClosersStay
  <1>4. ASSUME NEW d \in Desks, generate_deadline_insight(d) PROVE ClosersStay
    <2> DEFINE row == [AtRest EXCEPT !.op = "insight", !.signals = Signals, !.had = answer.there]
    <2>1. row.op = "insight"
      BY DEF AtRest
    <2>2. desk[d] = AtRest /\ desk' = [desk EXCEPT ![d] = row]
      BY <1>4 DEF generate_deadline_insight
    <2> HIDE DEF row
    <2> QED  BY <1>2, <1>3, <2>1, <2>2
  <1>5. ASSUME NEW d \in Desks, NEW op \in {"depend", "delete"}, NEW b, NEW other, Looks(d, op, b, other)
        PROVE  ClosersStay
    <2> DEFINE row == [AtRest EXCEPT !.op = op, !.block = b, !.other = other]
    <2>1. row.op = op
      BY DEF AtRest
    <2>2. desk[d] = AtRest /\ desk' = [desk EXCEPT ![d] = row]
      BY <1>5 DEF Looks
    <2> HIDE DEF row
    <2> QED  BY <1>2, <1>3, <2>1, <2>2
  <1>6. ASSUME NEW d \in Desks, NEW b \in Blocks, delete_block(d, b) \/ \E on \in Blocks : add_block_dependency(d, b, on)
        PROVE  ClosersStay
    BY <1>5, <1>6 DEF delete_block, add_block_dependency
  <1>7. ASSUME NEW d \in Desks, InsightEnds(d) \/ DependencyAdded(d) PROVE ClosersStay
    BY <1>2, <1>3, <1>7 DEF InsightEnds, DependencyAdded, DeskWrites
  <1>8. ASSUME UNCHANGED desk PROVE ClosersStay
    BY <1>2, <1>8 DEF ClosersStay
  <1>9. ClosersStay
    <2>1. \/ UNCHANGED desk
          \/ \E d \in Desks : \/ generate_deadline_insight(d) \/ InsightEnds(d) \/ DependencyAdded(d)
                              \/ \E b \in Blocks : delete_block(d, b) \/ \E on \in Blocks : add_block_dependency(d, b, on)
      BY DEF BlocksNext, AnswerAges, update_block, create_task, DeadlinePasses, TaskCloses,
             remove_block_dependency, Changing
    <2> QED  BY <1>4, <1>6, <1>7, <1>8, <2>1
  <1> QED  BY <1>1, <1>9

\* A block is made, asked for, issued and deleted.
LEMMA BlocksStay == HouseInv /\ [BlocksNext]_blockVars => HouseInv'
  <1> SUFFICES ASSUME HouseInv, [BlocksNext]_blockVars
               PROVE  HouseInv'
    OBVIOUS
  <1>1. CASE issue_by_techcard
    BY <1>1, IssueKeeps
  <1>2. ASSUME NEW b \in Blocks,
               \/ add_block_material(b)
               \/ \E required \in BOOLEAN : update_required_quantity(b, required)
        PROVE  HouseInv'
    BY <1>2, OneNormKeeps
  <1>3. ASSUME NEW b \in Blocks, create_block(b)
        PROVE  HouseInv'
    BY <1>3, CreationKeeps
  <1>4. ASSUME NEW d \in Desks, BlockDeleted(d) \/ TaskClosedLate(d) \/ TaskIsLeft(d)
        PROVE  HouseInv'
    BY <1>4, DeletionKeeps, TaskStepKeeps
  <1>5. ASSUME UNCHANGED <<blocks, blockNorm, asks>>, ClosersStay
        PROVE  HouseInv'
    BY <1>5, AsksStay DEF HouseInv, NormsFirst
  <1>6. CASE UNCHANGED blockVars
    BY <1>5, <1>6 DEF blockVars, HouseInv, ClosersDecided, ClosersStay
  <1>7. ASSUME NEW b \in Blocks, NEW r \in AskNumbers,
               \/ request_material(r, b) \/ reject_request(r, b)
               \/ \E whole \in BOOLEAN : approve_request(r, b, whole)
        PROVE  HouseInv'
    <2>1. ASSUME NEW whole \in BOOLEAN, approve_request(r, b, whole) PROVE HouseInv'
      <3>1. CASE whole = TRUE
        BY <2>1, <3>1, DecisionKeeps
      <3>2. CASE whole = FALSE
        BY <2>1, <3>2, OneNormKeeps
      <3> QED  BY <3>1, <3>2
    <2>2. ASSUME request_material(r, b) PROVE HouseInv'
      BY <2>2, RequestMadeKeeps
    <2>3. ASSUME reject_request(r, b) PROVE HouseInv'
      BY <2>3, DecisionKeeps
    <2>4. CASE \E whole \in BOOLEAN : approve_request(r, b, whole)
      BY <2>1, <2>4
    <2> QED  BY <1>7, <2>2, <2>3, <2>4
  <1>8. ASSUME NEW r \in AskNumbers, SubmitsRequestTask(r)
        PROVE  HouseInv'
    BY <1>8, TaskStepKeeps
  <1> QED  BY <1>1, <1>2, <1>3, <1>4, <1>5, <1>6, <1>7, <1>8, OthersKeepNorms

(***************************************************************************)
(* The board has a task for every request of a block that waits until      *)
(* somebody submits it, and for no other but what a decision has still to  *)
(* close or was kept from closing, whoever approves, rejects, issues and   *)
(* deletes at once (production/service.py, warehouse/service.py).          *)
(***************************************************************************)
THEOREM BoardShowsRequests == BlocksSpec => []TasksMatchRequests
  <1>1. BlocksInit => HouseInv
    BY BlocksBegin
  <1>2. HouseInv /\ [BlocksNext]_blockVars => HouseInv'
    BY BlocksStay
  <1>3. HouseInv => TasksMatchRequests
    BY DEF HouseInv
  <1> QED  BY <1>1, <1>2, <1>3, PTL DEF BlocksSpec

------------------------------------------------------------------------------
(* Notices                                                                  *)

DutyRow == [there : BOOLEAN, done : BOOLEAN, due : {"far", "soon", "past"}, owner : Owners \cup {Unowned}]

(***************************************************************************)
(* Why a deadline is told of once: the mark is written along with the      *)
(* notification, and only the deletion of the task takes it away.          *)
(***************************************************************************)
NoticesInv ==
    /\ duties \in [Duties -> DutyRow]
    /\ told \in [Duties \X Thresholds -> Nat]
    /\ ToldOnce

LEMMA NoticesBegin == NoticesInit => NoticesInv
  <1> SUFFICES ASSUME NoticesInit PROVE NoticesInv
    OBVIOUS
  <1>1. duties \in [Duties -> DutyRow]
    <2>1. [there : {TRUE}, done : {FALSE}, due : {"far"}, owner : Owners] \subseteq DutyRow
      BY DEF DutyRow
    <2> QED  BY <2>1 DEF NoticesInit
  <1> QED  BY <1>1 DEF NoticesInit, NoticesInv, ToldOnce

\* A task changes, or goes with its alerts; who was told of it stays told.
LEMMA DutyChanges ==
    ASSUME NoticesInv, NEW d \in Duties, NEW new \in DutyRow,
           duties[d].there, duties' = [duties EXCEPT ![d] = new], told' = told,
           alerted' = IF new.there THEN alerted ELSE alerted \ ({d} \X Thresholds)
    PROVE  NoticesInv'
  <1>1. \A e \in Duties : duties'[e] = IF e = d THEN new ELSE duties[e]
    BY DEF NoticesInv
  <1>2. duties' \in [Duties -> DutyRow]
    BY DEF NoticesInv
  <1>3. ASSUME NEW p \in Duties \X Thresholds
        PROVE  told'[p] <= 1 /\ (told'[p] = 1 => p \in alerted' \/ ~duties'[p[1]].there)
    <2>1. told[p] <= 1 /\ (told[p] = 1 => p \in alerted \/ ~duties[p[1]].there)
      BY DEF NoticesInv, ToldOnce
    <2>2. p[1] \in Duties /\ p[2] \in Thresholds /\ p = <<p[1], p[2]>>
      OBVIOUS
    <2>3. CASE p[1] = d
      BY <1>1, <2>1, <2>2, <2>3
    <2>4. CASE p[1] # d
      <3>1. p \notin {d} \X Thresholds
        BY <2>2, <2>4
      <3> QED  BY <1>1, <2>1, <2>2, <2>4, <3>1
    <2> QED  BY <2>3, <2>4
  <1>4. ToldOnce'
    BY <1>3 DEF ToldOnce
  <1> QED  BY <1>2, <1>4 DEF NoticesInv

LEMMA TimeKeeps ==
    ASSUME NoticesInv, NEW d \in Duties, DueNears(d)
    PROVE  NoticesInv'
  <1> DEFINE new == [duties[d] EXCEPT !.due = Later(@)]
  <1>1. duties[d] \in DutyRow /\ Later(duties[d].due) \in {"far", "soon", "past"}
    BY DEF NoticesInv, DutyRow, Later
  <1>2. new \in DutyRow /\ new.there = duties[d].there
    BY <1>1 DEF DutyRow
  <1>3. duties[d].there /\ duties' = [duties EXCEPT ![d] = new] /\ told' = told /\ alerted' = alerted
    BY DEF DueNears
  <1> HIDE DEF new
  <1> QED  BY <1>2, <1>3, DutyChanges

LEMMA TouchKeeps ==
    ASSUME NoticesInv, NEW d \in Duties, TaskChanges(d)
    PROVE  NoticesInv'
  <1>1. duties[d] \in DutyRow
    BY DEF NoticesInv
  <1> DEFINE r == duties[d]
             Given == {[r EXCEPT !.owner = u] : u \in Owners \union {Unowned}}
  <1>2. /\ [r EXCEPT !.done = ~r.done] \in DutyRow
        /\ [r EXCEPT !.due = "far"] \in DutyRow
        /\ Deleted \in DutyRow
    BY <1>1 DEF DutyRow, Deleted
  <1>3. Given \subseteq DutyRow
    BY <1>1 DEF DutyRow
  <1>4. PICK new \in {[r EXCEPT !.done = ~r.done], [r EXCEPT !.due = "far"], Deleted} \union Given :
            /\ duties' = [duties EXCEPT ![d] = new]
            /\ alerted' = IF new.there THEN alerted ELSE alerted \ ({d} \X Thresholds)
    BY DEF TaskChanges
  <1> HIDE DEF r, Given
  <1>5. new \in DutyRow
    BY <1>2, <1>3, <1>4
  <1>6. duties[d].there /\ told' = told
    BY DEF TaskChanges
  <1> QED  BY <1>4, <1>5, <1>6, DutyChanges

LEMMA CrossesThresholds ==
    ASSUME NEW d PROVE Crosses(d) \subseteq Thresholds
  BY DEF Crosses, Thresholds

LEMMA AlertKeeps ==
    ASSUME NoticesInv, NEW d \in Duties, _alert(d)
    PROVE  NoticesInv'
  <1>1. PICK t \in Crosses(d) : ~_already_alerted(d, t) /\ alerted' = alerted \union {<<d, t>>} /\ notify(d, t)
    BY DEF _alert
  <1>2. duties[d].there /\ duties' = duties /\ t \in Thresholds
    BY CrossesThresholds DEF _alert
  <1> DEFINE q == <<d, t>>
  <1>3. q \in Duties \X Thresholds /\ q \notin alerted /\ q[1] = d
    BY <1>1, <1>2 DEF _already_alerted
  <1>4. told' = told \/ told' = [told EXCEPT ![q] = @ + 1]
    BY <1>1 DEF notify
  <1>5. told[q] \in Nat /\ told[q] <= 1 /\ told[q] # 1
    BY <1>2, <1>3 DEF NoticesInv, ToldOnce
  <1>6. told[q] = 0
    BY <1>5
  <1>7. alerted' = alerted \cup {q}
    BY <1>1
  <1> HIDE DEF q
  <1>8. told' \in [Duties \X Thresholds -> Nat] /\ \A p \in Duties \X Thresholds : p # q => told'[p] = told[p]
    <2>1. CASE told' = told
      BY <2>1 DEF NoticesInv
    <2>2. CASE told' = [told EXCEPT ![q] = @ + 1]
      <3>1. told[q] + 1 \in Nat
        BY <1>6
      <3> QED  BY <2>2, <3>1 DEF NoticesInv
    <2> QED  BY <1>4, <2>1, <2>2
  <1>9. told'[q] \in {0, 1}
    <2>1. CASE told' = told
      BY <2>1, <1>6
    <2>2. CASE told' = [told EXCEPT ![q] = @ + 1]
      BY <2>2, <1>3, <1>6 DEF NoticesInv
    <2> QED  BY <1>4, <2>1, <2>2
  <1>10. ASSUME NEW p \in Duties \X Thresholds
         PROVE  told'[p] <= 1 /\ (told'[p] = 1 => p \in alerted' \/ ~duties'[p[1]].there)
    <2>1. CASE p = q
      BY <2>1, <1>7, <1>9
    <2>2. CASE p # q
      BY <2>2, <1>2, <1>7, <1>8 DEF NoticesInv, ToldOnce
    <2> QED  BY <2>1, <2>2
  <1>11. ToldOnce'
    BY <1>10 DEF ToldOnce
  <1> QED  BY <1>2, <1>8, <1>11 DEF NoticesInv

\* The rest neither marks nor tells.
LEMMA OthersKeepMarks ==
    ASSUME NoticesNext,
           ~\E d \in Duties : DueNears(d) \/ TaskChanges(d) \/ _alert(d)
    PROVE  UNCHANGED <<duties, alerted, told>>
  BY DEF NoticesNext, PassStep, PassBegins, PassFails, PassEnds, NothingToSay, Restarted, put_mute, set_mute,
         mark_read, mark_all_read, save_push_subscription, delete_push_subscription

\* A pass alerts while people change and read.
LEMMA NoticesStay == NoticesInv /\ [NoticesNext]_noticeVars => NoticesInv'
  <1> SUFFICES ASSUME NoticesInv, [NoticesNext]_noticeVars
               PROVE  NoticesInv'
    OBVIOUS
  <1>1. ASSUME NEW d \in Duties, DueNears(d) \/ TaskChanges(d) \/ _alert(d)
        PROVE  NoticesInv'
    BY <1>1, TimeKeeps, TouchKeeps, AlertKeeps
  <1>2. CASE UNCHANGED <<duties, alerted, told>>
    BY <1>2 DEF NoticesInv, ToldOnce
  <1>3. CASE UNCHANGED noticeVars
    BY <1>2, <1>3 DEF noticeVars
  <1> QED  BY <1>1, <1>2, <1>3, OthersKeepMarks

(***************************************************************************)
(* jobs/deadlines.py: a task and a threshold make one notification at      *)
(* most, across passes, restarts and whatever people do meanwhile.         *)
(***************************************************************************)
THEOREM DeadlinesAreToldOnce == NoticesSpec => []ToldOnce
  <1>1. NoticesInit => NoticesInv
    BY NoticesBegin
  <1>2. NoticesInv /\ [NoticesNext]_noticeVars => NoticesInv'
    BY NoticesStay
  <1>3. NoticesInv => ToldOnce
    BY DEF NoticesInv
  <1> QED  BY <1>1, <1>2, <1>3, PTL DEF NoticesSpec

------------------------------------------------------------------------------
(* Messenger                                                                *)

DeltaRow == [chat : Chats, from : {"client", "account"}]
FrameRow == [op : {"message", "reply"}, seq : Nat, about : Nat]
EarRow == [step : {"down", "listening", "asking"}, last : Nat, about : Nat]
TabRow == [open : BOOLEAN, queue : Seq(Events), stale : SUBSET Chats]
WriteRow == [step : {"idle", "opened", "reached"}, kind : {"none", "send", "other"},
             chat : Chats \union {"none"}]

TabsTyped ==
    /\ tabs \in [Tabs -> TabRow]
    /\ \A t \in Tabs : ~tabs[t].open => tabs[t].stale = {}

WritesTyped ==
    /\ writing \in [Senders -> WriteRow]
    /\ \A r \in Senders : writing[r].step # "idle" => writing[r].chat \in Chats

\* A frame is about a change, and carries its number unless it is an answer
Fits(f, count) ==
    /\ f.about \in 1..count
    /\ f.op = "message" => f.seq = f.about
    /\ f.op = "reply" => f.seq = 0

\* The session and the server agree on what has changed
WireTyped ==
    /\ deltas \in Seq(DeltaRow) /\ Len(deltas) <= MaxDeltas
    /\ wire \in Seq(FrameRow)
    /\ ear \in EarRow
    /\ asked \subseteq 1..Len(deltas)
    /\ notified \in [1..MaxDeltas -> Nat]
    /\ ear.last <= Len(deltas)
    /\ ear.step = "down" => wire = <<>> /\ asked = {}
    /\ ear.step = "asking" => ear.about = ear.last /\ ear.about \in 1..Len(deltas)

FramesFit == \A i \in 1..Len(wire) : Fits(wire[i], Len(deltas))

\* What was notified is behind the listener, or it is down
NotifiedIsPast ==
    /\ AnnouncedOncePerSession
    /\ \A n \in 1..MaxDeltas :
           notified[n] > 0 => n <= Len(deltas) /\ (ear.step = "down" \/ n <= ear.last)
    /\ ear.step = "asking" => notified[ear.about] = 0

WireInv == WireTyped /\ FramesFit /\ NotifiedIsPast

\* The push of a chat that will be handled: the frames before it have lower numbers
ComesFresh(c, w, last, d) ==
    \E i \in 1..Len(w) :
        /\ w[i].op = "message" /\ w[i].seq > last /\ d[w[i].about].chat = c
        /\ \A j \in 1..(i - 1) : w[j].seq < w[i].seq

(***************************************************************************)
(* Why a stale tab is told: the frames of a session come in the order of   *)
(* their numbers, but for repeated ones, so the listener does not take     *)
(* the last news of a chat for an old one.                                 *)
(***************************************************************************)
StaleInv ==
    \A t \in Tabs : \A c \in tabs[t].stale :
        Told(t, c) \/ ComesFresh(c, wire, ear.last, deltas) \/ ear.step = "down" \/ <<t, c>> \in missed

LEMMA MessengerBegins == MessengerInit => TabsTyped /\ WritesTyped /\ WireInv /\ StaleInv
  <1> SUFFICES ASSUME MessengerInit
               PROVE  TabsTyped /\ WritesTyped /\ WireInv /\ StaleInv
    OBVIOUS
  <1>1. <<>> \in Seq(Events) /\ <<>> \in Seq(FrameRow) /\ <<>> \in Seq(DeltaRow) /\ Len(<<>>) = 0
    OBVIOUS
  <1>2. TabsTyped
    <2>1. NotOpen \in TabRow /\ NotOpen.stale = {}
      BY <1>1 DEF NotOpen, TabRow
    <2> QED  BY <2>1 DEF MessengerInit, TabsTyped
  <1>3. WritesTyped
    <2>1. NotWriting \in WriteRow /\ NotWriting.step = "idle"
      BY DEF NotWriting, WriteRow
    <2> QED  BY <2>1 DEF MessengerInit, WritesTyped
  <1>4. Down \in EarRow /\ Down.step = "down" /\ Down.last = 0
    BY DEF Down, EarRow
  <1>5. MaxDeltas \in Nat
    BY MessengerAssumption
  <1>6. WireTyped
    BY <1>1, <1>4, <1>5 DEF MessengerInit, NobodyNotified, WireTyped
  <1>7. FramesFit
    BY <1>1 DEF MessengerInit, FramesFit
  <1>8. NotifiedIsPast
    BY <1>4 DEF MessengerInit, NobodyNotified, NotifiedIsPast, AnnouncedOncePerSession
  <1>9. StaleInv
    BY <1>4 DEF MessengerInit, StaleInv
  <1> QED  BY <1>2, <1>3, <1>6, <1>7, <1>8, <1>9 DEF WireInv

\* What is published reaches the open tabs that have room.
LEMMA PublishReaches ==
    ASSUME TabsTyped, NEW e \in Events
    PROVE  /\ publish(e) \in [Tabs -> TabRow]
           /\ \A t \in Tabs :
                 /\ publish(e)[t].open = tabs[t].open /\ publish(e)[t].stale = tabs[t].stale
                 /\ publish(e)[t].queue =
                       IF tabs[t].open /\ ~QueueFull(t) THEN Append(tabs[t].queue, e) ELSE tabs[t].queue
  <1>1. ASSUME NEW t \in Tabs
        PROVE  /\ publish(e)[t] \in TabRow
               /\ publish(e)[t].open = tabs[t].open /\ publish(e)[t].stale = tabs[t].stale
               /\ publish(e)[t].queue =
                     IF tabs[t].open /\ ~QueueFull(t) THEN Append(tabs[t].queue, e) ELSE tabs[t].queue
    <2>1. tabs[t] \in TabRow
      BY DEF TabsTyped
    <2>2. tabs[t].queue \in Seq(Events)
      BY <2>1 DEF TabRow
    <2>3. Append(tabs[t].queue, e) \in Seq(Events)
      BY <2>2, AppendProperties
    <2>4. publish(e)[t] = IF tabs[t].open /\ ~QueueFull(t)
                          THEN [tabs[t] EXCEPT !.queue = Append(tabs[t].queue, e)] ELSE tabs[t]
      BY DEF publish
    <2> QED  BY <2>1, <2>3, <2>4 DEF TabRow
  <1>2. publish(e) = [t \in Tabs |-> publish(e)[t]]
    BY DEF publish
  <1>3. publish(e) \in [Tabs -> TabRow]
    BY <1>1, <1>2
  <1> QED  BY <1>1, <1>3

LEMMA PublishKeeps ==
    ASSUME TabsTyped, NEW e \in Events, tabs' = publish(e)
    PROVE  TabsTyped'
  <1>1. publish(e) \in [Tabs -> TabRow]
    BY PublishReaches
  <1>2. \A t \in Tabs : publish(e)[t].open = tabs[t].open /\ publish(e)[t].stale = tabs[t].stale
    BY PublishReaches
  <1> QED  BY <1>1, <1>2 DEF TabsTyped

\* A change makes the tabs that show the chat stale.
Outdated(c) == [t \in Tabs |-> IF tabs[t].open
                               THEN [tabs[t] EXCEPT !.stale = @ \union {c}] ELSE tabs[t]]

LEMMA OutdatedReaches ==
    ASSUME TabsTyped, NEW c \in Chats
    PROVE  /\ Outdated(c) \in [Tabs -> TabRow]
           /\ \A t \in Tabs :
                 /\ Outdated(c)[t].open = tabs[t].open /\ Outdated(c)[t].queue = tabs[t].queue
                 /\ Outdated(c)[t].stale = IF tabs[t].open THEN tabs[t].stale \union {c} ELSE tabs[t].stale
  <1>1. ASSUME NEW t \in Tabs
        PROVE  /\ Outdated(c)[t] \in TabRow
               /\ Outdated(c)[t].open = tabs[t].open /\ Outdated(c)[t].queue = tabs[t].queue
               /\ Outdated(c)[t].stale = IF tabs[t].open THEN tabs[t].stale \union {c} ELSE tabs[t].stale
    <2>1. tabs[t] \in TabRow
      BY DEF TabsTyped
    <2>2. Outdated(c)[t] = IF tabs[t].open
                           THEN [tabs[t] EXCEPT !.stale = tabs[t].stale \union {c}] ELSE tabs[t]
      BY DEF Outdated
    <2> QED  BY <2>1, <2>2 DEF TabRow
  <1>2. Outdated(c) = [t \in Tabs |-> Outdated(c)[t]]
    BY DEF Outdated
  <1>3. Outdated(c) \in [Tabs -> TabRow]
    BY <1>1, <1>2
  <1> QED  BY <1>1, <1>3

LEMMA OutdatedKeeps ==
    ASSUME TabsTyped, NEW c \in Chats, tabs' = Outdated(c)
    PROVE  TabsTyped'
  <1>1. Outdated(c) \in [Tabs -> TabRow]
    BY OutdatedReaches
  <1>2. \A t \in Tabs : /\ Outdated(c)[t].open = tabs[t].open
                        /\ Outdated(c)[t].stale = IF tabs[t].open THEN tabs[t].stale \union {c} ELSE tabs[t].stale
    BY OutdatedReaches
  <1> QED  BY <1>1, <1>2 DEF TabsTyped

\* A tab that reads again has the rest of its events before it.
LEMMA RereadKeeps ==
    ASSUME TabsTyped, NEW t \in Tabs, Rereads(t)
    PROVE  TabsTyped'
  <1> DEFINE read == IF Head(tabs[t].queue).type = "resync" THEN Chats ELSE {Head(tabs[t].queue).chat}
             row == [tabs[t] EXCEPT !.queue = Tail(tabs[t].queue), !.stale = tabs[t].stale \ read]
  <1>1. tabs' = [tabs EXCEPT ![t] = row]
    BY DEF Rereads
  <1>2. tabs[t] \in TabRow
    BY DEF TabsTyped
  <1>3. Tail(tabs[t].queue) \in Seq(Events)
    <2>1. tabs[t].queue \in Seq(Events) /\ tabs[t].queue # <<>>
      BY <1>2 DEF TabRow, Rereads
    <2> QED  BY <2>1, HeadTailProperties
  <1>4. tabs[t].stale \ read \in SUBSET Chats
    BY <1>2 DEF TabRow
  <1>5. row \in TabRow
    BY <1>2, <1>3, <1>4 DEF TabRow
  <1>6. row.open = tabs[t].open /\ row.stale = tabs[t].stale \ read
    BY <1>2 DEF TabRow
  <1> HIDE DEF row
  <1>7. tabs' \in [Tabs -> TabRow]
    BY <1>1, <1>5 DEF TabsTyped
  <1>8. ASSUME NEW u \in Tabs, ~tabs'[u].open PROVE tabs'[u].stale = {}
    BY <1>1, <1>6, <1>8 DEF TabsTyped
  <1> QED  BY <1>7, <1>8 DEF TabsTyped

LEMMA TabsStayTyped == TabsTyped /\ WritesTyped /\ WireInv /\ [MessengerNext]_messengerVars => TabsTyped'
  <1> SUFFICES ASSUME TabsTyped, WritesTyped, WireInv, [MessengerNext]_messengerVars
               PROVE  TabsTyped'
    OBVIOUS
  <1>1. NotOpen \in TabRow /\ NotOpen.stale = {} /\ [NotOpen EXCEPT !.open = TRUE] \in TabRow
        /\ [NotOpen EXCEPT !.open = TRUE].open
    <2>1. NotOpen \in TabRow /\ NotOpen.stale = {}
      <3>1. <<>> \in Seq(Events) /\ {} \in SUBSET Chats
        OBVIOUS
      <3> QED  BY <3>1 DEF NotOpen, TabRow
    <2> QED  BY <2>1 DEF TabRow
  <1>2. ASSUME NEW t \in Tabs, events_ws(t) \/ unsubscribe(t) PROVE TabsTyped'
    BY <1>1, <1>2 DEF TabsTyped, events_ws, unsubscribe
  <1>3. ASSUME NEW t \in Tabs, Rereads(t) PROVE TabsTyped'
    BY <1>3, RereadKeeps
  <1>4. ASSUME NEW c \in Chats, ClientWrites(c) PROVE TabsTyped'
    <2>1. tabs' = Outdated(c)
      BY <1>4 DEF ClientWrites, Outdated
    <2> QED  BY <2>1, OutdatedKeeps
  <1>5. ASSUME NEW r \in Senders, Reaches(r) PROVE TabsTyped'
    <2>1. tabs' = Outdated(writing[r].chat)
      BY <1>5 DEF Reaches, Outdated
    <2>2. writing[r].chat \in Chats
      BY <1>5 DEF Reaches, WritesTyped
    <2> QED  BY <2>1, <2>2, OutdatedKeeps
  <1>6. ASSUME NEW r \in Senders, ChatWritten(r) PROVE TabsTyped'
    <2>1. tabs' = publish([type |-> "chat_updated", chat |-> writing[r].chat])
      BY <1>6 DEF ChatWritten, chat_updated
    <2>2. writing[r].chat \in Chats
      BY <1>6 DEF ChatWritten, WritesTyped
    <2>3. [type |-> "chat_updated", chat |-> writing[r].chat] \in Events
      BY <2>2 DEF Events
    <2> QED  BY <2>1, <2>3, PublishKeeps
  <1>7. CASE Connect
    <2>1. tabs' = publish([type |-> "resync"]) /\ [type |-> "resync"] \in Events
      BY <1>7 DEF Connect, Events
    <2> QED  BY <2>1, PublishKeeps
  <1>8. CASE handle
    <2>1. CASE tabs' = tabs
      BY <2>1 DEF TabsTyped
    <2>2. CASE tabs' = chat_updated(ChatOf(Head(wire).about))
      <3>1. ChatOf(Head(wire).about) \in Chats
        <4>1. wire \in Seq(FrameRow) /\ wire # <<>>
          BY <1>8 DEF handle, WireInv, WireTyped
        <4>2. Head(wire) = wire[1] /\ 1 \in 1..Len(wire)
          BY <4>1
        <4>3. Head(wire).about \in 1..Len(deltas)
          BY <4>2 DEF WireInv, FramesFit, Fits
        <4>4. deltas[Head(wire).about] \in DeltaRow
          BY <4>3 DEF WireInv, WireTyped
        <4> QED  BY <4>4 DEF ChatOf, DeltaRow
      <3>2. [type |-> "chat_updated", chat |-> ChatOf(Head(wire).about)] \in Events
        BY <3>1 DEF Events
      <3> QED  BY <2>2, <3>2, PublishKeeps DEF chat_updated
    <2> QED  BY <1>8, <2>1, <2>2 DEF handle
  <1>9. CASE UNCHANGED tabs
    BY <1>9 DEF TabsTyped
  <1>10. ASSUME NEW r \in Senders, NEW c \in Chats,
                send_message(r, c) \/ forward_message(r, c) \/ edit_message(r, c)
         PROVE UNCHANGED tabs
    BY <1>10 DEF send_message, forward_message, edit_message, AsksUpdates
  <1>11. ASSUME NEW r \in Senders, WriteRefused(r) \/ AnswerLost(r) PROVE UNCHANGED tabs
    BY <1>11 DEF WriteRefused, AnswerLost
  <1>12. ASSUME NEW n \in DOMAIN deltas, ServerAnswers(n) \/ ServerRepeats(n) PROVE UNCHANGED tabs
    BY <1>12 DEF ServerAnswers, ServerRepeats
  <1>13. CASE Disconnect \/ _wait \/ _notify_new_message \/ NotNotified
    BY <1>9, <1>13 DEF Disconnect, _wait, _notify_new_message, NotNotified
  <1>14. CASE UNCHANGED messengerVars
    BY <1>9, <1>14 DEF messengerVars
  <1> QED  BY <1>2, <1>3, <1>4, <1>5, <1>6, <1>7, <1>8, <1>9, <1>10, <1>11, <1>12, <1>13, <1>14 DEF MessengerNext

LEMMA WritesStayTyped == WritesTyped /\ [MessengerNext]_messengerVars => WritesTyped'
  <1> SUFFICES ASSUME WritesTyped, [MessengerNext]_messengerVars
               PROVE  WritesTyped'
    OBVIOUS
  <1>1. ASSUME NEW r \in Senders, NEW c \in Chats,
               send_message(r, c) \/ forward_message(r, c) \/ edit_message(r, c)
        PROVE  WritesTyped'
    <2>1. ASSUME NEW kind \in {"send", "other"}, AsksUpdates(r, kind, c) PROVE WritesTyped'
      <3>1. [step |-> "opened", kind |-> kind, chat |-> c] \in WriteRow
        BY DEF WriteRow
      <3> QED  BY <2>1, <3>1 DEF AsksUpdates, WritesTyped
    <2> QED  BY <1>1, <2>1 DEF send_message, forward_message, edit_message
  <1>2. ASSUME NEW r \in Senders, WriteRefused(r) \/ ChatWritten(r) \/ AnswerLost(r) PROVE WritesTyped'
    <2>1. writing' = [writing EXCEPT ![r] = NotWriting]
      BY <1>2 DEF WriteRefused, ChatWritten, AnswerLost
    <2>2. NotWriting \in WriteRow /\ NotWriting.step = "idle"
      BY DEF NotWriting, WriteRow
    <2> QED  BY <2>1, <2>2 DEF WritesTyped
  <1>3. ASSUME NEW r \in Senders, Reaches(r) PROVE WritesTyped'
    <2>1. writing[r] \in WriteRow /\ writing[r].chat \in Chats
      BY <1>3 DEF WritesTyped, Reaches
    <2> DEFINE row == [writing[r] EXCEPT !.step = "reached"]
    <2>2. row \in WriteRow /\ row.chat \in Chats
      BY <2>1 DEF WriteRow
    <2>3. writing' = [writing EXCEPT ![r] = row]
      BY <1>3 DEF Reaches
    <2> HIDE DEF row
    <2> QED  BY <2>2, <2>3 DEF WritesTyped
  <1>4. CASE UNCHANGED writing
    BY <1>4 DEF WritesTyped
  <1>5. ASSUME NEW t \in Tabs, events_ws(t) \/ unsubscribe(t) \/ Rereads(t) PROVE UNCHANGED writing
    BY <1>5 DEF events_ws, unsubscribe, Rereads
  <1>6. ASSUME NEW c \in Chats, ClientWrites(c) PROVE UNCHANGED writing
    BY <1>6 DEF ClientWrites
  <1>7. ASSUME NEW n \in DOMAIN deltas, ServerAnswers(n) \/ ServerRepeats(n) PROVE UNCHANGED writing
    BY <1>7 DEF ServerAnswers, ServerRepeats
  <1>8. CASE Connect \/ Disconnect \/ handle \/ _wait \/ _notify_new_message \/ NotNotified
    BY <1>4, <1>8 DEF Connect, Disconnect, handle, _wait, _notify_new_message, NotNotified
  <1>9. CASE UNCHANGED messengerVars
    BY <1>4, <1>9 DEF messengerVars
  <1> QED  BY <1>1, <1>2, <1>3, <1>4, <1>5, <1>6, <1>7, <1>8, <1>9 DEF MessengerNext

\* A frame put on the wire fits, if its change is one.
LEMMA FramesJoin ==
    ASSUME WireTyped, FramesFit, NEW f \in FrameRow, Fits(f, Len(deltas)),
           wire' = Append(wire, f), ear' = ear, Len(deltas') = Len(deltas)
    PROVE  FramesFit' /\ wire' \in Seq(FrameRow)
  <1>1. wire \in Seq(FrameRow)
    BY DEF WireTyped
  <1>2. Append(wire, f) \in Seq(FrameRow) /\ Len(Append(wire, f)) = Len(wire) + 1
        /\ (\A i \in 1..Len(wire) : Append(wire, f)[i] = wire[i]) /\ Append(wire, f)[Len(wire) + 1] = f
    BY <1>1, AppendProperties
  <1>3. Len(wire) \in Nat
    BY <1>1
  <1>4. ASSUME NEW i \in 1..Len(wire') PROVE Fits(wire'[i], Len(deltas'))
    <2>1. CASE i \in 1..Len(wire)
      BY <1>2, <2>1 DEF FramesFit
    <2>2. CASE i = Len(wire) + 1
      BY <1>2, <2>2
    <2> QED  BY <1>2, <1>3, <2>1, <2>2
  <1> QED  BY <1>2, <1>4 DEF FramesFit

\* The rest of the frames fit when the first is taken.
LEMMA FramesLeave ==
    ASSUME WireTyped, FramesFit, wire # <<>>, wire' = Tail(wire),
           deltas' = deltas
    PROVE  FramesFit' /\ wire' \in Seq(FrameRow)
  <1>1. wire \in Seq(FrameRow)
    BY DEF WireTyped
  <1>2. Tail(wire) \in Seq(FrameRow) /\ Len(Tail(wire)) = Len(wire) - 1
        /\ \A i \in 1..Len(Tail(wire)) : Tail(wire)[i] = wire[i + 1]
    BY <1>1, HeadTailProperties
  <1>3. Len(wire) \in Nat
    BY <1>1
  <1>4. ASSUME NEW i \in 1..Len(wire') PROVE Fits(wire'[i], Len(deltas'))
    <2>1. i + 1 \in 1..Len(wire) /\ wire'[i] = wire[i + 1]
      BY <1>2, <1>3
    <2> QED  BY <2>1 DEF FramesFit
  <1> QED  BY <1>2, <1>4 DEF FramesFit

LEMMA ChangeKeepsWire ==
    ASSUME WireInv, NEW c \in Chats, NEW from \in {"client", "account"}, ChatChanged(c, from),
           UNCHANGED <<ear, asked, notified>>
    PROVE  WireInv'
  <1> DEFINE d == [chat |-> c, from |-> from]
  <1>1. d \in DeltaRow
    BY DEF DeltaRow
  <1> HIDE DEF d
  <1>2. deltas \in Seq(DeltaRow) /\ deltas' = Append(deltas, d) /\ Len(deltas) < MaxDeltas
    BY DEF WireInv, WireTyped, ChatChanged, d
  <1>3. deltas' \in Seq(DeltaRow) /\ Len(deltas') = Len(deltas) + 1 /\ Len(deltas) \in Nat
    BY <1>1, <1>2, AppendProperties
  <1>4. Len(deltas') <= MaxDeltas
    BY <1>2, <1>3, MessengerAssumption
  <1>5. FramesFit' /\ wire' \in Seq(FrameRow)
    <2>1. wire \in Seq(FrameRow) /\ ear \in EarRow
      BY DEF WireInv, WireTyped
    <2>2. \A i \in 1..Len(wire) : Fits(wire[i], Len(deltas'))
      BY <1>3 DEF WireInv, FramesFit, Fits
    <2>3. CASE ear.step = "down"
      BY <2>1, <2>2, <2>3 DEF ChatChanged, FramesFit
    <2>4. CASE ear.step # "down"
      <3> DEFINE f == Push(Len(deltas) + 1)
      <3>1. f \in FrameRow /\ Fits(f, Len(deltas'))
        BY <1>3, <2>1 DEF Push, FrameRow, Fits, WireInv, WireTyped, EarRow
      <3>2. wire' = Append(wire, f)
        BY <2>4 DEF ChatChanged
      <3> HIDE DEF f
      <3>3. Append(wire, f) \in Seq(FrameRow) /\ Len(Append(wire, f)) = Len(wire) + 1
            /\ (\A i \in 1..Len(wire) : Append(wire, f)[i] = wire[i]) /\ Append(wire, f)[Len(wire) + 1] = f
        BY <2>1, <3>1, AppendProperties
      <3>4. ASSUME NEW i \in 1..Len(wire') PROVE Fits(wire'[i], Len(deltas'))
        <4>1. CASE i \in 1..Len(wire)
          BY <2>2, <3>2, <3>3, <4>1
        <4>2. CASE i = Len(wire) + 1
          BY <3>1, <3>2, <3>3, <4>2
        <4> QED  BY <2>1, <3>2, <3>3, <4>1, <4>2
      <3> QED  BY <3>2, <3>3, <3>4 DEF FramesFit
    <2> QED  BY <2>3, <2>4
  <1>6. WireTyped'
    <2>1. ear.last \in Nat
      BY DEF WireInv, WireTyped, EarRow
    <2>2. ear.step = "down" => wire' = <<>>
      BY DEF WireInv, WireTyped, ChatChanged
    <2> QED  BY <1>3, <1>4, <1>5, <2>1, <2>2 DEF WireInv, WireTyped
  <1>7. NotifiedIsPast'
    BY <1>3 DEF WireInv, NotifiedIsPast, AnnouncedOncePerSession
  <1> QED  BY <1>5, <1>6, <1>7 DEF WireInv

LEMMA FrameKeepsWire ==
    ASSUME WireInv, NEW n \in DOMAIN deltas, ServerAnswers(n) \/ ServerRepeats(n)
    PROVE  WireInv'
  <1>1. n \in 1..Len(deltas) /\ Len(deltas) \in Nat
    BY DEF WireInv, WireTyped
  <1>2. ASSUME NEW f \in FrameRow, Fits(f, Len(deltas)), wire' = Append(wire, f),
               ear.step # "down", UNCHANGED <<deltas, ear, notified>>, asked' \subseteq asked
        PROVE  WireInv'
    <2>1. FramesFit' /\ wire' \in Seq(FrameRow)
      BY <1>2, FramesJoin DEF WireInv
    <2>2. WireTyped'
      BY <1>2, <2>1 DEF WireInv, WireTyped
    <2>3. NotifiedIsPast'
      BY <1>2 DEF WireInv, NotifiedIsPast, AnnouncedOncePerSession
    <2> QED  BY <2>1, <2>2, <2>3 DEF WireInv
  <1>3. CASE ServerAnswers(n)
    <2>1. Reply(n) \in FrameRow /\ Fits(Reply(n), Len(deltas))
      BY <1>1 DEF Reply, FrameRow, Fits
    <2>2. ear.step # "down"
      BY <1>3 DEF ServerAnswers, WireInv, WireTyped
    <2>3. wire' = Append(wire, Reply(n)) /\ UNCHANGED <<deltas, ear, notified>> /\ asked' \subseteq asked
      BY <1>3 DEF ServerAnswers
    <2> QED  BY <1>2, <2>1, <2>2, <2>3
  <1>4. CASE ServerRepeats(n)
    <2>1. Push(n) \in FrameRow /\ Fits(Push(n), Len(deltas))
      BY <1>1, <1>4 DEF Push, FrameRow, Fits, ServerRepeats
    <2>2. ear.step # "down"
      BY <1>4 DEF ServerRepeats
    <2>3. wire' = Append(wire, Push(n)) /\ UNCHANGED <<deltas, ear, notified>> /\ asked' \subseteq asked
      BY <1>4 DEF ServerRepeats
    <2> QED  BY <1>2, <2>1, <2>2, <2>3
  <1> QED  BY <1>3, <1>4

LEMMA SessionKeepsWire ==
    ASSUME WireInv, Connect \/ Disconnect
    PROVE  WireInv'
  <1>1. deltas \in Seq(DeltaRow) /\ Len(deltas) \in Nat
    BY DEF WireInv, WireTyped
  <1>2. wire' = <<>> /\ asked' = {} /\ UNCHANGED deltas
    BY DEF WireInv, WireTyped, Connect, Disconnect
  <1>3. FramesFit' /\ wire' \in Seq(FrameRow)
    BY <1>2 DEF FramesFit
  <1>4. CASE Connect
    <2>1. ear' = [step |-> "listening", last |-> 0, about |-> 0]
      BY <1>4 DEF Connect, Down
    <2>2. ear' \in EarRow
      BY <1>1, <2>1 DEF EarRow
    <2>3. notified' = [n \in 1..MaxDeltas |-> 0]
      BY <1>4 DEF Connect, NobodyNotified
    <2>4. WireTyped'
      BY <1>1, <1>2, <1>3, <2>1, <2>2, <2>3 DEF WireInv, WireTyped
    <2>5. NotifiedIsPast'
      BY <2>1, <2>3 DEF NotifiedIsPast, AnnouncedOncePerSession
    <2> QED  BY <1>3, <2>4, <2>5 DEF WireInv
  <1>5. CASE Disconnect
    <2>1. ear' = [step |-> "down", last |-> 0, about |-> 0]
      BY <1>5 DEF Disconnect, Down
    <2>2. ear' \in EarRow
      BY <2>1 DEF EarRow
    <2>3. notified' = notified
      BY <1>5 DEF Disconnect
    <2>4. WireTyped'
      BY <1>1, <1>2, <1>3, <2>1, <2>2, <2>3 DEF WireInv, WireTyped
    <2>5. NotifiedIsPast'
      BY <1>1, <1>2, <2>1, <2>3 DEF WireInv, NotifiedIsPast, AnnouncedOncePerSession
    <2> QED  BY <1>3, <2>4, <2>5 DEF WireInv
  <1> QED  BY <1>4, <1>5

\* The first frame is one of the session.
LEMMA HeadFits ==
    ASSUME WireInv, wire # <<>>
    PROVE  /\ Head(wire) \in FrameRow /\ Head(wire) = wire[1] /\ 1 \in 1..Len(wire)
           /\ Fits(Head(wire), Len(deltas))
  <1>1. wire \in Seq(FrameRow)
    BY DEF WireInv, WireTyped
  <1>2. Head(wire) = wire[1] /\ 1 \in 1..Len(wire)
    BY <1>1
  <1>3. Head(wire) \in FrameRow
    BY <1>1, HeadTailProperties
  <1> QED  BY <1>2, <1>3 DEF WireInv, FramesFit

LEMMA HandleKeepsWire == WireInv /\ handle => WireInv'
  <1> SUFFICES ASSUME WireInv, handle
               PROVE  WireInv'
    OBVIOUS
  <1> DEFINE f == Head(wire)
  <1>1. f \in FrameRow /\ Fits(f, Len(deltas))
    BY HeadFits DEF handle
  <1> HIDE DEF f
  <1>2. wire # <<>> /\ wire' = Tail(wire) /\ deltas' = deltas /\ notified' = notified /\ ear.step = "listening"
    BY DEF handle
  <1>3. \/ Stale(f) /\ UNCHANGED <<ear, asked>>
        \/ /\ ~Stale(f)
           /\ ear' = [ear EXCEPT !.step = "asking", !.last = f.seq, !.about = f.about]
           /\ asked' = asked \union {f.about}
    BY DEF handle, f
  <1>4. ear \in EarRow /\ Len(deltas) \in Nat /\ Len(deltas) <= MaxDeltas /\ MaxDeltas \in Nat
    <2>1. ear \in EarRow /\ deltas \in Seq(DeltaRow) /\ Len(deltas) <= MaxDeltas
      BY DEF WireInv, WireTyped
    <2> QED  BY <2>1, MessengerAssumption
  <1>6. FramesFit' /\ wire' \in Seq(FrameRow)
    BY <1>2, FramesLeave DEF WireInv
  <1>7. CASE Stale(f) /\ UNCHANGED <<ear, asked>>
    <2>1. WireTyped'
      BY <1>2, <1>6, <1>7 DEF WireInv, WireTyped
    <2>2. NotifiedIsPast'
      BY <1>2, <1>7 DEF WireInv, NotifiedIsPast, AnnouncedOncePerSession
    <2> QED  BY <1>6, <2>1, <2>2 DEF WireInv
  <1>8. CASE /\ ~Stale(f)
             /\ ear' = [ear EXCEPT !.step = "asking", !.last = f.seq, !.about = f.about]
             /\ asked' = asked \union {f.about}
    <2>1. f.seq = f.about /\ f.about \in 1..Len(deltas) /\ f.seq > ear.last
      BY <1>1, <1>4, <1>8 DEF Stale, FrameRow, Fits, EarRow
    <2>2. ear'.step = "asking" /\ ear'.last = f.about /\ ear'.about = f.about
      BY <1>4, <1>8, <2>1 DEF EarRow
    <2>3. ear' \in EarRow
      BY <1>1, <1>4, <1>8 DEF EarRow, FrameRow
    <2>4. asked' \subseteq 1..Len(deltas)
      BY <1>8, <2>1 DEF WireInv, WireTyped
    <2>5. WireTyped'
      BY <1>2, <1>4, <1>6, <2>1, <2>2, <2>3, <2>4 DEF WireInv, WireTyped
    <2>6. notified[f.about] = 0
      <3>1. f.about \in 1..MaxDeltas /\ f.about > ear.last
        BY <1>4, <2>1
      <3>2. ~(notified[f.about] > 0)
        BY SMTT(30), <1>2, <1>4, <3>1 DEF WireInv, NotifiedIsPast, EarRow
      <3>3. notified[f.about] \in Nat
        BY <3>1 DEF WireInv, WireTyped
      <3> QED  BY <3>2, <3>3
    <2>7. NotifiedIsPast'
      <3>1. ASSUME NEW n \in 1..MaxDeltas, notified'[n] > 0
            PROVE  n <= Len(deltas') /\ n <= ear'.last
        <4>1. n <= Len(deltas) /\ n <= ear.last
          BY <1>2, <3>1 DEF WireInv, NotifiedIsPast
        <4> QED  BY <1>2, <1>4, <2>1, <2>2, <4>1 DEF EarRow
      <3>2. AnnouncedOncePerSession'
        BY <1>2 DEF WireInv, NotifiedIsPast, AnnouncedOncePerSession
      <3> QED  BY <1>2, <2>2, <2>6, <3>1, <3>2 DEF NotifiedIsPast
    <2> QED  BY <1>6, <2>5, <2>7 DEF WireInv
  <1> QED  BY <1>3, <1>7, <1>8

LEMMA WaitKeepsWire == WireInv /\ (_wait \/ _notify_new_message \/ NotNotified) => WireInv'
  <1> SUFFICES ASSUME WireInv, _wait \/ _notify_new_message \/ NotNotified
               PROVE  WireInv'
    OBVIOUS
  <1>1. ear \in EarRow /\ Len(deltas) \in Nat /\ Len(deltas) <= MaxDeltas /\ MaxDeltas \in Nat
    <2>1. ear \in EarRow /\ deltas \in Seq(DeltaRow) /\ Len(deltas) <= MaxDeltas
      BY DEF WireInv, WireTyped
    <2> QED  BY <2>1, MessengerAssumption
  <1>2. ear.step = "asking" /\ deltas' = deltas /\ asked' = asked
    BY DEF _wait, _notify_new_message, NotNotified
  <1>3. ear' = ear \/ ear' = [ear EXCEPT !.step = "listening"]
    BY DEF _wait, _notify_new_message, NotNotified
  <1>4. ear' \in EarRow /\ ear'.last = ear.last /\ ear'.about = ear.about
        /\ (ear'.step = "asking" \/ ear'.step = "listening")
    BY <1>1, <1>2, <1>3 DEF EarRow
  <1>5. FramesFit' /\ wire' \in Seq(FrameRow)
    <2>1. CASE NotNotified
      BY <1>2, <1>4, <2>1 DEF NotNotified, WireInv, WireTyped, FramesFit
    <2>2. CASE _wait \/ _notify_new_message
      <3>1. wire # <<>> /\ wire' = Tail(wire)
        BY <2>2 DEF _wait, _notify_new_message
      <3> QED  BY <1>2, <1>4, <3>1, FramesLeave DEF WireInv
    <2> QED  BY <2>1, <2>2
  <1>6. ear.about \in 1..MaxDeltas /\ ear.about <= Len(deltas) /\ ear.about = ear.last
        /\ notified[ear.about] = 0 /\ notified \in [1..MaxDeltas -> Nat]
    BY <1>1, <1>2 DEF WireInv, WireTyped, NotifiedIsPast
  <1>7. CASE notified' = notified
    <2>1. WireTyped'
      BY <1>2, <1>4, <1>5, <1>7 DEF WireInv, WireTyped
    <2>2. NotifiedIsPast'
      BY <1>1, <1>2, <1>4, <1>7 DEF WireInv, NotifiedIsPast, AnnouncedOncePerSession
    <2> QED  BY <1>5, <2>1, <2>2 DEF WireInv
  <1>8. CASE _notify_new_message
    <2>1. ear'.step = "listening"
      BY <1>1, <1>8 DEF _notify_new_message, EarRow
    <2>2. /\ \A n \in 1..MaxDeltas : n # ear.about => notified'[n] = notified[n]
          /\ notified'[ear.about] \in {0, 1} /\ notified' \in [1..MaxDeltas -> Nat]
      <3> DEFINE count == IF Concerns(ear.about) THEN notified[ear.about] + 1 ELSE notified[ear.about]
      <3>1. notified' = [notified EXCEPT ![ear.about] = count]
        BY <1>8 DEF _notify_new_message
      <3>2. count \in {0, 1}
        BY <1>6
      <3> HIDE DEF count
      <3> QED  BY <1>6, <3>1, <3>2
    <2>3. WireTyped'
      BY <1>2, <1>4, <1>5, <2>1, <2>2 DEF WireInv, WireTyped
    <2>4. NotifiedIsPast'
      <3>1. ASSUME NEW n \in 1..MaxDeltas
            PROVE  notified'[n] <= 1
                   /\ (notified'[n] > 0 => n <= Len(deltas') /\ n <= ear'.last)
        <4>1. CASE n = ear.about
          BY <1>2, <1>4, <1>6, <2>2, <4>1
        <4>2. CASE n # ear.about
          BY <1>2, <1>4, <2>2, <4>2 DEF WireInv, NotifiedIsPast, AnnouncedOncePerSession
        <4> QED  BY <4>1, <4>2
      <3> QED  BY <2>1, <3>1 DEF NotifiedIsPast, AnnouncedOncePerSession
    <2> QED  BY <1>5, <2>3, <2>4 DEF WireInv
  <1> QED  BY <1>7, <1>8 DEF _wait, NotNotified

LEMMA WireStays == WritesTyped /\ WireInv /\ [MessengerNext]_messengerVars => WireInv'
  <1> SUFFICES ASSUME WritesTyped, WireInv, [MessengerNext]_messengerVars
               PROVE  WireInv'
    OBVIOUS
  <1>1. ASSUME NEW c \in Chats, ClientWrites(c) PROVE WireInv'
    <2>1. ChatChanged(c, "client") /\ UNCHANGED <<ear, asked, notified>>
      BY <1>1 DEF ClientWrites
    <2> QED  BY <2>1, ChangeKeepsWire
  <1>2. ASSUME NEW r \in Senders, Reaches(r) PROVE WireInv'
    <2>1. ChatChanged(writing[r].chat, "account") /\ UNCHANGED <<ear, asked, notified>>
      BY <1>2 DEF Reaches
    <2>2. writing[r].chat \in Chats
      BY <1>2 DEF Reaches, WritesTyped
    <2> QED  BY <2>1, <2>2, ChangeKeepsWire
  <1>3. ASSUME NEW n \in DOMAIN deltas, ServerAnswers(n) \/ ServerRepeats(n) PROVE WireInv'
    BY <1>3, FrameKeepsWire
  <1>4. CASE Connect \/ Disconnect
    BY <1>4, SessionKeepsWire
  <1>5. CASE handle \/ _wait \/ _notify_new_message \/ NotNotified
    BY <1>5, HandleKeepsWire, WaitKeepsWire
  <1>6. CASE UNCHANGED <<deltas, wire, ear, asked, notified>>
    BY <1>6 DEF WireInv, WireTyped, FramesFit, NotifiedIsPast, AnnouncedOncePerSession
  <1>7. ASSUME NEW t \in Tabs, events_ws(t) \/ unsubscribe(t) \/ Rereads(t)
        PROVE UNCHANGED <<deltas, wire, ear, asked, notified>>
    BY <1>7 DEF events_ws, unsubscribe, Rereads
  <1>8. ASSUME NEW r \in Senders, NEW c \in Chats,
               send_message(r, c) \/ forward_message(r, c) \/ edit_message(r, c)
        PROVE UNCHANGED <<deltas, wire, ear, asked, notified>>
    BY <1>8 DEF send_message, forward_message, edit_message, AsksUpdates
  <1>9. ASSUME NEW r \in Senders, WriteRefused(r) \/ ChatWritten(r) \/ AnswerLost(r)
        PROVE UNCHANGED <<deltas, wire, ear, asked, notified>>
    BY <1>9 DEF WriteRefused, ChatWritten, AnswerLost
  <1>10. CASE UNCHANGED messengerVars
    BY <1>6, <1>10 DEF messengerVars
  <1> QED  BY <1>1, <1>2, <1>3, <1>4, <1>5, <1>6, <1>7, <1>8, <1>9, <1>10 DEF MessengerNext

(***************************************************************************)
(* max/listener.py: whatever frames the server repeats in a session, of    *)
(* its own or of earlier ones, a manager is told of a message once in it   *)
(* at most.                                                                *)
(***************************************************************************)
THEOREM MessagesAreAnnouncedOncePerSession == MessengerSpec => []AnnouncedOncePerSession
  <1>1. MessengerInit => WritesTyped /\ WireInv
    BY MessengerBegins
  <1>2. WritesTyped /\ WireInv /\ [MessengerNext]_messengerVars => WritesTyped' /\ WireInv'
    BY WritesStayTyped, WireStays
  <1>3. WireInv => AnnouncedOncePerSession
    BY DEF WireInv, NotifiedIsPast
  <1> QED  BY <1>1, <1>2, <1>3, PTL DEF MessengerSpec

\* An event put into a queue leaves the earlier ones there.
LEMMA PublishTells ==
    ASSUME TabsTyped, NEW e \in Events, tabs' = publish(e), NEW t \in Tabs, NEW c \in Chats
    PROVE  /\ Told(t, c) => Told(t, c)'
           /\ (/\ tabs[t].open /\ ~QueueFull(t)
               /\ e \in {[type |-> "resync"], [type |-> "chat_updated", chat |-> c]}) => Told(t, c)'
  <1>1. tabs[t].queue \in Seq(Events)
    BY DEF TabsTyped, TabRow
  <1>2. tabs'[t].queue = IF tabs[t].open /\ ~QueueFull(t) THEN Append(tabs[t].queue, e) ELSE tabs[t].queue
    BY PublishReaches
  <1>3. Append(tabs[t].queue, e) \in Seq(Events) /\ Len(Append(tabs[t].queue, e)) = Len(tabs[t].queue) + 1
        /\ (\A i \in 1..Len(tabs[t].queue) : Append(tabs[t].queue, e)[i] = tabs[t].queue[i])
        /\ Append(tabs[t].queue, e)[Len(tabs[t].queue) + 1] = e
    BY <1>1, AppendProperties
  <1>4. Len(tabs[t].queue) \in Nat /\ DOMAIN tabs[t].queue = 1..Len(tabs[t].queue)
        /\ DOMAIN Append(tabs[t].queue, e) = 1..Len(Append(tabs[t].queue, e))
    BY <1>1, <1>3, LenProperties
  <1>5. ASSUME Told(t, c) PROVE Told(t, c)'
    BY <1>2, <1>3, <1>4, <1>5 DEF Told
  <1>6. ASSUME tabs[t].open, ~QueueFull(t),
               e \in {[type |-> "resync"], [type |-> "chat_updated", chat |-> c]}
        PROVE  Told(t, c)'
    <2>1. tabs'[t].queue = Append(tabs[t].queue, e)
      BY <1>2, <1>6
    <2>2. Len(tabs[t].queue) + 1 \in DOMAIN tabs'[t].queue
      BY <1>3, <1>4, <2>1
    <2>3. tabs'[t].queue[Len(tabs[t].queue) + 1] = e
      BY <1>3, <2>1
    <2> QED  BY <1>6, <2>2, <2>3 DEF Told
  <1> QED  BY <1>5, <1>6

\* Frames put behind a push do not keep it from coming.
LEMMA JoinKeepsFresh ==
    ASSUME WireInv, NEW f \in FrameRow, NEW c \in Chats, ComesFresh(c, wire, ear.last, deltas),
           NEW d, \A n \in 1..Len(deltas) : d[n] = deltas[n]
    PROVE  ComesFresh(c, wire, ear.last, d) /\ ComesFresh(c, Append(wire, f), ear.last, d)
  <1>1. wire \in Seq(FrameRow)
    BY DEF WireInv, WireTyped
  <1>2. Append(wire, f) \in Seq(FrameRow) /\ Len(Append(wire, f)) = Len(wire) + 1
        /\ \A i \in 1..Len(wire) : Append(wire, f)[i] = wire[i]
    BY <1>1, AppendProperties
  <1>3. PICK i \in 1..Len(wire) :
            /\ wire[i].op = "message" /\ wire[i].seq > ear.last /\ deltas[wire[i].about].chat = c
            /\ \A j \in 1..(i - 1) : wire[j].seq < wire[i].seq
    BY DEF ComesFresh
  <1>4. wire[i].about \in 1..Len(deltas)
    BY DEF WireInv, FramesFit, Fits
  <1>5. Len(wire) \in Nat
    BY <1>1
  <1>6. ComesFresh(c, wire, ear.last, d)
    BY <1>3, <1>4 DEF ComesFresh
  <1>7. i \in 1..Len(Append(wire, f)) /\ Append(wire, f)[i] = wire[i]
        /\ \A j \in 1..(i - 1) : Append(wire, f)[j] = wire[j]
    BY <1>2, <1>5
  <1>8. ComesFresh(c, Append(wire, f), ear.last, d)
    BY <1>3, <1>4, <1>7 DEF ComesFresh
  <1> QED  BY <1>6, <1>8

\* The push of the newest change has the highest number.
LEMMA NewsComesFresh ==
    ASSUME WireInv, NEW f \in FrameRow, f.op = "message", f.seq = Len(deltas) + 1,
           NEW c \in Chats, NEW d, d[f.about].chat = c
    PROVE  ComesFresh(c, Append(wire, f), ear.last, d)
  <1>1. wire \in Seq(FrameRow) /\ ear.last <= Len(deltas) /\ ear \in EarRow /\ Len(deltas) \in Nat
    <2>1. deltas \in Seq(DeltaRow)
      BY DEF WireInv, WireTyped
    <2> QED  BY <2>1 DEF WireInv, WireTyped
  <1>2. Append(wire, f) \in Seq(FrameRow) /\ Len(Append(wire, f)) = Len(wire) + 1
        /\ (\A i \in 1..Len(wire) : Append(wire, f)[i] = wire[i]) /\ Append(wire, f)[Len(wire) + 1] = f
    BY <1>1, AppendProperties
  <1>3. Len(wire) \in Nat
    BY <1>1
  <1>4. ASSUME NEW j \in 1..Len(wire) PROVE wire[j].seq < f.seq
    <2>1. Fits(wire[j], Len(deltas)) /\ wire[j] \in FrameRow
      BY <1>1 DEF WireInv, FramesFit
    <2> QED  BY <1>1, <2>1 DEF Fits, FrameRow
  <1>5. f.seq > ear.last
    BY <1>1 DEF EarRow
  <1>6. Len(wire) + 1 \in 1..Len(Append(wire, f))
    BY <1>2, <1>3
  <1>7. \A j \in 1..(Len(wire) + 1 - 1) : Append(wire, f)[j].seq < f.seq
    BY <1>2, <1>3, <1>4
  <1> QED  BY <1>2, <1>5, <1>6, <1>7 DEF ComesFresh

\* A push that comes behind the first frame still comes when that is taken.
LEMMA LeaveKeepsFresh ==
    ASSUME WireInv, wire # <<>>, NEW c \in Chats, ComesFresh(c, wire, ear.last, deltas),
           ~(Head(wire).op = "message" /\ Head(wire).seq > ear.last /\ ChatOf(Head(wire).about) = c),
           NEW last \in {ear.last, Head(wire).seq}
    PROVE  ComesFresh(c, Tail(wire), last, deltas)
  <1>1. wire \in Seq(FrameRow)
    BY DEF WireInv, WireTyped
  <1>2. Tail(wire) \in Seq(FrameRow) /\ Len(Tail(wire)) = Len(wire) - 1
        /\ \A i \in 1..Len(Tail(wire)) : Tail(wire)[i] = wire[i + 1]
    BY <1>1, HeadTailProperties
  <1>3. Len(wire) \in Nat /\ Head(wire) = wire[1]
    BY <1>1
  <1>4. PICK i \in 1..Len(wire) :
            /\ wire[i].op = "message" /\ wire[i].seq > ear.last /\ deltas[wire[i].about].chat = c
            /\ \A j \in 1..(i - 1) : wire[j].seq < wire[i].seq
    BY DEF ComesFresh
  <1>5. i # 1
    BY <1>3, <1>4 DEF ChatOf
  <1> DEFINE k == i - 1
  <1>6. k \in 1..Len(Tail(wire)) /\ Tail(wire)[k] = wire[i] /\ k + 1 = i /\ 1 \in 1..(i - 1)
    BY <1>2, <1>3, <1>5
  <1>7. wire[i].seq > last
    BY <1>3, <1>4, <1>6
  <1>8. ASSUME NEW j \in 1..(k - 1) PROVE Tail(wire)[j].seq < Tail(wire)[k].seq
    <2>1. j + 1 \in 1..(i - 1) /\ Tail(wire)[j] = wire[j + 1]
      BY <1>2, <1>3, <1>6
    <2> QED  BY <1>4, <1>6, <2>1
  <1> HIDE DEF k
  <1> QED  BY <1>4, <1>6, <1>7, <1>8 DEF ComesFresh

\* A tab that connects, leaves or reads again knows what it shows.
LEMMA TabsKeepStale ==
    ASSUME TabsTyped, StaleInv, NEW t \in Tabs, events_ws(t) \/ unsubscribe(t)
    PROVE  StaleInv'
  <1>1. UNCHANGED <<deltas, wire, ear>> /\ missed' = {p \in missed : p[1] # t}
    BY DEF events_ws, unsubscribe
  <1>2. tabs' = [tabs EXCEPT ![t] = [NotOpen EXCEPT !.open = TRUE]] \/ tabs' = [tabs EXCEPT ![t] = NotOpen]
    BY DEF events_ws, unsubscribe
  <1>3. tabs'[t].stale = {} /\ \A u \in Tabs : u # t => tabs'[u] = tabs[u]
    BY <1>2 DEF NotOpen, TabsTyped
  <1>4. ASSUME NEW u \in Tabs, NEW c \in tabs'[u].stale
        PROVE  Told(u, c)' \/ ComesFresh(c, wire', ear'.last, deltas') \/ ear'.step = "down" \/ <<u, c>> \in missed'
    <2>1. u # t /\ tabs'[u] = tabs[u] /\ c \in tabs[u].stale
      BY <1>3, <1>4
    <2>2. Told(u, c) \/ ComesFresh(c, wire, ear.last, deltas) \/ ear.step = "down" \/ <<u, c>> \in missed
      BY <2>1 DEF StaleInv
    <2>3. Told(u, c) => Told(u, c)'
      BY <2>1 DEF Told
    <2> QED  BY <1>1, <2>1, <2>2, <2>3
  <1> QED  BY <1>4 DEF StaleInv

LEMMA RereadKeepsStale ==
    ASSUME TabsTyped, StaleInv, NEW t \in Tabs, Rereads(t)
    PROVE  StaleInv'
  <1> DEFINE e == Head(tabs[t].queue)
             read == IF e.type = "resync" THEN Chats ELSE {e.chat}
  <1>1. UNCHANGED <<deltas, wire, ear>> /\ missed' = missed \ ({t} \X read)
    BY DEF Rereads
  <1>2. tabs[t] \in TabRow
    BY DEF TabsTyped
  <1>3. tabs[t].queue \in Seq(Events) /\ tabs[t].queue # <<>> /\ tabs[t].stale \subseteq Chats
    BY <1>2 DEF TabRow, Rereads
  <1>4. tabs'[t].stale = tabs[t].stale \ read /\ tabs'[t].queue = Tail(tabs[t].queue)
        /\ \A u \in Tabs : u # t => tabs'[u] = tabs[u]
    <2>1. tabs' = [tabs EXCEPT ![t] = [tabs[t] EXCEPT !.queue = Tail(tabs[t].queue), !.stale = tabs[t].stale \ read]]
      BY DEF Rereads
    <2> QED  BY <1>2, <2>1 DEF TabsTyped, TabRow
  <1>5. Tail(tabs[t].queue) \in Seq(Events) /\ Len(Tail(tabs[t].queue)) = Len(tabs[t].queue) - 1
        /\ \A i \in 1..Len(Tail(tabs[t].queue)) : Tail(tabs[t].queue)[i] = tabs[t].queue[i + 1]
    BY <1>3, HeadTailProperties
  <1>6. e = tabs[t].queue[1] /\ Len(tabs[t].queue) \in Nat
        /\ DOMAIN tabs[t].queue = 1..Len(tabs[t].queue) /\ DOMAIN Tail(tabs[t].queue) = 1..Len(Tail(tabs[t].queue))
    BY <1>3, <1>5, LenProperties
  <1> HIDE DEF e
  <1>7. ASSUME NEW c \in tabs'[t].stale PROVE Told(t, c) => Told(t, c)'
    <2> SUFFICES ASSUME Told(t, c) PROVE Told(t, c)'
      OBVIOUS
    <2>1. PICK i \in DOMAIN tabs[t].queue :
              tabs[t].queue[i] \in {[type |-> "resync"], [type |-> "chat_updated", chat |-> c]}
      BY DEF Told
    <2>2. c \in Chats /\ c \notin read
      BY <1>3, <1>4, <1>7
    <2>3. e # [type |-> "resync"] /\ e # [type |-> "chat_updated", chat |-> c]
      BY <2>2
    <2>4. i # 1
      BY <1>6, <2>1, <2>3
    <2>5. i - 1 \in 1..Len(Tail(tabs[t].queue)) /\ Tail(tabs[t].queue)[i - 1] = tabs[t].queue[i]
      BY <1>5, <1>6, <2>1, <2>4
    <2>6. i - 1 \in DOMAIN tabs'[t].queue /\ tabs'[t].queue[i - 1] = tabs[t].queue[i]
      BY <1>4, <1>6, <2>5
    <2> QED  BY <2>1, <2>6 DEF Told
  <1>8. ASSUME NEW u \in Tabs, NEW c \in tabs'[u].stale
        PROVE  Told(u, c)' \/ ComesFresh(c, wire', ear'.last, deltas') \/ ear'.step = "down" \/ <<u, c>> \in missed'
    <2>1. CASE u = t
      <3>1. c \in tabs[t].stale /\ c \notin read
        BY <1>4, <1>8, <2>1
      <3>2. Told(t, c) \/ ComesFresh(c, wire, ear.last, deltas) \/ ear.step = "down" \/ <<t, c>> \in missed
        BY <3>1 DEF StaleInv
      <3>3. Told(t, c) => Told(t, c)'
        BY <1>7, <1>8, <2>1
      <3>4. <<t, c>> \notin {t} \X read
        BY <3>1
      <3> QED  BY <1>1, <2>1, <3>2, <3>3, <3>4
    <2>2. CASE u # t
      <3>1. tabs'[u] = tabs[u] /\ c \in tabs[u].stale
        BY <1>4, <1>8, <2>2
      <3>2. Told(u, c) \/ ComesFresh(c, wire, ear.last, deltas) \/ ear.step = "down" \/ <<u, c>> \in missed
        BY <3>1 DEF StaleInv
      <3>3. Told(u, c) => Told(u, c)'
        BY <3>1 DEF Told
      <3>4. <<u, c>> \notin {t} \X read
        BY <2>2
      <3> QED  BY <1>1, <3>2, <3>3, <3>4
    <2> QED  BY <2>1, <2>2
  <1> QED  BY <1>8 DEF StaleInv

\* Every tab a change makes stale is told of it: its push has the highest number.
LEMMA ChangeKeepsStale ==
    ASSUME TabsTyped, WireInv, StaleInv, NEW c \in Chats, NEW from \in {"client", "account"},
           ChatChanged(c, from), tabs' = Outdated(c), UNCHANGED <<ear, missed>>
    PROVE  StaleInv'
  <1> DEFINE d == [chat |-> c, from |-> from]
             f == Push(Len(deltas) + 1)
  <1>1. d \in DeltaRow /\ d.chat = c
    BY DEF DeltaRow
  <1>2. deltas \in Seq(DeltaRow) /\ deltas' = Append(deltas, d)
    BY DEF WireInv, WireTyped, ChatChanged
  <1> HIDE DEF d
  <1>3. Len(deltas) \in Nat /\ (\A n \in 1..Len(deltas) : deltas'[n] = deltas[n]) /\ deltas'[Len(deltas) + 1] = d
    BY <1>1, <1>2, AppendProperties
  <1>4. f \in FrameRow /\ f.op = "message" /\ f.seq = Len(deltas) + 1 /\ f.about = Len(deltas) + 1
    BY <1>3 DEF Push, FrameRow
  <1>5. ear.step = "down" \/ wire' = Append(wire, f)
    BY DEF ChatChanged
  <1> HIDE DEF f
  <1>6. deltas'[f.about].chat = c
    BY <1>1, <1>3, <1>4
  <1>7. \A t \in Tabs : /\ tabs'[t].queue = tabs[t].queue
                        /\ tabs'[t].stale = IF tabs[t].open THEN tabs[t].stale \union {c} ELSE tabs[t].stale
    BY OutdatedReaches
  <1>8. ASSUME NEW u \in Tabs, NEW x \in tabs'[u].stale
        PROVE  Told(u, x)' \/ ComesFresh(x, wire', ear'.last, deltas') \/ ear'.step = "down" \/ <<u, x>> \in missed'
    <2>1. CASE ear.step = "down"
      BY <2>1
    <2>2. CASE x = c /\ wire' = Append(wire, f)
      <3>1. ComesFresh(c, Append(wire, f), ear.last, deltas')
        BY <1>4, <1>6, NewsComesFresh
      <3> QED  BY <2>2, <3>1
    <2>3. CASE x # c /\ wire' = Append(wire, f)
      <3>1. x \in tabs[u].stale
        BY <1>7, <1>8, <2>3
      <3>2. Told(u, x) \/ ComesFresh(x, wire, ear.last, deltas) \/ ear.step = "down" \/ <<u, x>> \in missed
        BY <3>1 DEF StaleInv
      <3>3. Told(u, x) => Told(u, x)'
        BY <1>7 DEF Told
      <3>4. x \in Chats
        BY <3>1 DEF TabsTyped, TabRow
      <3>5. ComesFresh(x, wire, ear.last, deltas) => ComesFresh(x, Append(wire, f), ear.last, deltas')
        BY <1>3, <1>4, <3>4, JoinKeepsFresh
      <3> QED  BY <2>3, <3>2, <3>3, <3>5
    <2> QED  BY <1>5, <2>1, <2>2, <2>3
  <1> QED  BY <1>8 DEF StaleInv

LEMMA FrameKeepsStale ==
    ASSUME TabsTyped, WireInv, StaleInv, NEW n \in DOMAIN deltas, ServerAnswers(n) \/ ServerRepeats(n)
    PROVE  StaleInv'
  <1>1. n \in Nat
    BY DEF WireInv, WireTyped
  <1>2. Push(n) \in FrameRow /\ Reply(n) \in FrameRow
    BY <1>1 DEF Push, Reply, FrameRow
  <1>3. PICK f \in FrameRow : wire' = Append(wire, f)
    BY <1>2 DEF ServerAnswers, ServerRepeats
  <1>4. UNCHANGED <<deltas, ear, tabs, missed>>
    BY DEF ServerAnswers, ServerRepeats
  <1>5. ASSUME NEW u \in Tabs, NEW x \in tabs[u].stale
        PROVE  Told(u, x)' \/ ComesFresh(x, wire', ear'.last, deltas') \/ ear'.step = "down" \/ <<u, x>> \in missed'
    <2>1. Told(u, x) \/ ComesFresh(x, wire, ear.last, deltas) \/ ear.step = "down" \/ <<u, x>> \in missed
      BY <1>5 DEF StaleInv
    <2>2. Told(u, x) => Told(u, x)'
      BY <1>4 DEF Told
    <2>3. x \in Chats
      BY <1>5 DEF TabsTyped, TabRow
    <2>4. ComesFresh(x, wire, ear.last, deltas) => ComesFresh(x, Append(wire, f), ear.last, deltas)
      BY <2>3, JoinKeepsFresh
    <2> QED  BY <1>3, <1>4, <2>1, <2>2, <2>4
  <1> QED  BY <1>4, <1>5 DEF StaleInv

\* A tab that is not told for want of room has missed the event.
LEMMA PublishCovers ==
    ASSUME TabsTyped, NEW e \in Events, tabs' = publish(e), NEW t \in Tabs, NEW c \in Chats,
           e \in {[type |-> "resync"], [type |-> "chat_updated", chat |-> c]},
           c \in tabs[t].stale, Overflown(c) \subseteq missed'
    PROVE  Told(t, c)' \/ <<t, c>> \in missed'
  <1>1. tabs[t].open
    BY DEF TabsTyped
  <1>2. ASSUME ~QueueFull(t) PROVE Told(t, c)'
    BY <1>1, <1>2, PublishTells
  <1>3. ASSUME QueueFull(t) PROVE <<t, c>> \in Overflown(c)
    BY <1>1, <1>3 DEF Overflown
  <1> QED  BY <1>2, <1>3

\* What was covered before stays so when an event is published.
LEMMA PublishKeepsTold ==
    ASSUME TabsTyped, NEW e \in Events, tabs' = publish(e), missed \subseteq missed',
           NEW t \in Tabs, NEW c \in tabs'[t].stale, Told(t, c) \/ <<t, c>> \in missed
    PROVE  Told(t, c)' \/ <<t, c>> \in missed'
  <1>1. c \in Chats
    <2>1. tabs'[t] \in TabRow
      BY PublishReaches
    <2> QED  BY <2>1 DEF TabRow
  <1> QED  BY <1>1, PublishTells

LEMMA SessionKeepsStale ==
    ASSUME TabsTyped, WireInv, StaleInv, Connect \/ Disconnect
    PROVE  StaleInv'
  <1>1. CASE Disconnect
    BY <1>1 DEF Disconnect, Down, StaleInv
  <1>2. CASE Connect
    <2> DEFINE e == [type |-> "resync"]
    <2>1. tabs' = publish(e) /\ e \in Events
      BY <1>2 DEF Connect, Events
    <2>2. \A c \in Chats : Overflown(c) \subseteq missed'
      BY <1>2 DEF Connect
    <2>3. ASSUME NEW u \in Tabs, NEW x \in tabs'[u].stale PROVE Told(u, x)' \/ <<u, x>> \in missed'
      <3>1. x \in tabs[u].stale
        BY <2>1, <2>3, PublishReaches
      <3>2. x \in Chats
        BY <3>1 DEF TabsTyped, TabRow
      <3>3. Overflown(x) \subseteq missed' /\ e \in {[type |-> "resync"], [type |-> "chat_updated", chat |-> x]}
        BY <2>2, <3>2
      <3> QED  BY <2>1, <3>1, <3>2, <3>3, PublishCovers
    <2> QED  BY <2>3 DEF StaleInv
  <1> QED  BY <1>1, <1>2

LEMMA WrittenKeepsStale ==
    ASSUME TabsTyped, WritesTyped, StaleInv, NEW r \in Senders, ChatWritten(r)
    PROVE  StaleInv'
  <1> DEFINE e == [type |-> "chat_updated", chat |-> writing[r].chat]
  <1>1. tabs' = publish(e) /\ UNCHANGED <<deltas, wire, ear>> /\ missed \subseteq missed'
    BY DEF ChatWritten, chat_updated
  <1>2. e \in Events
    BY DEF ChatWritten, WritesTyped, Events
  <1>3. ASSUME NEW u \in Tabs, NEW x \in tabs'[u].stale
        PROVE  Told(u, x)' \/ ComesFresh(x, wire', ear'.last, deltas') \/ ear'.step = "down" \/ <<u, x>> \in missed'
    <2>1. x \in tabs[u].stale
      BY <1>1, <1>2, <1>3, PublishReaches
    <2>2. Told(u, x) \/ ComesFresh(x, wire, ear.last, deltas) \/ ear.step = "down" \/ <<u, x>> \in missed
      BY <2>1 DEF StaleInv
    <2>3. Told(u, x) \/ <<u, x>> \in missed => Told(u, x)' \/ <<u, x>> \in missed'
      BY <1>1, <1>2, <1>3, PublishKeepsTold
    <2> QED  BY <1>1, <2>2, <2>3
  <1> QED  BY <1>3 DEF StaleInv

\* A new push tells the tabs, and the pushes behind it have higher numbers.
LEMMA HandleKeepsStale ==
    ASSUME TabsTyped, WireInv, StaleInv, handle
    PROVE  StaleInv'
  <1> DEFINE f == Head(wire)
  <1>1. f \in FrameRow /\ Fits(f, Len(deltas)) /\ wire # <<>> /\ wire' = Tail(wire)
        /\ deltas' = deltas
    BY HeadFits DEF handle
  <1>2. \/ Stale(f) /\ UNCHANGED <<ear, tabs, missed>>
        \/ /\ ~Stale(f) /\ ear'.last = f.seq /\ tabs' = chat_updated(ChatOf(f.about))
           /\ missed' = missed \union Overflown(ChatOf(f.about))
    <2>1. ear \in EarRow
      BY DEF WireInv, WireTyped
    <2> QED  BY <2>1 DEF handle, EarRow
  <1>3. ear.step # "down"
    BY DEF handle
  <1>4. ear.last \in Nat /\ f.seq \in Nat
    BY <1>1 DEF WireInv, WireTyped, EarRow, FrameRow
  <1>5. CASE Stale(f) /\ UNCHANGED <<ear, tabs, missed>>
    <2>1. ASSUME NEW u \in Tabs, NEW x \in tabs[u].stale
          PROVE  Told(u, x)' \/ ComesFresh(x, wire', ear'.last, deltas') \/ <<u, x>> \in missed'
      <3>1. Told(u, x) \/ ComesFresh(x, wire, ear.last, deltas) \/ <<u, x>> \in missed
        BY <1>3, <2>1 DEF StaleInv
      <3>2. Told(u, x) => Told(u, x)'
        BY <1>5 DEF Told
      <3>3. ~(f.op = "message" /\ f.seq > ear.last /\ ChatOf(f.about) = x)
        BY <1>4, <1>5 DEF Stale
      <3>4. x \in Chats
        BY <2>1 DEF TabsTyped, TabRow
      <3>5. ComesFresh(x, wire, ear.last, deltas) => ComesFresh(x, Tail(wire), ear.last, deltas)
        BY <1>1, <3>3, <3>4, LeaveKeepsFresh
      <3> QED  BY <1>1, <1>5, <3>1, <3>2, <3>5
    <2> QED  BY <1>5, <2>1 DEF StaleInv
  <1>6. CASE /\ ~Stale(f) /\ ear'.last = f.seq /\ tabs' = chat_updated(ChatOf(f.about))
             /\ missed' = missed \union Overflown(ChatOf(f.about))
    <2> DEFINE c == ChatOf(f.about)
               e == [type |-> "chat_updated", chat |-> c]
    <2>1. c \in Chats
      <3>1. deltas[f.about] \in DeltaRow
        BY <1>1 DEF WireInv, WireTyped, Fits
      <3> QED  BY <3>1 DEF ChatOf, DeltaRow
    <2>2. e \in Events /\ tabs' = publish(e) /\ missed' = missed \union Overflown(c)
      BY <1>6, <2>1 DEF Events, chat_updated
    <2> HIDE DEF c
    <2>3. ASSUME NEW u \in Tabs, NEW x \in tabs'[u].stale
          PROVE  Told(u, x)' \/ ComesFresh(x, wire', ear'.last, deltas') \/ <<u, x>> \in missed'
      <3>1. x \in tabs[u].stale
        BY <2>2, <2>3, PublishReaches
      <3>2. x \in Chats
        BY <3>1 DEF TabsTyped, TabRow
      <3>3. CASE x = c
        <4>1. Overflown(x) \subseteq missed' /\ e \in {[type |-> "resync"], [type |-> "chat_updated", chat |-> x]}
          BY <2>2, <3>3
        <4> QED  BY <2>2, <3>1, <3>2, <4>1, PublishCovers
      <3>4. CASE x # c
        <4>1. Told(u, x) \/ ComesFresh(x, wire, ear.last, deltas) \/ <<u, x>> \in missed
          BY <1>3, <3>1 DEF StaleInv
        <4>2. missed \subseteq missed'
          BY <2>2
        <4>3. Told(u, x) \/ <<u, x>> \in missed => Told(u, x)' \/ <<u, x>> \in missed'
          BY <2>2, <2>3, <4>2, PublishKeepsTold
        <4>4. ~(f.op = "message" /\ f.seq > ear.last /\ ChatOf(f.about) = x)
          BY <3>4 DEF c
        <4>5. f.seq \in {ear.last, f.seq}
          OBVIOUS
        <4>6. ComesFresh(x, wire, ear.last, deltas) => ComesFresh(x, Tail(wire), f.seq, deltas)
          BY <1>1, <3>2, <4>4, <4>5, LeaveKeepsFresh
        <4> QED  BY <1>1, <1>6, <4>1, <4>3, <4>6
      <3> QED  BY <3>3, <3>4
    <2> QED  BY <2>3 DEF StaleInv
  <1> QED  BY <1>2, <1>5, <1>6

\* What _wait throws away is missed; an answer is no push.
LEMMA WaitKeepsStale ==
    ASSUME TabsTyped, WireInv, StaleInv, _wait \/ _notify_new_message \/ NotNotified
    PROVE  StaleInv'
  <1>1. ear \in EarRow /\ ear.step = "asking" /\ deltas' = deltas /\ tabs' = tabs
    BY DEF WireInv, WireTyped, _wait, _notify_new_message, NotNotified
  <1>2. ear'.last = ear.last
    BY <1>1 DEF EarRow, _wait, _notify_new_message, NotNotified
  <1>3. ASSUME NEW u \in Tabs, NEW x \in tabs[u].stale
        PROVE  Told(u, x)' \/ ComesFresh(x, wire', ear'.last, deltas') \/ <<u, x>> \in missed'
    <2>1. Told(u, x) \/ ComesFresh(x, wire, ear.last, deltas) \/ <<u, x>> \in missed
      BY <1>1, <1>3 DEF StaleInv
    <2>2. Told(u, x) => Told(u, x)'
      BY <1>1 DEF Told
    <2>3. x \in Chats /\ tabs[u].open
      BY <1>3 DEF TabsTyped, TabRow
    <2>4. missed \subseteq missed'
      BY DEF _wait, _notify_new_message, NotNotified
    <2>5. CASE NotNotified
      BY <1>1, <1>2, <2>1, <2>2, <2>4, <2>5 DEF NotNotified
    <2>6. CASE _wait \/ _notify_new_message
      <3>1. wire # <<>> /\ wire' = Tail(wire)
        BY <2>6 DEF _wait, _notify_new_message
      <3>2. CASE Head(wire).op = "message" /\ Head(wire).seq > ear.last /\ ChatOf(Head(wire).about) = x
        <4>1. Head(wire) \in FrameRow /\ ear.last \in Nat
          BY <1>1, <3>1, HeadFits DEF EarRow
        <4>2. ~Stale(Head(wire))
          BY <3>2, <4>1 DEF Stale, FrameRow
        <4>3. Head(wire) # Reply(ear.about)
          BY <3>2 DEF Reply
        <4>4. <<u, x>> \in missed'
          BY <2>3, <2>6, <3>2, <4>2, <4>3 DEF _wait, _notify_new_message
        <4> QED  BY <4>4
      <3>3. CASE ~(Head(wire).op = "message" /\ Head(wire).seq > ear.last /\ ChatOf(Head(wire).about) = x)
        <4>1. ComesFresh(x, wire, ear.last, deltas) => ComesFresh(x, Tail(wire), ear.last, deltas)
          BY <2>3, <3>1, <3>3, LeaveKeepsFresh
        <4> QED  BY <1>1, <1>2, <2>1, <2>2, <2>4, <3>1, <4>1
      <3> QED  BY <3>2, <3>3
    <2> QED  BY <2>5, <2>6
  <1> QED  BY <1>1, <1>3 DEF StaleInv

LEMMA StaleStays ==
    TabsTyped /\ WritesTyped /\ WireInv /\ StaleInv /\ [MessengerNext]_messengerVars => StaleInv'
  <1> SUFFICES ASSUME TabsTyped, WritesTyped, WireInv, StaleInv, [MessengerNext]_messengerVars
               PROVE  StaleInv'
    OBVIOUS
  <1>1. ASSUME NEW t \in Tabs, events_ws(t) \/ unsubscribe(t) \/ Rereads(t) PROVE StaleInv'
    BY <1>1, TabsKeepStale, RereadKeepsStale
  <1>2. ASSUME NEW c \in Chats, ClientWrites(c) PROVE StaleInv'
    <2>1. ChatChanged(c, "client") /\ UNCHANGED <<ear, missed>> /\ tabs' = Outdated(c)
      BY <1>2 DEF ClientWrites, Outdated
    <2> QED  BY <2>1, ChangeKeepsStale
  <1>3. ASSUME NEW r \in Senders, Reaches(r) PROVE StaleInv'
    <2>1. ChatChanged(writing[r].chat, "account") /\ UNCHANGED <<ear, missed>>
          /\ tabs' = Outdated(writing[r].chat)
      BY <1>3 DEF Reaches, Outdated
    <2>2. writing[r].chat \in Chats
      BY <1>3 DEF Reaches, WritesTyped
    <2> QED  BY <2>1, <2>2, ChangeKeepsStale
  <1>4. ASSUME NEW n \in DOMAIN deltas, ServerAnswers(n) \/ ServerRepeats(n) PROVE StaleInv'
    BY <1>4, FrameKeepsStale
  <1>5. CASE Connect \/ Disconnect
    BY <1>5, SessionKeepsStale
  <1>6. CASE handle
    BY <1>6, HandleKeepsStale
  <1>7. CASE _wait \/ _notify_new_message \/ NotNotified
    BY <1>7, WaitKeepsStale
  <1>8. ASSUME NEW r \in Senders, ChatWritten(r) PROVE StaleInv'
    BY <1>8, WrittenKeepsStale
  <1>9. CASE UNCHANGED <<deltas, wire, ear, tabs, missed>>
    BY <1>9 DEF StaleInv, Told
  <1>10. ASSUME NEW r \in Senders, NEW c \in Chats,
                send_message(r, c) \/ forward_message(r, c) \/ edit_message(r, c)
         PROVE UNCHANGED <<deltas, wire, ear, tabs, missed>>
    BY <1>10 DEF send_message, forward_message, edit_message, AsksUpdates
  <1>11. ASSUME NEW r \in Senders, WriteRefused(r) \/ AnswerLost(r)
         PROVE UNCHANGED <<deltas, wire, ear, tabs, missed>>
    BY <1>11 DEF WriteRefused, AnswerLost
  <1>12. CASE UNCHANGED messengerVars
    BY <1>9, <1>12 DEF messengerVars
  <1> QED  BY <1>1, <1>2, <1>3, <1>4, <1>5, <1>6, <1>7, <1>8, <1>9, <1>10, <1>11, <1>12 DEF MessengerNext

\* A tab that misses a change is told of it, or will be.
LEMMA StaleAreTold == TabsTyped /\ WireInv /\ StaleInv => StaleTabsAreTold
  <1> SUFFICES ASSUME TabsTyped, WireInv, StaleInv, NEW t \in Tabs, NEW c \in tabs[t].stale
               PROVE  Told(t, c) \/ Coming(c) \/ ear.step = "down" \/ <<t, c>> \in missed
    BY DEF StaleTabsAreTold
  <1>1. DOMAIN wire = 1..Len(wire)
    BY DEF WireInv, WireTyped
  <1>2. ComesFresh(c, wire, ear.last, deltas) => Coming(c)
    BY <1>1 DEF ComesFresh, Coming, ChatOf
  <1> QED  BY <1>2 DEF StaleInv

(***************************************************************************)
(* max/listener.py, max/realtime.py: a tab that shows a chat as it was has *)
(* the event before it, or the push is still to be handled, or the         *)
(* listener will resynchronise; but for what a full queue or _wait lost.   *)
(***************************************************************************)
THEOREM TabsLearnOfChanges == MessengerSpec => []StaleTabsAreTold
  <1>1. MessengerInit => TabsTyped /\ WritesTyped /\ WireInv /\ StaleInv
    BY MessengerBegins
  <1>2. TabsTyped /\ WritesTyped /\ WireInv /\ StaleInv /\ [MessengerNext]_messengerVars
        => TabsTyped' /\ WritesTyped' /\ WireInv' /\ StaleInv'
    BY TabsStayTyped, WritesStayTyped, WireStays, StaleStays
  <1>3. TabsTyped /\ WireInv /\ StaleInv => StaleTabsAreTold
    BY StaleAreTold
  <1> QED  BY <1>1, <1>2, <1>3, PTL DEF MessengerSpec

------------------------------------------------------------------------------
(* Meetings                                                                 *)

UseRow == [step : {"idle", "read", "digest", "asking", "send"},
           does : {"none", "append", "title", "audio", "delete", "finish", "notes"},
           status : {"none", "recording", "finished"}, title : {"none", "person", "model"},
           read : Nat, force : BOOLEAN]

MeetingRow == [there : BOOLEAN, status : {"recording", "finished"},
               title : {"none", "person", "model"}, audio : BOOLEAN]
NotesRow == [there : BOOLEAN, count : Nat]

MeetingTyped ==
    /\ meeting \in MeetingRow
    /\ meetingLines \in Nat
    /\ notes \in NotesRow
    /\ uses \in [Browsers -> UseRow]

\* A digest that is asked for holds the lock of the meeting
AskingIsLocked == \A b \in Browsers : uses[b].step = "asking" => meetingLocked = b

\* It is of lines that are there, and of all the notes are of
AskingIsNewer ==
    meeting.there =>
        /\ notes.count <= meetingLines
        /\ \A b \in Browsers : uses[b].step = "asking" =>
               notes.count <= uses[b].read /\ uses[b].read <= meetingLines

(***************************************************************************)
(* Why notes never go back: between reading the lines and writing their    *)
(* digest a request keeps the others from doing the same.                  *)
(***************************************************************************)
MeetingInv == MeetingTyped /\ AskingIsLocked /\ AskingIsNewer

LEMMA MeetingBegins == MeetingsInit => MeetingInv
  <1> SUFFICES ASSUME MeetingsInit
               PROVE  MeetingInv
    OBVIOUS
  <1>1. NoUse \in UseRow /\ NoUse.step = "idle"
    BY DEF NoUse, UseRow
  <1>2. MeetingTyped
    BY <1>1 DEF MeetingsInit, MeetingTyped, MeetingRow, NotesRow, NoNotes
  <1> QED  BY <1>1, <1>2 DEF MeetingsInit, MeetingInv, AskingIsLocked, AskingIsNewer, NoNotes

\* A request that neither asks nor writes notes, of lines that only grow.
LEMMA UseKeeps ==
    ASSUME MeetingInv, NEW b \in Browsers, NEW row \in UseRow, row.step # "asking",
           uses' = [uses EXCEPT ![b] = row], UNCHANGED meetingLocked,
           MeetingTyped', meeting'.there => meeting.there /\ notes'.count = notes.count /\ meetingLines <= meetingLines'
    PROVE  MeetingInv'
  <1>1. ASSUME NEW a \in Browsers, uses'[a].step = "asking"
        PROVE  a # b /\ uses'[a] = uses[a] /\ uses[a].step = "asking" /\ uses[a].read \in Nat
    BY <1>1 DEF MeetingInv, MeetingTyped, MeetingRow, NotesRow, UseRow
  <1>2. AskingIsLocked'
    BY <1>1 DEF MeetingInv, AskingIsLocked
  <1>3. meetingLines \in Nat /\ meetingLines' \in Nat /\ notes.count \in Nat
    BY DEF MeetingInv, MeetingTyped, MeetingRow, NotesRow
  <1>4. AskingIsNewer'
    <2> SUFFICES ASSUME meeting'.there
                 PROVE  /\ notes'.count <= meetingLines'
                        /\ \A a \in Browsers : uses'[a].step = "asking" =>
                               notes'.count <= uses'[a].read /\ uses'[a].read <= meetingLines'
      BY DEF AskingIsNewer
    <2>1. notes'.count <= meetingLines'
      BY <1>3 DEF MeetingInv, AskingIsNewer
    <2>2. ASSUME NEW a \in Browsers, uses'[a].step = "asking"
          PROVE  notes'.count <= uses'[a].read /\ uses'[a].read <= meetingLines'
      BY <1>1, <1>3, <2>2 DEF MeetingInv, AskingIsNewer
    <2> QED  BY <2>1, <2>2
  <1> QED  BY <1>2, <1>4 DEF MeetingInv

\* The one that asked gives its lock back: no other was asking.
LEMMA AnswerKeeps ==
    ASSUME MeetingInv, NEW b \in Browsers, NEW row \in UseRow, row.step # "asking",
           uses[b].step = "asking", uses' = [uses EXCEPT ![b] = row], MeetingTyped',
           meeting'.there => notes'.count <= meetingLines'
    PROVE  MeetingInv'
  <1>1. \A a \in Browsers : uses'[a].step # "asking"
    BY DEF MeetingInv, MeetingTyped, MeetingRow, NotesRow, AskingIsLocked
  <1> QED  BY <1>1 DEF MeetingInv, AskingIsLocked, AskingIsNewer

LEMMA RequestKeeps ==
    ASSUME MeetingInv, NEW b \in Browsers,
           NEW does \in {"append", "title", "audio", "delete", "finish", "notes"},
           NEW step \in {"read", "digest"}, NEW force \in BOOLEAN, MeetingUses(b, does, step, force)
    PROVE  MeetingInv' /\ UNCHANGED <<meeting, notes>>
  <1> DEFINE row == [step |-> step, does |-> does, status |-> meeting.status,
                     title |-> meeting.title, read |-> 0, force |-> force]
  <1>1. row \in UseRow /\ row.step # "asking"
    BY DEF UseRow, MeetingInv, MeetingTyped, MeetingRow, NotesRow
  <1>2. uses' = [uses EXCEPT ![b] = row] /\ UNCHANGED <<meeting, notes, meetingLines, meetingLocked>>
    BY DEF MeetingUses
  <1> HIDE DEF row
  <1>3. MeetingTyped'
    BY <1>1, <1>2 DEF MeetingInv, MeetingTyped, MeetingRow, NotesRow
  <1>4. meetingLines <= meetingLines'
    BY <1>2 DEF MeetingInv, MeetingTyped, MeetingRow, NotesRow
  <1> QED  BY <1>1, <1>2, <1>3, <1>4, UseKeeps

LEMMA WriteKeeps ==
    ASSUME MeetingInv, NEW b \in Browsers,
           \/ MeetingFails(b) \/ append_transcript_lines(b) \/ update_meeting(b) \/ attach_audio(b)
           \/ delete_meeting(b) \/ send_to_knowledge_base_quietly(b)
    PROVE  MeetingInv' /\ (meeting'.there => notes'.count = notes.count)
  <1>1. NoUse \in UseRow /\ NoUse.step # "asking"
    BY DEF NoUse, UseRow
  <1>2. uses' = [uses EXCEPT ![b] = NoUse] /\ UNCHANGED meetingLocked
    BY DEF MeetingFails, append_transcript_lines, update_meeting, attach_audio, delete_meeting,
           send_to_knowledge_base_quietly, MeetingDone
  <1>3. MeetingTyped
    BY DEF MeetingInv
  <1>4. meetingLines' \in Nat
    BY <1>3, MeetingsAssumption DEF MeetingTyped, MeetingRow, NotesRow, MeetingFails, append_transcript_lines, update_meeting, attach_audio,
           delete_meeting, send_to_knowledge_base_quietly
  <1>5. meeting' = meeting \/ meeting' = [meeting EXCEPT !.title = "person"]
        \/ meeting' = [meeting EXCEPT !.audio = TRUE] \/ meeting' = [meeting EXCEPT !.there = FALSE, !.audio = FALSE]
    BY DEF MeetingFails, append_transcript_lines, update_meeting, attach_audio, delete_meeting,
           send_to_knowledge_base_quietly
  <1>6. notes' = notes \/ (notes' = NoNotes /\ meeting' = [meeting EXCEPT !.there = FALSE, !.audio = FALSE])
    BY DEF MeetingFails, append_transcript_lines, update_meeting, attach_audio, delete_meeting,
           send_to_knowledge_base_quietly
  <1>7. MeetingTyped'
    <2>1. meeting' \in MeetingRow
      BY <1>3, <1>5 DEF MeetingTyped, MeetingRow
    <2>2. notes' \in NotesRow
      <3>1. NoNotes \in NotesRow
        BY DEF NoNotes, NotesRow
      <3>2. notes \in NotesRow
        BY <1>3 DEF MeetingTyped
      <3> QED  BY <1>6, <3>1, <3>2
    <2>3. uses' \in [Browsers -> UseRow] /\ meetingLocked' = meetingLocked
      BY <1>1, <1>2, <1>3 DEF MeetingTyped, MeetingRow, NotesRow
    <2> QED  BY <1>3, <1>4, <2>1, <2>2, <2>3 DEF MeetingTyped, MeetingRow, NotesRow
  <1>8. meeting'.there => meeting.there /\ notes'.count = notes.count
    BY <1>3, <1>5, <1>6 DEF MeetingTyped, MeetingRow
  <1>9. meetingLines' = meetingLines \/ meetingLines' \in (meetingLines + 1)..MaxLines
        \/ meeting' = [meeting EXCEPT !.there = FALSE, !.audio = FALSE]
    BY DEF MeetingFails, append_transcript_lines, update_meeting, attach_audio, delete_meeting,
           send_to_knowledge_base_quietly
  <1>10. meeting'.there => meetingLines <= meetingLines'
    <2>1. CASE meetingLines' = meetingLines
      BY <1>3, <2>1 DEF MeetingTyped, MeetingRow, NotesRow
    <2>2. CASE meetingLines' \in (meetingLines + 1)..MaxLines
      BY <1>3, <2>2, MeetingsAssumption DEF MeetingTyped, MeetingRow, NotesRow
    <2>3. CASE meeting' = [meeting EXCEPT !.there = FALSE, !.audio = FALSE]
      BY <1>3, <2>3 DEF MeetingTyped, MeetingRow
    <2> QED  BY <1>9, <2>1, <2>2, <2>3
  <1> QED  BY <1>1, <1>2, <1>7, <1>8, <1>10, UseKeeps

\* With the notes a request goes on or is over.
LEMMA AfterKeeps ==
    ASSUME MeetingTyped, NEW b \in Browsers, After(b)
    PROVE  \E row \in UseRow : row.step # "asking" /\ uses' = [uses EXCEPT ![b] = row]
  <1>1. NoUse \in UseRow /\ NoUse.step # "asking"
    BY DEF NoUse, UseRow
  <1>2. uses[b] \in UseRow
    BY DEF MeetingTyped, MeetingRow, NotesRow
  <1>3. [uses[b] EXCEPT !.step = "send"] \in UseRow /\ [uses[b] EXCEPT !.step = "send"].step # "asking"
    BY <1>2 DEF UseRow
  <1>4. uses' = [uses EXCEPT ![b] = [uses[b] EXCEPT !.step = "send"]] \/ uses' = [uses EXCEPT ![b] = NoUse]
    BY DEF After
  <1> QED  BY <1>1, <1>3, <1>4

LEMMA FinishKeeps ==
    ASSUME MeetingInv, NEW b \in Browsers, finish_meeting(b)
    PROVE  MeetingInv' /\ UNCHANGED notes
  <1>1. MeetingTyped /\ uses[b] \in UseRow
    BY DEF MeetingInv, MeetingTyped, MeetingRow, NotesRow
  <1> DEFINE row == [uses[b] EXCEPT !.step = "digest", !.title = meeting.title]
  <1>2. row \in UseRow /\ row.step # "asking" /\ NoUse \in UseRow /\ NoUse.step # "asking"
    BY <1>1 DEF UseRow, NoUse, MeetingTyped, MeetingRow, NotesRow
  <1>3. uses' = [uses EXCEPT ![b] = row] \/ uses' = [uses EXCEPT ![b] = NoUse]
    BY DEF finish_meeting, MeetingDone
  <1> HIDE DEF row
  <1>4. meeting' = meeting \/ meeting' = [meeting EXCEPT !.status = "finished"]
    BY DEF finish_meeting
  <1>5. UNCHANGED <<meetingLines, notes, meetingLocked>>
    BY DEF finish_meeting
  <1>6. MeetingTyped'
    BY <1>1, <1>2, <1>3, <1>4, <1>5 DEF MeetingTyped, MeetingRow, NotesRow
  <1>7. (meeting'.there => meeting.there) /\ notes'.count = notes.count /\ meetingLines <= meetingLines'
    BY <1>1, <1>4, <1>5 DEF MeetingTyped, MeetingRow, NotesRow
  <1> QED  BY <1>2, <1>3, <1>5, <1>6, <1>7, UseKeeps

LEMMA DigestKeeps ==
    ASSUME MeetingInv, NEW b \in Browsers, DigestBegins(b)
    PROVE  MeetingInv' /\ notes'.count = notes.count
  <1>1. MeetingTyped /\ uses[b] \in UseRow
    BY DEF MeetingInv, MeetingTyped, MeetingRow, NotesRow
  <1>2. UNCHANGED <<meeting, meetingLines>> /\ meetingLocked = NoBrowser
    BY DEF DigestBegins
  <1>3. (notes' = notes \/ notes' = [notes EXCEPT !.there = TRUE]) /\ notes'.count = notes.count
    <2>1. notes' = notes \/ notes' = [notes EXCEPT !.there = TRUE]
      BY DEF DigestBegins
    <2> QED  BY <1>1, <2>1 DEF MeetingTyped, MeetingRow, NotesRow
  <1>4. CASE After(b) /\ UNCHANGED meetingLocked
    <2>1. PICK row \in UseRow : row.step # "asking" /\ uses' = [uses EXCEPT ![b] = row]
      BY <1>1, <1>4, AfterKeeps
    <2>2. MeetingTyped'
      BY <1>1, <1>2, <1>3, <2>1 DEF MeetingTyped, MeetingRow, NotesRow
    <2>3. (meeting'.there => meeting.there) /\ notes'.count = notes.count /\ meetingLines <= meetingLines'
      BY <1>1, <1>2, <1>3 DEF MeetingTyped, MeetingRow, NotesRow
    <2> QED  BY <1>3, <1>4, <2>1, <2>2, <2>3, UseKeeps
  <1>5. CASE /\ meetingLocked' = b /\ UNCHANGED notes
             /\ uses' = [uses EXCEPT ![b].step = "asking", ![b].read = meetingLines]
    <2> DEFINE row == [uses[b] EXCEPT !.step = "asking", !.read = meetingLines]
    <2>1. row \in UseRow /\ row.read = meetingLines
      BY <1>1 DEF UseRow, MeetingTyped, MeetingRow, NotesRow
    <2>2. uses' = [uses EXCEPT ![b] = row]
      BY <1>1, <1>5 DEF MeetingTyped, MeetingRow, NotesRow, UseRow
    <2> HIDE DEF row
    <2>3. MeetingTyped'
      BY <1>1, <1>2, <1>5, <2>1, <2>2 DEF MeetingTyped, MeetingRow, NotesRow
    <2>4. \A a \in Browsers : uses[a].step # "asking"
      BY <1>2, MeetingsAssumption DEF MeetingInv, AskingIsLocked, NoBrowser
    <2>5. AskingIsLocked'
      BY <1>1, <1>5, <2>2, <2>4 DEF AskingIsLocked, MeetingTyped, MeetingRow, NotesRow
    <2>6. ASSUME meeting'.there
          PROVE  /\ notes'.count <= meetingLines'
                 /\ \A a \in Browsers : uses'[a].step = "asking" =>
                        notes'.count <= uses'[a].read /\ uses'[a].read <= meetingLines'
      <3>1. notes.count <= meetingLines /\ meetingLines \in Nat /\ meetingLines <= meetingLines
        BY <1>1, <1>2, <2>6 DEF MeetingInv, AskingIsNewer, MeetingTyped, MeetingRow, NotesRow
      <3>2. ASSUME NEW a \in Browsers, uses'[a].step = "asking" PROVE uses'[a].read = meetingLines
        BY <1>1, <2>1, <2>2, <2>4, <3>2 DEF MeetingTyped, MeetingRow, NotesRow
      <3>3. notes' = notes /\ meetingLines' = meetingLines
        BY <1>2, <1>5
      <3> QED  BY <3>1, <3>2, <3>3
    <2> QED  BY <1>5, <2>3, <2>5, <2>6 DEF MeetingInv, AskingIsNewer
  <1> QED  BY <1>4, <1>5 DEF DigestBegins

LEMMA NotesKeep ==
    ASSUME MeetingInv, NEW b \in Browsers, DigestFails(b) \/ refresh_notes(b)
    PROVE  MeetingInv' /\ (meeting'.there => notes'.count >= notes.count)
  <1>1. MeetingTyped /\ uses[b] \in UseRow /\ uses[b].step = "asking"
    BY DEF MeetingInv, MeetingTyped, MeetingRow, NotesRow, DigestFails, refresh_notes
  <1>2. After(b) /\ meetingLines' = meetingLines
    BY DEF DigestFails, refresh_notes
  <1>3. PICK row \in UseRow : row.step # "asking" /\ uses' = [uses EXCEPT ![b] = row]
    BY <1>1, <1>2, AfterKeeps
  <1>4. uses[b].read \in Nat
    BY <1>1 DEF UseRow
  <1>5. \/ notes' = notes \/ notes' = [notes EXCEPT !.there = TRUE]
        \/ (meeting.there /\ notes' = [there |-> TRUE, count |-> uses[b].read])
    BY DEF DigestFails, refresh_notes
  <1>6. meeting' = meeting \/ meeting' = [meeting EXCEPT !.title = "model"]
        \/ meeting' = [meeting EXCEPT !.title = meeting.title]
    <2>1. CASE DigestFails(b)
      BY <2>1 DEF DigestFails
    <2>2. CASE refresh_notes(b)
      BY <2>2 DEF refresh_notes
    <2> QED  BY <2>1, <2>2
  <1>7. MeetingTyped'
    <2>1. meeting' \in MeetingRow /\ meeting'.there = meeting.there
      BY <1>1, <1>6 DEF MeetingTyped, MeetingRow
    <2>2. notes' \in NotesRow
      <3>1. notes \in NotesRow
        BY <1>1 DEF MeetingTyped
      <3>2. [notes EXCEPT !.there = TRUE] \in NotesRow
        BY <3>1 DEF NotesRow
      <3>3. [there |-> TRUE, count |-> uses[b].read] \in NotesRow
        BY <1>4 DEF NotesRow
      <3> QED  BY <1>5, <3>1, <3>2, <3>3
    <2>3. uses' \in [Browsers -> UseRow]
      BY <1>1, <1>3 DEF MeetingTyped, MeetingRow, NotesRow
    <2> QED  BY <1>1, <1>2, <2>1, <2>2, <2>3 DEF MeetingTyped, MeetingRow, NotesRow
  <1>8. ASSUME meeting'.there
        PROVE  notes'.count >= notes.count /\ notes'.count <= meetingLines'
    <2>1. meeting.there
      BY <1>1, <1>6, <1>8 DEF MeetingTyped, MeetingRow, NotesRow
    <2>2. notes.count <= uses[b].read /\ uses[b].read <= meetingLines /\ notes.count <= meetingLines
      BY <1>1, <2>1 DEF MeetingInv, AskingIsNewer
    <2>3. notes.count \in Nat /\ (notes'.count = notes.count \/ notes'.count = uses[b].read)
      BY <1>1, <1>5 DEF MeetingTyped, MeetingRow, NotesRow
    <2> QED  BY <1>2, <1>4, <2>2, <2>3
  <1>9. MeetingInv'
    BY <1>1, <1>3, <1>7, <1>8, AnswerKeeps
  <1> QED  BY <1>8, <1>9

LEMMA MeetingStays ==
    MeetingInv /\ [MeetingsNext]_meetingVars =>
        MeetingInv' /\ [meeting'.there => notes'.count >= notes.count]_meetingVars
  <1> SUFFICES ASSUME MeetingInv, [MeetingsNext]_meetingVars
               PROVE  MeetingInv' /\ (meeting'.there => notes'.count >= notes.count)
    OBVIOUS
  <1>1. notes.count \in Nat
    BY DEF MeetingInv, MeetingTyped, MeetingRow, NotesRow
  <1>2. ASSUME NEW b \in Browsers,
               \/ append_meeting_transcript(b) \/ update_meeting_title(b) \/ upload_meeting_audio(b)
               \/ remove_meeting(b) \/ finish(b) \/ \E force \in BOOLEAN : refresh_meeting_notes(b, force)
        PROVE  MeetingInv' /\ UNCHANGED <<meeting, notes>>
    BY <1>2, RequestKeeps DEF append_meeting_transcript, update_meeting_title, upload_meeting_audio,
       remove_meeting, finish, refresh_meeting_notes
  <1>3. ASSUME NEW b \in Browsers,
               \/ MeetingFails(b) \/ append_transcript_lines(b) \/ update_meeting(b) \/ attach_audio(b)
               \/ delete_meeting(b) \/ send_to_knowledge_base_quietly(b)
        PROVE  MeetingInv' /\ (meeting'.there => notes'.count = notes.count)
    BY <1>3, WriteKeeps
  <1>4. ASSUME NEW b \in Browsers, finish_meeting(b) \/ DigestBegins(b)
        PROVE  MeetingInv' /\ notes'.count = notes.count
    BY <1>4, FinishKeeps, DigestKeeps
  <1>5. ASSUME NEW b \in Browsers, DigestFails(b) \/ refresh_notes(b)
        PROVE  MeetingInv' /\ (meeting'.there => notes'.count >= notes.count)
    BY <1>5, NotesKeep
  <1>6. CASE UNCHANGED meetingVars
    <2>1. UNCHANGED <<meeting, meetingLines, notes, uses, meetingLocked>>
      BY <1>6 DEF meetingVars
    <2> QED  BY <1>1, <2>1 DEF MeetingInv, MeetingTyped, MeetingRow, NotesRow, AskingIsLocked, AskingIsNewer
  <1>7. CASE MeetingsNext
    <2>1. PICK b \in Browsers :
            \/ append_meeting_transcript(b) \/ update_meeting_title(b) \/ upload_meeting_audio(b)
            \/ remove_meeting(b) \/ finish(b)
            \/ \E force \in BOOLEAN : refresh_meeting_notes(b, force)
            \/ MeetingFails(b) \/ append_transcript_lines(b) \/ update_meeting(b) \/ attach_audio(b)
            \/ delete_meeting(b) \/ finish_meeting(b)
            \/ DigestBegins(b) \/ DigestFails(b) \/ refresh_notes(b) \/ send_to_knowledge_base_quietly(b)
      BY <1>7 DEF MeetingsNext
    <2> QED  BY <1>1, <1>2, <1>3, <1>4, <1>5, <2>1
  <1> QED  BY <1>6, <1>7

(***************************************************************************)
(* meeting_notes.py: while a meeting is there, its notes are never         *)
(* replaced by a digest of fewer lines.                                    *)
(***************************************************************************)
THEOREM NotesStay == MeetingsSpec => NotesNeverGoBack
  <1>1. MeetingsInit => MeetingInv
    BY MeetingBegins
  <1>2. MeetingInv /\ [MeetingsNext]_meetingVars =>
            MeetingInv' /\ [meeting'.there => notes'.count >= notes.count]_meetingVars
    BY MeetingStays
  <1> QED  BY <1>1, <1>2, PTL DEF MeetingsSpec, NotesNeverGoBack

------------------------------------------------------------------------------
(* ClientPath                                                               *)

Stages == {CLIENT_STAGE_ORDER[i] : i \in 1..8}
ClientRow == [stage : Stages \cup {"gone"}, plan : PaymentPlans, told : BOOLEAN, docs : BOOLEAN,
              documents_locked : BOOLEAN, is_paid : BOOLEAN, payment_locked : BOOLEAN,
              unlocked : BOOLEAN, balance_paid : BOOLEAN, movements : BOOLEAN]
PathRow == [step : {"idle", "look", "read", "moved", "settle"},
            op : {"none", "move", "acceptance", "completed", "reconcile"},
            seen : Stages \cup {"none"}, task : Nat, open : SUBSET Nat]

PathTyped ==
    /\ client \in ClientRow
    /\ productions \in Nat
    /\ path \in [Sessions -> PathRow]

\* What a session has seen of the client is locked, and what it has written of him
SeenFits(row, locked, paid) ==
    /\ row.seen = "payment" => locked
    /\ row.op = "move" => row.seen \in MANUAL_TRANSITION_STAGES
    /\ row.step \in {"look", "read"} => row.op \in {"move", "acceptance", "completed"}
    /\ row.step \in {"moved", "settle"} /\ row.op = "move" /\ row.seen = "payment" => paid

SeenIsLocked == \A s \in Sessions : SeenFits(path[s], client.documents_locked, client.payment_locked)

(***************************************************************************)
(* Why houses follow the contract: who moves a client on from "payment"    *)
(* has seen him there, where nobody comes before the documents are locked, *)
(* and nothing locked is unlocked while the rest of the move is written.   *)
(***************************************************************************)
HousesInv ==
    /\ PathTyped /\ SeenIsLocked /\ HousesAgree
    /\ client.stage = "payment" => client.documents_locked

\* The order of the stages, as numbers.
LEMMA StagesInOrder ==
    /\ At("lead") = 1 /\ At("discussion") = 2 /\ At("site_visit") = 3 /\ At("approval") = 4
    /\ At("payment") = 5 /\ At("postpayment") = 6
    /\ MANUAL_TRANSITION_STAGES = {"lead", "discussion", "site_visit", "approval", "payment"}
    /\ Stages = {"lead", "discussion", "site_visit", "approval", "payment",
                 "postpayment", "acceptance", "completed"}
  <1>1. Len(CLIENT_STAGE_ORDER) = 8
    BY DEF CLIENT_STAGE_ORDER
  <1>2. /\ CLIENT_STAGE_ORDER[1] = "lead" /\ CLIENT_STAGE_ORDER[2] = "discussion"
        /\ CLIENT_STAGE_ORDER[3] = "site_visit" /\ CLIENT_STAGE_ORDER[4] = "approval"
        /\ CLIENT_STAGE_ORDER[5] = "payment" /\ CLIENT_STAGE_ORDER[6] = "postpayment"
        /\ CLIENT_STAGE_ORDER[7] = "acceptance" /\ CLIENT_STAGE_ORDER[8] = "completed"
    BY DEF CLIENT_STAGE_ORDER
  <1>3. ASSUME NEW n \in 1..8 PROVE At(CLIENT_STAGE_ORDER[n]) = n
    <2> DEFINE stage == CLIENT_STAGE_ORDER[n]
    <2>1. n \in 1..Len(CLIENT_STAGE_ORDER) /\ CLIENT_STAGE_ORDER[n] = stage
      BY <1>1
    <2>2. At(stage) \in 1..Len(CLIENT_STAGE_ORDER) /\ CLIENT_STAGE_ORDER[At(stage)] = stage
      BY <2>1 DEF At
    <2>3. \A i, j \in 1..8 : CLIENT_STAGE_ORDER[i] = CLIENT_STAGE_ORDER[j] => i = j
      BY <1>2
    <2> QED  BY <1>1, <2>2, <2>3
  <1>4. /\ At("lead") = 1 /\ At("discussion") = 2 /\ At("site_visit") = 3 /\ At("approval") = 4
        /\ At("payment") = 5 /\ At("postpayment") = 6
    BY <1>2, <1>3
  <1>5. MANUAL_TRANSITION_STAGES = {"lead", "discussion", "site_visit", "approval", "payment"}
    BY <1>2 DEF MANUAL_TRANSITION_STAGES
  <1>6. Stages = {"lead", "discussion", "site_visit", "approval", "payment",
                  "postpayment", "acceptance", "completed"}
    BY <1>2 DEF Stages
  <1> QED  BY <1>4, <1>5, <1>6

\* Where a move leads from.
LEMMA NextStages ==
    ASSUME NEW stage \in MANUAL_TRANSITION_STAGES
    PROVE  /\ _next_stage(stage) \in Stages
           /\ _next_stage(stage) = "payment" => stage = "approval"
           /\ _next_stage(stage) = "postpayment" => stage = "payment"
  <1>1. /\ CLIENT_STAGE_ORDER[2] = "discussion"
        /\ CLIENT_STAGE_ORDER[3] = "site_visit" /\ CLIENT_STAGE_ORDER[4] = "approval"
        /\ CLIENT_STAGE_ORDER[5] = "payment" /\ CLIENT_STAGE_ORDER[6] = "postpayment"
    BY DEF CLIENT_STAGE_ORDER
  <1>2. stage \in {"lead", "discussion", "site_visit", "approval", "payment"}
    BY StagesInOrder
  <1>3. At(stage) \in 1..5 /\ At("lead") = 1 /\ At("discussion") = 2 /\ At("site_visit") = 3
        /\ At("approval") = 4 /\ At("payment") = 5
    BY <1>2, StagesInOrder
  <1>4. CASE stage = "lead"
    <2>1. _next_stage(stage) = "discussion"
      BY <1>1, <1>3, <1>4 DEF _next_stage
    <2> QED  BY <2>1, StagesInOrder
  <1>5. CASE stage = "discussion"
    <2>1. _next_stage(stage) = "site_visit"
      BY <1>1, <1>3, <1>5 DEF _next_stage
    <2> QED  BY <2>1, StagesInOrder
  <1>6. CASE stage = "site_visit"
    <2>1. _next_stage(stage) = "approval"
      BY <1>1, <1>3, <1>6 DEF _next_stage
    <2> QED  BY <2>1, StagesInOrder
  <1>7. CASE stage = "approval"
    <2>1. _next_stage(stage) = "payment"
      BY <1>1, <1>3, <1>7 DEF _next_stage
    <2> QED  BY <1>7, <2>1, StagesInOrder
  <1>8. CASE stage = "payment"
    <2>1. _next_stage(stage) = "postpayment"
      BY <1>1, <1>3, <1>8 DEF _next_stage
    <2> QED  BY <1>8, <2>1, StagesInOrder
  <1> QED  BY <1>2, <1>4, <1>5, <1>6, <1>7, <1>8

LEMMA PathBegins == PathInit => HousesInv
  <1> SUFFICES ASSUME PathInit
               PROVE  HousesInv
    OBVIOUS
  <1>0. PICK stage \in Starts, plan \in PaymentPlans, manager \in BOOLEAN : StandsAt(stage, plan, manager)
    BY DEF PathInit
  <1>1. /\ client = [stage |-> stage, plan |-> plan, told |-> manager,
                     docs |-> At(stage) > 4, documents_locked |-> At(stage) > 4,
                     is_paid |-> stage = "postpayment" /\ plan # "post_payment",
                     payment_locked |-> stage = "postpayment", unlocked |-> FALSE,
                     balance_paid |-> stage = "postpayment" /\ plan = "full_prepayment",
                     movements |-> stage = "postpayment" /\ plan # "post_payment"]
        /\ cycle = IF stage = "postpayment" THEN "installation" ELSE "client"
        /\ productions = IF stage = "postpayment" THEN 1 ELSE 0
    BY <1>0 DEF StandsAt
  <1>2. stage \in Stages /\ At("payment") > 4 /\ At("postpayment") > 4
    BY StagesInOrder, ClientPathAssumption
  <1>3. NotMoving \in PathRow /\ SeenFits(NotMoving, client.documents_locked, client.payment_locked)
    BY DEF NotMoving, PathRow, SeenFits
  <1>4. path = [s \in Sessions |-> NotMoving]
    BY DEF PathInit
  <1>5. client \in ClientRow
    BY <1>1, <1>2 DEF ClientRow
  <1>6. PathTyped
    BY <1>1, <1>3, <1>4, <1>5 DEF PathTyped
  <1>7. SeenIsLocked
    BY <1>3, <1>4 DEF SeenIsLocked
  <1>8. HousesAgree
    <2>1. /\ client.stage = stage /\ client.documents_locked = (At(stage) > 4)
          /\ client.payment_locked = (stage = "postpayment")
      BY <1>1
    <2>2. CASE stage = "postpayment"
      <3>1. productions = 1 /\ cycle = "installation" /\ client.documents_locked /\ client.payment_locked
        BY <1>1, <1>2, <2>1, <2>2
      <3> QED  BY <3>1 DEF HousesAgree, CycleHasHouses, HousesFollowContract
    <2>3. CASE stage # "postpayment"
      <3>1. productions = 0 /\ cycle = "client"
        BY <1>1, <2>3
      <3> QED  BY <3>1 DEF HousesAgree, CycleHasHouses, HousesFollowContract
    <2> QED  BY <2>2, <2>3
  <1>9. client.stage = "payment" => client.documents_locked
    BY <1>1, <1>2
  <1> QED  BY <1>6, <1>7, <1>8, <1>9 DEF HousesInv

\* A session that goes on with what it may have seen.
LEMMA SessionKeeps ==
    ASSUME HousesInv, NEW s \in Sessions, NEW row \in PathRow,
           SeenFits(row, client.documents_locked, client.payment_locked),
           path' = [path EXCEPT ![s] = row], UNCHANGED <<client, cycle, productions>>
    PROVE  HousesInv'
  <1>1. PathTyped'
    BY DEF HousesInv, PathTyped
  <1>2. SeenIsLocked'
    BY DEF HousesInv, PathTyped, SeenIsLocked
  <1>3. HousesAgree' /\ (client'.stage = "payment" => client'.documents_locked)
    BY DEF HousesInv, HousesAgree, CycleHasHouses, HousesFollowContract
  <1> QED  BY <1>1, <1>2, <1>3 DEF HousesInv

LEMMA EndKeeps ==
    ASSUME HousesInv, NEW s \in Sessions, Ends(s), UNCHANGED <<client, cycle, productions>>
    PROVE  HousesInv'
  <1>1. NotMoving \in PathRow /\ SeenFits(NotMoving, client.documents_locked, client.payment_locked)
    BY DEF NotMoving, PathRow, SeenFits
  <1> QED  BY <1>1, SessionKeeps DEF Ends

\* A session that reads the client goes to write what it may.
LEMMA ReadKeeps ==
    ASSUME HousesInv, NEW s \in Sessions, Present,
           NEW row \in PathRow, row.seen = client.stage, row.step = "read" \/ row.op = "reconcile",
           row.op \in {"move", "acceptance", "completed", "reconcile"}, row.step \in {"read", "settle"},
           row.op = "move" => needs_stage_task(client.stage) /\ row.step = "read", row.step = "read" => row.op # "reconcile",
           path' = [path EXCEPT ![s] = row], UNCHANGED <<client, cycle, productions>>
    PROVE  HousesInv'
  <1>1. SeenFits(row, client.documents_locked, client.payment_locked)
    BY DEF SeenFits, HousesInv, needs_stage_task
  <1> QED  BY <1>1, SessionKeeps

\* The card changes what is not locked, or the client goes.
LEMMA CardKeeps ==
    ASSUME HousesInv, client' \in ClientRow, client'.stage \in {client.stage, "gone"},
           client'.documents_locked = client.documents_locked, client'.payment_locked = client.payment_locked,
           UNCHANGED <<path, productions>>, cycle' \in {cycle, "none"}
    PROVE  HousesInv'
  <1>1. PathTyped' /\ SeenIsLocked'
    BY DEF HousesInv, PathTyped, SeenIsLocked
  <1>2. HousesAgree' /\ (client'.stage = "payment" => client'.documents_locked)
    BY DEF HousesInv, HousesAgree, CycleHasHouses, HousesFollowContract
  <1> QED  BY <1>1, <1>2 DEF HousesInv

LEMMA ClientTyped == HousesInv /\ Present => client.stage \in Stages /\ client \in ClientRow
  BY DEF HousesInv, PathTyped, ClientRow, Present

LEMMA PeopleKeep == HousesInv /\ People => HousesInv'
  <1> SUFFICES ASSUME HousesInv, People
               PROVE  HousesInv'
    OBVIOUS
  <1>1. client \in ClientRow
    BY DEF HousesInv, PathTyped
  <1>2. CASE start_installation
    <2>1. UNCHANGED <<client, productions, path>> /\ productions > 0
      BY <1>2 DEF start_installation
    <2> QED  BY <2>1 DEF HousesInv, PathTyped, SeenIsLocked, HousesAgree, CycleHasHouses, HousesFollowContract
  <1>3. CASE update_documents \/ update_payment \/ set_payment_edit_unlocked \/ update_manager
             \/ (\E paid \in BOOLEAN : record_balance_payment(paid)) \/ _on_balance_payment_task_closed
    <2>1. UNCHANGED <<cycle, productions, path>>
      BY <1>3 DEF update_documents, update_payment, set_payment_edit_unlocked, update_manager,
         record_balance_payment, _on_balance_payment_task_closed, CardChanges
    <2>2. \/ client' = [client EXCEPT !.docs = ~client.docs]
          \/ \E m \in BOOLEAN : client' = [client EXCEPT !.is_paid = ~client.is_paid, !.movements = m]
          \/ client' = [client EXCEPT !.unlocked = ~client.unlocked]
          \/ client' = [client EXCEPT !.told = ~client.told]
          \/ \E paid, m \in BOOLEAN : client' = [client EXCEPT !.balance_paid = paid, !.movements = m]
          \/ client' = [client EXCEPT !.balance_paid = TRUE]
      <3>1. CASE update_documents
        BY <3>1 DEF update_documents, CardChanges
      <3>2. CASE update_payment
        <4> DEFINE m == client.movements \/ (~client.is_paid /\ client.plan # "post_payment")
        <4>1. client' = [client EXCEPT !.is_paid = ~client.is_paid, !.movements = m]
          BY <3>2 DEF update_payment, CardChanges
        <4>2. m \in BOOLEAN
          OBVIOUS
        <4> QED  BY <4>1, <4>2
      <3>3. CASE set_payment_edit_unlocked \/ update_manager
        BY <3>3 DEF set_payment_edit_unlocked, update_manager, CardChanges
      <3>4. CASE \E paid \in BOOLEAN : record_balance_payment(paid)
        <4>1. PICK paid \in BOOLEAN : record_balance_payment(paid)
          BY <3>4
        <4> DEFINE m == client.movements \/ paid
        <4>2. client' = [client EXCEPT !.balance_paid = paid, !.movements = m]
          BY <4>1 DEF record_balance_payment, CardChanges
        <4>3. m \in BOOLEAN
          OBVIOUS
        <4> QED  BY <4>2, <4>3
      <3>5. CASE _on_balance_payment_task_closed
        BY <3>5 DEF _on_balance_payment_task_closed, CardChanges
      <3> QED  BY <1>3, <3>1, <3>2, <3>3, <3>4, <3>5
    <2>3. client' \in ClientRow /\ client'.stage = client.stage
          /\ client'.documents_locked = client.documents_locked /\ client'.payment_locked = client.payment_locked
      BY <1>1, <2>2 DEF ClientRow
    <2> QED  BY <2>1, <2>3, CardKeeps
  <1>4. CASE FollowUp
    BY <1>4, <1>1, CardKeeps DEF FollowUp
  <1>5. CASE delete_client
    <2>1. client' = [client EXCEPT !.stage = "gone"] /\ UNCHANGED <<productions, path>> /\ cycle' \in {cycle, "none"}
      BY <1>5 DEF delete_client
    <2>2. client' \in ClientRow /\ client'.stage = "gone"
          /\ client'.documents_locked = client.documents_locked /\ client'.payment_locked = client.payment_locked
      BY <1>1, <2>1 DEF ClientRow
    <2> QED  BY <2>1, <2>2, CardKeeps
  <1>6. ASSUME NEW s \in Managers,
               transition_stage(s) \/ _on_client_task_closed(s) \/ transition_installation(s) \/ complete_installation(s)
        PROVE  HousesInv'
    <2>1. UNCHANGED <<client, cycle, productions>> /\ s \in Sessions
      BY <1>6 DEF transition_stage, _on_client_task_closed, transition_installation, complete_installation, Sessions
    <2>2. ASSUME NEW op \in {"move", "acceptance", "completed"}, NEW i \in Nat,
                 op = "move" => needs_stage_task(client.stage),
                 Starting(s, ReadsClient(op)) \/ Starting(s, [ReadsClient(op) EXCEPT !.task = i])
          PROVE  HousesInv'
      <3>1. Present /\ client.stage \in Stages
        BY <2>2, ClientTyped DEF Starting
      <3>2. PICK row \in PathRow : /\ row.seen = client.stage /\ row.step = "read" /\ row.op = op
                                   /\ path' = [path EXCEPT ![s] = row]
        <4>1. ReadsClient(op) \in PathRow /\ ReadsClient(op).seen = client.stage /\ ReadsClient(op).step = "read"
              /\ ReadsClient(op).op = op
          BY <3>1 DEF ReadsClient, NotMoving, PathRow
        <4>2. [ReadsClient(op) EXCEPT !.task = i] \in PathRow
              /\ [ReadsClient(op) EXCEPT !.task = i].seen = client.stage
              /\ [ReadsClient(op) EXCEPT !.task = i].step = "read" /\ [ReadsClient(op) EXCEPT !.task = i].op = op
          BY <4>1 DEF PathRow
        <4> QED  BY <2>2, <4>1, <4>2 DEF Starting
      <3> QED  BY <2>1, <2>2, <3>1, <3>2, ReadKeeps
    <2>3. CASE transition_stage(s)
      BY <2>2, <2>3 DEF transition_stage, Passes
    <2>4. CASE _on_client_task_closed(s)
      <3>1. PICK i \in _open_stage_tasks : Starting(s, [ReadsClient("move") EXCEPT !.task = i])
        BY <2>4 DEF _on_client_task_closed
      <3>2. i \in Nat
        BY <3>1, ClientPathAssumption DEF _open_stage_tasks, Slots
      <3> QED  BY <2>2, <2>4, <3>1, <3>2 DEF _on_client_task_closed, Passes
    <2>5. CASE complete_installation(s)
      BY <2>2, <2>5 DEF complete_installation
    <2>6. CASE transition_installation(s)
      <3>1. CASE UNCHANGED path
        BY <2>1, <3>1, <1>1, CardKeeps
      <3>2. CASE Starting(s, [NotMoving EXCEPT !.step = "look", !.op = "acceptance"])
        <4> DEFINE row == [NotMoving EXCEPT !.step = "look", !.op = "acceptance"]
        <4>1. row \in PathRow /\ SeenFits(row, client.documents_locked, client.payment_locked)
          BY DEF NotMoving, PathRow, SeenFits
        <4> QED  BY <2>1, <3>2, <4>1, SessionKeeps DEF Starting
      <3>3. CASE Starting(s, ReadsClient("acceptance"))
        BY <2>2, <3>3
      <3> QED  BY <2>6, <3>1, <3>2, <3>3 DEF transition_installation
    <2> QED  BY <1>6, <2>3, <2>4, <2>5, <2>6
  <1> QED  BY <1>2, <1>3, <1>4, <1>5, <1>6 DEF People

\* What a move writes into the client.
LEMMA MovedClient ==
    ASSUME HousesInv, NEW s \in Sessions, path[s].step = "read", Ahead(s)
    PROVE  /\ Moved(s) \in ClientRow
           /\ client.documents_locked => Moved(s).documents_locked
           /\ client.payment_locked => Moved(s).payment_locked
           /\ Moved(s).stage = "payment" => Moved(s).documents_locked
           /\ IntoProduction(s) => path[s].seen = "payment" /\ Moved(s).documents_locked /\ Moved(s).payment_locked
           /\ path[s].op = "move" /\ path[s].seen = "payment" => Moved(s).payment_locked
  <1>1. client \in ClientRow /\ path[s] \in PathRow
        /\ SeenFits(path[s], client.documents_locked, client.payment_locked)
    BY DEF HousesInv, PathTyped, SeenIsLocked
  <1> DEFINE docs == client.documents_locked \/ path[s].seen = "approval"
             paid == client.payment_locked \/ path[s].seen = "payment"
             balance == client.balance_paid \/ (path[s].seen = "payment" /\ client.plan = "full_prepayment")
  <1>2. Moved(s) = [client EXCEPT !.stage = Target(s), !.documents_locked = docs,
                                  !.payment_locked = paid, !.balance_paid = balance]
    BY DEF Moved
  <1>3. docs \in BOOLEAN /\ paid \in BOOLEAN /\ balance \in BOOLEAN
    OBVIOUS
  <1>4. /\ Target(s) \in Stages
        /\ Target(s) = "payment" => path[s].seen = "approval"
        /\ IntoProduction(s) => path[s].seen = "payment"
    <2>1. CASE path[s].op = "move"
      <3>1. Target(s) = _next_stage(path[s].seen) /\ path[s].seen \in MANUAL_TRANSITION_STAGES
        BY <1>1, <2>1 DEF Target, SeenFits
      <3> QED  BY <3>1, NextStages DEF IntoProduction
    <2>2. CASE path[s].op # "move"
      <3>1. Target(s) \in {"acceptance", "completed"}
        BY <1>1, <2>2 DEF Target, SeenFits
      <3> QED  BY <2>2, <3>1, StagesInOrder DEF IntoProduction
    <2> QED  BY <2>1, <2>2
  <1> HIDE DEF docs, paid, balance
  <1>5. Moved(s) \in ClientRow /\ Moved(s).stage = Target(s) /\ Moved(s).documents_locked = docs
        /\ Moved(s).payment_locked = paid
    BY <1>1, <1>2, <1>3, <1>4 DEF ClientRow
  <1>6. path[s].seen = "payment" => docs /\ paid
    BY <1>1 DEF docs, paid, SeenFits
  <1> QED  BY <1>4, <1>5, <1>6 DEF docs, paid

\* A step that writes the client by a move and keeps the session's row fitting.
LEMMA WrittenKeeps ==
    ASSUME HousesInv, NEW s \in Sessions, path[s].step = "read", Ahead(s), client' = Moved(s),
           NEW row \in PathRow, path' = [path EXCEPT ![s] = row],
           SeenFits(row, Moved(s).documents_locked, Moved(s).payment_locked),
           productions' \in Nat, productions <= productions',
           productions' > productions => IntoProduction(s),
           cycle' \in {"production", "installation"} => cycle' = cycle \/ productions' > 0
    PROVE  HousesInv'
  <1>1. Moved(s) \in ClientRow
    BY MovedClient
  <1>2. PathTyped'
    BY <1>1 DEF HousesInv, PathTyped
  <1>3. (client.documents_locked => client'.documents_locked) /\ (client.payment_locked => client'.payment_locked)
        /\ (client'.stage = "payment" => client'.documents_locked)
        /\ (IntoProduction(s) => client'.documents_locked /\ client'.payment_locked)
    BY MovedClient
  <1>4. SeenIsLocked'
    <2> SUFFICES ASSUME NEW a \in Sessions
                 PROVE  SeenFits(path'[a], client'.documents_locked, client'.payment_locked)
      BY DEF SeenIsLocked
    <2>1. CASE a = s
      BY <2>1 DEF HousesInv, PathTyped
    <2>2. CASE a # s
      <3>1. path'[a] = path[a] /\ SeenFits(path[a], client.documents_locked, client.payment_locked)
        BY <2>2 DEF HousesInv, PathTyped, SeenIsLocked
      <3> QED  BY <1>3, <3>1 DEF SeenFits
    <2> QED  BY <2>1, <2>2
  <1>5. productions \in Nat
    BY DEF HousesInv, PathTyped
  <1>6. HousesAgree'
    <2>1. CycleHasHouses'
      BY <1>5 DEF HousesInv, HousesAgree, CycleHasHouses
    <2>2. HousesFollowContract'
      <3>1. CASE productions' = productions
        BY <1>3, <3>1 DEF HousesInv, HousesAgree, HousesFollowContract
      <3>2. CASE productions' > productions
        BY <1>3, <3>2 DEF HousesFollowContract
      <3> QED  BY <1>5, <3>1, <3>2
    <2> QED  BY <2>1, <2>2 DEF HousesAgree
  <1> QED  BY <1>2, <1>3, <1>4, <1>6 DEF HousesInv

\* A move into production builds houses, no other does.
LEMMA Building ==
    ASSUME HousesInv, NEW s \in Sessions, BuildHouses(s)
    PROVE  /\ productions' \in Nat /\ productions <= productions'
           /\ productions' > productions => IntoProduction(s)
           /\ IntoProduction(s) => productions' > 0
  <1>1. productions \in Nat
    BY DEF HousesInv, PathTyped
  <1>2. CASE IntoProduction(s)
    <2>1. PICK houses \in HousesCounts : productions' = productions + houses
      BY <1>2 DEF BuildHouses
    <2>2. houses \in Nat /\ houses > 0
      BY ClientPathAssumption
    <2> QED  BY <1>1, <1>2, <2>1, <2>2
  <1>3. CASE ~IntoProduction(s)
    BY <1>1, <1>3 DEF BuildHouses
  <1> QED  BY <1>2, <1>3

LEMMA MovesKeep ==
    ASSUME HousesInv, NEW s \in Sessions, StandsThere(s) \/ MoveAndTell(s) \/ MoveAtOnce(s) \/ Settle(s)
    PROVE  HousesInv'
  <1>1. path[s] \in PathRow /\ SeenFits(path[s], client.documents_locked, client.payment_locked)
        /\ productions \in Nat /\ path \in [Sessions -> PathRow]
    BY DEF HousesInv, PathTyped, SeenIsLocked
  <1>2. NotMoving \in PathRow /\ \A a, b \in BOOLEAN : SeenFits(NotMoving, a, b)
    BY DEF NotMoving, PathRow, SeenFits
  <1>3. Completing(s) \in {"completed", cycle}
    BY DEF Completing
  <1>4. CASE StandsThere(s)
    <2>1. UNCHANGED <<client, productions>> /\ cycle' = Completing(s) /\ path' = [path EXCEPT ![s] = NotMoving]
      BY <1>4 DEF StandsThere, Ends
    <2>2. PathTyped'
      BY <1>2, <2>1 DEF HousesInv, PathTyped
    <2>3. SeenIsLocked'
      <3>1. SeenFits(NotMoving, client.documents_locked, client.payment_locked)
        BY DEF NotMoving, SeenFits
      <3> QED  BY <1>1, <2>1, <3>1 DEF HousesInv, SeenIsLocked
    <2> QED  BY <1>3, <2>1, <2>2, <2>3 DEF HousesInv, HousesAgree, CycleHasHouses, HousesFollowContract
  <1>5. CASE MoveAndTell(s)
    <2> DEFINE row == [path[s] EXCEPT !.step = "moved", !.task = 0]
    <2>1. path[s].step = "read" /\ Ahead(s) /\ client' = Moved(s) /\ cycle' = Completing(s) /\ productions' = productions
          /\ path' = [path EXCEPT ![s] = row]
      BY <1>1, <1>5 DEF MoveAndTell
    <2>2. row \in PathRow /\ row.step = "moved" /\ row.op = path[s].op /\ row.seen = path[s].seen
      BY <1>1 DEF PathRow
    <2> HIDE DEF row
    <2>3. (client.documents_locked => Moved(s).documents_locked)
          /\ (path[s].op = "move" /\ path[s].seen = "payment" => Moved(s).payment_locked)
      BY <2>1, MovedClient
    <2>4. SeenFits(row, Moved(s).documents_locked, Moved(s).payment_locked)
      BY <1>1, <2>2, <2>3 DEF SeenFits
    <2>5. cycle' \in {"production", "installation"} => cycle' = cycle \/ productions' > 0
      BY <1>3, <2>1
    <2>6. productions' \in Nat /\ productions <= productions' /\ (productions' > productions => IntoProduction(s))
      BY <1>1, <2>1
    <2> QED  BY <2>1, <2>2, <2>4, <2>5, <2>6, WrittenKeeps
  <1>6. CASE MoveAtOnce(s)
    <2>1. path[s].step = "read" /\ Ahead(s) /\ client' = Moved(s) /\ BuildHouses(s)
          /\ path' = [path EXCEPT ![s] = NotMoving]
          /\ cycle' = IF IntoProduction(s) THEN Producing(s) ELSE Completing(s)
      BY <1>6 DEF MoveAtOnce, Ends
    <2>2. SeenFits(NotMoving, Moved(s).documents_locked, Moved(s).payment_locked)
      BY DEF NotMoving, SeenFits
    <2>3. /\ productions' \in Nat /\ productions <= productions'
          /\ productions' > productions => IntoProduction(s)
          /\ IntoProduction(s) => productions' > 0
      BY <2>1, Building
    <2>4. cycle' \in {"production", "installation"} => cycle' = cycle \/ productions' > 0
      BY <1>3, <2>1, <2>3
    <2> QED  BY <1>2, <2>1, <2>2, <2>3, <2>4, WrittenKeeps
  <1>7. CASE Settle(s)
    <2>1. path[s].step = "settle" /\ client' = client /\ BuildHouses(s) /\ cycle' = Producing(s)
          /\ path' = [path EXCEPT ![s] = NotMoving]
      BY <1>7 DEF Settle, Ends
    <2>2. /\ productions' \in Nat /\ productions <= productions'
          /\ productions' > productions => IntoProduction(s)
          /\ IntoProduction(s) => productions' > 0
      BY <2>1, Building
    <2>3. IntoProduction(s) => client.documents_locked /\ client.payment_locked
      <3> SUFFICES ASSUME IntoProduction(s) PROVE client.documents_locked /\ client.payment_locked
        OBVIOUS
      <3>1. path[s].op = "move" /\ _next_stage(path[s].seen) = "postpayment"
        BY DEF IntoProduction, Target
      <3>2. path[s].seen \in MANUAL_TRANSITION_STAGES
        BY <1>1, <3>1 DEF SeenFits
      <3>3. path[s].seen = "payment"
        BY <3>1, <3>2, NextStages
      <3> QED  BY <1>1, <2>1, <3>1, <3>3 DEF SeenFits
    <2>4. PathTyped'
      BY <1>2, <2>1, <2>2 DEF HousesInv, PathTyped
    <2>5. SeenIsLocked'
      <3>1. SeenFits(NotMoving, client.documents_locked, client.payment_locked)
        BY DEF NotMoving, SeenFits
      <3> QED  BY <1>1, <2>1, <3>1 DEF HousesInv, SeenIsLocked
    <2>6. CycleHasHouses'
      <3>1. CASE IntoProduction(s)
        BY <2>2, <3>1 DEF CycleHasHouses
      <3>2. CASE ~IntoProduction(s)
        BY <1>1, <2>1, <2>2, <3>2 DEF Producing, HousesInv, HousesAgree, CycleHasHouses
      <3> QED  BY <3>1, <3>2
    <2>7. HousesFollowContract'
      <3>1. CASE productions' > productions
        BY <2>1, <2>2, <2>3, <3>1 DEF HousesFollowContract
      <3>2. CASE productions' = productions
        BY <2>1, <3>2 DEF HousesInv, HousesAgree, HousesFollowContract
      <3> QED  BY <1>1, <2>2, <3>1, <3>2
    <2> QED  BY <2>1, <2>4, <2>5, <2>6, <2>7 DEF HousesInv, HousesAgree
  <1> QED  BY <1>4, <1>5, <1>6, <1>7

LEMMA RestKeeps ==
    ASSUME HousesInv, NEW s \in Sessions,
           \/ Advance(s) \/ _reset_stage_tasks(s) \/ Reconciled(s) \/ Fails(s) \/ Stops(s)
           \/ reconcile_client_stage_tasks(s)
    PROVE  HousesInv'
  <1>1. UNCHANGED <<client, cycle, productions>>
    BY DEF Advance, _reset_stage_tasks, Reconciled, Fails, Stops, reconcile_client_stage_tasks
  <1>2. path[s] \in PathRow /\ SeenFits(path[s], client.documents_locked, client.payment_locked)
    BY DEF HousesInv, PathTyped, SeenIsLocked
  <1>3. _open_stage_tasks \in SUBSET Nat
    BY ClientPathAssumption DEF _open_stage_tasks, Slots
  <1>4. CASE Advance(s)
    <2> DEFINE row == [path[s] EXCEPT !.step = "read", !.seen = client.stage]
    <2>1. client.stage \in Stages /\ path[s].op = "acceptance" /\ Present
      BY <1>4, ClientTyped DEF Advance
    <2>2. row \in PathRow /\ row.seen = client.stage /\ row.step = "read" /\ row.op = "acceptance"
      BY <1>2, <2>1 DEF PathRow
    <2>3. path' = [path EXCEPT ![s] = row]
      BY <1>2, <1>4 DEF Advance
    <2> HIDE DEF row
    <2> QED  BY <1>1, <2>1, <2>2, <2>3, ReadKeeps
  <1>5. CASE _reset_stage_tasks(s)
    <2> DEFINE row == [path[s] EXCEPT !.step = "settle", !.open = _open_stage_tasks, !.task = 0]
    <2>1. row \in PathRow /\ row.seen = path[s].seen /\ row.step = "settle" /\ row.op = path[s].op
      BY <1>2, <1>3 DEF PathRow
    <2>2. path[s].step = "moved" /\ path' = [path EXCEPT ![s] = row]
      BY <1>2, <1>5 DEF _reset_stage_tasks
    <2> HIDE DEF row
    <2>3. SeenFits(row, client.documents_locked, client.payment_locked)
      BY <1>2, <2>1, <2>2 DEF SeenFits
    <2> QED  BY <1>1, <2>1, <2>2, <2>3, SessionKeeps
  <1>6. CASE Reconciled(s) \/ Fails(s) \/ Stops(s)
    <2>1. Ends(s)
      BY <1>6 DEF Reconciled, Fails, Stops, Refused, GenerationFails
    <2> QED  BY <1>1, <2>1, EndKeeps
  <1>7. CASE reconcile_client_stage_tasks(s)
    <2> DEFINE row == [step |-> "settle", op |-> "reconcile", seen |-> client.stage,
                       task |-> 0, open |-> _open_stage_tasks]
    <2>1. Present /\ path' = [path EXCEPT ![s] = row]
      BY <1>7 DEF reconcile_client_stage_tasks, Reconciling
    <2>2. client.stage \in Stages
      BY <2>1, ClientTyped
    <2>3. row \in PathRow /\ row.seen = client.stage /\ row.step = "settle" /\ row.op = "reconcile"
      BY <1>3, <2>2 DEF PathRow
    <2> HIDE DEF row
    <2> QED  BY <1>1, <2>1, <2>3, ReadKeeps
  <1> QED  BY <1>4, <1>5, <1>6, <1>7

LEMMA HousesStay == HousesInv /\ [PathNext]_pathVars => HousesInv'
  <1> SUFFICES ASSUME HousesInv, [PathNext]_pathVars
               PROVE  HousesInv'
    OBVIOUS
  <1>1. CASE People
    BY <1>1, PeopleKeep
  <1>2. ASSUME NEW s \in Sessions, Serves(s) \/ Stops(s) \/ reconcile_client_stage_tasks(s)
        PROVE  HousesInv'
    BY <1>2, MovesKeep, RestKeeps DEF Serves
  <1>3. CASE UNCHANGED pathVars
    BY <1>3 DEF pathVars, HousesInv, PathTyped, SeenIsLocked, HousesAgree, CycleHasHouses, HousesFollowContract
  <1> QED  BY <1>1, <1>2, <1>3 DEF PathNext

(***************************************************************************)
(* clients/service.py, _apply_stage_plan: a cycle is in production or at   *)
(* the installation only with houses, and there are houses only under a    *)
(* contract whose documents and payment are locked, at every commit.       *)
(***************************************************************************)
THEOREM HousesStandOnContracts == PathSpec => []HousesAgree
  <1>1. PathInit => HousesInv
    BY PathBegins
  <1>2. HousesInv /\ [PathNext]_pathVars => HousesInv'
    BY HousesStay
  <1>3. HousesInv => HousesAgree
    BY DEF HousesInv
  <1> QED  BY <1>1, <1>2, <1>3, PTL DEF PathSpec

------------------------------------------------------------------------------
(* Autonomy                                                                 *)

\* A session of a run, and what it has written, have these columns
IsMine(m) == DOMAIN m = {"watch", "repeats", "answered", "cards", "row"}
IsRun(n) ==
    /\ DOMAIN n = {"step", "todo", "queue", "looked", "seen", "scanned", "answered", "asks",
                   "counted", "made", "open", "locked", "mine"}
    /\ IsMine(n.mine)

CardRow == [status : {"none", "review", "done"}, key : Keys \cup {Unset}]

CardsTyped ==
    /\ card \in [Cards -> CardRow]
    /\ \A c \in Cards : card[c].status = "none" => card[c].key = Unset
    /\ DOMAIN watch = Keys /\ \A k \in Keys : "status" \in DOMAIN watch[k]

\* A session looks at what is among the keys, and writes what it holds
HoldsKeys(n) ==
    /\ n.looked # Unset => n.looked.key \in Keys
    /\ \A f \in n.queue : f.key \in Keys
    /\ DOMAIN n.mine.watch \subseteq Keys
    /\ DOMAIN n.mine.cards \subseteq Cards
    /\ \A c \in DOMAIN n.mine.cards : \E k \in n.locked \cap Keys :
           n.mine.cards[c] = [status |-> "review", key |-> k] /\ card[c].status = "none"

RunsTyped ==
    /\ DOMAIN run = Runs
    /\ \A r \in Runs : IsRun(run[r]) /\ HoldsKeys(run[r])

\* No two sessions hold a watch, or have given out an identifier
RunsApart ==
    \A r, o \in Runs : r # o =>
        /\ run[r].locked \cap run[o].locked = {}
        /\ DOMAIN run[r].mine.cards \cap DOMAIN run[o].mine.cards = {}

\* On a board every key waits once
WaitsOnce(board) ==
    \A c, d \in Cards :
        board[c].status = "review" /\ board[d].status = "review"
        /\ board[c].key = board[d].key /\ board[c].key # Unset => c = d

HasCard(board, k) == \E c \in Cards : board[c].key = k

SaysEscalated(m, k) ==
    k \in DOMAIN m.watch /\ "status" \in DOMAIN m.watch[k] /\ m.watch[k]["status"] = "escalated"

(***************************************************************************)
(* Why cards match findings: a session that puts up a card holds the row   *)
(* of its watch until the card is committed or gone with it, and marks the *)
(* watch escalated where it sees the card.                                 *)
(***************************************************************************)
CardsInv ==
    /\ CardsTyped /\ RunsTyped /\ RunsApart /\ EscalationsHaveCards
    /\ WaitsOnce(card) /\ \A r \in Runs : WaitsOnce(BoardOf(run[r].mine))
    /\ \A r \in Runs, k \in Keys : SaysEscalated(run[r].mine, k) => HasCard(BoardOf(run[r].mine), k)

\* What is written over, and what is put.
LEMMA OverAt ==
    ASSUME NEW new, NEW old
    PROVE  /\ DOMAIN Over(new, old) = DOMAIN new \cup DOMAIN old
           /\ \A x \in DOMAIN new : Over(new, old)[x] = new[x]
           /\ \A x \in DOMAIN old : x \notin DOMAIN new => Over(new, old)[x] = old[x]
  BY DEF Over

LEMMA PutDomain ==
    ASSUME NEW x, NEW value, NEW old
    PROVE  DOMAIN Put(x, value, old) = {x} \cup DOMAIN old
  BY DEF Put, Over

LEMMA PutAt ==
    ASSUME NEW x, NEW value, NEW old
    PROVE  \A y \in {x} \cup DOMAIN old : Put(x, value, old)[y] = IF y = x THEN value ELSE old[y]
  BY DEF Put, Over

\* A session sees its own cards over the committed ones.
LEMMA BoardAt ==
    ASSUME CardsTyped, NEW m, DOMAIN m.cards \subseteq Cards
    PROVE  /\ DOMAIN BoardOf(m) = Cards
           /\ \A c \in Cards : BoardOf(m)[c] = IF c \in DOMAIN m.cards THEN m.cards[c] ELSE card[c]
  <1>1. BoardOf(m) = Over(m.cards, card)
    BY DEF BoardOf
  <1>2. DOMAIN card = Cards
    BY DEF CardsTyped
  <1> DEFINE cards == m.cards
  <1>3. DOMAIN cards \cup DOMAIN card = Cards
    BY <1>2
  <1> HIDE DEF cards
  <1>4. /\ DOMAIN Over(cards, card) = DOMAIN cards \cup DOMAIN card
        /\ \A x \in DOMAIN cards : Over(cards, card)[x] = cards[x]
        /\ \A x \in DOMAIN card : x \notin DOMAIN cards => Over(cards, card)[x] = card[x]
    BY OverAt
  <1>5. /\ DOMAIN Over(cards, card) = Cards
        /\ \A c \in Cards : Over(cards, card)[c] = IF c \in DOMAIN cards THEN cards[c] ELSE card[c]
    BY <1>2, <1>3, <1>4
  <1> QED  BY <1>1, <1>5 DEF cards

LEMMA NothingWritten ==
    /\ IsMine(Unwritten) /\ DOMAIN Unwritten.cards = {} /\ DOMAIN Unwritten.watch = {}
    /\ IsRun(NotRunning) /\ NotRunning.mine = Unwritten /\ NotRunning.looked = Unset
    /\ NotRunning.queue = {} /\ NotRunning.locked = {}
  <1>1. DOMAIN <<>> = {}
    OBVIOUS
  <1>2. IsMine(Unwritten) /\ Unwritten.cards = <<>> /\ Unwritten.watch = <<>>
    BY DEF Unwritten, IsMine
  <1>3. NotRunning.mine = Unwritten /\ NotRunning.looked = Unset /\ NotRunning.queue = {} /\ NotRunning.locked = {}
    BY DEF NotRunning
  <1>4. IsRun(NotRunning)
    BY <1>2, <1>3 DEF NotRunning, IsRun
  <1> QED  BY <1>1, <1>2, <1>3, <1>4

LEMMA AutonomyBegins == AutonomyInit => CardsInv
  <1> SUFFICES ASSUME AutonomyInit
               PROVE  CardsInv
    OBVIOUS
  <1>1. CardsTyped
    BY DEF AutonomyInit, CardsTyped, CardRow, NoCard, NotWatched
  <1>2. \A r \in Runs : run[r] = NotRunning
    BY DEF AutonomyInit
  <1>3. RunsTyped
    BY <1>2, NothingWritten DEF AutonomyInit, RunsTyped, HoldsKeys
  <1>4. RunsApart
    BY <1>2, NothingWritten DEF RunsApart
  <1>5. EscalationsHaveCards
    BY DEF AutonomyInit, EscalationsHaveCards, NotWatched
  <1>6. WaitsOnce(card)
    BY DEF AutonomyInit, WaitsOnce, NoCard
  <1>7. ASSUME NEW r \in Runs PROVE WaitsOnce(BoardOf(run[r].mine))
    <2>1. \A c \in Cards : BoardOf(run[r].mine)[c] = card[c]
      BY <1>1, <1>2, NothingWritten, BoardAt
    <2> QED  BY <1>6, <2>1 DEF WaitsOnce
  <1>8. ASSUME NEW r \in Runs, NEW k \in Keys PROVE ~SaysEscalated(run[r].mine, k)
    BY <1>2, NothingWritten DEF SaysEscalated
  <1> QED  BY <1>1, <1>3, <1>4, <1>5, <1>6, <1>7, <1>8 DEF CardsInv

\* What a session n may be, the others as they are.
RunFits(r, n) ==
    /\ IsRun(n) /\ HoldsKeys(n)
    /\ \A o \in Runs \ {r} :
          /\ n.locked \cap run[o].locked = {}
          /\ DOMAIN n.mine.cards \cap DOMAIN run[o].mine.cards = {}
    /\ WaitsOnce(BoardOf(n.mine))
    /\ \A k \in Keys : SaysEscalated(n.mine, k) => HasCard(BoardOf(n.mine), k)

\* A step that changes one session only.
LEMMA RunKeeps ==
    ASSUME CardsInv, NEW r \in Runs, NEW n, run' = [run EXCEPT ![r] = n], RunFits(r, n),
           UNCHANGED <<card, watch>>
    PROVE  CardsInv'
  <1>1. run'[r] = n /\ (\A o \in Runs : o # r => run'[o] = run[o]) /\ DOMAIN run' = Runs
    BY DEF CardsInv, RunsTyped
  <1>2. CardsTyped' /\ EscalationsHaveCards' /\ WaitsOnce(card)'
    BY DEF CardsInv, CardsTyped, EscalationsHaveCards, WaitsOnce
  <1>3. RunsTyped'
    <2> SUFFICES ASSUME NEW o \in Runs PROVE IsRun(run'[o]) /\ HoldsKeys(run[o])'
      BY <1>1 DEF RunsTyped
    <2>1. CASE o = r
      BY <1>1, <2>1 DEF RunFits, HoldsKeys
    <2>2. CASE o # r
      BY <1>1, <2>2 DEF CardsInv, RunsTyped, HoldsKeys
    <2> QED  BY <2>1, <2>2
  <1>4. RunsApart'
    BY <1>1 DEF CardsInv, RunsApart, RunFits
  <1>5. ASSUME NEW o \in Runs
        PROVE  /\ WaitsOnce(BoardOf(run[o].mine))'
               /\ \A k \in Keys : SaysEscalated(run[o].mine, k)' => HasCard(BoardOf(run[o].mine), k)'
    <2>1. CASE o = r
      BY <1>1, <2>1 DEF RunFits, WaitsOnce, BoardOf, SaysEscalated, HasCard
    <2>2. CASE o # r
      BY <1>1, <2>2 DEF CardsInv, WaitsOnce, BoardOf, SaysEscalated, HasCard
    <2> QED  BY <2>1, <2>2
  <1> QED  BY <1>2, <1>3, <1>4, <1>5 DEF CardsInv

\* What a session has written may be committed: the cards are of keys it holds.
WrittenFits(r, m) ==
    /\ DOMAIN m.watch \subseteq Keys /\ DOMAIN m.cards \subseteq Cards
    /\ \A c \in DOMAIN m.cards :
          /\ card[c].status = "none"
          /\ \E k \in Keys : /\ m.cards[c] = [status |-> "review", key |-> k]
                             /\ \A o \in Runs \ {r} : k \notin run[o].locked
          /\ \A o \in Runs \ {r} : c \notin DOMAIN run[o].mine.cards
    /\ WaitsOnce(BoardOf(m))
    /\ \A k \in Keys : SaysEscalated(m, k) => HasCard(BoardOf(m), k)

\* The board a commit leaves.
LEMMA CommittedBoard ==
    ASSUME CardsInv, NEW r \in Runs, NEW m, WrittenFits(r, m), CommitRun(m)
    PROVE  /\ CardsTyped' /\ WaitsOnce(card') /\ EscalationsHaveCards'
           /\ \A c \in Cards : card'[c] = IF c \in DOMAIN m.cards THEN m.cards[c] ELSE card[c]
           /\ \A k \in Keys : HasCard(card, k) => HasCard(card', k)
  <1>1. CardsTyped
    BY DEF CardsInv
  <1>2. DOMAIN m.watch \subseteq Keys /\ DOMAIN m.cards \subseteq Cards
        /\ \A c \in DOMAIN m.cards : card[c].status = "none" /\ \E k \in Keys : m.cards[c] = [status |-> "review", key |-> k]
    BY DEF WrittenFits
  <1>3. card' = BoardOf(m) /\ watch' = [k \in Keys |-> Watched(m, k)]
    BY DEF CommitRun
  <1>4. DOMAIN card' = Cards /\ \A c \in Cards : card'[c] = IF c \in DOMAIN m.cards THEN m.cards[c] ELSE card[c]
    BY <1>1, <1>2, <1>3, BoardAt
  <1>5. card' = [c \in Cards |-> card'[c]]
    <2>1. card' = [c \in DOMAIN m.cards \cup DOMAIN card |-> card'[c]]
      BY <1>3 DEF BoardOf, Over
    <2>2. DOMAIN m.cards \cup DOMAIN card = Cards
      BY <1>1, <1>2 DEF CardsTyped
    <2> QED  BY <2>1, <2>2
  <1>6. ASSUME NEW c \in Cards PROVE card'[c] \in CardRow /\ (card'[c].status = "none" => card'[c].key = Unset)
    <2>1. CASE c \in DOMAIN m.cards
      <3>1. PICK k \in Keys : m.cards[c] = [status |-> "review", key |-> k]
        BY <1>2, <2>1
      <3>2. card'[c] = [status |-> "review", key |-> k]
        BY <1>4, <2>1, <3>1
      <3> QED  BY <3>2 DEF CardRow
    <2>2. CASE c \notin DOMAIN m.cards
      BY <1>1, <1>4, <2>2 DEF CardsTyped
    <2> QED  BY <2>1, <2>2
  <1>7. ASSUME NEW k \in Keys
        PROVE  /\ "status" \in DOMAIN watch'[k]
               /\ SaysEscalated(m, k) \/ watch'[k].status = watch[k].status
                  \/ watch'[k].status # "escalated"
    <2>1. "status" \in DOMAIN watch[k]
      BY <1>1 DEF CardsTyped
    <2>2. watch'[k] = Watched(m, k)
      BY <1>3
    <2>3. CASE k \notin DOMAIN m.watch
      BY <2>1, <2>2, <2>3 DEF Watched
    <2>4. CASE k \in DOMAIN m.watch
      <3>1. watch'[k] = Over(m.watch[k], watch[k])
        BY <2>2, <2>4 DEF Watched
      <3>2. DOMAIN watch'[k] = DOMAIN m.watch[k] \cup DOMAIN watch[k]
            /\ (\A x \in DOMAIN m.watch[k] : watch'[k][x] = m.watch[k][x])
            /\ (\A x \in DOMAIN watch[k] : x \notin DOMAIN m.watch[k] => watch'[k][x] = watch[k][x])
        <4> DEFINE new == m.watch[k]
                   old == watch[k]
        <4> HIDE DEF new, old
        <4>1. /\ DOMAIN Over(new, old) = DOMAIN new \cup DOMAIN old
              /\ \A y \in DOMAIN new : Over(new, old)[y] = new[y]
              /\ \A y \in DOMAIN old : y \notin DOMAIN new => Over(new, old)[y] = old[y]
          BY OverAt
        <4> QED  BY <3>1, <4>1 DEF new, old
      <3>3. CASE "status" \in DOMAIN m.watch[k]
        BY <2>1, <2>4, <3>2, <3>3 DEF SaysEscalated
      <3>4. CASE "status" \notin DOMAIN m.watch[k]
        BY <2>1, <3>2, <3>4
      <3> QED  BY <3>3, <3>4
    <2> QED  BY <2>3, <2>4
  <1>8. CardsTyped'
    <2>1. card' \in [Cards -> CardRow]
      BY <1>5, <1>6
    <2>2. DOMAIN watch' = Keys
      BY <1>3
    <2> QED  BY <1>6, <1>7, <2>1, <2>2 DEF CardsTyped
  <1>9. WaitsOnce(card')
    BY <1>3 DEF WrittenFits
  <1>10. ASSUME NEW k \in Keys, HasCard(card, k) PROVE HasCard(card', k)
    <2>1. PICK c \in Cards : card[c].key = k
      BY <1>10 DEF HasCard
    <2>2. card[c].status # "none"
      BY <1>1, <2>1, AutonomyAssumption DEF CardsTyped
    <2>3. card'[c] = card[c]
      BY <1>2, <1>4, <2>2
    <2> QED  BY <2>1, <2>3 DEF HasCard
  <1>11. ASSUME NEW k \in Keys, watch'[k].status = "escalated" PROVE HasCard(card', k)
    <2>1. CASE SaysEscalated(m, k)
      BY <1>3, <2>1 DEF WrittenFits
    <2>2. CASE watch'[k].status = watch[k].status
      <3>1. HasCard(card, k)
        BY <1>11, <2>2 DEF CardsInv, EscalationsHaveCards, HasCard
      <3> QED  BY <1>10, <3>1
    <2> QED  BY <1>7, <1>11, <2>1, <2>2
  <1>12. EscalationsHaveCards'
    BY <1>11 DEF EscalationsHaveCards, HasCard
  <1> QED  BY <1>4, <1>8, <1>9, <1>10, <1>12

\* A commit is seen by the other sessions: their cards are of other keys.
LEMMA CommitLeavesCards ==
    ASSUME CardsInv, NEW r \in Runs, NEW m, WrittenFits(r, m), CommitRun(m),
           NEW n, IsRun(n), HoldsKeys(n), n.locked = {}, DOMAIN n.mine.cards = {},
           \A k \in Keys : SaysEscalated(n.mine, k) => HasCard(card', k),
           run' = [run EXCEPT ![r] = n]
    PROVE  CardsInv'
  <1>1. run'[r] = n /\ (\A o \in Runs : o # r => run'[o] = run[o]) /\ DOMAIN run' = Runs
    BY DEF CardsInv, RunsTyped
  <1>2. /\ CardsTyped' /\ WaitsOnce(card') /\ EscalationsHaveCards'
        /\ \A c \in Cards : card'[c] = IF c \in DOMAIN m.cards THEN m.cards[c] ELSE card[c]
        /\ \A k \in Keys : HasCard(card, k) => HasCard(card', k)
    BY CommittedBoard
  <1>3. ASSUME NEW o \in Runs, o # r
        PROVE  /\ HoldsKeys(run[o])
               /\ DOMAIN run[o].mine.cards \subseteq Cards
               /\ \A c \in DOMAIN run[o].mine.cards : c \notin DOMAIN m.cards /\ card'[c] = card[c]
    <2>1. HoldsKeys(run[o])
      BY DEF CardsInv, RunsTyped
    <2>2. DOMAIN run[o].mine.cards \subseteq Cards
      BY <2>1 DEF HoldsKeys
    <2>3. \A c \in DOMAIN run[o].mine.cards : c \notin DOMAIN m.cards
      BY <1>3 DEF WrittenFits
    <2> QED  BY <1>2, <2>1, <2>2, <2>3
  <1>4. RunsTyped'
    <2> SUFFICES ASSUME NEW o \in Runs PROVE IsRun(run'[o]) /\ HoldsKeys(run[o])'
      BY <1>1 DEF RunsTyped
    <2>1. CASE o = r
      BY <1>1, <2>1 DEF HoldsKeys
    <2>2. CASE o # r
      <3>1. IsRun(run'[o])
        BY <1>1, <2>2 DEF CardsInv, RunsTyped
      <3>2. HoldsKeys(run[o])'
        <4> DEFINE n1 == run[o]
        <4>1. HoldsKeys(n1) /\ \A c \in DOMAIN n1.mine.cards : card'[c] = card[c]
          BY <1>3, <2>2
        <4>2. run'[o] = n1
          BY <1>1, <2>2
        <4> HIDE DEF n1
        <4>3. \A c \in DOMAIN n1.mine.cards : \E k \in n1.locked \cap Keys :
                  n1.mine.cards[c] = [status |-> "review", key |-> k] /\ card'[c].status = "none"
          BY <4>1 DEF HoldsKeys
        <4> QED  BY <4>1, <4>2, <4>3 DEF HoldsKeys
      <3> QED  BY <3>1, <3>2
    <2> QED  BY <2>1, <2>2
  <1>5. RunsApart'
    BY <1>1 DEF CardsInv, RunsApart
  <1>6. ASSUME NEW o \in Runs
        PROVE  \A c \in Cards : BoardOf(run[o].mine)'[c] =
                   IF c \in DOMAIN run'[o].mine.cards THEN run'[o].mine.cards[c] ELSE card'[c]
    <2>1. DOMAIN run'[o].mine.cards \subseteq Cards
      BY <1>1, <1>3
    <2>2. DOMAIN card' = Cards
      BY <1>2 DEF CardsTyped
    <2>3. BoardOf(run[o].mine)' = Over(run'[o].mine.cards, card')
      BY DEF BoardOf
    <2> DEFINE new == run'[o].mine.cards
               old == card'
    <2> HIDE DEF new, old
    <2>4. /\ DOMAIN Over(new, old) = DOMAIN new \cup DOMAIN old
          /\ \A x \in DOMAIN new : Over(new, old)[x] = new[x]
          /\ \A x \in DOMAIN old : x \notin DOMAIN new => Over(new, old)[x] = old[x]
      BY DEF Over
    <2>5. \A c \in Cards : Over(new, card')[c] = IF c \in DOMAIN new THEN new[c] ELSE card'[c]
      BY <2>2, <2>4 DEF old
    <2> QED  BY <2>3, <2>5 DEF new
  <1>7. ASSUME NEW o \in Runs PROVE WaitsOnce(BoardOf(run[o].mine))'
    <2>1. CASE o = r
      <3>1. \A c \in Cards : BoardOf(run[o].mine)'[c] = card'[c]
        BY <1>1, <1>6, <2>1
      <3> QED  BY <1>2, <3>1 DEF WaitsOnce
    <2>2. CASE o # r
      <3> DEFINE was == BoardOf(run[o].mine)
                 is == BoardOf(run[o].mine)'
                 cards == run[o].mine.cards
      <3>1. \A c \in Cards : is[c] = IF c \in DOMAIN cards THEN cards[c] ELSE card'[c]
        BY <1>1, <1>6, <2>2
      <3>2. \A c \in Cards : was[c] = IF c \in DOMAIN cards THEN cards[c] ELSE card[c]
        BY <1>3, <2>2, BoardAt DEF CardsInv
      <3>3. WaitsOnce(was)
        BY DEF CardsInv
      <3>4. \A c \in DOMAIN cards : \E k \in run[o].locked \cap Keys : cards[c] = [status |-> "review", key |-> k]
        BY <1>3, <2>2 DEF HoldsKeys
      <3>5. \A c \in DOMAIN m.cards : \E k \in Keys : m.cards[c] = [status |-> "review", key |-> k] /\ k \notin run[o].locked
        BY <2>2 DEF WrittenFits
      <3> HIDE DEF was, is, cards
      <3>6. ASSUME NEW c \in Cards, NEW d \in Cards, c \in DOMAIN cards, is[d].status = "review", is[d].key = is[c].key
            PROVE  c = d
        <4>0. PICK k \in run[o].locked \cap Keys : cards[c] = [status |-> "review", key |-> k]
          BY <3>4, <3>6
        <4>5. cards[c].key = k /\ cards[c].status = "review"
          BY <4>0
        <4>1. is[c] = cards[c] /\ was[c] = cards[c] /\ is[c].key \in run[o].locked /\ is[c].key \in Keys
              /\ is[c].status = "review"
          BY <3>1, <3>2, <3>6, <4>5
        <4>2. d \notin DOMAIN m.cards \/ d \in DOMAIN cards
          <5> SUFFICES ASSUME d \in DOMAIN m.cards, d \notin DOMAIN cards
                       PROVE  FALSE
            OBVIOUS
          <5>1. PICK l \in Keys : m.cards[d] = [status |-> "review", key |-> l] /\ l \notin run[o].locked
            BY <3>5
          <5>2. is[d] = m.cards[d]
            BY <1>2, <3>1
          <5> QED  BY <3>6, <4>1, <5>1, <5>2
        <4>3. was[d] = is[d]
          BY <1>2, <3>1, <3>2, <4>2
        <4>4. is[c].key # Unset
          BY <4>1, AutonomyAssumption
        <4> QED  BY <3>3, <3>6, <4>1, <4>3, <4>4 DEF WaitsOnce
      <3>7. ASSUME NEW c \in Cards, NEW d \in Cards, is[c].status = "review", is[d].status = "review",
                   is[c].key = is[d].key, is[c].key # Unset
            PROVE  c = d
        <4>1. CASE c \in DOMAIN cards
          BY <3>6, <3>7, <4>1
        <4>2. CASE d \in DOMAIN cards
          BY <3>6, <3>7, <4>2
        <4>3. CASE c \notin DOMAIN cards /\ d \notin DOMAIN cards
          <5>1. is[c] = card'[c] /\ is[d] = card'[d]
            BY <3>1, <4>3
          <5> QED  BY <1>2, <3>7, <5>1 DEF WaitsOnce
        <4> QED  BY <4>1, <4>2, <4>3
      <3> QED  BY <3>7 DEF WaitsOnce, is
    <2> QED  BY <2>1, <2>2
  <1>8. ASSUME NEW o \in Runs, NEW k \in Keys, SaysEscalated(run[o].mine, k)'
        PROVE  HasCard(BoardOf(run[o].mine), k)'
    <2>1. CASE o = r
      <3>1. HasCard(card', k)
        BY <1>1, <1>8, <2>1 DEF SaysEscalated
      <3>2. \A c \in Cards : BoardOf(run[o].mine)'[c] = card'[c]
        BY <1>1, <1>6, <2>1
      <3> QED  BY <3>1, <3>2 DEF HasCard
    <2>2. CASE o # r
      <3>1. SaysEscalated(run[o].mine, k)
        BY <1>1, <1>8, <2>2 DEF SaysEscalated
      <3>2. HasCard(BoardOf(run[o].mine), k)
        BY <3>1 DEF CardsInv
      <3>3. PICK c \in Cards : BoardOf(run[o].mine)[c].key = k
        BY <3>2 DEF HasCard
      <3>4. BoardOf(run[o].mine)[c] = IF c \in DOMAIN run[o].mine.cards THEN run[o].mine.cards[c] ELSE card[c]
        BY <1>3, <2>2, BoardAt DEF CardsInv
      <3>5. CASE c \in DOMAIN run[o].mine.cards
        <4>1. BoardOf(run[o].mine)'[c].key = k
          BY <1>1, <1>6, <2>2, <3>3, <3>4, <3>5
        <4> QED  BY <4>1 DEF HasCard
      <3>6. CASE c \notin DOMAIN run[o].mine.cards
        <4>1. card[c].key = k /\ card[c].status # "none"
          BY <3>3, <3>4, <3>6, AutonomyAssumption DEF CardsInv, CardsTyped
        <4>2. card'[c] = card[c]
          BY <1>2, <4>1 DEF WrittenFits
        <4>3. BoardOf(run[o].mine)'[c].key = k
          BY <1>1, <1>6, <2>2, <3>6, <4>1, <4>2
        <4> QED  BY <4>3 DEF HasCard
      <3> QED  BY <3>5, <3>6
    <2> QED  BY <2>1, <2>2
  <1>9. WaitsOnce(card)'
    BY <1>2 DEF WaitsOnce
  <1> QED  BY <1>2, <1>4, <1>5, <1>7, <1>8, <1>9 DEF CardsInv

\* A session the people do not touch, but for the reactions it has counted.
SameRun(n, old) ==
    /\ IsRun(n) /\ n.looked = old.looked /\ n.queue = old.queue /\ n.locked = old.locked
    /\ n.mine.cards = old.mine.cards /\ n.mine.watch = old.mine.watch

\* What people do to a card: they decide it, or put up one of their own.
Decided(c) == card[c].status = "review" /\ card'[c] = [card[c] EXCEPT !.status = "done"]
PutUp(c) ==
    /\ card[c].status = "none" /\ card'[c] = [status |-> "review", key |-> Unset]
    /\ \A r \in Runs : c \notin DOMAIN run[r].mine.cards

LEMMA PeopleKeepCards ==
    ASSUME CardsInv, DOMAIN card' = Cards, card' = [c \in Cards |-> card'[c]],
           \A c \in Cards : card'[c] = card[c] \/ Decided(c) \/ PutUp(c),
           DOMAIN run' = Runs, \A r \in Runs : SameRun(run'[r], run[r]),
           DOMAIN watch' = Keys,
           \A k \in Keys : "status" \in DOMAIN watch'[k]
                           /\ (watch'[k].status = "escalated" => watch[k].status = "escalated")
    PROVE  CardsInv'
  <1>1. CardsTyped /\ \A r \in Runs : HoldsKeys(run[r])
    BY DEF CardsInv, RunsTyped
  <1>2. ASSUME NEW c \in Cards
        PROVE  /\ card'[c] \in CardRow /\ (card'[c].status = "none" => card'[c] = card[c] /\ card'[c].key = Unset)
               /\ card[c].key # Unset => card'[c].key = card[c].key
               /\ card'[c].status = "review" /\ card'[c].key # Unset => card'[c] = card[c]
    <2>1. card[c] \in CardRow /\ (card[c].status = "none" => card[c].key = Unset)
      BY <1>1 DEF CardsTyped
    <2>2. card'[c] = card[c] \/ Decided(c) \/ PutUp(c)
      OBVIOUS
    <2> QED  BY <2>1, <2>2 DEF Decided, PutUp, CardRow
  <1>3. CardsTyped'
    <2>1. card' \in [Cards -> CardRow]
      BY <1>2
    <2> QED  BY <1>2, <2>1 DEF CardsTyped
  <1>4. ASSUME NEW r \in Runs, NEW c \in DOMAIN run[r].mine.cards
        PROVE  c \in Cards /\ card[c].status = "none" /\ card'[c] = card[c]
    <2>1. c \in Cards /\ card[c].status = "none"
      BY <1>1, <1>4 DEF HoldsKeys
    <2>2. ~Decided(c) /\ ~PutUp(c)
      BY <1>4, <2>1 DEF Decided, PutUp
    <2> QED  BY <2>1, <2>2
  <1>5. RunsTyped'
    <2> SUFFICES ASSUME NEW r \in Runs PROVE IsRun(run'[r]) /\ HoldsKeys(run[r])'
      BY DEF RunsTyped
    <2> DEFINE n == run[r]
               n1 == run'[r]
    <2>1. SameRun(n1, n) /\ HoldsKeys(n)
      BY <1>1
    <2>2. \A c \in DOMAIN n.mine.cards : card'[c] = card[c]
      BY <1>4
    <2> HIDE DEF n, n1
    <2>3. /\ IsRun(n1)
          /\ n1.looked # Unset => n1.looked.key \in Keys
          /\ \A f \in n1.queue : f.key \in Keys
          /\ DOMAIN n1.mine.watch \subseteq Keys
          /\ DOMAIN n1.mine.cards \subseteq Cards
      BY <2>1 DEF SameRun, HoldsKeys
    <2>4. \A c \in DOMAIN n1.mine.cards : \E k \in n1.locked \cap Keys :
              n1.mine.cards[c] = [status |-> "review", key |-> k] /\ card'[c].status = "none"
      BY <2>1, <2>2 DEF SameRun, HoldsKeys
    <2> QED  BY <2>3, <2>4 DEF HoldsKeys, n1
  <1>6. RunsApart'
    BY DEF CardsInv, RunsApart, SameRun
  <1>7. EscalationsHaveCards'
    <2> SUFFICES ASSUME NEW k \in Keys, watch'[k].status = "escalated" PROVE \E c \in Cards : card'[c].key = k
      BY DEF EscalationsHaveCards
    <2>1. PICK c \in Cards : card[c].key = k
      BY DEF CardsInv, EscalationsHaveCards
    <2> QED  BY <1>2, <2>1, AutonomyAssumption
  <1>8. WaitsOnce(card)'
    BY <1>2 DEF CardsInv, WaitsOnce
  <1>9. ASSUME NEW r \in Runs
        PROVE  \A c \in Cards :
                   /\ BoardOf(run[r].mine)[c] = IF c \in DOMAIN run[r].mine.cards THEN run[r].mine.cards[c] ELSE card[c]
                   /\ BoardOf(run[r].mine)'[c] = IF c \in DOMAIN run[r].mine.cards THEN run[r].mine.cards[c] ELSE card'[c]
    <2>1. DOMAIN run[r].mine.cards \subseteq Cards
      BY <1>1 DEF HoldsKeys
    <2>2. run'[r].mine.cards = run[r].mine.cards
      BY DEF SameRun
    <2>3. BoardOf(run[r].mine)' = Over(run[r].mine.cards, card')
      BY <2>2 DEF BoardOf
    <2>4. DOMAIN card' = Cards
      OBVIOUS
    <2> DEFINE new == run[r].mine.cards
    <2> HIDE DEF new
    <2>5. /\ DOMAIN Over(new, card') = DOMAIN new \cup DOMAIN card'
          /\ \A x \in DOMAIN new : Over(new, card')[x] = new[x]
          /\ \A x \in DOMAIN card' : x \notin DOMAIN new => Over(new, card')[x] = card'[x]
      BY DEF Over
    <2>6. \A c \in Cards : Over(new, card')[c] = IF c \in DOMAIN new THEN new[c] ELSE card'[c]
      BY <2>4, <2>5
    <2>7. \A c \in Cards : BoardOf(run[r].mine)[c] = IF c \in DOMAIN run[r].mine.cards
                                                     THEN run[r].mine.cards[c] ELSE card[c]
      BY <1>1, <2>1, BoardAt
    <2> QED  BY <2>3, <2>6, <2>7 DEF new
  <1>10. ASSUME NEW r \in Runs PROVE WaitsOnce(BoardOf(run[r].mine))'
    <2> SUFFICES ASSUME NEW c \in Cards, NEW d \in Cards,
                        BoardOf(run[r].mine)'[c].status = "review", BoardOf(run[r].mine)'[d].status = "review",
                        BoardOf(run[r].mine)'[c].key = BoardOf(run[r].mine)'[d].key,
                        BoardOf(run[r].mine)'[c].key # Unset
                 PROVE  c = d
      BY DEF WaitsOnce
    <2>1. BoardOf(run[r].mine)'[c] = BoardOf(run[r].mine)[c] /\ BoardOf(run[r].mine)'[d] = BoardOf(run[r].mine)[d]
      BY <1>2, <1>9
    <2>2. WaitsOnce(BoardOf(run[r].mine))
      BY DEF CardsInv
    <2> QED  BY <2>1, <2>2 DEF WaitsOnce
  <1>11. ASSUME NEW r \in Runs, NEW k \in Keys, SaysEscalated(run[r].mine, k)'
         PROVE  HasCard(BoardOf(run[r].mine), k)'
    <2>1. SaysEscalated(run[r].mine, k)
      BY <1>11 DEF SaysEscalated, SameRun
    <2>2. PICK c \in Cards : BoardOf(run[r].mine)[c].key = k
      BY <2>1 DEF CardsInv, HasCard
    <2>3. BoardOf(run[r].mine)'[c].key = k
      BY <1>2, <1>9, <2>2, AutonomyAssumption
    <2> QED  BY <2>3 DEF HasCard
  <1> QED  BY <1>3, <1>5, <1>6, <1>7, <1>8, <1>10, <1>11 DEF CardsInv

LEMMA SessionFits ==
    ASSUME CardsInv, NEW r \in Runs
    PROVE  RunFits(r, run[r]) /\ IsRun(run[r]) /\ HoldsKeys(run[r])
  BY DEF CardsInv, RunsTyped, RunsApart, RunFits

\* A session that holds and has written nothing fits beside the others.
LEMMA EmptyFits ==
    ASSUME CardsInv, NEW r \in Runs, NEW n, IsRun(n), n.looked = Unset, \A f \in n.queue : f.key \in Keys,
           n.locked = {}, DOMAIN n.mine.cards = {}, DOMAIN n.mine.watch = {}
    PROVE  RunFits(r, n)
  <1>1. HoldsKeys(n)
    BY DEF HoldsKeys
  <1>2. \A c \in Cards : BoardOf(n.mine)[c] = card[c]
    BY BoardAt DEF CardsInv
  <1>3. WaitsOnce(BoardOf(n.mine))
    BY <1>2 DEF CardsInv, WaitsOnce
  <1>4. \A k \in Keys : ~SaysEscalated(n.mine, k)
    BY DEF SaysEscalated
  <1> QED  BY <1>1, <1>3, <1>4 DEF RunFits

\* One that has written nothing more since, too.
LEMMA SameMineFits ==
    ASSUME NEW r \in Runs, NEW n, RunFits(r, n), NEW n1, IsRun(n1), n1.mine = n.mine, n1.locked = n.locked,
           n1.looked # Unset => n1.looked.key \in Keys, \A f \in n1.queue : f.key \in Keys
    PROVE  RunFits(r, n1)
  BY DEF RunFits, HoldsKeys

LEMMA ScansKeepCards ==
    ASSUME CardsInv, NEW r \in Runs,
           \/ BeginRun(r) \/ Dies(r) \/ (\E s \in Scenarios : Scan(r, s) \/ ScanFails(r, s))
           \/ \E f \in run[r].queue : Look(r, f)
    PROVE  CardsInv'
  <1> DEFINE n == run[r]
  <1>1. RunFits(r, n) /\ IsRun(n) /\ HoldsKeys(n)
    BY SessionFits
  <1> HIDE DEF n
  <1>2. CASE BeginRun(r)
    <2> DEFINE n1 == [NotRunning EXCEPT !.step = "scan", !.todo = Scenarios,
                                        !.mine = sync_reactions([Unwritten EXCEPT !.row = TRUE])]
    <2>1. run' = [run EXCEPT ![r] = n1] /\ UNCHANGED <<card, watch>>
      BY <1>2 DEF BeginRun
    <2>2. IsMine(n1.mine) /\ DOMAIN n1.mine.cards = {} /\ DOMAIN n1.mine.watch = {}
      <3> DEFINE m == [Unwritten EXCEPT !.row = TRUE]
                 m1 == sync_reactions(m)
      <3>1. IsMine(m) /\ m.cards = Unwritten.cards /\ m.watch = Unwritten.watch
        BY NothingWritten DEF IsMine
      <3> HIDE DEF m
      <3>2. IsMine(m1) /\ m1.cards = m.cards /\ m1.watch = m.watch
        BY <3>1 DEF sync_reactions, IsMine
      <3> HIDE DEF m1
      <3>3. n1.mine = m1
        BY NothingWritten DEF IsRun, m, m1
      <3> QED  BY <3>1, <3>2, <3>3, NothingWritten
    <2>3. IsRun(n1) /\ n1.looked = Unset /\ n1.queue = {} /\ n1.locked = {}
      BY <2>2 DEF NotRunning, IsRun
    <2> HIDE DEF n1
    <2>4. RunFits(r, n1)
      BY <2>2, <2>3, EmptyFits
    <2> QED  BY <2>1, <2>4, RunKeeps
  <1>3. CASE Dies(r)
    <2>1. run' = [run EXCEPT ![r] = NotRunning] /\ UNCHANGED <<card, watch>>
      BY <1>3 DEF Dies
    <2>2. RunFits(r, NotRunning)
      BY NothingWritten, EmptyFits
    <2> QED  BY <2>1, <2>2, RunKeeps
  <1>4. ASSUME NEW s \in Scenarios, Scan(r, s) PROVE CardsInv'
    <2> DEFINE findings == {k \in Keys : ScenarioOf[k] = s /\ found[k] # "no"}
               n1 == [n EXCEPT !.todo = n.todo \ {s}, !.scanned = n.scanned \cup {s},
                               !.answered = n.answered \cup {s}, !.seen = n.seen \cup findings,
                               !.queue = {[key |-> k, level |-> found[k]] : k \in findings}]
    <2>1. run' = [run EXCEPT ![r] = n1] /\ UNCHANGED <<card, watch>>
      BY <1>4 DEF Scan, n
    <2>2. IsRun(n1) /\ n1.mine = n.mine /\ n1.locked = n.locked /\ n1.looked = n.looked
          /\ n1.queue = {[key |-> k, level |-> found[k]] : k \in findings}
      BY <1>1 DEF IsRun
    <2>3. \A f \in n1.queue : f.key \in Keys
      BY <2>2
    <2> HIDE DEF n1
    <2>4. RunFits(r, n1)
      BY <1>1, <2>2, <2>3, SameMineFits DEF HoldsKeys
    <2> QED  BY <2>1, <2>4, RunKeeps
  <1>5. ASSUME NEW s \in Scenarios, ScanFails(r, s) PROVE CardsInv'
    <2>1. PICK entered \in {{}, {s}} :
              run' = [run EXCEPT ![r] = [n EXCEPT !.todo = n.todo \ {s}, !.scanned = n.scanned \cup entered,
                                                  !.locked = {}, !.mine = Unwritten]]
      BY <1>5 DEF ScanFails, n
    <2> DEFINE n1 == [n EXCEPT !.todo = n.todo \ {s}, !.scanned = n.scanned \cup entered,
                               !.locked = {}, !.mine = Unwritten]
    <2>2. n.queue = {} /\ UNCHANGED <<card, watch>>
      BY <1>5 DEF ScanFails, n
    <2>3. IsRun(n1) /\ n1.mine = Unwritten /\ n1.locked = {} /\ n1.looked = n.looked /\ n1.queue = {}
      BY <1>1, <2>2, NothingWritten DEF IsRun
    <2>4. HoldsKeys(n1)
      BY <1>1, <2>3, NothingWritten DEF HoldsKeys
    <2>5. run' = [run EXCEPT ![r] = n1]
      BY <2>1
    <2> HIDE DEF n1
    <2>6. \A c \in Cards : BoardOf(n1.mine)[c] = card[c]
      BY <2>3, NothingWritten, BoardAt DEF CardsInv
    <2>7. WaitsOnce(BoardOf(n1.mine)) /\ \A k \in Keys : ~SaysEscalated(n1.mine, k)
      BY <2>3, <2>6, NothingWritten DEF CardsInv, WaitsOnce, SaysEscalated
    <2>8. RunFits(r, n1)
      BY <2>3, <2>4, <2>7, NothingWritten DEF RunFits
    <2> QED  BY <2>2, <2>5, <2>8, RunKeeps
  <1>6. ASSUME NEW f \in run[r].queue, Look(r, f) PROVE CardsInv'
    <2> DEFINE looked == [key |-> f.key, level |-> f.level, row |-> Watched(n.mine, f.key)]
               n1 == [n EXCEPT !.looked = looked]
    <2>1. run' = [run EXCEPT ![r] = n1] /\ UNCHANGED <<card, watch>>
      BY <1>6 DEF Look, n
    <2>2. IsRun(n1) /\ n1.mine = n.mine /\ n1.locked = n.locked /\ n1.looked = looked /\ n1.queue = n.queue
      BY <1>1 DEF IsRun
    <2>3. looked.key \in Keys /\ \A x \in n1.queue : x.key \in Keys
      BY <1>1, <1>6, <2>2 DEF HoldsKeys, n
    <2> HIDE DEF n1, looked
    <2>4. RunFits(r, n1)
      BY <1>1, <2>2, <2>3, SameMineFits
    <2> QED  BY <2>1, <2>4, RunKeeps
  <1> QED  BY <1>2, <1>3, <1>4, <1>5, <1>6 DEF n

\* The sessions stay as they are.
LEMMA RunsStay ==
    ASSUME CardsInv, run' = run
    PROVE  DOMAIN run' = Runs /\ \A r \in Runs : SameRun(run'[r], run[r])
  BY DEF CardsInv, RunsTyped, SameRun

LEMMA OthersKeepCards ==
    ASSUME CardsInv,
           \/ \E s \in Scenarios : ReadNotification(s)
           \/ \E c \in Cards : Decide(c) \/ propose_message(c)
           \/ close_proposals \/ (\E k \in Keys : resolve_watch(k))
           \/ (\E k \in Keys : \E what \in Says[k] \cup {"no"} : Changes(k, what))
           \/ TimePasses
    PROVE  CardsInv'
  <1>1. CardsTyped /\ DOMAIN card = Cards /\ card = [c \in Cards |-> card[c]] /\ DOMAIN watch = Keys
        /\ (\A k \in Keys : "status" \in DOMAIN watch[k]) /\ DOMAIN run = Runs
        /\ \A r \in Runs : IsRun(run[r]) /\ HoldsKeys(run[r])
    BY DEF CardsInv, CardsTyped, RunsTyped
  <1>2. CASE UNCHANGED <<card, watch, run>>
    BY <1>1, <1>2, RunsStay, PeopleKeepCards
  <1>3. ASSUME NEW c \in Cards, Decide(c) PROVE CardsInv'
    <2>1. card[c].status = "review" /\ card' = [card EXCEPT ![c].status = "done"] /\ watch' = watch
          /\ run' = [r \in Runs |-> [run[r] EXCEPT !.mine.answered = @ \ CardScenario(c)]]
      BY <1>3 DEF Decide
    <2>2. ASSUME NEW r \in Runs PROVE SameRun(run'[r], run[r])
      <3> DEFINE n == run[r]
                 m == [n.mine EXCEPT !.answered = n.mine.answered \ CardScenario(c)]
      <3>1. run'[r] = [n EXCEPT !.mine = m]
        BY <1>1, <2>1 DEF IsRun, IsMine
      <3>2. IsRun(n) /\ IsMine(n.mine)
        BY <1>1 DEF IsRun
      <3> HIDE DEF n
      <3>3. IsMine(m) /\ m.cards = n.mine.cards /\ m.watch = n.mine.watch
        BY <3>2 DEF IsMine
      <3> HIDE DEF m
      <3>4. SameRun(run'[r], n)
        BY <3>1, <3>2, <3>3 DEF SameRun, IsRun
      <3> QED  BY <3>4 DEF n
    <2>3. \A d \in Cards : card'[d] = card[d] \/ Decided(d)
      BY <1>1, <2>1 DEF Decided
    <2>4. DOMAIN card' = Cards /\ card' = [d \in Cards |-> card'[d]]
      BY <1>1, <2>1
    <2> QED  BY <1>1, <2>1, <2>2, <2>3, <2>4, PeopleKeepCards
  <1>4. ASSUME NEW c \in Cards, propose_message(c) PROVE CardsInv'
    <2>1. c \in NextCard(Unwritten) /\ card' = [card EXCEPT ![c] = [status |-> "review", key |-> Unset]]
          /\ watch' = watch /\ run' = run
      BY <1>4 DEF propose_message
    <2>2. PutUp(c)
      <3>1. ~IdTaken(Unwritten, c)
        BY <2>1 DEF NextCard
      <3>2. BoardOf(Unwritten)[c] = card[c]
        BY <1>1, NothingWritten, BoardAt
      <3> QED  BY <1>1, <2>1, <3>1, <3>2 DEF PutUp, IdTaken
    <2>3. \A d \in Cards : card'[d] = card[d] \/ PutUp(d)
      BY <1>1, <2>1, <2>2
    <2>4. DOMAIN card' = Cards /\ card' = [d \in Cards |-> card'[d]]
      BY <1>1, <2>1
    <2> QED  BY <1>1, <2>1, <2>3, <2>4, RunsStay, PeopleKeepCards
  <1>5. CASE close_proposals
    <2>1. card' = [c \in Cards |-> IF c \in {d \in Cards : card[d].status = "review"}
                                   THEN [card[c] EXCEPT !.status = "done"] ELSE card[c]]
          /\ UNCHANGED <<watch, run>>
      BY <1>5 DEF close_proposals
    <2>2. \A d \in Cards : card'[d] = card[d] \/ Decided(d)
      BY <2>1 DEF Decided
    <2>3. DOMAIN card' = Cards /\ card' = [d \in Cards |-> card'[d]]
      BY <2>1
    <2> QED  BY <1>1, <2>1, <2>2, <2>3, RunsStay, PeopleKeepCards
  <1>6. ASSUME NEW k \in Keys, resolve_watch(k) PROVE CardsInv'
    <2>1. watch' = [watch EXCEPT ![k] = NotWatched] /\ UNCHANGED <<card, run>>
      BY <1>6 DEF resolve_watch
    <2>2. \A x \in Keys : "status" \in DOMAIN watch'[x]
                          /\ (watch'[x].status = "escalated" => watch[x].status = "escalated")
      BY <1>1, <2>1 DEF NotWatched
    <2>3. DOMAIN watch' = Keys
      BY <1>1, <2>1
    <2> QED  BY <1>1, <2>1, <2>2, <2>3, RunsStay, PeopleKeepCards
  <1>7. CASE TimePasses
    <2>1. UNCHANGED <<card, run>>
          /\ (watch' = watch \/ watch' = [k \in Keys |-> [watch[k] EXCEPT
                                  !.acted = FALSE,
                                  !.due = k \in Escalating /\ watch[k].status = "open"]])
      BY <1>7 DEF TimePasses
    <2>2. DOMAIN watch' = Keys
      BY <1>1, <2>1
    <2>3. \A x \in Keys : "status" \in DOMAIN watch'[x] /\ watch'[x].status = watch[x].status
      BY ZenonT(30), <1>1, <2>1
    <2> QED  BY <1>1, <2>1, <2>2, <2>3, RunsStay, PeopleKeepCards
  <1>8. ASSUME NEW s \in Scenarios, ReadNotification(s) PROVE UNCHANGED <<card, watch, run>>
    BY <1>8 DEF ReadNotification
  <1>9. ASSUME NEW k \in Keys, NEW what \in Says[k] \cup {"no"}, Changes(k, what)
        PROVE  UNCHANGED <<card, watch, run>>
    BY <1>9 DEF Changes
  <1> QED  BY <1>2, <1>3, <1>4, <1>5, <1>6, <1>7, <1>8, <1>9

\* What a session marks in a watch says it is escalated only when it is.
WritesColumns(m1, m, k, columns) ==
    /\ IsMine(m1) /\ m1.cards = m.cards /\ DOMAIN m1.watch = {k} \cup DOMAIN m.watch
    /\ \A x \in Keys : SaysEscalated(m1, x) =>
           SaysEscalated(m, x) \/ (x = k /\ "status" \in DOMAIN columns /\ columns["status"] = "escalated")

LEMMA WriteWatchAt ==
    ASSUME NEW m, IsMine(m), NEW k \in Keys, NEW columns
    PROVE  WritesColumns(WriteWatch(m, k, columns), m, k, columns)
  <1> DEFINE row == IF k \in DOMAIN m.watch THEN Over(columns, m.watch[k]) ELSE columns
             m1 == WriteWatch(m, k, columns)
  <1>1. m1 = [m EXCEPT !.watch = Put(k, row, m.watch)]
    BY DEF WriteWatch
  <1>2. IsMine(m1) /\ m1.cards = m.cards /\ m1.watch = Put(k, row, m.watch)
    BY <1>1 DEF IsMine
  <1>3. DOMAIN m1.watch = {k} \cup DOMAIN m.watch /\ m1.watch[k] = row
        /\ \A y \in DOMAIN m.watch : y # k => m1.watch[y] = m.watch[y]
    <2> DEFINE old == m.watch
    <2> HIDE DEF row, old, m1
    <2>1. DOMAIN Put(k, row, old) = {k} \cup DOMAIN old
      BY PutDomain
    <2>2. \A y \in {k} \cup DOMAIN old : Put(k, row, old)[y] = IF y = k THEN row ELSE old[y]
      BY PutAt
    <2> QED  BY <1>2, <2>1, <2>2 DEF old
  <1>4. ASSUME NEW x \in Keys, SaysEscalated(m1, x)
        PROVE  SaysEscalated(m, x) \/ (x = k /\ "status" \in DOMAIN columns /\ columns["status"] = "escalated")
    <2>1. CASE x # k
      BY <1>3, <1>4, <2>1 DEF SaysEscalated
    <2>2. CASE x = k
      <3>1. "status" \in DOMAIN row /\ row["status"] = "escalated"
        BY <1>3, <1>4, <2>2 DEF SaysEscalated
      <3>2. CASE k \notin DOMAIN m.watch
        BY <2>2, <3>1, <3>2
      <3>3. CASE k \in DOMAIN m.watch
        <4>1. DOMAIN row = DOMAIN columns \cup DOMAIN m.watch[k]
              /\ (\A y \in DOMAIN columns : row[y] = columns[y])
              /\ (\A y \in DOMAIN m.watch[k] : y \notin DOMAIN columns => row[y] = m.watch[k][y])
          <5> DEFINE old == m.watch[k]
          <5> HIDE DEF old
          <5>1. /\ DOMAIN Over(columns, old) = DOMAIN columns \cup DOMAIN old
                /\ \A y \in DOMAIN columns : Over(columns, old)[y] = columns[y]
                /\ \A y \in DOMAIN old : y \notin DOMAIN columns => Over(columns, old)[y] = old[y]
            BY OverAt
          <5>2. row = Over(columns, old)
            BY <3>3 DEF old
          <5> QED  BY <5>1, <5>2 DEF old
        <4> QED  BY <2>2, <3>1, <3>3, <4>1 DEF SaysEscalated
      <3> QED  BY <3>2, <3>3
    <2> QED  BY <2>1, <2>2
  <1> HIDE DEF m1
  <1>5. m1 = WriteWatch(m, k, columns)
    BY DEF m1
  <1> QED  BY <1>2, <1>3, <1>4, <1>5 DEF WritesColumns

\* A session that goes on to its next finding, nothing written yet.
GoesOn(n1, n) ==
    /\ IsRun(n1) /\ n1.mine = n.mine /\ n1.locked = n.locked
    /\ n1.looked = Unset /\ n1.queue \subseteq n.queue

LEMMA NextGoesOn ==
    ASSUME NEW n, IsRun(n)
    PROVE  /\ GoesOn(NextFinding(n), n) /\ GoesOn(Asked(n), n) /\ GoesOn(Counted(n), n) /\ GoesOn(OneMore(n), n)
           /\ \A counted : GoesOn([Asked(n) EXCEPT !.counted = counted], n)
  <1> DEFINE a == NextFinding(n)
             b == Asked(n)
             c == Counted(n)
             d == OneMore(n)
  <1>1. IsRun(a) /\ a.mine = n.mine /\ a.locked = n.locked /\ a.looked = Unset /\ a.queue \subseteq n.queue
    BY DEF IsRun, NextFinding
  <1>2. b = [a EXCEPT !.asks = Put(Scenario(n), Asks(n), a.asks)]
    BY DEF Asked
  <1>3. c = [b EXCEPT !.open = OpenCards(n)]
    BY DEF Counted
  <1>4. d = [c EXCEPT !.open = c.open + 1, !.made = Put(Scenario(n), CardsMade(n) + 1, c.made)]
    BY DEF OneMore
  <1> HIDE DEF a, b, c, d
  <1>5. IsRun(b) /\ b.mine = n.mine /\ b.locked = n.locked /\ b.looked = Unset /\ b.queue \subseteq n.queue
    BY <1>1, <1>2 DEF IsRun
  <1>6. IsRun(c) /\ c.mine = n.mine /\ c.locked = n.locked /\ c.looked = Unset /\ c.queue \subseteq n.queue
    BY <1>3, <1>5 DEF IsRun
  <1>7. IsRun(d) /\ d.mine = n.mine /\ d.locked = n.locked /\ d.looked = Unset /\ d.queue \subseteq n.queue
    BY <1>4, <1>6 DEF IsRun
  <1>8. ASSUME NEW counted PROVE GoesOn([b EXCEPT !.counted = counted], n)
    BY <1>5 DEF IsRun, GoesOn
  <1>9. GoesOn(a, n) /\ GoesOn(b, n) /\ GoesOn(c, n) /\ GoesOn(d, n)
    BY <1>1, <1>5, <1>6, <1>7 DEF GoesOn
  <1> QED  BY <1>8, <1>9 DEF a, b, c, d

\* What the writes of a finding say of watches.
LEMMA FlushedAt ==
    ASSUME NEW n, IsMine(n.mine), n.looked.key \in Keys
    PROVE  /\ IsMine(Flushed(n)) /\ Flushed(n).cards = n.mine.cards
           /\ DOMAIN Flushed(n).watch = {n.looked.key} \cup DOMAIN n.mine.watch
           /\ \A x \in Keys : SaysEscalated(Flushed(n), x) => SaysEscalated(n.mine, x)
  <1> DEFINE columns == Touched(n.looked.row)
  <1>1. ~("status" \in DOMAIN columns /\ columns["status"] = "escalated")
    <2>1. CASE n.looked.row.status = "closed"
      <3>1. columns = [NotWatched EXCEPT !.status = "open"]
        BY <2>1 DEF Touched
      <3>2. columns["status"] = "open"
        BY <3>1 DEF NotWatched
      <3> QED  BY <3>2
    <2>2. CASE n.looked.row.status # "closed"
      <3>1. columns = <<>>
        BY <2>2 DEF Touched
      <3>2. DOMAIN columns = {}
        BY <3>1
      <3> QED  BY <3>2
    <2> QED  BY <2>1, <2>2
  <1> HIDE DEF columns
  <1>2. Flushed(n) = WriteWatch(n.mine, n.looked.key, columns)
    BY DEF Flushed, columns
  <1> DEFINE k == n.looked.key
             m == n.mine
             m1 == WriteWatch(m, k, columns)
  <1>3. k \in Keys /\ IsMine(m)
    OBVIOUS
  <1> HIDE DEF k, m
  <1>4. WritesColumns(m1, m, k, columns)
    BY <1>3, WriteWatchAt
  <1> HIDE DEF m1
  <1>5. Flushed(n) = m1
    BY <1>2 DEF m1, m, k
  <1> QED  BY <1>1, <1>4, <1>5 DEF k, m, WritesColumns

LEMMA MarkedAt ==
    ASSUME NEW n, n.looked.key \in Keys, NEW m, IsMine(m)
    PROVE  /\ IsMine(Marked(n, m)) /\ Marked(n, m).cards = m.cards
           /\ DOMAIN Marked(n, m).watch = {n.looked.key} \cup DOMAIN m.watch
           /\ \A x \in Keys : SaysEscalated(Marked(n, m), x) =>
                  SaysEscalated(m, x) \/ (x = n.looked.key /\ due_for_escalation(n))
  <1> DEFINE level == resolve_level(n)
             first == [acted |-> TRUE, level |-> level]
             second == IF due_for_escalation(n) THEN [status |-> "escalated", due |-> FALSE] ELSE <<>>
             columns == Over(first, second)
  <1>1. DOMAIN first = {"acted", "level"} /\ DOMAIN columns = DOMAIN first \cup DOMAIN second
    BY DEF Over
  <1>2. "status" \in DOMAIN columns => due_for_escalation(n)
    <2>1. SUFFICES ASSUME ~due_for_escalation(n) PROVE DOMAIN second = {}
      BY <1>1
    <2>2. second = <<>>
      BY <2>1
    <2> QED  BY <2>2
  <1>3. Marked(n, m) = WriteWatch(m, n.looked.key, columns)
    BY DEF Marked
  <1> HIDE DEF columns
  <1> DEFINE k == n.looked.key
             m1 == WriteWatch(m, k, columns)
  <1>4. k \in Keys
    OBVIOUS
  <1> HIDE DEF k
  <1>5. WritesColumns(m1, m, k, columns)
    BY <1>4, WriteWatchAt
  <1> HIDE DEF m1
  <1>6. Marked(n, m) = m1
    BY <1>3 DEF m1, k
  <1> QED  BY <1>2, <1>5, <1>6 DEF k, WritesColumns

LEMMA RegisterAt ==
    ASSUME NEW n, NEW m, IsMine(m)
    PROVE  /\ IsMine(register_action(n, m)) /\ register_action(n, m).cards = m.cards
           /\ register_action(n, m).watch = m.watch
  <1>1. CASE Scenario(n) \in n.counted
    BY <1>1 DEF register_action
  <1>2. CASE Scenario(n) \notin n.counted
    <2>1. register_action(n, m) = [m EXCEPT !.repeats = Put(Scenario(n), Repeats(n.mine, Scenario(n)) + 1, m.repeats)]
      BY <1>2 DEF register_action
    <2> QED  BY <2>1 DEF IsMine
  <1> QED  BY <1>1, <1>2

\* What a session has when it is through with the finding k: it saw the board,
\* put up a card where none waited, and marks the watch where it sees a card.
PutsCard(n, cards) ==
    /\ ~CardIsThere(n)
    /\ \E c \in NextCard(n.mine) : cards = Put(c, [status |-> "review", key |-> n.looked.key], n.mine.cards)

NewMine(n, m) ==
    /\ IsMine(m) /\ DOMAIN m.watch \subseteq Keys
    /\ m.cards = n.mine.cards \/ PutsCard(n, m.cards)
    /\ \A x \in Keys : SaysEscalated(m, x) =>
           SaysEscalated(n.mine, x) \/ (x = n.looked.key /\ HasCard(BoardOf(m), x))

\* It holds the row of k, and the others do not.
Holding(r, k) ==
    /\ run[r].looked # Unset /\ k = run[r].looked.key /\ k \in Keys
    /\ \A o \in Runs \ {r} : k \notin run[o].locked

LEMMA NewMineFits ==
    ASSUME CardsInv, NEW r \in Runs, NEW k, Holding(r, k), NEW m, NewMine(run[r], m)
    PROVE  /\ DOMAIN m.cards \subseteq Cards
           /\ \A c \in DOMAIN m.cards :
                  /\ card[c].status = "none"
                  /\ \E j \in (run[r].locked \cup {k}) \cap Keys : m.cards[c] = [status |-> "review", key |-> j]
           /\ \A o \in Runs \ {r} : DOMAIN m.cards \cap DOMAIN run[o].mine.cards = {}
           /\ WaitsOnce(BoardOf(m))
           /\ \A x \in Keys : SaysEscalated(m, x) => HasCard(BoardOf(m), x)
  <1> DEFINE n == run[r]
             was == BoardOf(n.mine)
             is == BoardOf(m)
  <1>1. RunFits(r, n) /\ IsRun(n) /\ HoldsKeys(n) /\ CardsTyped
    BY SessionFits DEF CardsInv
  <1>2. DOMAIN n.mine.cards \subseteq Cards /\ k \in Keys /\ k = n.looked.key
        /\ (\A c \in DOMAIN n.mine.cards : \E j \in n.locked \cap Keys :
               n.mine.cards[c] = [status |-> "review", key |-> j] /\ card[c].status = "none")
        /\ \A o \in Runs \ {r} : DOMAIN n.mine.cards \cap DOMAIN run[o].mine.cards = {}
    BY <1>1 DEF HoldsKeys, RunFits, Holding
  <1>3. WaitsOnce(was) /\ \A x \in Keys : SaysEscalated(n.mine, x) => HasCard(was, x)
    BY <1>1 DEF RunFits
  <1>4. \A c \in Cards : was[c] = IF c \in DOMAIN n.mine.cards THEN n.mine.cards[c] ELSE card[c]
    BY <1>1, <1>2, BoardAt
  <1>5. NewMine(n, m)
    OBVIOUS
  <1> HIDE DEF was, is, n
  <1>6. CASE m.cards = n.mine.cards
    <2>1. is = was
      BY <1>6 DEF is, was, BoardOf
    <2>2. \A x \in Keys : SaysEscalated(m, x) => HasCard(is, x)
      BY <1>3, <1>5, <2>1 DEF NewMine, is
    <2> QED  BY <1>2, <1>3, <1>6, <2>1, <2>2 DEF is, n
  <1>7. CASE PutsCard(n, m.cards)
    <2> DEFINE row == [status |-> "review", key |-> k]
    <2>1. PICK c \in NextCard(n.mine) : m.cards = Put(c, row, n.mine.cards)
      BY <1>2, <1>7 DEF PutsCard
    <2>2. c \in Cards /\ ~IdTaken(n.mine, c)
      BY DEF NextCard
    <2>3. was[c].status = "none" /\ \A o \in Runs : c \notin DOMAIN run[o].mine.cards
      BY <2>2 DEF IdTaken, was
    <2>4. c \notin DOMAIN n.mine.cards /\ was[c] = card[c] /\ card[c].status = "none" /\ card[c].key = Unset
      BY <1>1, <1>4, <2>2, <2>3 DEF n, CardsTyped
    <2>5. DOMAIN m.cards = {c} \cup DOMAIN n.mine.cards /\ m.cards[c] = row
          /\ \A d \in DOMAIN n.mine.cards : d # c => m.cards[d] = n.mine.cards[d]
      <3> DEFINE old == n.mine.cards
      <3> HIDE DEF old, row
      <3>1. DOMAIN Put(c, row, old) = {c} \cup DOMAIN old
        BY PutDomain
      <3>2. \A d \in {c} \cup DOMAIN old : Put(c, row, old)[d] = IF d = c THEN row ELSE old[d]
        BY PutAt
      <3>3. m.cards = Put(c, row, old)
        BY <2>1 DEF old
      <3> QED  BY <3>1, <3>2, <3>3 DEF old
    <2>6. DOMAIN m.cards \subseteq Cards
      BY <1>2, <2>2, <2>5
    <2>7. \A d \in Cards : is[d] = IF d \in DOMAIN m.cards THEN m.cards[d] ELSE card[d]
      BY <1>1, <2>6, BoardAt DEF is
    <2>8. is[c] = row /\ \A d \in Cards : d # c => is[d] = was[d]
      BY <1>4, <2>2, <2>5, <2>7
    <2>9. \A d \in Cards : was[d] # row
      BY <1>2, <1>7 DEF PutsCard, CardIsThere, find_open_proposal, was
    <2>10. \A d \in Cards : was[d] \in CardRow
      <3> SUFFICES ASSUME NEW d \in Cards PROVE was[d] \in CardRow
        OBVIOUS
      <3>1. CASE d \in DOMAIN n.mine.cards
        <4>1. PICK j \in Keys : n.mine.cards[d] = [status |-> "review", key |-> j]
          BY <1>2, <3>1
        <4>2. was[d] = [status |-> "review", key |-> j]
          BY <1>4, <3>1, <4>1
        <4> QED  BY <4>2 DEF CardRow
      <3>2. CASE d \notin DOMAIN n.mine.cards
        BY <1>1, <1>4, <3>2 DEF CardsTyped
      <3> QED  BY <3>1, <3>2
    <2>11. \A d \in Cards : ~(was[d].status = "review" /\ was[d].key = k)
      BY <2>9, <2>10 DEF CardRow
    <2>12. WaitsOnce(is)
      <3> SUFFICES ASSUME NEW d \in Cards, NEW e \in Cards, is[d].status = "review", is[e].status = "review",
                          is[d].key = is[e].key, is[d].key # Unset
                   PROVE  d = e
        BY DEF WaitsOnce
      <3>1. CASE d # c /\ e # c
        BY <1>3, <2>8, <3>1 DEF WaitsOnce
      <3>2. CASE d = c /\ e # c
        BY <2>8, <2>11, <3>2
      <3>3. CASE e = c /\ d # c
        BY <2>8, <2>11, <3>3
      <3> QED  BY <3>1, <3>2, <3>3
    <2>13. ASSUME NEW x \in Keys, SaysEscalated(m, x) PROVE HasCard(is, x)
      <3>1. SaysEscalated(n.mine, x) \/ HasCard(is, x)
        BY <1>5, <2>13 DEF NewMine, is
      <3>2. CASE SaysEscalated(n.mine, x)
        <4>1. PICK d \in Cards : was[d].key = x
          BY <1>3, <3>2 DEF HasCard
        <4>2. d # c
          BY <2>4, <4>1, AutonomyAssumption
        <4> QED  BY <2>8, <4>1, <4>2 DEF HasCard
      <3> QED  BY <3>1, <3>2
    <2>14. \A d \in DOMAIN m.cards :
               /\ card[d].status = "none"
               /\ \E j \in (n.locked \cup {k}) \cap Keys : m.cards[d] = [status |-> "review", key |-> j]
      <3> SUFFICES ASSUME NEW d \in DOMAIN m.cards
                   PROVE  /\ card[d].status = "none"
                          /\ \E j \in (n.locked \cup {k}) \cap Keys : m.cards[d] = [status |-> "review", key |-> j]
        OBVIOUS
      <3>1. CASE d = c
        BY <1>2, <2>4, <2>5, <3>1
      <3>2. CASE d # c
        BY ZenonT(30), <1>2, <2>5, <3>2
      <3> QED  BY <3>1, <3>2
    <2>15. \A o \in Runs \ {r} : DOMAIN m.cards \cap DOMAIN run[o].mine.cards = {}
      BY <1>2, <2>3, <2>5
    <2> QED  BY <2>6, <2>12, <2>13, <2>14, <2>15 DEF is, n
  <1> QED  BY <1>5, <1>6, <1>7 DEF NewMine, n

LEMMA QuietFits ==
    ASSUME CardsInv, NEW r \in Runs, NEW k, Holding(r, k), NEW m, NewMine(run[r], m),
           NEW n1, GoesOn(n1, run[r]), Quietly(r, n1, m)
    PROVE  CardsInv'
  <1> DEFINE n == run[r]
             n2 == [n1 EXCEPT !.mine = m, !.locked = n1.locked \cup {k}]
  <1>1. run' = [run EXCEPT ![r] = n2] /\ UNCHANGED <<card, watch>>
    BY DEF Quietly, Holding
  <1>2. IsMine(m) /\ DOMAIN m.watch \subseteq Keys
    BY DEF NewMine
  <1>3. IsRun(n2) /\ n2.mine = m /\ n2.locked = n.locked \cup {k} /\ n2.looked = Unset /\ n2.queue \subseteq n.queue
    BY <1>2 DEF GoesOn, IsRun
  <1> HIDE DEF n2
  <1>4. /\ DOMAIN m.cards \subseteq Cards
        /\ \A c \in DOMAIN m.cards :
               /\ card[c].status = "none"
               /\ \E j \in (n.locked \cup {k}) \cap Keys : m.cards[c] = [status |-> "review", key |-> j]
        /\ \A o \in Runs \ {r} : DOMAIN m.cards \cap DOMAIN run[o].mine.cards = {}
        /\ WaitsOnce(BoardOf(m))
        /\ \A x \in Keys : SaysEscalated(m, x) => HasCard(BoardOf(m), x)
    BY NewMineFits
  <1>5. RunFits(r, n) /\ HoldsKeys(n)
    BY SessionFits
  <1> HIDE DEF n
  <1>6. HoldsKeys(n2)
    BY <1>2, <1>3, <1>4, <1>5 DEF HoldsKeys
  <1>7. \A o \in Runs \ {r} : n2.locked \cap run[o].locked = {}
    BY <1>3, <1>5 DEF RunFits, Holding
  <1>8. RunFits(r, n2)
    BY <1>3, <1>4, <1>6, <1>7 DEF RunFits
  <1> QED  BY <1>1, <1>8, RunKeeps

LEMMA TellingFits ==
    ASSUME CardsInv, NEW r \in Runs, NEW k, Holding(r, k), NEW written, NewMine(run[r], written),
           NEW m, IsMine(m), DOMAIN m.cards = {}, DOMAIN m.watch \subseteq Keys,
           \A x \in Keys : SaysEscalated(m, x) => HasCard(BoardOf(written), x),
           NEW n1, GoesOn(n1, run[r]), Telling(r, n1, written, m)
    PROVE  CardsInv'
  <1> DEFINE n == run[r]
             n2 == [n1 EXCEPT !.mine = m, !.locked = {}]
  <1>1. run' = [run EXCEPT ![r] = n2] /\ CommitRun(written)
    BY DEF Telling
  <1>2. IsRun(n2) /\ n2.mine = m /\ n2.locked = {} /\ n2.looked = Unset /\ n2.queue \subseteq n.queue
    BY DEF GoesOn, IsRun
  <1> HIDE DEF n2
  <1>3. /\ DOMAIN written.cards \subseteq Cards
        /\ \A c \in DOMAIN written.cards :
               /\ card[c].status = "none"
               /\ \E j \in (n.locked \cup {k}) \cap Keys : written.cards[c] = [status |-> "review", key |-> j]
        /\ \A o \in Runs \ {r} : DOMAIN written.cards \cap DOMAIN run[o].mine.cards = {}
        /\ WaitsOnce(BoardOf(written))
        /\ \A x \in Keys : SaysEscalated(written, x) => HasCard(BoardOf(written), x)
    BY NewMineFits
  <1>4. RunFits(r, n) /\ HoldsKeys(n)
    BY SessionFits
  <1> HIDE DEF n
  <1>5. HoldsKeys(n2)
    BY <1>2, <1>4 DEF HoldsKeys
  <1>6. \A o \in Runs \ {r} : (n.locked \cup {k}) \cap run[o].locked = {}
    BY <1>4 DEF RunFits, Holding
  <1>7. WrittenFits(r, written)
    <2>1. ASSUME NEW c \in DOMAIN written.cards
          PROVE  /\ card[c].status = "none"
                 /\ \E j \in Keys : /\ written.cards[c] = [status |-> "review", key |-> j]
                                    /\ \A o \in Runs \ {r} : j \notin run[o].locked
                 /\ \A o \in Runs \ {r} : c \notin DOMAIN run[o].mine.cards
      <3>1. PICK j \in (n.locked \cup {k}) \cap Keys : written.cards[c] = [status |-> "review", key |-> j]
        BY <1>3
      <3>2. \A o \in Runs \ {r} : j \notin run[o].locked
        BY <1>6
      <3> QED  BY <1>3, <3>1, <3>2
    <2>2. DOMAIN written.watch \subseteq Keys
      BY DEF NewMine
    <2> QED  BY <1>3, <2>1, <2>2 DEF WrittenFits
  <1>8. card' = BoardOf(written)
    BY <1>1 DEF CommitRun
  <1>9. \A x \in Keys : SaysEscalated(n2.mine, x) => HasCard(card', x)
    BY <1>2, <1>8
  <1>10. DOMAIN n2.mine.cards = {}
    BY <1>2
  <1> QED  BY <1>1, <1>2, <1>5, <1>7, <1>9, <1>10, CommitLeavesCards

LEMMA HandlingKeepsCards ==
    ASSUME CardsInv, NEW r \in Runs, Handle(r)
    PROVE  CardsInv'
  <1> DEFINE n == run[r]
             k == n.looked.key
             flushed == Flushed(n)
  <1>1. IsRun(n) /\ HoldsKeys(n) /\ IsMine(n.mine) /\ CardsTyped
    BY SessionFits DEF IsRun, CardsInv
  <1>2. Holding(r, k) /\ k \in Keys /\ n.looked # Unset
    BY <1>1 DEF Handle, Holding, HoldsKeys
  <1>3. GoesOn(NextFinding(n), n) /\ GoesOn(Asked(n), n) /\ GoesOn(Counted(n), n) /\ GoesOn(OneMore(n), n)
        /\ GoesOn([Asked(n) EXCEPT !.counted = @ \cup {Scenario(n)}], n)
    <2>1. GoesOn(NextFinding(n), n) /\ GoesOn(Asked(n), n) /\ GoesOn(Counted(n), n) /\ GoesOn(OneMore(n), n)
          /\ \A counted : GoesOn([Asked(n) EXCEPT !.counted = counted], n)
      BY <1>1, NextGoesOn
    <2>2. GoesOn([Asked(n) EXCEPT !.counted = Asked(n).counted \cup {Scenario(n)}], n)
      BY <2>1
    <2> QED  BY <2>1, <2>2
  <1>4. IsMine(flushed) /\ flushed.cards = n.mine.cards /\ DOMAIN flushed.watch \subseteq Keys
        /\ \A x \in Keys : SaysEscalated(flushed, x) => SaysEscalated(n.mine, x)
    BY <1>1, <1>2, FlushedAt DEF HoldsKeys
  <1>5. DOMAIN n.mine.cards \subseteq Cards
    BY <1>1 DEF HoldsKeys
  <1>6. (~MustAct(n) /\ Quietly(r, NextFinding(n), flushed)) \/ publish_level_a(r) \/ publish_level_b(r) \/ Waits(r)
    BY DEF Handle
  <1>7. IsMine(Unwritten) /\ DOMAIN Unwritten.cards = {} /\ DOMAIN Unwritten.watch = {}
    BY NothingWritten
  <1>8. n = run[r]
    OBVIOUS
  <1> HIDE DEF n, flushed
  <1>9. flushed = Flushed(n)
    BY DEF flushed
  <1>10. NewMine(n, flushed)
    BY <1>4 DEF NewMine
  <1>11. CASE Quietly(r, NextFinding(n), flushed)
    BY <1>2, <1>3, <1>8, <1>10, <1>11, QuietFits
  <1>12. CASE publish_level_a(r)
    <2> DEFINE n1 == [Asked(n) EXCEPT !.counted = @ \cup {Scenario(n)}]
               unsaved == Marked(n, register_action(n, Unwritten))
               quiet == Marked(n, register_action(n, flushed))
    <2>1. resolve_level(n) = "A" /\ (Telling(r, n1, flushed, unsaved) \/ Quietly(r, n1, quiet))
      BY <1>8, <1>9, <1>12 DEF publish_level_a
    <2>2. ~due_for_escalation(n)
      BY <2>1 DEF resolve_level
    <2>3. /\ IsMine(unsaved) /\ DOMAIN unsaved.cards = {} /\ DOMAIN unsaved.watch \subseteq Keys
          /\ \A x \in Keys : ~SaysEscalated(unsaved, x)
      <3> DEFINE m == register_action(n, Unwritten)
      <3>1. IsMine(m) /\ m.cards = Unwritten.cards /\ m.watch = Unwritten.watch
        BY <1>7, RegisterAt
      <3> HIDE DEF m
      <3>2. /\ IsMine(Marked(n, m)) /\ Marked(n, m).cards = m.cards
            /\ DOMAIN Marked(n, m).watch = {k} \cup DOMAIN m.watch
            /\ \A x \in Keys : SaysEscalated(Marked(n, m), x) => SaysEscalated(m, x) \/ (x = k /\ due_for_escalation(n))
        BY <1>2, <3>1, MarkedAt
      <3>3. \A x \in Keys : ~SaysEscalated(m, x)
        BY <1>7, <3>1 DEF SaysEscalated
      <3> QED  BY <1>2, <1>7, <2>2, <3>1, <3>2, <3>3 DEF m
    <2>4. NewMine(n, quiet)
      <3> DEFINE m == register_action(n, flushed)
      <3>1. IsMine(m) /\ m.cards = flushed.cards /\ m.watch = flushed.watch
        BY <1>4, RegisterAt
      <3> HIDE DEF m
      <3>2. /\ IsMine(Marked(n, m)) /\ Marked(n, m).cards = m.cards
            /\ DOMAIN Marked(n, m).watch = {k} \cup DOMAIN m.watch
            /\ \A x \in Keys : SaysEscalated(Marked(n, m), x) => SaysEscalated(m, x) \/ (x = k /\ due_for_escalation(n))
        BY <1>2, <3>1, MarkedAt
      <3>3. \A x \in Keys : SaysEscalated(m, x) => SaysEscalated(n.mine, x)
        BY <1>4, <3>1 DEF SaysEscalated
      <3> QED  BY <1>2, <1>4, <2>2, <3>1, <3>2, <3>3 DEF m, NewMine
    <2> HIDE DEF n1, unsaved, quiet
    <2>5. GoesOn(n1, n)
      BY <1>3 DEF n1
    <2>6. CASE Telling(r, n1, flushed, unsaved)
      BY <1>2, <1>8, <1>10, <2>3, <2>5, <2>6, TellingFits
    <2>7. CASE Quietly(r, n1, quiet)
      BY <1>2, <1>8, <2>4, <2>5, <2>7, QuietFits
    <2> QED  BY <2>1, <2>6, <2>7
  <1>13. CASE publish_level_b(r)
    <2> DEFINE seen == Marked(n, flushed)
               Put1(c) == [flushed EXCEPT !.cards = Put(c, [status |-> "review", key |-> k], flushed.cards)]
               unsaved == Marked(n, Unwritten)
    <2>1. \/ CardIsThere(n) /\ Quietly(r, OneMore(n), seen)
          \/ /\ ~CardIsThere(n)
             /\ \E c \in NextCard(n.mine) : \/ Telling(r, OneMore(n), Put1(c), unsaved)
                                            \/ Quietly(r, OneMore(n), Marked(n, Put1(c)))
      BY <1>8, <1>9, <1>13 DEF publish_level_b
    <2>2. CASE CardIsThere(n) /\ Quietly(r, OneMore(n), seen)
      <3>1. /\ IsMine(seen) /\ seen.cards = n.mine.cards /\ DOMAIN seen.watch \subseteq Keys
            /\ \A x \in Keys : SaysEscalated(seen, x) => SaysEscalated(n.mine, x) \/ x = k
        <4>1. /\ IsMine(seen) /\ seen.cards = flushed.cards
              /\ DOMAIN seen.watch = {k} \cup DOMAIN flushed.watch
              /\ \A x \in Keys : SaysEscalated(seen, x) => SaysEscalated(flushed, x) \/ (x = k /\ due_for_escalation(n))
          BY <1>2, <1>4, MarkedAt
        <4> QED  BY <1>2, <1>4, <4>1
      <3> HIDE DEF seen
      <3>2. HasCard(BoardOf(seen), k)
        <4>1. BoardOf(seen) = BoardOf(n.mine)
          BY <3>1 DEF BoardOf
        <4>2. PICK c \in Cards : BoardOf(n.mine)[c] = [status |-> "review", key |-> k]
          BY <2>2 DEF CardIsThere, find_open_proposal
        <4> QED  BY <4>1, <4>2 DEF HasCard
      <3>3. NewMine(n, seen)
        BY <3>1, <3>2 DEF NewMine
      <3> QED  BY <1>2, <1>3, <1>8, <2>2, <3>3, QuietFits
    <2>3. ASSUME ~CardIsThere(n), NEW c \in NextCard(n.mine),
                 Telling(r, OneMore(n), Put1(c), unsaved) \/ Quietly(r, OneMore(n), Marked(n, Put1(c)))
          PROVE  CardsInv'
      <3> DEFINE put == Put1(c)
                 marked == Marked(n, put)
      <3>1. /\ IsMine(put) /\ put.cards = Put(c, [status |-> "review", key |-> k], n.mine.cards)
            /\ put.watch = flushed.watch
        BY <1>4 DEF IsMine
      <3>2. c \in Cards
        BY <2>3 DEF NextCard
      <3> HIDE DEF put
      <3>3. PutsCard(n, put.cards)
        BY <2>3, <3>1 DEF PutsCard
      <3>4. \A x \in Keys : SaysEscalated(put, x) => SaysEscalated(n.mine, x)
        BY <1>4, <3>1 DEF SaysEscalated
      <3>5. NewMine(n, put)
        BY <1>4, <3>1, <3>3, <3>4 DEF NewMine
      <3>6. HasCard(BoardOf(put), k)
        <4>1. DOMAIN put.cards = {c} \cup DOMAIN n.mine.cards /\ put.cards[c] = [status |-> "review", key |-> k]
          <5> DEFINE row == [status |-> "review", key |-> k]
                     old == n.mine.cards
          <5>1. put.cards = Put(c, row, old)
            BY <3>1
          <5> HIDE DEF row, old
          <5>2. DOMAIN Put(c, row, old) = {c} \cup DOMAIN old
            BY PutDomain
          <5>3. \A d \in {c} \cup DOMAIN old : Put(c, row, old)[d] = IF d = c THEN row ELSE old[d]
            BY PutAt
          <5> QED  BY <5>1, <5>2, <5>3 DEF row, old
        <4>2. BoardOf(put)[c] = put.cards[c]
          BY <1>1, <1>5, <3>2, <4>1, BoardAt
        <4> QED  BY <3>2, <4>1, <4>2 DEF HasCard
      <3>7. /\ IsMine(unsaved) /\ DOMAIN unsaved.cards = {} /\ DOMAIN unsaved.watch \subseteq Keys
            /\ \A x \in Keys : SaysEscalated(unsaved, x) => HasCard(BoardOf(put), x)
        <4>1. /\ IsMine(unsaved) /\ unsaved.cards = Unwritten.cards
              /\ DOMAIN unsaved.watch = {k} \cup DOMAIN Unwritten.watch
              /\ \A x \in Keys : SaysEscalated(unsaved, x) => SaysEscalated(Unwritten, x) \/ (x = k /\ due_for_escalation(n))
          BY <1>2, <1>7, MarkedAt
        <4>2. \A x \in Keys : ~SaysEscalated(Unwritten, x)
          BY <1>7 DEF SaysEscalated
        <4> QED  BY <1>2, <1>7, <3>6, <4>1, <4>2
      <3>8. NewMine(n, marked)
        <4>1. /\ IsMine(marked) /\ marked.cards = put.cards
              /\ DOMAIN marked.watch = {k} \cup DOMAIN put.watch
              /\ \A x \in Keys : SaysEscalated(marked, x) => SaysEscalated(put, x) \/ (x = k /\ due_for_escalation(n))
          BY <1>2, <3>1, MarkedAt
        <4> HIDE DEF marked
        <4>2. BoardOf(marked) = BoardOf(put)
          BY <4>1 DEF BoardOf
        <4> QED  BY <1>2, <1>4, <3>1, <3>3, <3>4, <3>6, <4>1, <4>2 DEF NewMine
      <3> HIDE DEF unsaved, marked
      <3>9. CASE Telling(r, OneMore(n), put, unsaved)
        BY <1>2, <1>3, <1>8, <3>5, <3>7, <3>9, TellingFits
      <3>10. CASE Quietly(r, OneMore(n), marked)
        BY <1>2, <1>3, <1>8, <3>8, <3>10, QuietFits
      <3> QED  BY <2>3, <3>9, <3>10 DEF put, marked
    <2> QED  BY <2>1, <2>2, <2>3
  <1>14. CASE Waits(r)
    <2>1. Quietly(r, Asked(n), flushed) \/ Quietly(r, Counted(n), flushed)
      BY <1>8, <1>9, <1>14 DEF Waits
    <2> QED  BY <1>2, <1>3, <1>8, <1>10, <2>1, QuietFits
  <1> QED  BY <1>6, <1>11, <1>12, <1>13, <1>14

\* The end of a run commits what it holds, and closes the watches of what is gone.
LEMMA FinishKeepsCards ==
    ASSUME CardsInv, NEW r \in Runs, Finish(r)
    PROVE  CardsInv'
  <1> DEFINE n == run[r]
             cleared == {k \in Keys : /\ Watched(n.mine, k).status # "closed"
                                      /\ ScenarioOf[k] \in n.scanned
                                      /\ k \notin n.seen}
             m == [n.mine EXCEPT !.watch =
                     [k \in cleared \cup DOMAIN n.mine.watch |->
                        IF k \in cleared THEN NotWatched ELSE n.mine.watch[k]]]
  <1>1. RunFits(r, n) /\ IsMine(n.mine) /\ HoldsKeys(n) /\ CardsTyped
    BY SessionFits DEF IsRun, CardsInv
  <1>2. CommitRun(m) /\ run' = [run EXCEPT ![r] = NotRunning]
    BY DEF Finish
  <1>3. cleared \subseteq Keys
    OBVIOUS
  <1> HIDE DEF cleared, n
  <1>4. m.cards = n.mine.cards
        /\ m.watch = [k \in cleared \cup DOMAIN n.mine.watch |->
                        IF k \in cleared THEN NotWatched ELSE n.mine.watch[k]]
    BY <1>1 DEF IsMine
  <1> HIDE DEF m
  <1>5. BoardOf(m) = BoardOf(n.mine)
    BY <1>4 DEF BoardOf
  <1>6. DOMAIN m.watch \subseteq Keys
    BY <1>1, <1>3, <1>4 DEF HoldsKeys
  <1>7. ASSUME NEW x \in Keys, SaysEscalated(m, x) PROVE SaysEscalated(n.mine, x)
    <2>1. x \notin cleared
      <3>1. NotWatched["status"] # "escalated"
        BY DEF NotWatched
      <3> QED  BY <1>4, <1>7, <3>1 DEF SaysEscalated
    <2> QED  BY <1>4, <1>7, <2>1 DEF SaysEscalated
  <1>8. WrittenFits(r, m)
    <2>1. ASSUME NEW c \in DOMAIN m.cards
          PROVE  /\ card[c].status = "none"
                 /\ \E j \in Keys : /\ m.cards[c] = [status |-> "review", key |-> j]
                                    /\ \A o \in Runs \ {r} : j \notin run[o].locked
                 /\ \A o \in Runs \ {r} : c \notin DOMAIN run[o].mine.cards
      <3>1. PICK j \in n.locked \cap Keys : m.cards[c] = [status |-> "review", key |-> j] /\ card[c].status = "none"
        BY <1>1, <1>4, <2>1 DEF HoldsKeys
      <3>2. \A o \in Runs \ {r} : j \notin run[o].locked
        BY <1>1 DEF RunFits
      <3> QED  BY <1>1, <1>4, <3>1, <3>2 DEF RunFits
    <2>2. DOMAIN m.cards \subseteq Cards
      BY <1>1, <1>4 DEF HoldsKeys
    <2>3. WaitsOnce(BoardOf(m)) /\ \A x \in Keys : SaysEscalated(m, x) => HasCard(BoardOf(m), x)
      BY <1>1, <1>5, <1>7 DEF RunFits
    <2> QED  BY <1>6, <2>1, <2>2, <2>3 DEF WrittenFits
  <1>9. /\ IsRun(NotRunning) /\ HoldsKeys(NotRunning) /\ NotRunning.locked = {} /\ DOMAIN NotRunning.mine.cards = {}
        /\ \A x \in Keys : SaysEscalated(NotRunning.mine, x) => HasCard(card', x)
    BY NothingWritten DEF HoldsKeys, SaysEscalated
  <1> QED  BY <1>2, <1>8, <1>9, CommitLeavesCards

LEMMA AutonomyStays == CardsInv /\ [AutonomyNext]_autonomyVars => CardsInv'
  <1> SUFFICES ASSUME CardsInv, [AutonomyNext]_autonomyVars
               PROVE  CardsInv'
    OBVIOUS
  <1>1. CASE UNCHANGED autonomyVars
    <2>1. UNCHANGED <<card, watch, run>>
      BY <1>1 DEF autonomyVars
    <2>2. CardsTyped' /\ EscalationsHaveCards' /\ WaitsOnce(card)'
      BY <2>1 DEF CardsInv, CardsTyped, EscalationsHaveCards, WaitsOnce
    <2>3. RunsTyped' /\ RunsApart'
      BY <2>1 DEF CardsInv, RunsTyped, RunsApart, HoldsKeys
    <2>4. \A r \in Runs : WaitsOnce(BoardOf(run[r].mine))'
      BY <2>1 DEF CardsInv, WaitsOnce, BoardOf
    <2>5. \A r \in Runs, k \in Keys : (SaysEscalated(run[r].mine, k) => HasCard(BoardOf(run[r].mine), k))'
      BY <2>1 DEF CardsInv, SaysEscalated, HasCard, BoardOf
    <2> QED  BY <2>2, <2>3, <2>4, <2>5 DEF CardsInv
  <1>2. ASSUME NEW r \in Runs, RunStep(r) \/ RunBreaks(r) PROVE CardsInv'
    BY <1>2, ScansKeepCards, HandlingKeepsCards, FinishKeepsCards DEF RunStep, RunBreaks
  <1>3. CASE PeopleStep
    BY <1>3, OthersKeepCards DEF PeopleStep
  <1>4. CASE (\E k \in Keys : \E what \in Says[k] \cup {"no"} : Changes(k, what)) \/ TimePasses
    BY <1>4, OthersKeepCards
  <1> QED  BY <1>1, <1>2, <1>3, <1>4 DEF AutonomyNext

LEMMA CardsMatch == CardsInv => CardsMatchFindings
  <1> SUFFICES ASSUME CardsInv
               PROVE  OneCardPerFinding
    BY DEF CardsInv, CardsMatchFindings
  <1> QED  BY DEF CardsInv, OneCardPerFinding, WaitsOnce

(***************************************************************************)
(* Every finding has one open card, and every escalated one its card, with *)
(* any number of runs at once, whatever fails (agents/autonomy).           *)
(***************************************************************************)
THEOREM CardsAreOfFindings == AutonomySpec => []CardsMatchFindings
  <1>1. AutonomyInit => CardsInv
    BY AutonomyBegins
  <1>2. CardsInv /\ [AutonomyNext]_autonomyVars => CardsInv'
    BY AutonomyStays
  <1>3. CardsInv => CardsMatchFindings
    BY CardsMatch
  <1> QED  BY <1>1, <1>2, <1>3, PTL DEF AutonomySpec

------------------------------------------------------------------------------
(* All the parts at once                                                    *)

AnnouncesInv == TabsTyped /\ WritesTyped /\ WireInv /\ StaleInv

SessionsInv ==
    /\ HousesInv /\ HouseInv /\ CardsInv /\ NoticesInv
    /\ AnnouncesInv /\ MeetingInv /\ StaffInv /\ CachedInv

LEMMA SessionsBegin == SessionsInit => SessionsInv
  <1> SUFFICES ASSUME SessionsInit
               PROVE  SessionsInv
    OBVIOUS
  <1>1. PathInit /\ BlocksInit /\ AutonomyInit /\ NoticesInit /\ MessengerInit /\ MeetingsInit
        /\ StaffInit /\ CachedInit
    BY DEF SessionsInit
  <1>2. HousesInv /\ HouseInv /\ CardsInv /\ NoticesInv
    BY <1>1, PathBegins, BlocksBegin, AutonomyBegins, NoticesBegin
  <1>3. AnnouncesInv
    BY <1>1, MessengerBegins DEF AnnouncesInv
  <1>4. MeetingInv /\ StaffInv /\ CachedInv
    BY <1>1, MeetingBegins, StaffBegins, CachedBegins
  <1> QED  BY <1>2, <1>3, <1>4 DEF SessionsInv

\* A step of the whole is one of a part, and no step of the others.
LEMMA PartsStep ==
    [SessionsNext]_sessionsVars =>
        /\ [PathNext]_pathVars /\ [BlocksNext]_blockVars /\ [AutonomyNext]_autonomyVars
        /\ [NoticesNext]_noticeVars /\ [MessengerNext]_messengerVars /\ [MeetingsNext]_meetingVars
        /\ [StaffNext]_staffVars /\ [CachedNext]_cacheVars
  <1>1. CASE UNCHANGED sessionsVars
    BY <1>1 DEF sessionsVars
  <1>2. CASE SessionsNext
    <2>1. (part = "path" /\ PathNext) \/ pathVars' = pathVars
      BY <1>2 DEF SessionsNext, Stays
    <2>2. (part = "blocks" /\ BlocksNext) \/ blockVars' = blockVars
      BY <1>2 DEF SessionsNext, Stays
    <2>3. (part = "agents" /\ AutonomyNext) \/ autonomyVars' = autonomyVars
      BY <1>2 DEF SessionsNext, Stays
    <2>4. (part = "notices" /\ NoticesNext) \/ noticeVars' = noticeVars
      BY <1>2 DEF SessionsNext, Stays
    <2>5. (part = "messenger" /\ MessengerNext) \/ messengerVars' = messengerVars
      BY <1>2 DEF SessionsNext, Stays
    <2>6. (part = "meetings" /\ MeetingsNext) \/ meetingVars' = meetingVars
      BY <1>2 DEF SessionsNext, Stays
    <2>7. (part = "staff" /\ StaffNext) \/ staffVars' = staffVars
      BY <1>2 DEF SessionsNext, Stays
    <2>8. (part = "answers" /\ CachedNext) \/ cacheVars' = cacheVars
      BY <1>2 DEF SessionsNext, Stays
    <2> QED  BY <2>1, <2>2, <2>3, <2>4, <2>5, <2>6, <2>7, <2>8
  <1> QED  BY <1>1, <1>2

LEMMA SessionsStay ==
    SessionsInv /\ [SessionsNext]_sessionsVars =>
        SessionsInv' /\ [meeting'.there => notes'.count >= notes.count]_meetingVars
  <1> SUFFICES ASSUME SessionsInv, [SessionsNext]_sessionsVars
               PROVE  SessionsInv' /\ [meeting'.there => notes'.count >= notes.count]_meetingVars
    OBVIOUS
  <1>1. [PathNext]_pathVars /\ [BlocksNext]_blockVars /\ [AutonomyNext]_autonomyVars
        /\ [NoticesNext]_noticeVars /\ [MessengerNext]_messengerVars /\ [MeetingsNext]_meetingVars
        /\ [StaffNext]_staffVars /\ [CachedNext]_cacheVars
    BY PartsStep
  <1>2. HousesInv /\ HouseInv /\ CardsInv /\ NoticesInv /\ AnnouncesInv /\ MeetingInv /\ StaffInv /\ CachedInv
    BY DEF SessionsInv
  <1>3. HousesInv'
    BY <1>1, <1>2, HousesStay
  <1>4. HouseInv'
    BY <1>1, <1>2, BlocksStay
  <1>5. CardsInv'
    BY <1>1, <1>2, AutonomyStays
  <1>6. NoticesInv'
    BY <1>1, <1>2, NoticesStay
  <1>7. AnnouncesInv'
    <2>1. TabsTyped /\ WritesTyped /\ WireInv /\ StaleInv
      BY <1>2 DEF AnnouncesInv
    <2>2. TabsTyped' /\ WritesTyped'
      BY <1>1, <2>1, TabsStayTyped, WritesStayTyped
    <2>3. WireInv' /\ StaleInv'
      BY <1>1, <2>1, WireStays, StaleStays
    <2> QED  BY <2>2, <2>3 DEF AnnouncesInv
  <1>8. MeetingInv' /\ [meeting'.there => notes'.count >= notes.count]_meetingVars
    BY <1>1, <1>2, MeetingStays
  <1>9. StaffInv' /\ CachedInv'
    BY <1>1, <1>2, StaffKeeps, CachedStays
  <1> QED  BY <1>3, <1>4, <1>5, <1>6, <1>7, <1>8, <1>9 DEF SessionsInv

LEMMA SessionsShow ==
    SessionsInv => /\ HousesAgree /\ CardsMatchFindings /\ TasksMatchRequests
                   /\ NewsIsPassedOn /\ AdminRemains /\ AnswersStandOnFacts
  <1> SUFFICES ASSUME SessionsInv
               PROVE  /\ HousesAgree /\ CardsMatchFindings /\ TasksMatchRequests
                      /\ NewsIsPassedOn /\ AdminRemains /\ AnswersStandOnFacts
    OBVIOUS
  <1>1. HousesAgree /\ TasksMatchRequests /\ AdminRemains /\ AnswersStandOnFacts
    BY DEF SessionsInv, HousesInv, HouseInv, StaffInv, CachedInv
  <1>2. CardsMatchFindings
    BY CardsMatch DEF SessionsInv
  <1>3. ToldOnce
    BY DEF SessionsInv, NoticesInv
  <1>4. AnnouncedOncePerSession
    BY DEF SessionsInv, AnnouncesInv, WireInv, NotifiedIsPast
  <1>5. StaleTabsAreTold
    BY StaleAreTold DEF SessionsInv, AnnouncesInv
  <1> QED  BY <1>1, <1>2, <1>3, <1>4, <1>5 DEF NewsIsPassedOn

(***************************************************************************)
(* News is passed on, of deadlines, messages and changes of chats, in the  *)
(* specification the run explores (notifications, jobs/deadlines.py,       *)
(* max/listener.py, max/realtime.py).                                      *)
(***************************************************************************)
THEOREM EveryoneIsTold == SessionsSpec => []NewsIsPassedOn
  <1>1. SessionsInv => NewsIsPassedOn
    BY SessionsShow
  <1>2. SessionsInv /\ [SessionsNext]_sessionsVars => SessionsInv'
    BY SessionsStay
  <1> QED  BY <1>1, <1>2, SessionsBegin, PTL DEF SessionsSpec

(***************************************************************************)
(* Whatever part moves, all of them keep what they promise: the invariants *)
(* and the action property of the run, for every value of the constants.   *)
(***************************************************************************)
THEOREM SessionsKeepTheirWord ==
    SessionsSpec =>
        /\ [](/\ HousesAgree /\ CardsMatchFindings /\ TasksMatchRequests
              /\ NewsIsPassedOn /\ AdminRemains /\ AnswersStandOnFacts)
        /\ NotesNeverGoBack
  <1>1. SessionsInv => /\ HousesAgree /\ CardsMatchFindings /\ TasksMatchRequests
                       /\ NewsIsPassedOn /\ AdminRemains /\ AnswersStandOnFacts
    BY SessionsShow
  <1>2. SessionsInv /\ [SessionsNext]_sessionsVars =>
            SessionsInv' /\ [meeting'.there => notes'.count >= notes.count]_meetingVars
    BY SessionsStay
  <1> QED  BY <1>1, <1>2, SessionsBegin, PTL DEF SessionsSpec, NotesNeverGoBack
=============================================================================
