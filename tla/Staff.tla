-------------------------------- MODULE Staff --------------------------------
(***************************************************************************)
(* Accounts of the employees and their access (app/users).  A request of   *)
(* an administrator is let in by what his account is when it begins        *)
(* (core/deps.py), reads the other account and counts administrators, and  *)
(* writes afterwards; nothing is locked.  A start of the server makes an   *)
(* administrator if there is none.                                         *)
(***************************************************************************)
EXTENDS Naturals, FiniteSets

CONSTANTS
    Colleagues,         \* e-mails of accounts
    Founder,        \* ADMIN_EMAIL of the settings
    Sections,       \* sections access is granted to
    MaxAccountChanges      \* bound: requests that begin

ASSUME FounderAssumption == Founder \in Colleagues

VARIABLES
    account,        \* of an e-mail: role, whether it is active, grants
    server,         \* whether the server runs or did not start
    orders,         \* what each administrator's request is about to write
    accountChanges,        \* counter of the bound
    crossed         \* history: who had lost the right by then took it from another

staffVars == <<account, server, orders, accountChanges, crossed>>

NoAccount == [there |-> FALSE, role |-> "worker", active |-> FALSE, grants |-> {}]
StaffKept == "kept"
NoOrder == [step |-> "idle", of |-> Founder, role |-> StaffKept, active |-> StaffKept, revokes |-> FALSE, grants |-> {}]

StaffInit ==
    /\ account = [p \in Colleagues |-> NoAccount]
    /\ server = "down"
    /\ orders = [p \in Colleagues |-> NoOrder]
    /\ accountChanges = 0
    /\ crossed = FALSE

AdminSet == {p \in Colleagues : account[p].there /\ account[p].role = "admin"}
ActiveAdmins == {p \in AdminSet : account[p].active}

-----------------------------------------------------------------------------
\* on_startup: an administrator is made if there is none, active or not; his
\* e-mail may be taken, and then the server does not start
bootstrap_admin ==
    /\ server = "down"
    /\ IF AdminSet # {} THEN server' = "up" /\ UNCHANGED account
       ELSE IF account[Founder].there THEN server' = "failed" /\ UNCHANGED account
       ELSE /\ server' = "up"
            /\ account' = [account EXCEPT ![Founder] = [NoAccount EXCEPT !.there = TRUE, !.role = "admin", !.active = TRUE]]
    /\ UNCHANGED <<orders, accountChanges, crossed>>

\* The requests that were running end with the server
StaffStops ==
    /\ server = "up"
    /\ server' = "down"
    /\ orders' = [p \in Colleagues |-> NoOrder]
    /\ UNCHANGED <<account, accountChanges, crossed>>

\* require_admin
LetIn(a) ==
    /\ server = "up" /\ a \in ActiveAdmins
    /\ orders[a] = NoOrder /\ accountChanges < MaxAccountChanges
    /\ accountChanges' = accountChanges + 1

\* apply_account_change: what it refuses to do to oneself and to the last one
changes_role(p, role) == role \notin {StaffKept, account[p].role}
disables(p, active) == active = "off" /\ account[p].active

\* Deviation: administrators are not counted
apply_to_anyone(a, p, role, active) == TRUE

apply_account_change(a, p, role, active) ==
    LET loses_admin == p \in ActiveAdmins /\ (changes_role(p, role) \/ disables(p, active))
    IN /\ a = p => ~changes_role(p, role) /\ ~disables(p, active)
       /\ loses_admin => Cardinality(ActiveAdmins) > 1

StaffOrders(a, o) ==
    /\ orders' = [orders EXCEPT ![a] = o]
    /\ UNCHANGED <<account, server, crossed>>

update_user(a, p, role, active) ==
    /\ LetIn(a) /\ account[p].there
    /\ apply_account_change(a, p, role, active)
    /\ StaffOrders(a, [NoOrder EXCEPT !.step = "account", !.of = p, !.revokes = role = "admin",
                   !.role = IF changes_role(p, role) THEN role ELSE StaffKept,
                   !.active = IF (active = "on") = account[p].active THEN StaffKept ELSE active])

update_user_access(a, p, grants) ==
    /\ LetIn(a) /\ account[p].there
    /\ StaffOrders(a, [NoOrder EXCEPT !.step = "access", !.of = p, !.grants = grants])

create_user(a, p, role, grants) ==
    /\ LetIn(a) /\ ~account[p].there
    /\ StaffOrders(a, [NoOrder EXCEPT !.step = "create", !.of = p, !.role = role, !.grants = grants])

\* Only what changes is written.  The grants of one who becomes an administrator are deleted, those of one who
\* already is may be set
AccountWritten(o) ==
    CASE o.step = "account" -> [account[o.of] EXCEPT !.role = IF o.role = StaffKept THEN @ ELSE o.role,
                                                     !.active = IF o.active = StaffKept THEN @ ELSE o.active = "on",
                                                     !.grants = IF o.revokes THEN {} ELSE @]
      [] o.step = "access"  -> [account[o.of] EXCEPT !.grants = o.grants]
      [] OTHER              -> [there |-> TRUE, role |-> o.role, active |-> TRUE, grants |-> o.grants]

Commits(a) ==
    /\ orders[a].step # "idle"
    /\ orders[a].step = "create" => ~account[orders[a].of].there
    /\ account' = [account EXCEPT ![orders[a].of] = AccountWritten(orders[a])]
    /\ orders' = [orders EXCEPT ![a] = NoOrder]
    /\ crossed' = (crossed \/ (a \notin ActiveAdmins /\ ~(ActiveAdmins \subseteq ActiveAdmins')))
    /\ UNCHANGED <<server, accountChanges>>

\* The e-mail was taken meanwhile
EmailTaken(a) ==
    /\ orders[a].step = "create" /\ account[orders[a].of].there
    /\ StaffOrders(a, NoOrder)
    /\ UNCHANGED accountChanges

-----------------------------------------------------------------------------
StaffNext ==
    \/ bootstrap_admin \/ StaffStops
    \/ \E a, p \in Colleagues :
        \/ \E role \in {StaffKept, "admin", "worker"}, active \in {StaffKept, "on", "off"} : update_user(a, p, role, active)
        \/ \E grants \in SUBSET Sections :
            \/ update_user_access(a, p, grants)
            \/ \E role \in {"admin", "worker"} : create_user(a, p, role, grants)
    \/ \E a \in Colleagues : Commits(a) \/ EmailTaken(a)

StaffSpec == StaffInit /\ [][StaffNext]_staffVars

-----------------------------------------------------------------------------
\* However requests cross, an active administrator remains and the server starts
\* again (service.py, "at least one administrator must remain"), until one who is
\* no administrator any more by the time he writes takes the right from another:
\* two who remove each other at once leave none
AdminRemains == crossed \/ ((\E p \in Colleagues : account[p].there) => ActiveAdmins # {} /\ server # "failed")

\* What grants written to an administrator refute, not among the runs: one who
\* stops being an administrator has no access (service.py, apply_account_change)
DemotedHasNothing ==
    [][\A p \in Colleagues : account[p].role = "admin" /\ account'[p].role = "worker" => account'[p].grants = {}]_staffVars
=============================================================================
