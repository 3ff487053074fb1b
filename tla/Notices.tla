------------------------------ MODULE Notices ------------------------------
(***************************************************************************)
(* Notifications (app/notifications) and the thread that looks for tasks   *)
(* whose deadline comes or has passed (app/jobs/deadlines.py).  A pass     *)
(* reads the open tasks once and alerts of them one by one, each in a      *)
(* transaction of its own; people change the tasks and their mutes         *)
(* meanwhile.  A push to a browser follows the commit and may find that    *)
(* the browser is gone.                                                    *)
(***************************************************************************)
EXTENDS Naturals, FiniteSets

CONSTANTS
    Duties,         \* tasks with a deadline
    Owners,         \* people they may be given to
    Devices,        \* browsers subscribed to pushes
    MaxTouches      \* bound: changes people make

VARIABLES
    duties,     \* the tasks: there, done, how near the deadline is, responsible
    alerted,    \* rows of TaskDeadlineAlert: task and threshold
    unread,     \* rows of Notification that a person has not read
    told,       \* history: notifications made of a task and a threshold
    muted,      \* rows of NotificationMute: rows of the whole section, tasks
    muting,     \* requests that have looked for a mute and not written yet
    devices,    \* PushSubscription: whose a browser is
    pass,       \* the pass: tasks left, as they were read, whether they were reloaded
    touches     \* counter of the bound

noticeVars == <<duties, alerted, unread, told, muted, muting, devices, pass, touches>>

Unowned == "none"
Thresholds == {"due_soon", "overdue"}
Section == "section"
Deleted == [there |-> FALSE, done |-> TRUE, due |-> "far", owner |-> Unowned]
NothingRead == [d \in Duties |-> Deleted]
NoPass == [on |-> FALSE, left |-> {}, saw |-> NothingRead, reloaded |-> FALSE]
NoRequest == [on |-> FALSE, object |-> Section, mute |-> FALSE, found |-> FALSE]

NoticesInit ==
    /\ duties \in [Duties -> [there : {TRUE}, done : {FALSE}, due : {"far"}, owner : Owners]]
    /\ alerted = {}
    /\ unread = [u \in Owners |-> 0]
    /\ told = [p \in Duties \X Thresholds |-> 0]
    /\ muted = [u \in Owners |-> [section |-> 0, objects |-> {}]]
    /\ muting = [u \in Owners |-> NoRequest]
    /\ devices = [e \in Devices |-> Unowned]
    /\ pass = NoPass
    /\ touches = 0

-----------------------------------------------------------------------------
(* Time and people *)

Later(due) == CASE due = "far" -> "soon" [] due = "soon" -> "past" [] OTHER -> due

DueNears(d) ==
    /\ duties[d].there /\ duties[d].due # "past"
    /\ duties' = [duties EXCEPT ![d].due = Later(@)]
    /\ UNCHANGED <<alerted, unread, told, muted, muting, devices, pass, touches>>

Touches == touches < MaxTouches /\ touches' = touches + 1

\* The board: closed or opened again, given to another, another deadline, deleted
\* with its alerts
TaskChanges(d) ==
    /\ Touches
    /\ duties[d].there
    /\ \E new \in {[duties[d] EXCEPT !.done = ~@], [duties[d] EXCEPT !.due = "far"], Deleted}
                   \union {[duties[d] EXCEPT !.owner = u] : u \in Owners \union {Unowned}} :
        /\ new # duties[d]
        /\ duties' = [duties EXCEPT ![d] = new]
        /\ alerted' = IF new.there THEN alerted ELSE alerted \ ({d} \X Thresholds)
    /\ UNCHANGED <<unread, told, muted, muting, devices, pass>>

\* put_mute reads whether there is such a row, set_mute writes; the database
\* takes one row of a task and any number of rows of the section
put_mute(u, object, mute) ==
    /\ Touches
    /\ ~muting[u].on
    /\ muting' = [muting EXCEPT ![u] = [on |-> TRUE, object |-> object, mute |-> mute,
                      found |-> IF object = Section THEN muted[u].section > 0 ELSE object \in muted[u].objects]]
    /\ UNCHANGED <<duties, alerted, unread, told, muted, devices, pass>>

set_mute(u) ==
    /\ muting[u].on
    /\ muting' = [muting EXCEPT ![u] = NoRequest]
    /\ LET r == muting[u] IN
       muted' = IF r.mute = r.found THEN muted
                ELSE IF r.object = Section
                THEN [muted EXCEPT ![u].section = IF r.mute THEN @ + 1 ELSE @ - 1]
                ELSE [muted EXCEPT ![u].objects = IF r.mute THEN @ \union {r.object} ELSE @ \ {r.object}]
    /\ UNCHANGED <<duties, alerted, unread, told, devices, pass, touches>>

mark_read(u) ==
    /\ unread[u] > 0
    /\ unread' = [unread EXCEPT ![u] = @ - 1]
    /\ UNCHANGED <<duties, alerted, told, muted, muting, devices, pass, touches>>

mark_all_read(u) ==
    /\ unread[u] > 0
    /\ unread' = [unread EXCEPT ![u] = 0]
    /\ UNCHANGED <<duties, alerted, told, muted, muting, devices, pass, touches>>

\* A browser is one row, whoever uses it now
save_push_subscription(u, e) ==
    /\ Touches
    /\ devices' = [devices EXCEPT ![e] = u]
    /\ UNCHANGED <<duties, alerted, unread, told, muted, muting, pass>>

delete_push_subscription(u, e) ==
    /\ devices[e] = u
    /\ devices' = [devices EXCEPT ![e] = Unowned]
    /\ UNCHANGED <<duties, alerted, unread, told, muted, muting, pass, touches>>

-----------------------------------------------------------------------------
(* The pass *)

is_muted(u, d) == muted[u].section > 0 \/ d \in muted[u].objects

\* check_task_deadlines: the open tasks, read once
PassBegins ==
    /\ ~pass.on
    /\ pass' = [on |-> TRUE, saw |-> duties, reloaded |-> FALSE,
                left |-> {d \in Duties : duties[d].there /\ ~duties[d].done}]
    /\ UNCHANGED <<duties, alerted, unread, told, muted, muting, devices, touches>>

\* A commit expires what the session has read: the rest is read again, one by one
Seen(d) == IF pass.reloaded THEN duties[d] ELSE pass.saw[d]

Crosses(d) == CASE Seen(d).due = "past" -> {"overdue"} [] Seen(d).due = "soon" -> {"due_soon"} [] OTHER -> {}

\* Deviation: any alert of the task counts, whatever threshold it was of
_alerted_once(d, t) == \E x \in Thresholds : <<d, x>> \in alerted

\* Deviation: who told of a task is forgotten
_never_alerted(d, t) == FALSE

_already_alerted(d, t) == <<d, t>> \in alerted

Passed(d) == [pass EXCEPT !.left = @ \ {d}]

NothingToSay(d) ==
    /\ d \in pass.left /\ (pass.reloaded => duties[d].there)
    /\ \A t \in Crosses(d) : _already_alerted(d, t)
    /\ pass' = Passed(d)
    /\ UNCHANGED <<duties, alerted, unread, told, muted, muting, devices, touches>>

\* notify: the mark and the notification in one commit, then the pushes, which
\* forget the browsers that are gone
notify(d, t) ==
    LET u == Seen(d).owner IN
    IF u = Unowned \/ is_muted(u, d)
    THEN UNCHANGED <<unread, told, devices>>
    ELSE /\ unread' = [unread EXCEPT ![u] = @ + 1]
         /\ told' = [told EXCEPT ![<<d, t>>] = @ + 1]
         /\ \E gone \in SUBSET {e \in Devices : devices[e] = u} :
                devices' = [e \in Devices |-> IF e \in gone THEN Unowned ELSE devices[e]]

_alert(d) ==
    /\ d \in pass.left /\ duties[d].there
    /\ \E t \in Crosses(d) :
        /\ ~_already_alerted(d, t)
        /\ alerted' = alerted \union {<<d, t>>}
        /\ notify(d, t)
    /\ pass' = [Passed(d) EXCEPT !.reloaded = TRUE, !.saw = NothingRead]
    /\ UNCHANGED <<duties, muted, muting, touches>>

\* A task that was deleted meanwhile ends the pass: logged, the next one starts anew
PassFails ==
    /\ \E d \in pass.left : ~duties[d].there /\ (pass.reloaded \/ Crosses(d) # {})
    /\ pass' = NoPass
    /\ UNCHANGED <<duties, alerted, unread, told, muted, muting, devices, touches>>

PassEnds ==
    /\ pass.on /\ pass.left = {}
    /\ pass' = NoPass
    /\ UNCHANGED <<duties, alerted, unread, told, muted, muting, devices, touches>>

\* The process is restarted in the middle of a pass
Restarted ==
    /\ pass.on /\ Touches
    /\ pass' = NoPass
    /\ UNCHANGED <<duties, alerted, unread, told, muted, muting, devices>>

PassStep == PassBegins \/ PassFails \/ PassEnds \/ \E d \in Duties : NothingToSay(d) \/ _alert(d)

-----------------------------------------------------------------------------
NoticesNext ==
    \/ PassStep \/ Restarted
    \/ \E d \in Duties : DueNears(d) \/ TaskChanges(d)
    \/ \E u \in Owners :
        \/ \E o \in Duties \union {Section}, mute \in BOOLEAN : put_mute(u, o, mute)
        \/ set_mute(u) \/ mark_read(u) \/ mark_all_read(u)
        \/ \E e \in Devices : save_push_subscription(u, e) \/ delete_push_subscription(u, e)

NoticesSpec == NoticesInit /\ [][NoticesNext]_noticeVars /\ WF_noticeVars(PassStep)

-----------------------------------------------------------------------------
\* A task and a threshold make one notification, across passes and restarts
\* (jobs/deadlines.py, "exactly once for a task and a threshold")
ToldOnce == \A p \in Duties \X Thresholds : told[p] <= 1 /\ (told[p] = 1 => p \in alerted \/ ~duties[p[1]].there)

\* A task that stays open and late is dealt with, whatever fails on the way: the
\* thread goes on after an error (deadlines.py, _run)
LateIsTold ==
    \A d \in Duties :
        <>[](duties[d].there /\ ~duties[d].done /\ duties[d].due = "past") => <>(<<d, "overdue">> \in alerted)
=============================================================================
