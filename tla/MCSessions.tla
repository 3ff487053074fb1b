----------------------------- MODULE MCSessions -----------------------------
(***************************************************************************)
(* Parts in which requests, loops and agents run at once and must come to  *)
(* an end, or repair what others left.  They share no state and are        *)
(* explored in one run of TLC: a behaviour is one part's, and the others   *)
(* stay as they begin.                                                     *)
(***************************************************************************)
EXTENDS ClientPath, HouseBlocks, Autonomy, Notices, Messenger, Meetings,
        Staff, CachedAnswers

CONSTANT Parts      \* the parts to explore

VARIABLE part       \* the one this behaviour is of

CONSTANTS stalled, s1, b1, b2

MCScenarioOf == [k \in {stalled} |-> s1]
MCSays == [k \in {stalled} |-> {"A", "B"}]

\* One of its first states is enough for a part that does not move
Still(p, first) == part # p => first

SessionsInit ==
    /\ part \in Parts
    /\ PathInit
    /\ Still("path", client.told /\ client.plan = "post_payment" /\ client.stage = "payment")
    /\ BlocksInit
    /\ Still("blocks", needs = {} /\ ~blockNorm[b1].required /\ ~jobs[b1].matching /\ jobs[b1].open)
    /\ AutonomyInit /\ NoticesInit /\ MessengerInit /\ MeetingsInit
    /\ StaffInit /\ CachedInit

\* A part that does not move
Stays(p, state) == IF part = p THEN TRUE ELSE UNCHANGED state

SessionsNext ==
    /\ UNCHANGED part
    /\ Stays("path", pathVars) /\ Stays("blocks", blockVars)
    /\ Stays("agents", autonomyVars) /\ Stays("notices", noticeVars)
    /\ Stays("messenger", messengerVars) /\ Stays("meetings", meetingVars)
    /\ Stays("staff", staffVars) /\ Stays("answers", cacheVars)
    /\ \/ part = "path" /\ PathNext
       \/ part = "blocks" /\ BlocksNext
       \/ part = "agents" /\ AutonomyNext
       \/ part = "notices" /\ NoticesNext
       \/ part = "messenger" /\ MessengerNext
       \/ part = "meetings" /\ MeetingsNext
       \/ part = "staff" /\ StaffNext
       \/ part = "answers" /\ CachedNext

sessionsVars == <<part, pathVars, blockVars, autonomyVars, noticeVars, messengerVars,
                  meetingVars, staffVars, cacheVars>>

\* The fairness of each part, while it is the one that moves
SessionsFairness ==
    /\ \A s \in Sessions : WF_pathVars(part = "path" /\ Serves(s))
    /\ WF_pathVars(part = "path" /\ reconcile_client_stage_tasks(Loop))
    /\ WF_blockVars(part = "blocks" /\ AnswerAges)
    /\ \A d \in Desks : WF_blockVars(part = "blocks" /\ InsightEnds(d))
    /\ \A r \in Runs : WF_autonomyVars(part = "agents" /\ run[r].step # "idle" /\ RunStep(r))
    /\ WF_autonomyVars(part = "agents" /\ BeginRun(Daemon))
    /\ WF_autonomyVars(part = "agents" /\ TimePasses)
    /\ WF_noticeVars(part = "notices" /\ PassStep)

(***************************************************************************)
(* News is passed on: of a deadline that nears once, of a message in the   *)
(* messenger once in a session of the listener, and a tab that shows a     *)
(* chat as it was is going to be told                                      *)
(* (jobs/deadlines.py, max/listener.py, max/realtime.py).                  *)
(***************************************************************************)
NewsIsPassedOn == ToldOnce /\ AnnouncedOncePerSession /\ StaleTabsAreTold

(***************************************************************************)
(* What was left half-way is mended, if people give it time: the tasks of  *)
(* a client's stage, the findings of the agent, the shown bottleneck of a  *)
(* house, the notices of a deadline (clients/reconcile.py,                 *)
(* agents/autonomy/runner.py, production/deadlines.py, jobs/deadlines.py). *)
(***************************************************************************)
EventuallyMended == StageTasksRestored /\ FindingsHandled /\ InsightsSettle /\ LateIsTold

SessionsSpec == SessionsInit /\ [][SessionsNext]_sessionsVars /\ SessionsFairness
=============================================================================
