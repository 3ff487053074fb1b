----------------------------- MODULE MCRequests -----------------------------
(***************************************************************************)
(* Requests that are served at the same time: by the locks they take of    *)
(* rows, by the decisions they carry out in a chat, by the calls they send *)
(* to tools elsewhere, by the conversation they append to, and by the      *)
(* cards two runs of the autonomous agent put up.  These parts share no    *)
(* state and are explored in one run of TLC: a behaviour is one part's,    *)
(* and the others stay as they begin.                                      *)
(*                                                                         *)
(* The small company of the locks: two materials, two houses whose norms   *)
(* come in another order than the materials, and one supplier.             *)
(***************************************************************************)
EXTENDS RowLocks, Assistant, RemoteTools, Autonomy

CONSTANTS h1, h2,    \* houses
          stalled, s1, \* a finding and its scenario
          Parts     \* the parts to explore

VARIABLE part       \* the one this behaviour is of

MCNormHouse == <<h1, h1, h2>>
MCNormMaterial == <<2, 1, 1>>
MCHoldMaterial == <<1, 2, 1>>
MCHoldHouse == <<h1, Null, Null>>
MCHoldOrder == <<Null, Null, 1>>
MCOrderMaterials == <<{1, 2}>>
MCGoods == <<{1}, {2}, {1, 2}>>

\* A finding that needs a decision of people
MCScenarioOf == [k \in {stalled} |-> s1]
MCSays == [k \in {stalled} |-> {"B"}]

\* One of its first states is enough for a part that does not move
Still(p, first) == part # p => first

RequestsInit ==
    /\ part \in Parts
    /\ LocksInit /\ ChatInit
    /\ RemoteInit /\ Still("remote", ~note /\ credential = NoCredential)
    /\ TranscriptInit /\ Still("transcript", provider = "anthropic")
    /\ AutonomyInit

\* A part that does not move
Stays(p, state) == IF part = p THEN TRUE ELSE UNCHANGED state

RequestsNext ==
    /\ UNCHANGED part
    /\ Stays("locks", vars) /\ Stays("chat", chatVars)
    /\ Stays("remote", remoteVars) /\ Stays("transcript", transcriptVars)
    /\ Stays("agents", autonomyVars)
    /\ \/ part = "locks" /\ LocksNext
       \/ part = "chat" /\ ChatNext
       \/ part = "remote" /\ RemoteNext
       \/ part = "transcript" /\ TranscriptNext
       \/ part = "agents" /\ AutonomyNext

requestsVars == <<part, vars, chatVars, remoteVars, transcriptVars, autonomyVars>>

\* A handler runs on, a free lock is granted, a cycle is found after deadlock_timeout
RequestsFairness ==
    \A r \in Requests :
        /\ WF_vars(part = "locks" /\ Acquire(r))
        /\ WF_vars(part = "locks" /\ Commit(r))
        /\ WF_vars(part = "locks" /\ Abort(r))

(***************************************************************************)
(* A tool the model called runs once, and its call and its result are      *)
(* found together when the conversation is sent again (core/mcp_remote.py, *)
(* ai/engine.py).                                                          *)
(***************************************************************************)
ToolCallsAreKept == RunsOnce /\ HistoryIsReplayable

RequestsSpec == RequestsInit /\ [][RequestsNext]_requestsVars /\ RequestsFairness
=============================================================================
