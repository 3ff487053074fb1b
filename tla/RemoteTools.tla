---------------------------- MODULE RemoteTools ----------------------------
(***************************************************************************)
(* Writing notes into the knowledge base (app/ai/mcp_write.py): a call     *)
(* makes a client of its own (app/core/mcp_remote.py) that initializes a   *)
(* session and posts a tool, with the bearer token the database keeps      *)
(* (app/ai/mcp_auth.py).  The server is external: a restart makes it       *)
(* forget every token and session it gave out, and it may end its sessions *)
(* without one.  A token is written here as the number of the server's     *)
(* life it belongs to, a session as that of the era of sessions.           *)
(***************************************************************************)
EXTENDS Naturals, FiniteSets

CONSTANTS
    Callers,        \* requests that write to the knowledge base
    GuardsAll,      \* the server asks for a valid token at initialize too
    MaxRestarts,    \* bound: restarts of the server, and ends of its sessions
    MaxLosses       \* bound: requests of http that fail or are not answered

VARIABLES
    life,       \* the life of the server
    era,        \* of its sessions: it grows with each restart, too
    note,       \* whether there is a note at the path of the source
    appended,   \* times the text of each caller was appended
    credential, \* the row of McpCredential: access_token, whether it lasts, refresh_token
    calls,      \* the client of each caller
    losses      \* counter of the bound

remoteVars == <<life, era, note, appended, credential, calls, losses>>

NoToken == 0
NoCredential == [there |-> FALSE, token |-> NoToken, fresh |-> FALSE, refresh |-> NoToken]
NoCall == [step |-> "idle", tool |-> "none", token |-> NoToken, session |-> NoToken, force |-> FALSE,
           retried |-> FALSE, knew |-> FALSE, outcome |-> "none"]

RemoteInit ==
    /\ life = 1 /\ era = 1
    /\ note \in BOOLEAN
    /\ appended = [c \in Callers |-> 0]
    /\ credential \in {NoCredential, [there |-> TRUE, token |-> 1, fresh |-> TRUE, refresh |-> 1]}
    /\ calls = [c \in Callers |-> NoCall]
    /\ losses = 0

CallGoes(c, call) == calls' = [calls EXCEPT ![c] = call]

\* RemoteMcp is made anew for every tool
Fresh(tool) == [NoCall EXCEPT !.step = "token", !.tool = tool]

create_note(c) ==
    /\ calls[c] = NoCall
    /\ CallGoes(c, Fresh("create_note"))
    /\ UNCHANGED <<life, era, note, appended, credential, losses>>

append_note(c) ==
    /\ calls[c] = NoCall
    /\ CallGoes(c, Fresh("append_note"))
    /\ UNCHANGED <<life, era, note, appended, credential, losses>>

CallOver(c, outcome) == [calls[c] EXCEPT !.step = "over", !.outcome = outcome]

\* McpError: create_note falls back to edit_note, whatever the reason
McpError(c) == IF calls[c].tool = "create_note" THEN Fresh("edit_note") ELSE CallOver(c, "refused")

-----------------------------------------------------------------------------
(* The token, mcp_auth.get_access_token *)

Lasts == credential.there /\ credential.fresh

KeepsToken(c) ==
    /\ calls[c].step = "token" /\ ~calls[c].force /\ Lasts
    /\ CallGoes(c, [calls[c] EXCEPT !.step = "initialize", !.token = credential.token])
    /\ UNCHANGED <<life, era, note, appended, credential, losses>>

\* A refresh the server has forgotten ends in a new grant: one way or the
\* other it gives a token of this life
Granted(c) ==
    /\ calls[c].step = "token" /\ (calls[c].force \/ ~Lasts)
    /\ CallGoes(c, [calls[c] EXCEPT !.step = "store", !.token = life, !.knew = credential.there])
    /\ UNCHANGED <<life, era, note, appended, credential, losses>>

\* _store_tokens: the row is rewritten; two first ones collide on its key
_store_tokens(c) ==
    /\ calls[c].step = "store"
    /\ IF ~calls[c].knew /\ credential.there
       THEN CallGoes(c, CallOver(c, "refused")) /\ UNCHANGED credential
       ELSE /\ credential' = [there |-> TRUE, token |-> calls[c].token, fresh |-> TRUE, refresh |-> calls[c].token]
            /\ CallGoes(c, [calls[c] EXCEPT !.step = "initialize", !.force = FALSE])
    /\ UNCHANGED <<life, era, note, appended, losses>>

\* The server of authorization is out of reach: 502, and no fallback
NotGranted(c) ==
    /\ calls[c].step = "token" /\ (calls[c].force \/ ~Lasts) /\ losses < MaxLosses
    /\ losses' = losses + 1
    /\ CallGoes(c, CallOver(c, "refused"))
    /\ UNCHANGED <<life, era, note, appended, credential>>

-----------------------------------------------------------------------------
(* The session and the tool, RemoteMcp *)

Valid(c) == calls[c].token = life

\* _ensure_ready: an answer of 400 or more is an McpError at once
_ensure_ready(c) ==
    /\ calls[c].step = "initialize"
    /\ CallGoes(c, IF Valid(c) \/ ~GuardsAll THEN [calls[c] EXCEPT !.step = "post", !.session = era] ELSE McpError(c))
    /\ UNCHANGED <<life, era, note, appended, credential, losses>>

\* 401 makes the client forget its token and ask for another by force, 404 its
\* session; once
_forget_auth(c) ==
    /\ calls[c].step = "post" /\ ~Valid(c)
    /\ CallGoes(c, IF calls[c].retried THEN McpError(c)
               ELSE [calls[c] EXCEPT !.step = "token", !.token = NoToken, !.session = NoToken,
                                     !.force = TRUE, !.retried = TRUE])
    /\ UNCHANGED <<life, era, note, appended, credential, losses>>

SessionForgotten(c) ==
    /\ calls[c].step = "post" /\ Valid(c) /\ calls[c].session # era
    /\ CallGoes(c, IF calls[c].retried THEN McpError(c)
               ELSE [calls[c] EXCEPT !.step = "initialize", !.session = NoToken, !.retried = TRUE])
    /\ UNCHANGED <<life, era, note, appended, credential, losses>>

Reached(c) == calls[c].step = "post" /\ Valid(c) /\ calls[c].session = era

\* create_note is refused where the path exists
PathTaken(c) ==
    /\ Reached(c) /\ calls[c].tool = "create_note" /\ note
    /\ CallGoes(c, McpError(c))
    /\ UNCHANGED <<life, era, note, appended, credential, losses>>

Does(c) ==
    /\ Reached(c) /\ ~(calls[c].tool = "create_note" /\ note)
    /\ calls[c].tool = "edit_note" => note
    /\ note' = (note \/ calls[c].tool # "append_note")
    /\ appended' = [appended EXCEPT ![c] = IF calls[c].tool = "append_note" THEN @ + 1 ELSE @]

_call_tool(c) ==
    /\ Does(c)
    /\ CallGoes(c, CallOver(c, "done"))
    /\ UNCHANGED <<life, era, credential, losses>>

\* edit_note of a note that is not there
NothingToEdit(c) ==
    /\ Reached(c) /\ calls[c].tool = "edit_note" /\ ~note
    /\ CallGoes(c, McpError(c))
    /\ UNCHANGED <<life, era, note, appended, credential, losses>>

\* The tool ran and its answer is lost, or the request did not arrive
AnswerIsLost(c) ==
    /\ losses < MaxLosses
    /\ \/ Does(c)
       \/ calls[c].step \in {"initialize", "post"} /\ UNCHANGED <<note, appended>>
    /\ losses' = losses + 1
    /\ CallGoes(c, McpError(c))
    /\ UNCHANGED <<life, era, credential>>

-----------------------------------------------------------------------------
Restart ==
    /\ era <= MaxRestarts
    /\ life' = life + 1 /\ era' = era + 1
    /\ UNCHANGED <<note, appended, credential, calls, losses>>

SessionsEnd ==
    /\ era <= MaxRestarts
    /\ era' = era + 1
    /\ UNCHANGED <<life, note, appended, credential, calls, losses>>

Expires ==
    /\ credential.fresh
    /\ credential' = [credential EXCEPT !.fresh = FALSE]
    /\ UNCHANGED <<life, era, note, appended, calls, losses>>

RemoteNext ==
    \/ Restart \/ SessionsEnd \/ Expires
    \/ \E c \in Callers :
        \/ create_note(c) \/ append_note(c)
        \/ KeepsToken(c) \/ Granted(c) \/ _store_tokens(c) \/ NotGranted(c)
        \/ _ensure_ready(c) \/ _forget_auth(c) \/ SessionForgotten(c)
        \/ PathTaken(c) \/ _call_tool(c) \/ NothingToEdit(c) \/ AnswerIsLost(c)

RemoteSpec == RemoteInit /\ [][RemoteNext]_remoteVars

-----------------------------------------------------------------------------
\* A call that retries with another token, or in another session, runs its tool
\* once at most, and one that reports success has run it (mcp_remote.py, _rpc)
RunsOnce ==
    \A c \in Callers :
        /\ appended[c] <= 1
        /\ calls[c].outcome = "done" => IF calls[c].tool = "append_note" THEN appended[c] = 1 ELSE note

\* What a server that guards initialize refutes, not among the runs: with
\* nothing lost, a server that answers takes the note (mcp_auth.py, force)
RestartsAreForgiven ==
    \A c \in Callers : calls[c].outcome = "refused" => losses > 0
=============================================================================
