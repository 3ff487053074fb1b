----------------------------- MODULE Assistant -----------------------------
(***************************************************************************)
(* A chat with the assistant (ai/engine.py, ai/guardian.py, ai/service.py):*)
(* the model answers with text or with calls of tools; a call that only    *)
(* reads is run at once, one that writes waits for its owner's decision.   *)
(*                                                                         *)
(* A turn is a request of its own and commits after every call it files;   *)
(* what the calls came to (tool_resolutions) is written when the round     *)
(* ends.  A decision is one transaction under the lock of the chat.        *)
(*                                                                         *)
(* After it, the conversation that is sent to the model again.             *)
(***************************************************************************)
EXTENDS Naturals, FiniteSets, Sequences, SequencesExt

CONSTANTS Turns,     \* requests that can run at one time
          Reading,      \* tools that only read
          Flushing,     \* tools that write and leave the commit to the engine
          Committing,   \* tools whose service commits: the engine's nested
                        \* transaction is closed under it and the request fails
          MaxMessages, MaxAsks, MaxChatStops

ASSUME ChatBounds ==
  /\ {MaxMessages, MaxAsks, MaxChatStops} \subseteq Nat
  /\ Reading \cap (Flushing \cup Committing) = {} /\ Flushing \cap Committing = {}

VARIABLES messages,   \* the assistant's messages that call tools, in order
          actions,    \* pending actions: <<message, tool>> to their status
          ran,        \* how often an action was carried out
          turn,       \* what a request is doing
          asks, chatStops

chatVars == <<messages, actions, ran, turn, asks, chatStops>>

Tools == Reading \cup Flushing \cup Committing
Free == [at |-> "free"]
Nothing == [t \in {} |-> "none"]

ChatInit ==
  /\ messages = <<>>
  /\ actions = [a \in {} |-> "pending"]
  /\ ran = [a \in {} |-> 0]
  /\ turn = [r \in Turns |-> Free]
  /\ asks = 0
  /\ chatStops = 0

Goes(r, where) == turn' = [turn EXCEPT ![r] = where]
Pending == {a \in DOMAIN actions : actions[a] = "pending"}
PendingOf(m) == {a \in Pending : a[1] = m}

\* A message is refused while actions wait; that is looked up without a lock.
run_turn(r) ==
  /\ turn[r] = Free
  /\ asks < MaxAsks
  /\ Pending = {}
  /\ asks' = asks + 1
  /\ Goes(r, [at |-> "ask"])
  /\ UNCHANGED <<messages, actions, ran, chatStops>>

\* The model is called: it fails, answers with text, or calls tools.
call_claude(r) ==
  /\ turn[r].at = "ask"
  /\ \/ Goes(r, Free) /\ UNCHANGED messages
     \/ \E U \in (SUBSET Tools) \ {{}} :
          /\ Len(messages) < MaxMessages
          /\ messages' = Append(messages, [uses |-> U, resolutions |-> Nothing])
          /\ Goes(r, [at |-> "round", message |-> Len(messages'), left |-> U, came |-> Nothing])
  /\ UNCHANGED <<actions, ran, asks, chatStops>>

\* One call of a round: blocked by the guardian, run, or filed and committed.
tool_call(r) ==
  /\ turn[r].at = "round"
  /\ \E t \in turn[r].left :
       LET m == turn[r].message
           Came(what) == Goes(r, [turn[r] EXCEPT !.left = @ \ {t},
                                    !.came = [u \in DOMAIN @ \cup {t} |-> IF u = t THEN what ELSE @[u]]])
       IN \/ Came("blocked") /\ UNCHANGED <<actions, ran>>
          \/ t \in Reading /\ Came("executed") /\ UNCHANGED <<actions, ran>>
          \/ /\ t \notin Reading
             /\ Came("pending")
             /\ actions' = [a \in DOMAIN actions \cup {<<m, t>>} |->
                              IF a = <<m, t>> THEN "pending" ELSE actions[a]]
             /\ ran' = [a \in DOMAIN actions' |-> IF a = <<m, t>> THEN 0 ELSE ran[a]]
  /\ UNCHANGED <<messages, asks, chatStops>>

\* The round's results replace those of the message; with none waiting they
\* go back to the model.
run_tool_round(r) ==
  /\ turn[r].at = "round"
  /\ turn[r].left = {}
  /\ messages' = [messages EXCEPT ![turn[r].message].resolutions = turn[r].came]
  /\ Goes(r, IF \E t \in DOMAIN turn[r].came : turn[r].came[t] = "pending" THEN Free ELSE [at |-> "ask"])
  /\ UNCHANGED <<actions, ran, asks, chatStops>>

\* Only one decision takes a pending action; the decision, what it carried
\* out and its result are one commit.  With no sibling waiting every call of
\* the message needs a result, or the whole transaction is lost.
Decided(a, verdict) ==
  LET m == a[1]
      results == [t \in DOMAIN messages[m].resolutions \cup {a[2]} |->
                    IF t = a[2] THEN "executed" ELSE messages[m].resolutions[t]]
  IN /\ actions' = [actions EXCEPT ![a] = verdict]
     /\ messages' = [messages EXCEPT ![m].resolutions = results]
     /\ PendingOf(m) \subseteq {a} => messages[m].uses \subseteq DOMAIN results

\* Deviation: the UPDATE that takes the action does not ask whether it waits
resolve_any_action(r) ==
  /\ turn[r] = Free
  /\ asks < MaxAsks
  /\ asks' = asks + 1
  /\ \E a \in DOMAIN actions :
       /\ \/ Decided(a, "rejected") /\ UNCHANGED ran
          \/ Decided(a, "approved") /\ a[2] \in Flushing /\ ran' = [ran EXCEPT ![a] = @ + 1]
       /\ Goes(r, IF PendingOf(a[1]) = {a} THEN [at |-> "ask"] ELSE Free)
  /\ UNCHANGED chatStops

resolve_pending_action(r) ==
  /\ turn[r] = Free
  /\ asks < MaxAsks
  /\ asks' = asks + 1
  /\ \E a \in Pending :
       /\ \/ Decided(a, "rejected") /\ UNCHANGED ran
          \/ /\ Decided(a, "approved")
             /\ a[2] \in Flushing
             /\ ran' = [ran EXCEPT ![a] = @ + 1]
       /\ Goes(r, IF PendingOf(a[1]) = {a} THEN [at |-> "ask"] ELSE Free)
  /\ UNCHANGED chatStops

\* A tool that commits takes the decision with it and the result is lost.
resolve_and_fail(r) ==
  /\ turn[r] = Free
  /\ asks < MaxAsks
  /\ asks' = asks + 1
  /\ \E a \in Pending :
       /\ a[2] \in Committing
       /\ actions' = [actions EXCEPT ![a] = "approved"]
       /\ ran' = [ran EXCEPT ![a] = @ + 1]
  /\ UNCHANGED <<messages, turn, chatStops>>

\* A consultation that changes its subject drops its chat, decisions and all.
wipe_chat(r) ==
  /\ turn[r] = Free
  /\ asks < MaxAsks
  /\ asks' = asks + 1
  /\ messages' = <<>>
  /\ actions' = [a \in {} |-> "pending"]
  /\ ran' = [a \in {} |-> 0]
  /\ turn' = [x \in Turns |-> Free]      \* their next commit fails
  /\ UNCHANGED chatStops

ChatStop(r) ==
  /\ chatStops < MaxChatStops
  /\ turn[r] # Free
  /\ chatStops' = chatStops + 1
  /\ Goes(r, Free)
  /\ UNCHANGED <<messages, actions, ran, asks>>

ChatNext ==
  \E r \in Turns :
    \/ run_turn(r) \/ call_claude(r) \/ tool_call(r) \/ run_tool_round(r)
    \/ resolve_pending_action(r) \/ resolve_and_fail(r) \/ wipe_chat(r) \/ ChatStop(r)

ChatSpec == ChatInit /\ [][ChatNext]_chatVars

-----------------------------------------------------------------------------
(* An action is carried out once if it was approved and never otherwise,   *)
(* whoever decides at the same time (the guarded UPDATE of                 *)
(* resolve_pending_action).                                                *)
ActionsRunOnce ==
  \A a \in DOMAIN actions : ran[a] = IF actions[a] = "approved" THEN 1 ELSE 0

(* A waiting action can be decided: once its round has ended every call of *)
(* its message has a result, so that the last decision finds them all.     *)
(* A process that stopped between the two commits leaves it stuck.         *)
PendingCanBeDecided ==
  \A a \in Pending :
    \/ messages[a[1]].uses \subseteq DOMAIN messages[a[1]].resolutions
    \/ \E r \in Turns : turn[r].at = "round" /\ turn[r].message = a[1]
    \/ chatStops > 0

(* What people decide about the actions of the assistant happens, once,    *)
(* and there is nothing they cannot decide (resolve_pending_action).       *)
DecisionsAreKept == ActionsRunOnce /\ PendingCanBeDecided

(* A call that was decided keeps its result: "Serialize sibling decisions  *)
(* so their JSON resolutions cannot overwrite one another."                *)
DecisionsKeepResults ==
  \A a \in DOMAIN actions \ Pending :
    a[2] \in DOMAIN messages[a[1]].resolutions => messages[a[1]].resolutions[a[2]] = "executed"

(* The actions of one message are decided before another message is taken. *)
OneRoundWaits == \A a, b \in Pending : a[1] = b[1]
-----------------------------------------------------------------------------
(***************************************************************************)
(* What a chat keeps of a conversation and sends again with every call of  *)
(* the model (ai/engine.py), for either provider (core/llm.py).  A message *)
(* is a list of blocks; a call of a tool may be sent only with its result. *)
(* A turn files the answer in one transaction and the results in another,  *)
(* and may end between them; a second turn may begin before the first has  *)
(* ended.  The provider is a setting, and changes when the server restarts.*)
(* Decisions are looked at above; here they only end a wait.               *)
(***************************************************************************)

CONSTANTS
    Talks,              \* turns that may run at once
    MAX_ITERATIONS,     \* calls of the model in a turn
    MaxSaid,            \* bound: messages people write and decisions they make
    MaxAnswers,         \* bound: answers of the model
    MaxBreaks           \* bound: turns that end half-way, and restarts

VARIABLES
    talkHistory,    \* Chat.messages: role and blocks
    talks,      \* what each turn is doing
    waiting,    \* messages with an action that waits for a decision
    provider,   \* settings.ai_provider
    said, answers, breaks

transcriptVars == <<talkHistory, talks, waiting, provider, said, answers, breaks>>

Silent == [at |-> "idle", left |-> 0, message |-> 0]
ToolUses == {"tool_use", "server_use"}
Results == {"tool_result", "server_result"}

Block(kind, id) == [kind |-> kind, id |-> id]
Text == Block("text", <<>>)
Said(role, blocks) == [role |-> role, blocks |-> blocks]
CallsOf(m) == SelectSeq(talkHistory[m].blocks, LAMBDA b : b.kind = "tool_use")
Answering(calls) == [i \in DOMAIN calls |-> Block("tool_result", calls[i].id)]

TranscriptInit ==
    /\ talkHistory = <<>>
    /\ talks = [r \in Talks |-> Silent]
    /\ waiting = {}
    /\ provider \in {"anthropic", "openai"}
    /\ said = 0 /\ answers = 0 /\ breaks = 0

-----------------------------------------------------------------------------
(* What is sent *)

BlocksOf(h) == UNION {Range(h[m].blocks) : m \in DOMAIN h}
CallIds(h, kinds) == {b.id : b \in {c \in BlocksOf(h) : c.kind \in kinds}}

\* Deviation: only results without their calls are left out
_prune_results(h) ==
    LET Kept(b) == b.kind \in Results => b.id \in CallIds(h, ToolUses)
        pruned == [m \in DOMAIN h |-> Said(h[m].role, SelectSeq(h[m].blocks, Kept))]
    IN SelectSeq(pruned, LAMBDA m : m.blocks # <<>>)

\* Half of a pair is not sent, nor a message of which nothing is left
_prune_dangling_tool_blocks(h) ==
    LET Kept(b) == (b.kind \in ToolUses => b.id \in CallIds(h, Results)) /\ (b.kind \in Results => b.id \in CallIds(h, ToolUses))
        pruned == [m \in DOMAIN h |-> Said(h[m].role, SelectSeq(h[m].blocks, Kept))]
    IN SelectSeq(pruned, LAMBDA m : m.blocks # <<>>)

\* The items of the other provider: calls and results are items of their own, the text
\* between them is one, and what ran at the first provider has no form here
Item(role, id) == [role |-> role, id |-> id]
_to_input(h) ==
    LET Flushed(acc) == IF acc.text THEN Append(acc.items, Item("message", <<>>)) ELSE acc.items
        Next(acc, b) ==
            CASE b.kind = "text"        -> [acc EXCEPT !.text = TRUE]
              [] b.kind = "tool_use"    -> [items |-> Append(Flushed(acc), Item("function_call", b.id)), text |-> FALSE]
              [] b.kind = "tool_result" -> [items |-> Append(Flushed(acc), Item("function_call_output", b.id)), text |-> FALSE]
              [] OTHER                  -> acc
        ItemsOf(m) == Flushed(FoldLeft(Next, [items |-> <<>>, text |-> FALSE], m.blocks))
    IN FlattenSeq([m \in DOMAIN h |-> ItemsOf(h[m])])

\* What comes back, each provider's in the form of the first: what the answer holds
\* and why it stopped
to_anthropic_message(output, incomplete) ==
    [kinds |-> SelectSeq(output, LAMBDA k : k # "reasoning"),
     stop |-> IF incomplete THEN "max_tokens" ELSE IF "tool_use" \in Range(output) THEN "tool_use" ELSE "end_turn"]

Outputs == {<<"reasoning", "text">>, <<"reasoning", "tool_use">>, <<"text", "tool_use", "tool_use">>}

ModelAnswers ==
    IF provider = "openai" THEN {to_anthropic_message(o, i) : o \in Outputs, i \in BOOLEAN}
    ELSE {[kinds |-> <<"text">>, stop |-> "end_turn"], [kinds |-> <<"text", "tool_use">>, stop |-> "tool_use"],
          [kinds |-> <<"server", "tool_use">>, stop |-> "tool_use"], [kinds |-> <<"server", "text">>, stop |-> "end_turn"],
          [kinds |-> <<"text", "tool_use">>, stop |-> "max_tokens"], [kinds |-> <<"text", "server_use">>, stop |-> "pause_turn"]}

\* The blocks of an answer, with ids of their own
BlocksFor(kinds) ==
    LET Id(i) == <<answers, i>>
        Of(i) == CASE kinds[i] = "text" -> <<Text>>
                   [] kinds[i] = "server" -> <<Block("server_use", Id(i)), Block("server_result", Id(i))>>
                   [] OTHER -> <<Block(kinds[i], Id(i))>>
    IN FlattenSeq([i \in DOMAIN kinds |-> Of(i)])

-----------------------------------------------------------------------------
(* A turn *)

TalkGoes(r, at, left, m) == talks' = [talks EXCEPT ![r] = [at |-> at, left |-> left, message |-> m]]
TalkEnds(r) == talks' = [talks EXCEPT ![r] = Silent]
Continues(r, left) == IF left = 0 THEN TalkEnds(r) ELSE TalkGoes(r, "ask", left, 0)

\* The head of a turn, plain or streamed: refused while an action waits
run_talk_turn(r) ==
    /\ talks[r] = Silent /\ waiting = {} /\ said < MaxSaid
    /\ said' = said + 1
    /\ talkHistory' = Append(talkHistory, Said("user", <<Text>>))
    /\ TalkGoes(r, "ask", MAX_ITERATIONS, 0)
    /\ UNCHANGED <<waiting, provider, answers, breaks>>

\* The answer is filed whole, whatever it stopped for
_persist_assistant(r) ==
    /\ talks[r].at = "ask" /\ answers < MaxAnswers
    /\ answers' = answers + 1
    /\ \E a \in ModelAnswers :
        /\ talkHistory' = Append(talkHistory, Said("assistant", BlocksFor(a.kinds)))
        /\ CASE a.stop = "max_tokens" -> TalkGoes(r, "cut", 0, Len(talkHistory'))
             [] a.stop = "pause_turn" -> Continues(r, talks[r].left - 1)
             [] a.stop = "tool_use"   -> TalkGoes(r, "round", talks[r].left, Len(talkHistory'))
             [] OTHER                 -> TalkEnds(r)
    /\ UNCHANGED <<waiting, provider, said, breaks>>

\* An answer cut off by the limit keeps its text only
CutOff(r) ==
    /\ talks[r].at = "cut"
    /\ talkHistory' = [talkHistory EXCEPT ![talks[r].message].blocks = <<Text>>]
    /\ TalkEnds(r)
    /\ UNCHANGED <<waiting, provider, said, answers, breaks>>

\* Everything was read: the results are a message, and the model is called again
_run_tool_round(r) ==
    /\ talks[r].at = "round"
    /\ \/ /\ talkHistory' = Append(talkHistory, Said("user", Answering(CallsOf(talks[r].message))))
          /\ Continues(r, talks[r].left - 1)
          /\ UNCHANGED waiting
       \/ /\ waiting' = waiting \union {talks[r].message}
          /\ TalkEnds(r)
          /\ UNCHANGED talkHistory
    /\ UNCHANGED <<provider, said, answers, breaks>>

\* The last decision on a message
resolve_talk_action(r, m) ==
    /\ talks[r] = Silent /\ m \in waiting /\ said < MaxSaid
    /\ said' = said + 1
    /\ waiting' = waiting \ {m}
    /\ talkHistory' = Append(talkHistory, Said("user", Answering(CallsOf(m))))
    /\ TalkGoes(r, "ask", MAX_ITERATIONS, 0)
    /\ UNCHANGED <<provider, answers, breaks>>

\* The provider fails or a stream ends without its final response: nothing is filed
ProviderFails(r) ==
    /\ talks[r].at = "ask"
    /\ TalkEnds(r)
    /\ UNCHANGED <<talkHistory, waiting, provider, said, answers, breaks>>

\* A tool raises what the round does not catch, the reader of a stream leaves
TurnBreaks(r) ==
    /\ talks[r] # Silent /\ breaks < MaxBreaks
    /\ breaks' = breaks + 1
    /\ TalkEnds(r)
    /\ UNCHANGED <<talkHistory, waiting, provider, said, answers>>

ProviderChanges ==
    /\ breaks < MaxBreaks
    /\ breaks' = breaks + 1
    /\ talks' = [r \in Talks |-> Silent]
    /\ provider' \in {"anthropic", "openai"} \ {provider}
    /\ UNCHANGED <<talkHistory, waiting, said, answers>>

TranscriptNext ==
    \/ ProviderChanges
    \/ \E r \in Talks :
        \/ run_talk_turn(r) \/ _persist_assistant(r) \/ CutOff(r) \/ _run_tool_round(r)
        \/ ProviderFails(r) \/ TurnBreaks(r)
        \/ \E m \in waiting : resolve_talk_action(r, m)

TranscriptSpec == TranscriptInit /\ [][TranscriptNext]_transcriptVars

-----------------------------------------------------------------------------
\* A call has one result and a result one call, which comes first
PairedBlocks(items, uses, results) ==
    LET Places(kinds, id) == {i \in DOMAIN items : items[i].role \in kinds /\ items[i].id = id}
    IN \A i \in DOMAIN items :
        /\ items[i].role \in uses => \E j \in DOMAIN items : j > i /\ Places(results, items[i].id) = {j}
        /\ items[i].role \in results => \E j \in DOMAIN items : j < i /\ Places(uses, items[i].id) = {j}

Flat(h) == FlattenSeq([m \in DOMAIN h |-> [i \in DOMAIN h[m].blocks |-> Item(h[m].blocks[i].kind, h[m].blocks[i].id)]])

\* However turns break off, overlap and are cut, and whichever provider is next, the
\* history can be sent: no call without its result, no result without its call, in
\* either form (engine.py, "so a damaged history self-heals instead of bricking the chat")
HistoryIsReplayable ==
    LET h == _prune_dangling_tool_blocks(talkHistory)
    IN /\ \A kind \in {"tool", "server"} :
            PairedBlocks(Flat(h), {IF kind = "tool" THEN "tool_use" ELSE "server_use"},
                            {IF kind = "tool" THEN "tool_result" ELSE "server_result"})
       /\ PairedBlocks(_to_input(h), {"function_call"}, {"function_call_output"})
       /\ talkHistory # <<>> => _to_input(h) # <<>>

\* What two turns at once refute, not among the runs: a result is sent in the
\* message after its call's
ResultsFollowCalls ==
    LET h == _prune_dangling_tool_blocks(talkHistory) IN
    \A m, n \in DOMAIN h : \A b \in Range(h[m].blocks), c \in Range(h[n].blocks) :
        b.kind = "tool_use" /\ c.kind = "tool_result" /\ b.id = c.id => n = m + 1

\* What the pruning refutes, not among the runs: an answer that paused is sent
\* again unchanged (engine.py, "resend the history unchanged so Anthropic resumes it")
PausedIsResent ==
    (talkHistory # <<>> /\ Last(talkHistory).role = "assistant" /\ \E r \in Talks : talks[r].at = "ask")
        => Last(talkHistory) \in Range(_prune_dangling_tool_blocks(talkHistory))
=============================================================================
