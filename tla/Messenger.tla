----------------------------- MODULE Messenger -----------------------------
(***************************************************************************)
(* The company's account in the messenger MAX (app/max).  The server of    *)
(* MAX is external: it keeps the chats and pushes every change over the    *)
(* one standing session of the listener (listener.py), a FIFO of frames    *)
(* with growing numbers; it may repeat any frame, also one of an earlier   *)
(* session.  The listener acknowledges a push, tells the open tabs         *)
(* (realtime.py) and asks for the message over the same session to notify  *)
(* the manager of the linked client.  Requests of people open a session of *)
(* their own (service.py, client.py).                                      *)
(***************************************************************************)
EXTENDS Naturals, Sequences, FiniteSets

CONSTANTS
    Chats,          \* chats of the account
    LinkedChats,    \* those linked to a client with a manager
    Tabs,           \* tabs of the site
    Senders,        \* requests that write to MAX
    QueueSize,      \* _QUEUE_SIZE, events kept for a tab
    MaxDeltas,      \* bound: changes of chats
    MaxRepeats,     \* bound: frames the server repeats
    MaxDrops        \* bound: sessions that break and answers that do not come

ASSUME MessengerAssumption == {QueueSize, MaxDeltas, MaxRepeats, MaxDrops} \subseteq Nat /\ LinkedChats \subseteq Chats

VARIABLES
    deltas,         \* changes of chats at the server, in order: chat and author
    wire,           \* frames on their way to the listener
    ear,            \* the listener: step, last_seq of its handler, the change it asks about
    asked,          \* questions the server has not answered
    tabs,           \* what each tab has pending, and the chats it shows as they were
    notified,       \* history: times the manager was notified of each change in this session
    writing,        \* what each request is doing
    unprocessedDeltas,    \* Client.lead_unprocessed of the client of a chat
    repeatedFrames, drops, \* counters of the bounds
    missed          \* history: what a tab was never told, a pair with the chat

messengerVars == <<deltas, wire, ear, asked, tabs, notified, writing, unprocessedDeltas,
                   repeatedFrames, drops, missed>>

Down == [step |-> "down", last |-> 0, about |-> 0]
NobodyNotified == [n \in 1..MaxDeltas |-> 0]
NotOpen == [open |-> FALSE, queue |-> <<>>, stale |-> {}]
NotWriting == [step |-> "idle", kind |-> "none", chat |-> "none"]
Events == {[type |-> "resync"]} \union [type : {"chat_updated"}, chat : Chats]

MessengerInit ==
    /\ deltas = <<>>
    /\ wire = <<>>
    /\ ear = Down
    /\ asked = {}
    /\ tabs = [t \in Tabs |-> NotOpen]
    /\ notified = NobodyNotified
    /\ writing = [r \in Senders |-> NotWriting]
    /\ unprocessedDeltas = [c \in Chats |-> c \in LinkedChats]
    /\ repeatedFrames = 0
    /\ drops = 0
    /\ missed = {}

Push(n) == [op |-> "message", seq |-> n, about |-> n]
Reply(n) == [op |-> "reply", seq |-> 0, about |-> n]
ChatOf(n) == deltas[n].chat

-----------------------------------------------------------------------------
(* What the open tabs are told (realtime.py) *)

QueueFull(t) == Len(tabs[t].queue) >= QueueSize

\* An event goes into every queue that has room, elsewhere it is thrown away
publish(e) ==
    [t \in Tabs |-> IF tabs[t].open /\ ~QueueFull(t)
                    THEN [tabs[t] EXCEPT !.queue = Append(@, e)] ELSE tabs[t]]

chat_updated(c) == publish([type |-> "chat_updated", chat |-> c])

\* Pairs a full queue has lost
Overflown(c) == {<<t, c>> : t \in {u \in Tabs : tabs[u].open /\ QueueFull(u)}}

\* A tab connects: subscribed, then it reads everything anew
events_ws(t) ==
    /\ ~tabs[t].open
    /\ tabs' = [tabs EXCEPT ![t] = [NotOpen EXCEPT !.open = TRUE]]
    /\ missed' = {p \in missed : p[1] # t}
    /\ UNCHANGED <<deltas, wire, ear, asked, notified, writing, unprocessedDeltas, repeatedFrames, drops>>

unsubscribe(t) ==
    /\ tabs[t].open
    /\ tabs' = [tabs EXCEPT ![t] = NotOpen]
    /\ missed' = {p \in missed : p[1] # t}
    /\ UNCHANGED <<deltas, wire, ear, asked, notified, writing, unprocessedDeltas, repeatedFrames, drops>>

\* The tab gets its first event and reads the chat, or all of them, again
Rereads(t) ==
    /\ tabs[t].queue # <<>>
    /\ LET e == Head(tabs[t].queue)
           read == IF e.type = "resync" THEN Chats ELSE {e.chat}
       IN /\ tabs' = [tabs EXCEPT ![t].queue = Tail(@), ![t].stale = @ \ read]
          /\ missed' = missed \ ({t} \X read)
    /\ UNCHANGED <<deltas, wire, ear, asked, notified, writing, unprocessedDeltas, repeatedFrames, drops>>

-----------------------------------------------------------------------------
(* The server of MAX, external *)

\* A chat changes: every open tab shows it as it was, the standing session is told
ChatChanged(c, from) ==
    /\ Len(deltas) < MaxDeltas
    /\ deltas' = Append(deltas, [chat |-> c, from |-> from])
    /\ wire' = IF ear.step = "down" THEN wire ELSE Append(wire, Push(Len(deltas) + 1))

ClientWrites(c) ==
    /\ ChatChanged(c, "client")
    /\ tabs' = [t \in Tabs |-> IF tabs[t].open THEN [tabs[t] EXCEPT !.stale = @ \union {c}] ELSE tabs[t]]
    /\ UNCHANGED <<ear, asked, notified, writing, unprocessedDeltas, repeatedFrames, drops, missed>>

\* A question is answered; a frame is sent once more, of this session or, after
\* a failure, of one before it
ServerAnswers(n) ==
    /\ n \in asked
    /\ asked' = asked \ {n}
    /\ wire' = Append(wire, Reply(n))
    /\ UNCHANGED <<deltas, ear, tabs, notified, writing, unprocessedDeltas, repeatedFrames, drops, missed>>

ServerRepeats(n) ==
    /\ repeatedFrames < MaxRepeats /\ ear.step # "down"
    /\ repeatedFrames' = repeatedFrames + 1
    /\ wire' = Append(wire, Push(n))
    /\ UNCHANGED <<deltas, ear, asked, tabs, notified, writing, unprocessedDeltas, drops, missed>>

-----------------------------------------------------------------------------
(* The listener *)

\* _run: a session opens, its handler knows no numbers, the tabs are resynchronised
Connect ==
    /\ ear.step = "down"
    /\ ear' = [Down EXCEPT !.step = "listening"]
    /\ notified' = NobodyNotified
    /\ tabs' = publish([type |-> "resync"])
    /\ missed' = missed \union UNION {Overflown(c) : c \in Chats}
    /\ UNCHANGED <<deltas, wire, asked, writing, unprocessedDeltas, repeatedFrames, drops>>

\* The session breaks or says nothing for IDLE_TIMEOUT: what was on the wire is lost
Disconnect ==
    /\ ear.step # "down" /\ drops < MaxDrops
    /\ drops' = drops + 1
    /\ ear' = Down
    /\ wire' = <<>>
    /\ asked' = {}
    /\ UNCHANGED <<deltas, tabs, notified, writing, unprocessedDeltas, repeatedFrames, missed>>

\* A late answer, or a frame whose number was handled, says nothing new
Stale(f) == f.op = "reply" \/ f.seq <= ear.last

\* FrameHandler.handle: acknowledged, the tabs told, then the message asked for
handle ==
    /\ ear.step = "listening" /\ wire # <<>>
    /\ wire' = Tail(wire)
    /\ LET f == Head(wire) IN
       \/ /\ Stale(f)
          /\ UNCHANGED <<ear, asked, tabs, missed>>
       \/ /\ ~Stale(f)
          /\ ear' = [ear EXCEPT !.step = "asking", !.last = f.seq, !.about = f.about]
          /\ asked' = asked \union {f.about}
          /\ tabs' = chat_updated(ChatOf(f.about))
          /\ missed' = missed \union Overflown(ChatOf(f.about))
    /\ UNCHANGED <<deltas, notified, writing, unprocessedDeltas, repeatedFrames, drops>>

\* MaxSession._wait: every other frame is skipped until the answer comes
_wait ==
    /\ ear.step = "asking" /\ wire # <<>> /\ Head(wire) # Reply(ear.about)
    /\ wire' = Tail(wire)
    /\ LET f == Head(wire) IN
       missed' = IF Stale(f) THEN missed
                 ELSE missed \union {<<t, ChatOf(f.about)>> : t \in {u \in Tabs : tabs[u].open}}
    /\ UNCHANGED <<deltas, ear, asked, tabs, notified, writing, unprocessedDeltas, repeatedFrames, drops>>

\* notify_chat_message: only of a message in a linked chat that is not our own
Concerns(n) == ChatOf(n) \in LinkedChats /\ deltas[n].from # "account"

_notify_new_message ==
    /\ ear.step = "asking" /\ wire # <<>> /\ Head(wire) = Reply(ear.about)
    /\ wire' = Tail(wire)
    /\ ear' = [ear EXCEPT !.step = "listening"]
    /\ notified' = [notified EXCEPT ![ear.about] = IF Concerns(ear.about) THEN @ + 1 ELSE @]
    /\ UNCHANGED <<deltas, asked, tabs, writing, unprocessedDeltas, repeatedFrames, drops, missed>>

\* The answer is too late, refused, or the database fails: logged, and listening goes on
NotNotified ==
    /\ ear.step = "asking" /\ drops < MaxDrops
    /\ drops' = drops + 1
    /\ ear' = [ear EXCEPT !.step = "listening"]
    /\ UNCHANGED <<deltas, wire, asked, tabs, notified, writing, unprocessedDeltas, repeatedFrames, missed>>

-----------------------------------------------------------------------------
(* A person writes, forwards a message or edits one of ours *)

AsksUpdates(r, kind, c) ==
    /\ writing[r] = NotWriting
    /\ writing' = [writing EXCEPT ![r] = [step |-> "opened", kind |-> kind, chat |-> c]]
    /\ UNCHANGED <<deltas, wire, ear, asked, tabs, notified, unprocessedDeltas, repeatedFrames, drops, missed>>

send_message(r, c) == AsksUpdates(r, "send", c)

\* The message to forward lies in some chat
forward_message(r, c) == deltas # <<>> /\ AsksUpdates(r, "other", c)

\* Only a message of the account can be edited
edit_message(r, c) ==
    /\ \E n \in DOMAIN deltas : deltas[n] = [chat |-> c, from |-> "account"]
    /\ AsksUpdates(r, "other", c)

\* No session, a file that is not taken, a refusal: 502 and nothing was sent
WriteRefused(r) ==
    /\ writing[r].step = "opened"
    /\ writing' = [writing EXCEPT ![r] = NotWriting]
    /\ UNCHANGED <<deltas, wire, ear, asked, tabs, notified, unprocessedDeltas, repeatedFrames, drops, missed>>

\* The server takes it
Reaches(r) ==
    /\ writing[r].step = "opened"
    /\ ChatChanged(writing[r].chat, "account")
    /\ writing' = [writing EXCEPT ![r].step = "reached"]
    /\ tabs' = [t \in Tabs |-> IF tabs[t].open
                               THEN [tabs[t] EXCEPT !.stale = @ \union {writing[r].chat}] ELSE tabs[t]]
    /\ UNCHANGED <<ear, asked, notified, unprocessedDeltas, repeatedFrames, drops, missed>>

\* Its answer comes: the tabs are told, and a lead that was written to is no longer new
ChatWritten(r) ==
    /\ writing[r].step = "reached"
    /\ LET c == writing[r].chat IN
       /\ tabs' = chat_updated(c)
       /\ missed' = missed \union Overflown(c)
       /\ unprocessedDeltas' = [unprocessedDeltas EXCEPT ![c] = @ /\ writing[r].kind # "send"]
    /\ writing' = [writing EXCEPT ![r] = NotWriting]
    /\ UNCHANGED <<deltas, wire, ear, asked, notified, repeatedFrames, drops>>

\* It does not come: 502 for what was sent, and the person may send it again
AnswerLost(r) ==
    /\ writing[r].step = "reached" /\ drops < MaxDrops
    /\ drops' = drops + 1
    /\ writing' = [writing EXCEPT ![r] = NotWriting]
    /\ UNCHANGED <<deltas, wire, ear, asked, tabs, notified, unprocessedDeltas, repeatedFrames, missed>>

-----------------------------------------------------------------------------
MessengerNext ==
    \/ \E t \in Tabs : events_ws(t) \/ unsubscribe(t) \/ Rereads(t)
    \/ \E c \in Chats : ClientWrites(c)
    \/ \E n \in DOMAIN deltas : ServerAnswers(n) \/ ServerRepeats(n)
    \/ Connect \/ Disconnect \/ handle \/ _wait \/ _notify_new_message \/ NotNotified
    \/ \E r \in Senders, c \in Chats : send_message(r, c) \/ forward_message(r, c) \/ edit_message(r, c)
    \/ \E r \in Senders : WriteRefused(r) \/ Reaches(r) \/ ChatWritten(r) \/ AnswerLost(r)

MessengerSpec == MessengerInit /\ [][MessengerNext]_messengerVars

-----------------------------------------------------------------------------
\* While a session lasts the manager of a client is told of a message once at
\* most, whatever the server repeats in it, of its own frames or of earlier
\* ones.  A session that opens knows no numbers (FrameHandler.last_seq): what
\* was told before it broke may be told again (listener.py)
AnnouncedOncePerSession == \A n \in 1..MaxDeltas : notified[n] <= 1

\* The event is in the tab's queue
Told(t, c) == \E i \in DOMAIN tabs[t].queue :
                  tabs[t].queue[i] \in {[type |-> "resync"], [type |-> "chat_updated", chat |-> c]}

\* A push of the chat is on the wire, not handled yet
Coming(c) == \E i \in DOMAIN wire : wire[i].op = "message" /\ wire[i].seq > ear.last /\ ChatOf(wire[i].about) = c

\* A tab that shows a chat as it was is going to be told: the event waits for
\* it, the push is on the wire, or the listener is down and will resynchronise
\* (listener.py, realtime.py); what a full queue or _wait threw away excepted
StaleTabsAreTold ==
    \A t \in Tabs : \A c \in tabs[t].stale :
        Told(t, c) \/ Coming(c) \/ ear.step = "down" \/ <<t, c>> \in missed
=============================================================================
