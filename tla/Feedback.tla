------------------------------ MODULE Feedback ------------------------------
(***************************************************************************)
(* A wish or a complaint of an employee (app/feedback): administrators     *)
(* change its status and write into its feed, the author reads the feed    *)
(* and writes comments.  Rows of the feed are numbered by a sequence when  *)
(* they are inserted and seen by others when they are committed.           *)
(***************************************************************************)
EXTENDS Naturals, FiniteSets, FiniteSetsExt

CONSTANTS
    Readers,        \* requests of the administrators and of the author
    Authors,        \* those of the author
    MaxEvents       \* bound: numbers the sequence gives out

VARIABLES
    status,         \* FeedbackRequest.status
    feed,           \* committed rows of FeedbackEvent
    drawn,          \* numbers given out
    seen,           \* author_seen_event_id
    readers         \* what each request has read and inserted

feedbackVars == <<status, feed, drawn, seen, readers>>

FeedbackStatus == {"new", "in_progress", "done"}
NoEvent == [id |-> 0, kind |-> "none", to |-> "new"]
NotReading == [step |-> "idle", saw |-> "new", to |-> "new", event |-> NoEvent, last |-> 0]

FeedbackInit ==
    /\ status = "new"
    /\ feed = {}
    /\ drawn = 0
    /\ seen = 0
    /\ readers = [r \in Readers |-> NotReading]

FeedIds(events) == {e.id : e \in events} \union {0}

\* The request is read, with its feed
FeedReads(r, step, to) ==
    /\ readers[r] = NotReading
    /\ readers' = [readers EXCEPT ![r] = [NotReading EXCEPT !.step = step, !.to = to,
                      !.saw = IF step = "status" THEN status ELSE @,
                      !.last = IF step = "seen" THEN Max(FeedIds(feed)) ELSE @]]
    /\ UNCHANGED <<status, feed, drawn, seen>>

update_feedback_status(r, s) == r \notin Authors /\ FeedReads(r, "status", s)
add_feedback_event(r) == FeedReads(r, "comment", "new")
mark_feedback_seen(r) == r \in Authors /\ feed # {} /\ FeedReads(r, "seen", "new")

\* A row is inserted: it has a number, and waits for the commit
Inserts(r, kind) ==
    /\ drawn < MaxEvents
    /\ drawn' = drawn + 1
    /\ readers' = [readers EXCEPT ![r] = [NotReading EXCEPT !.step = "commit",
                       !.event = [id |-> drawn + 1, kind |-> kind, to |-> readers[r].to]]]

\* Deviation: the feed is written before the row of the request is
FeedUnlocked(r) == FALSE

\* The row of the request is updated first, so another change of status waits
FeedLocked(r) == \E q \in Readers \ {r} : readers[q].step = "commit" /\ readers[q].event.kind = "status"

\* set_status: nothing to write if the status is the one that was read
SameStatus(r) ==
    /\ readers[r].step = "status" /\ readers[r].saw = readers[r].to
    /\ readers' = [readers EXCEPT ![r] = NotReading]
    /\ UNCHANGED <<status, feed, drawn, seen>>

set_status(r) ==
    /\ readers[r].step = "status" /\ readers[r].saw # readers[r].to /\ ~FeedLocked(r)
    /\ Inserts(r, "status")
    /\ UNCHANGED <<status, feed, seen>>

add_event(r) ==
    /\ readers[r].step = "comment"
    /\ Inserts(r, "comment")
    /\ UNCHANGED <<status, feed, seen>>

FeedCommits(r) ==
    /\ readers[r].step = "commit"
    /\ LET e == readers[r].event IN
       /\ feed' = feed \union {e}
       /\ status' = IF e.kind = "status" THEN e.to ELSE status
    /\ readers' = [readers EXCEPT ![r] = NotReading]
    /\ UNCHANGED <<drawn, seen>>

\* An empty text, a request that breaks off: rolled back, the number is lost
Aborts(r) ==
    /\ readers[r].step \in {"comment", "commit"}
    /\ readers' = [readers EXCEPT ![r] = NotReading]
    /\ UNCHANGED <<status, feed, drawn, seen>>

\* The last row of the feed as it was read
mark_seen(r) ==
    /\ readers[r].step = "seen" /\ ~FeedLocked(r)
    /\ seen' = readers[r].last
    /\ readers' = [readers EXCEPT ![r] = NotReading]
    /\ UNCHANGED <<status, feed, drawn>>

FeedbackNext == \E r \in Readers :
    \/ \E s \in FeedbackStatus : update_feedback_status(r, s)
    \/ add_feedback_event(r) \/ mark_feedback_seen(r)
    \/ SameStatus(r) \/ set_status(r) \/ add_event(r) \/ FeedCommits(r) \/ Aborts(r) \/ mark_seen(r)

FeedbackSpec == FeedbackInit /\ [][FeedbackNext]_feedbackVars

-----------------------------------------------------------------------------
FeedStates == {e \in feed : e.kind = "status"}

\* The status is the one the feed ends with, whoever changed it at once: the
\* feed is the history of the request and is not rewritten (service.py, set_status)
StatusFollowsFeed ==
    status = IF FeedStates = {} THEN "new" ELSE (CHOOSE e \in FeedStates : \A f \in FeedStates : f.id <= e.id).to

\* What an insert that commits late breaks, not among the runs: all that comes
\* after the author looked is unread (models.py, author_seen_event_id)
UnseenIsCounted == \A r \in Readers : readers[r].step = "commit" => readers[r].event.id > seen
=============================================================================
