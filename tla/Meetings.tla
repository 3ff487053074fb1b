------------------------------ MODULE Meetings ------------------------------
(***************************************************************************)
(* A meeting that is recorded (app/ai/meetings.py): the browser appends    *)
(* lines in batches and asks for notes, the model's digest of the lines    *)
(* (meeting_notes.py); finishing freezes the transcript, digests it once   *)
(* more and sends the document to the knowledge base (mcp_write.py), which *)
(* is external.  Requests read the meeting when they begin and write it    *)
(* when they end; only the digest is under a lock of the process.          *)
(***************************************************************************)
EXTENDS Naturals, FiniteSets

CONSTANTS
    Browsers,           \* requests that may run at once
    NEW_LINES_THRESHOLD,\* new lines that are worth another digest
    MaxLines,           \* bound: lines of the transcript
    MaxUses             \* bound: requests that begin

ASSUME MeetingsAssumption == {NEW_LINES_THRESHOLD, MaxLines, MaxUses} \subseteq Nat /\ "nobody" \notin Browsers

VARIABLES
    meeting,    \* the row: status; the title and who gave it; whether it has audio
    meetingLines,      \* committed lines
    notes,      \* the digest: its row and source_line_count
    document,   \* lines in the note of the knowledge base
    meetingLocked,     \* who holds _locks[meeting.id]
    uses,       \* what each request is doing, and what it has read
    began       \* requests begun

meetingVars == <<meeting, meetingLines, notes, document, meetingLocked, uses, began>>

NoBrowser == "nobody"
NoUse == [step |-> "idle", does |-> "none", status |-> "none", title |-> "none", read |-> 0, force |-> FALSE]
NoNotes == [there |-> FALSE, count |-> 0]
NoDocument == [there |-> FALSE, count |-> 0]

MeetingsInit ==
    /\ meeting = [there |-> TRUE, status |-> "recording", title |-> "none", audio |-> FALSE]
    /\ meetingLines = 0
    /\ notes = NoNotes
    /\ document = NoDocument
    /\ meetingLocked = NoBrowser
    /\ uses = [b \in Browsers |-> NoUse]
    /\ began = 0

\* get_own_meeting_or_404: what the request has read of the row it keeps
MeetingUses(b, does, step, force) ==
    /\ uses[b] = NoUse /\ meeting.there /\ began < MaxUses
    /\ began' = began + 1
    /\ uses' = [uses EXCEPT ![b] = [step |-> step, does |-> does, status |-> meeting.status,
                                    title |-> meeting.title, read |-> 0, force |-> force]]
    /\ UNCHANGED <<meeting, meetingLines, notes, document, meetingLocked>>

append_meeting_transcript(b) == MeetingUses(b, "append", "read", FALSE)
update_meeting_title(b) == MeetingUses(b, "title", "read", FALSE)
upload_meeting_audio(b) == MeetingUses(b, "audio", "read", FALSE)
remove_meeting(b) == MeetingUses(b, "delete", "read", FALSE)
finish(b) == MeetingUses(b, "finish", "read", TRUE)
refresh_meeting_notes(b, force) == MeetingUses(b, "notes", "digest", force)

MeetingDone(b) == uses' = [uses EXCEPT ![b] = NoUse]

\* A row that is gone cannot be written or referred to: the request fails
MeetingFails(b) ==
    /\ uses[b].step = "read" /\ ~meeting.there
    /\ MeetingDone(b)
    /\ UNCHANGED <<meeting, meetingLines, notes, document, meetingLocked, began>>

\* Only while the meeting goes on, as the request has read it
append_transcript_lines(b) ==
    /\ uses[b].does = "append" /\ uses[b].step = "read" /\ meeting.there
    /\ \/ uses[b].status = "finished" /\ UNCHANGED meetingLines
       \/ uses[b].status = "recording" /\ meetingLines' \in (meetingLines + 1)..MaxLines
    /\ MeetingDone(b)
    /\ UNCHANGED <<meeting, notes, document, meetingLocked, began>>

update_meeting(b) ==
    /\ uses[b].does = "title" /\ uses[b].step = "read" /\ meeting.there
    /\ meeting' = [meeting EXCEPT !.title = "person"]
    /\ MeetingDone(b)
    /\ UNCHANGED <<meetingLines, notes, document, meetingLocked, began>>

attach_audio(b) ==
    /\ uses[b].does = "audio" /\ uses[b].step = "read" /\ meeting.there
    /\ meeting' = [meeting EXCEPT !.audio = TRUE]
    /\ MeetingDone(b)
    /\ UNCHANGED <<meetingLines, notes, document, meetingLocked, began>>

\* The transcript and the notes go with it, the note of the knowledge base stays
delete_meeting(b) ==
    /\ uses[b].does = "delete" /\ uses[b].step = "read" /\ meeting.there
    /\ meeting' = [meeting EXCEPT !.there = FALSE, !.audio = FALSE]
    /\ meetingLines' = 0
    /\ notes' = NoNotes
    /\ MeetingDone(b)
    /\ UNCHANGED <<document, meetingLocked, began>>

\* 409 for a meeting that was finished when it was read, else finished at once
finish_meeting(b) ==
    /\ uses[b].does = "finish" /\ uses[b].step = "read" /\ meeting.there
    /\ \/ /\ uses[b].status = "finished"
          /\ MeetingDone(b)
          /\ UNCHANGED meeting
       \/ /\ uses[b].status = "recording"
          /\ meeting' = [meeting EXCEPT !.status = "finished"]
          /\ uses' = [uses EXCEPT ![b].step = "digest", ![b].title = meeting.title]
    /\ UNCHANGED <<meetingLines, notes, document, meetingLocked, began>>

-----------------------------------------------------------------------------
(* The digest, refresh_notes *)

\* With the notes the request goes on, or is over
After(b) == uses' = [uses EXCEPT ![b] = IF uses[b].does = "finish" THEN [@ EXCEPT !.step = "send"] ELSE NoUse]

WorthIt(b) == ~notes.there \/ uses[b].force \/ meetingLines - notes.count >= NEW_LINES_THRESHOLD

\* Deviation: requests do not wait for the digest of another
DigestBeginsAnyway(b) ==
    /\ uses[b].step = "digest" /\ WorthIt(b) /\ meetingLines > 0
    /\ uses' = [uses EXCEPT ![b].step = "asking", ![b].read = meetingLines]
    /\ UNCHANGED <<notes, meetingLocked, meeting, meetingLines, document, began>>

\* The lock is taken and the lines are read: nothing new, nothing at all, or
\* the model is asked, by a digest of all of them
DigestBegins(b) ==
    /\ uses[b].step = "digest" /\ meetingLocked = NoBrowser
    /\ \/ /\ ~WorthIt(b)
          /\ After(b)
          /\ UNCHANGED <<notes, meetingLocked>>
       \/ /\ WorthIt(b) /\ meetingLines = 0
          /\ notes' = IF meeting.there THEN [notes EXCEPT !.there = TRUE] ELSE notes
          /\ After(b)
          /\ UNCHANGED meetingLocked
       \/ /\ WorthIt(b) /\ meetingLines > 0
          /\ meetingLocked' = b
          /\ uses' = [uses EXCEPT ![b].step = "asking", ![b].read = meetingLines]
          /\ UNCHANGED notes
    /\ UNCHANGED <<meeting, meetingLines, document, began>>

\* No key, no answer: the notes stay, and are made empty if there were none
DigestFails(b) ==
    /\ uses[b].step = "asking"
    /\ notes' = IF meeting.there THEN [notes EXCEPT !.there = TRUE] ELSE notes
    /\ meetingLocked' = NoBrowser
    /\ After(b)
    /\ UNCHANGED <<meeting, meetingLines, document, began>>

\* The answer is written with the lines it is of; it names a meeting that had
\* no title when the request read it.  Of a meeting that is gone nothing is.
refresh_notes(b) ==
    /\ uses[b].step = "asking"
    /\ IF meeting.there
       THEN /\ notes' = [there |-> TRUE, count |-> uses[b].read]
            /\ meeting' = [meeting EXCEPT !.title = IF uses[b].title = "none" THEN "model" ELSE @]
       ELSE UNCHANGED <<notes, meeting>>
    /\ meetingLocked' = NoBrowser
    /\ After(b)
    /\ UNCHANGED <<meetingLines, document, began>>

\* The document is written over the one of the same meeting, or the knowledge
\* base does not take it and the request does not fail
send_to_knowledge_base_quietly(b) ==
    /\ uses[b].step = "send"
    /\ document' \in {document, [there |-> TRUE, count |-> meetingLines]}
    /\ MeetingDone(b)
    /\ UNCHANGED <<meeting, meetingLines, notes, meetingLocked, began>>

-----------------------------------------------------------------------------
MeetingsNext == \E b \in Browsers :
    \/ append_meeting_transcript(b) \/ update_meeting_title(b) \/ upload_meeting_audio(b)
    \/ remove_meeting(b) \/ finish(b)
    \/ \E force \in BOOLEAN : refresh_meeting_notes(b, force)
    \/ MeetingFails(b) \/ append_transcript_lines(b) \/ update_meeting(b) \/ attach_audio(b)
    \/ delete_meeting(b) \/ finish_meeting(b)
    \/ DigestBegins(b) \/ DigestFails(b) \/ refresh_notes(b) \/ send_to_knowledge_base_quietly(b)

MeetingsSpec == MeetingsInit /\ [][MeetingsNext]_meetingVars

-----------------------------------------------------------------------------
\* Notes never go back to fewer lines than they were made of, however long a
\* model takes to answer a request that came earlier (meeting_notes.py, the
\* lock of refresh_notes)
NotesNeverGoBack == [][meeting'.there => notes'.count >= notes.count]_meetingVars

\* What only an overlap breaks, not among the runs: a finished transcript takes
\* no more lines; the title a person gave stays
TranscriptIsFrozen == [][meeting.status = "finished" /\ meeting'.there => meetingLines' = meetingLines]_meetingVars
TitleStays == [][meeting.title = "person" => meeting'.title = "person"]_meetingVars
=============================================================================
