----------------------------- MODULE BooksProofs -----------------------------
(***************************************************************************)
(* What the books of the office keep true: deals, cards of clients and     *)
(* records of sales, cards of materials and recipes, orders of the former  *)
(* system and payments, for any number of people who cross in any way.     *)
(***************************************************************************)
EXTENDS Crm, ClientCard, CrmRecords, MaterialCards, SalesHistory, Payments,
        FiniteSetTheorems, SequenceTheorems, TLAPS

------------------------------------------------------------------------------
(* Sales                                                                    *)

CrmTask == [of : {"none", "inquiry", "deal"}, control : BOOLEAN, completed : BOOLEAN, archived : BOOLEAN,
            version : Nat]

\* A task and its mirror
Mirrors(row, shown) == ~row.archived /\ row # NoStep => (shown = "done" <=> row.completed)

\* Whoever accepts the inquiry, or closes the deal, works on rows that were not
\* put away when he read them
Selling(q) ==
    /\ DOMAIN q = {"op", "on", "rows", "want", "held"} /\ q.on \subseteq Steps
    /\ q.op \in {"accept", "close"} =>
          \A t \in q.on : q.rows[t] \in CrmTask /\ ~q.rows[t].archived

TasksMirrored ==
    /\ step \in [Steps -> CrmTask] /\ DOMAIN mirror = Steps
    /\ \A t \in Steps : Mirrors(step[t], mirror[t])

(***************************************************************************)
(* The row of an inquiry is taken while it is accepted, so that it is     *)
(* open until then and nobody else accepts it.                             *)
(***************************************************************************)
OneAccepts ==
    /\ \A s \in Sellers : seller[s].op = "accept" =>
          /\ inquiry = "open" /\ Parent("inquiry") \in seller[s].held
          /\ \A o \in Sellers \ {s} : seller[o].op # "accept"
    /\ deals = IF inquiry = "accepted" THEN 1 ELSE 0

CrmInv ==
    /\ TasksMirrored
    /\ DOMAIN seller = Sellers /\ \A s \in Sellers : Selling(seller[s])
    /\ OneAccepts

LEMMA CrmBegins == CrmInit => CrmInv
  <1> SUFFICES ASSUME CrmInit PROVE CrmInv
    OBVIOUS
  <1>1. NoStep \in CrmTask
    BY DEF NoStep, CrmTask
  <1>2. TasksMirrored
    BY <1>1 DEF CrmInit, TasksMirrored, Mirrors
  <1>3. \A s \in Sellers : Selling(seller[s]) /\ seller[s].op = "none"
    BY DEF CrmInit, NotSelling, Selling
  <1> QED  BY <1>2, <1>3 DEF CrmInit, CrmInv, OneAccepts

\* What a request does before it writes leaves the tasks alone.
LEMMA SellersGo ==
    ASSUME CrmInv, NEW s \in Sellers, NEW q, seller' = [seller EXCEPT ![s] = q], Selling(q),
           UNCHANGED <<step, mirror, inquiry, deals>>,
           q.op = "accept" => /\ inquiry = "open" /\ Parent("inquiry") \in q.held
                              /\ \A o \in Sellers \ {s} : seller[o].op # "accept"
    PROVE  CrmInv'
  <1>1. TasksMirrored'
    BY DEF CrmInv, TasksMirrored
  <1>2. \A o \in Sellers : seller'[o] = IF o = s THEN q ELSE seller[o]
    BY DEF CrmInv
  <1>3. DOMAIN seller' = Sellers /\ \A o \in Sellers : Selling(seller'[o])
    BY <1>2 DEF CrmInv
  <1>4. OneAccepts'
    BY <1>2 DEF CrmInv, OneAccepts
  <1> QED  BY <1>1, <1>3, <1>4 DEF CrmInv

LEMMA NobodySells == Selling(NotSelling) /\ NotSelling.op = "none"
  BY DEF NotSelling, Selling

LEMMA BeginsKeeps ==
    ASSUME CrmInv, NEW s \in Sellers, NEW op, NEW on \in SUBSET Steps, NEW want, NEW taken,
           Begins(s, op, on, want, taken),
           op \in {"accept", "close"} => \A t \in on : ~step[t].archived,
           op = "accept" => inquiry = "open" /\ taken = {Parent("inquiry")}
    PROVE  CrmInv'
  <1> DEFINE q == [op |-> op, on |-> on, rows |-> [t \in on |-> step[t]], want |-> want, held |-> taken]
  <1>1. seller' = [seller EXCEPT ![s] = q] /\ UNCHANGED <<step, mirror, inquiry, deals>>
    BY DEF Begins
  <1>2. Selling(q)
    BY DEF Selling, CrmInv, TasksMirrored
  <1>3. op = "accept" => \A o \in Sellers \ {s} : seller[o].op # "accept"
    BY DEF Begins, FreeFor, CrmInv, OneAccepts
  <1>4. q.op = op /\ q.held = taken
    OBVIOUS
  <1> HIDE DEF q
  <1> QED  BY <1>1, <1>2, <1>3, <1>4, SellersGo

LEMMA AcquireKeeps == ASSUME CrmInv, NEW s \in Sellers, Acquire(s) PROVE CrmInv'
  <1> DEFINE old == seller[s]
             q == [old EXCEPT !.held = old.held \cup {Head(old.want)}, !.want = Tail(old.want)]
  <1>1. Selling(old)
    BY DEF CrmInv
  <1>2. seller' = [seller EXCEPT ![s] = q] /\ UNCHANGED <<step, mirror, inquiry, deals>>
    BY DEF Acquire, CrmInv
  <1>3. Selling(q) /\ q.op = old.op /\ q.held = old.held \cup {Head(old.want)}
    BY <1>1 DEF Selling
  <1>4. old.op = "accept" => /\ inquiry = "open" /\ Parent("inquiry") \in old.held
                             /\ \A o \in Sellers \ {s} : seller[o].op # "accept"
    BY DEF CrmInv, OneAccepts
  <1> HIDE DEF q, old
  <1> QED  BY <1>2, <1>3, <1>4, SellersGo

\* A step that writes tasks: each is left alone or has its mirror.
LEMMA TasksWritten ==
    ASSUME CrmInv, DOMAIN step' = Steps, DOMAIN mirror' = Steps, step' = [t \in Steps |-> step'[t]],
           \A t \in Steps : \/ step'[t] = step[t] /\ mirror'[t] = mirror[t]
                            \/ step'[t] \in CrmTask /\ Mirrors(step'[t], mirror'[t])
    PROVE  TasksMirrored'
  BY DEF CrmInv, TasksMirrored

LEMMA CreatesKeeps ==
    ASSUME CrmInv, NEW of \in {"inquiry", "deal"}, NEW control \in BOOLEAN, Creates(of, control)
    PROVE  TasksMirrored'
  <1> DEFINE new == NewStep(of, control)
             shown == sync_to_board(new, "none")
  <1>1. PICK t \in Steps : step' = [step EXCEPT ![t] = new] /\ mirror' = [mirror EXCEPT ![t] = shown]
    BY DEF Creates, Unused
  <1>2. new \in CrmTask /\ Mirrors(new, shown)
    BY DEF NewStep, CrmTask, Mirrors, sync_to_board
  <1> HIDE DEF new, shown
  <1> QED  BY <1>1, <1>2, TasksWritten DEF CrmInv, TasksMirrored

\* Rows that are written with a new version.
LEMMA TaskWritten ==
    ASSUME NEW row \in CrmTask, NEW b \in BOOLEAN
    PROVE  /\ [row EXCEPT !.version = row.version + 1, !.completed = b] \in CrmTask
           /\ [row EXCEPT !.version = row.version + 1, !.archived = b] \in CrmTask
           /\ [row EXCEPT !.completed = b, !.version = row.version + 1] \in CrmTask
           /\ [row EXCEPT !.completed = b, !.version = row.version + 1].completed = b
           /\ [row EXCEPT !.of = "deal", !.completed = b, !.version = row.version + 1] \in CrmTask
           /\ [row EXCEPT !.of = "deal", !.completed = b, !.version = row.version + 1].completed = b
           /\ [row EXCEPT !.of = "deal", !.completed = b, !.version = row.version + 1].archived = row.archived
  <1>1. row.version + 1 \in Nat
    BY DEF CrmTask
  <1>2. [row EXCEPT !.version = row.version + 1, !.completed = b] \in CrmTask
    BY <1>1 DEF CrmTask
  <1>3. [row EXCEPT !.version = row.version + 1, !.archived = b] \in CrmTask
    BY <1>1 DEF CrmTask
  <1>4. /\ [row EXCEPT !.completed = b, !.version = row.version + 1] \in CrmTask
        /\ [row EXCEPT !.completed = b, !.version = row.version + 1].completed = b
    BY <1>1 DEF CrmTask
  <1>5. [row EXCEPT !.of = "deal", !.completed = b, !.version = row.version + 1] \in CrmTask
    BY <1>1 DEF CrmTask
  <1>6. /\ [row EXCEPT !.of = "deal", !.completed = b, !.version = row.version + 1].completed = b
        /\ [row EXCEPT !.of = "deal", !.completed = b, !.version = row.version + 1].archived = row.archived
    BY <1>1 DEF CrmTask
  <1> QED  BY <1>2, <1>3, <1>4, <1>5, <1>6

LEMMA ChangedTyped == ASSUME NEW old \in CrmTask, NEW row \in Changed(old) PROVE row \in CrmTask
  <1>1. PICK b \in BOOLEAN : \/ row = [old EXCEPT !.version = old.version + 1, !.completed = b]
                            \/ row = [old EXCEPT !.version = old.version + 1, !.archived = b]
    BY DEF Changed
  <1>2. [old EXCEPT !.version = old.version + 1, !.completed = b] \in CrmTask
    BY TaskWritten
  <1>3. [old EXCEPT !.version = old.version + 1, !.archived = b] \in CrmTask
    BY TaskWritten
  <1> QED  BY <1>1, <1>2, <1>3

LEMMA RewrittenKeeps ==
    ASSUME CrmInv, NEW s \in Sellers, NEW completed \in BOOLEAN, seller[s].op \in {"accept", "close"},
           step' = Rewritten(s, completed), mirror' = Mirrored(s, completed)
    PROVE  TasksMirrored'
  <1>1. ASSUME NEW t \in Steps, t \in seller[s].on
        PROVE  step'[t] \in CrmTask /\ Mirrors(step'[t], mirror'[t])
    <2> DEFINE row == seller[s].rows[t]
               w == AsWritten(s, t, completed)
               new == [w EXCEPT !.archived = step[t].archived]
    <2>1. row \in CrmTask /\ ~row.archived /\ step[t] \in CrmTask
      BY <1>1 DEF CrmInv, Selling, TasksMirrored
    <2>2. w = [row EXCEPT !.of = "deal", !.completed = completed, !.version = row.version + 1]
      BY DEF AsWritten
    <2>3. step'[t] = new /\ mirror'[t] = sync_to_board(w, mirror[t])
      BY <1>1 DEF Rewritten, Mirrored
    <2> HIDE DEF w, row
    <2>4. w \in CrmTask /\ ~w.archived /\ w.completed = completed
      BY <2>1, <2>2, TaskWritten
    <2>5. new \in CrmTask /\ new.completed = completed
      BY <2>1, <2>4 DEF CrmTask
    <2>6. sync_to_board(w, mirror[t]) = "done" <=> completed
      BY <2>4 DEF sync_to_board
    <2> QED  BY <2>3, <2>5, <2>6 DEF Mirrors
  <1>2. \A t \in Steps \ seller[s].on : step'[t] = step[t] /\ mirror'[t] = mirror[t]
    BY DEF Rewritten, Mirrored
  <1>3. DOMAIN step' = Steps /\ DOMAIN mirror' = Steps /\ step' = [t \in Steps |-> step'[t]]
    BY DEF Rewritten, Mirrored
  <1> QED  BY <1>1, <1>2, <1>3, TasksWritten

\* Whoever has written is done.
LEMMA DoneKeeps ==
    ASSUME CrmInv, NEW s \in Sellers, Done(s), TasksMirrored',
           \/ UNCHANGED <<inquiry, deals>>
           \/ seller[s].op = "accept" /\ inquiry' = "accepted" /\ deals' = deals + 1
    PROVE  CrmInv'
  <1>1. \A o \in Sellers : seller'[o] = IF o = s THEN NotSelling ELSE seller[o]
    BY DEF CrmInv, Done
  <1>2. DOMAIN seller' = Sellers /\ \A o \in Sellers : Selling(seller'[o])
    BY <1>1, NobodySells DEF CrmInv, Done
  <1>3. OneAccepts'
    <2>1. \A o \in Sellers : seller'[o].op = "accept" => o # s /\ seller[o] = seller'[o]
      BY <1>1, NobodySells
    <2>2. CASE UNCHANGED <<inquiry, deals>>
      BY <1>1, <2>1, <2>2, NobodySells DEF CrmInv, OneAccepts
    <2>3. CASE seller[s].op = "accept" /\ inquiry' = "accepted" /\ deals' = deals + 1
      BY <1>1, <2>1, <2>3, NobodySells DEF CrmInv, OneAccepts
    <2> QED  BY <2>2, <2>3
  <1> QED  BY <1>2, <1>3 DEF CrmInv

LEMMA PatchedKeeps == ASSUME CrmInv, NEW s \in Sellers, Patched(s) PROVE TasksMirrored'
  <1> DEFINE t == CHOOSE t \in seller[s].on : TRUE
  <1>1. \/ UNCHANGED <<step, mirror>>
        \/ \E row \in Changed(step[t]) : step' = [step EXCEPT ![t] = row] /\ mirror' = [mirror EXCEPT ![t] = sync_to_board(row, mirror[t])]
    BY DEF Patched
  <1> HIDE DEF t
  <1>2. CASE UNCHANGED <<step, mirror>>
    BY <1>2 DEF CrmInv, TasksMirrored
  <1>3. ASSUME NEW row \in Changed(step[t]), step' = [step EXCEPT ![t] = row],
               mirror' = [mirror EXCEPT ![t] = sync_to_board(row, mirror[t])]
        PROVE  TasksMirrored'
    <2>1. CASE t \notin Steps
      BY <1>3, <2>1, TasksWritten DEF CrmInv, TasksMirrored
    <2>2. CASE t \in Steps
      <3>1. step[t] \in CrmTask
        BY <2>2 DEF CrmInv, TasksMirrored
      <3>2. row \in CrmTask
        BY <1>3, <3>1, ChangedTyped
      <3>3. Mirrors(row, sync_to_board(row, mirror[t]))
        BY <3>2 DEF Mirrors, sync_to_board
      <3> QED  BY <1>3, <2>2, <3>2, <3>3, TasksWritten DEF CrmInv, TasksMirrored
    <2> QED  BY <2>1, <2>2
  <1> QED  BY <1>1, <1>2, <1>3

LEMMA BoardTells == ASSUME CrmInv, NEW s \in Sellers, sync_from_board(s) PROVE TasksMirrored'
  <1> DEFINE t == CHOOSE t \in seller[s].on : TRUE
             Told(done) == [step[t] EXCEPT !.completed = done, !.version = step[t].version + 1]
  <1>1. \/ UNCHANGED <<step, mirror>>
        \/ \E shown \in {"in_progress", "done"} :
              /\ mirror' = [mirror EXCEPT ![t] = shown]
              /\ \/ step[t].completed = (shown = "done") /\ step' = step
                 \/ step' = [step EXCEPT ![t] = Told(shown = "done")]
    BY DEF sync_from_board
  <1>2. CASE UNCHANGED <<step, mirror>>
    BY <1>2 DEF CrmInv, TasksMirrored
  <1>3. CASE t \notin Steps
    BY <1>1, <1>3, TasksWritten DEF CrmInv, TasksMirrored
  <1>4. ASSUME t \in Steps, NEW shown \in {"in_progress", "done"}, mirror' = [mirror EXCEPT ![t] = shown],
               \/ step[t].completed = (shown = "done") /\ step' = step
               \/ step' = [step EXCEPT ![t] = Told(shown = "done")]
        PROVE  TasksMirrored'
    <2>1. step[t] \in CrmTask
      BY <1>4 DEF CrmInv, TasksMirrored
    <2>2. \A done \in BOOLEAN : Told(done) \in CrmTask /\ Told(done).completed = done
      BY <2>1, TaskWritten
    <2>3. (shown = "done") \in BOOLEAN
      OBVIOUS
    <2> HIDE DEF t, Told
    <2>4. step'[t] \in CrmTask /\ (step'[t].completed <=> shown = "done") /\ mirror'[t] = shown
      BY <1>4, <2>1, <2>2, <2>3 DEF CrmInv, TasksMirrored
    <2>5. Mirrors(step'[t], mirror'[t])
      BY <2>4 DEF Mirrors
    <2>6. \A u \in Steps \ {t} : step'[u] = step[u] /\ mirror'[u] = mirror[u]
      BY <1>4 DEF CrmInv, TasksMirrored
    <2>7. DOMAIN step' = Steps /\ DOMAIN mirror' = Steps /\ step' = [u \in Steps |-> step'[u]]
      BY <1>4 DEF CrmInv, TasksMirrored
    <2> QED  BY <2>4, <2>5, <2>6, <2>7, TasksWritten
  <1> QED  BY <1>1, <1>2, <1>3, <1>4

LEMMA CrmStays == CrmInv /\ [CrmNext]_crmVars => CrmInv'
  <1> SUFFICES ASSUME CrmInv, CrmNext \/ UNCHANGED crmVars PROVE CrmInv'
    OBVIOUS
  <1>1. ASSUME UNCHANGED seller, TasksMirrored', UNCHANGED <<inquiry, deals>>
        PROVE  CrmInv'
    BY <1>1 DEF CrmInv, OneAccepts
  <1>2. ASSUME UNCHANGED <<step, mirror>> PROVE TasksMirrored'
    BY <1>2 DEF CrmInv, TasksMirrored
  <1>3. CASE UNCHANGED crmVars
    BY <1>1, <1>2, <1>3 DEF crmVars
  <1>4. CASE register_client_request
    <2>1. TasksMirrored'
      BY <1>4, CreatesKeeps DEF register_client_request
    <2> QED  BY <1>4, <2>1 DEF register_client_request, CrmInv, OneAccepts
  <1>5. CASE ArchiveInquiry
    BY <1>2, <1>5 DEF ArchiveInquiry, CrmInv, OneAccepts
  <1>6. ASSUME NEW s \in Sellers, DeadlockDetected(s) PROVE CrmInv'
    <2>1. seller' = [seller EXCEPT ![s] = NotSelling] /\ UNCHANGED <<step, mirror, inquiry, deals>>
      BY <1>6 DEF DeadlockDetected
    <2> QED  BY <2>1, SellersGo, NobodySells
  <1>7. ASSUME NEW s \in Sellers, accept_inquiry(s) PROVE CrmInv'
    <2>1. OpenSteps("inquiry") \in SUBSET Steps /\ \A t \in OpenSteps("inquiry") : ~step[t].archived
      BY DEF OpenSteps
    <2> QED  BY <1>7, <2>1, BeginsKeeps DEF accept_inquiry
  <1>8. ASSUME NEW s \in Sellers, Accepted(s) PROVE CrmInv'
    <2>1. seller[s].op = "accept" /\ inquiry' = "accepted" /\ deals' = deals + 1 /\ Done(s)
      BY <1>8 DEF Accepted, Ready
    <2>2. TasksMirrored'
      BY <1>8, <2>1, CreatesKeeps, RewrittenKeeps DEF Accepted
    <2> QED  BY <2>1, <2>2, DoneKeeps
  <1>9. ASSUME NEW s \in Sellers, close_terminal_followups(s) PROVE CrmInv'
    <2> DEFINE control == {t \in OpenSteps("deal") : step[t].control}
    <2>1. control \in SUBSET Steps /\ \A t \in control : ~step[t].archived
      BY DEF OpenSteps
    <2>2. Begins(s, "close", control, BoardFirst(control), {Parent("deal")})
      BY <1>9 DEF close_terminal_followups
    <2> HIDE DEF control
    <2> QED  BY <2>1, <2>2, BeginsKeeps
  <1>10. ASSUME NEW s \in Sellers, ClosedDeal(s) PROVE CrmInv'
    <2>1. seller[s].op = "close" /\ Done(s) /\ UNCHANGED <<inquiry, deals>>
      BY <1>10 DEF ClosedDeal, Ready
    <2>2. TasksMirrored'
      BY <1>10, <2>1, RewrittenKeeps DEF ClosedDeal
    <2> QED  BY <2>1, <2>2, DoneKeeps
  <1>11. ASSUME NEW s \in Sellers, ReopenDeal(s) PROVE CrmInv'
    BY <1>1, <1>2, <1>11 DEF ReopenDeal
  <1>12. ASSUME NEW s \in Sellers, NEW of \in {"inquiry", "deal"}, schedule_followup(s, of) PROVE CrmInv'
    <2>1. TasksMirrored'
      BY <1>12, CreatesKeeps DEF schedule_followup
    <2> QED  BY <1>1, <1>12, <2>1 DEF schedule_followup
  <1>13. ASSUME NEW s \in Sellers, NEW t \in Steps, patch(s, t) \/ lock_for_board(s, t) PROVE CrmInv'
    <2>1. {t} \in SUBSET Steps
      OBVIOUS
    <2> QED  BY <1>13, <2>1, BeginsKeeps DEF patch, lock_for_board
  <1>14. ASSUME NEW s \in Sellers, Patched(s) \/ sync_from_board(s) PROVE CrmInv'
    <2>1. TasksMirrored'
      BY <1>14, PatchedKeeps, BoardTells
    <2>2. Done(s) /\ UNCHANGED <<inquiry, deals>>
      BY <1>14 DEF Patched, sync_from_board
    <2> QED  BY <2>1, <2>2, DoneKeeps
  <1> QED
    BY <1>3, <1>4, <1>5, <1>6, <1>7, <1>8, <1>9, <1>10, <1>11, <1>12, <1>13, <1>14, AcquireKeeps DEF CrmNext

LEMMA CrmAgrees == CrmInv => MirrorAgrees /\ OneDealPerInquiry
  BY DEF CrmInv, TasksMirrored, Mirrors, MirrorAgrees, OneAccepts, OneDealPerInquiry

------------------------------------------------------------------------------
(* Cards of clients                                                         *)

\* What the unique columns and the foreign keys of the tables keep
LinkedOnce ==
    /\ \A x, y \in chatOf \cap Cards : x = y
    /\ \A x, y \in chatOf \cap Partners : x = y
    /\ chatOf \cap Partners \subseteq partners
    /\ partners \subseteq Partners
    /\ referrer \in partners \cup {NoPerson}

LEMMA CardBegins == ClientCardInit => LinkedOnce
  BY DEF ClientCardInit, LinkedOnce

LEMMA CardStays == LinkedOnce /\ [CardNext]_cardVars => LinkedOnce'
  <1> SUFFICES ASSUME LinkedOnce, CardNext \/ UNCHANGED cardVars PROVE LinkedOnce'
    OBVIOUS
  <1>1. CASE UNCHANGED <<chatOf, partners, referrer>>
    BY <1>1 DEF LinkedOnce
  <1>2. ASSUME NEW who, delete_chat_link(who) PROVE LinkedOnce'
    BY <1>2 DEF delete_chat_link, LinkedOnce
  <1>3. ASSUME NEW e \in Editors, Linked(e) PROVE LinkedOnce'
    <2> DEFINE who == editor[e].who
    <2>1. UNCHANGED <<partners, referrer>>
      BY <1>3 DEF Linked
    <2>2. CASE chatOf' = chatOf
      BY <1>1, <2>1, <2>2
    <2>3. CASE chatOf' = chatOf \cup {who} /\ chatOf \cap SameTable(who) = {} /\ who \in Cards \cup partners
      <3>1. CASE who \in Cards
        <4>1. chatOf \cap Cards = {} /\ who \notin Partners
          BY <2>3, <3>1, ClientCardAssumption DEF SameTable
        <4>2. chatOf' \cap Cards = {who} /\ chatOf' \cap Partners = chatOf \cap Partners
          BY <2>3, <3>1, <4>1
        <4> HIDE DEF who
        <4> QED  BY <2>1, <4>2 DEF LinkedOnce
      <3>2. CASE who \notin Cards
        <4>1. chatOf \cap Partners = {} /\ who \in partners /\ who \in Partners
          BY <2>3, <3>2 DEF SameTable, LinkedOnce
        <4>2. chatOf' \cap Partners = {who} /\ chatOf' \cap Cards = chatOf \cap Cards
          BY <2>3, <3>2, <4>1
        <4> HIDE DEF who
        <4> QED  BY <2>1, <4>1, <4>2 DEF LinkedOnce
      <3> QED  BY <3>1, <3>2
    <2> QED  BY <1>3, <2>2, <2>3 DEF Linked
  <1>4. ASSUME NEW e \in Editors, Recommended(e) PROVE LinkedOnce'
    BY <1>4 DEF Recommended, LinkedOnce
  <1>5. ASSUME NEW e \in Editors, PartnerDeleted(e) PROVE LinkedOnce'
    BY <1>5 DEF PartnerDeleted, LinkedOnce
  <1>6. ASSUME NEW e \in Editors,
               \/ \E who \in Staff \cup {Marina} : set_contract_files(e, who)
               \/ \E who \in Staff : verify_contract_document(e, who)
               \/ LeaveApproval(e) \/ intake_lead(e) \/ update_basic(e)
               \/ \E who \in Cards \cup Partners : create_chat_link(e, who)
               \/ \E p \in Partners \cup {NoPerson} : update_source(e, p)
               \/ \E p \in Partners : delete_partner(e, p)
        PROVE  UNCHANGED <<chatOf, partners, referrer>>
    BY <1>6 DEF set_contract_files, verify_contract_document, LeaveApproval, intake_lead, update_basic,
                create_chat_link, update_source, delete_partner, Reads
  <1>7. ASSUME NEW e \in Editors, Attached(e) \/ Verified(e) \/ Locked(e) \/ TakenIn(e) \/ BasicUpdated(e)
        PROVE  UNCHANGED <<chatOf, partners, referrer>>
    BY <1>7 DEF Attached, Verified, Locked, TakenIn, BasicUpdated
  <1>8. CASE UNCHANGED cardVars
    BY <1>1, <1>8 DEF cardVars
  <1>9. CASE take_lead
    BY <1>1, <1>9 DEF take_lead
  <1> QED  BY <1>1, <1>2, <1>3, <1>4, <1>5, <1>6, <1>7, <1>8, <1>9 DEF CardNext

\* A set with no two elements.
LEMMA AtMostOneMember == ASSUME NEW S, \A x, y \in S : x = y PROVE Cardinality(S) <= 1
  <1>1. CASE S = {}
    BY <1>1, FS_EmptySet
  <1>2. ASSUME NEW x \in S PROVE Cardinality(S) <= 1
    <2>1. S = {x}
      BY <1>2
    <2> QED  BY <2>1, FS_Singleton
  <1> QED  BY <1>1, <1>2

LEMMA LinkedHolds == LinkedOnce => LinksHold
  <1> SUFFICES ASSUME LinkedOnce PROVE LinksHold
    OBVIOUS
  <1>1. Cardinality(chatOf \cap Cards) <= 1
    BY AtMostOneMember DEF LinkedOnce
  <1>2. Cardinality(chatOf \cap Partners) <= 1
    BY AtMostOneMember DEF LinkedOnce
  <1> QED  BY <1>1, <1>2 DEF LinkedOnce, LinksHold

------------------------------------------------------------------------------
(* Records of sales                                                         *)

LeadRow == [there : BOOLEAN, archived : BOOLEAN, version : Nat, data : Nat, stage : LeadStages \cup {NoStage},
            pipeline : Pipelines \cup {NoStage}]

\* A card that is open, and what it would write
RecordCard ==
    {NoCard} \cup [op : {"read"}, deal : Leads, version : Nat, saw : Nat]
    \cup [op : {"merged"}, deal : Leads, version : Nat, saw : Nat, stage : LeadStages, pipeline : Pipelines, archived : BOOLEAN]
    \cup [op : {"archive"}, deal : Leads, version : Nat, saw : Nat, archived : BOOLEAN]
    \cup [op : {"accept"}, deal : Leads, version : Nat, saw : Nat, stage : LeadStages, pipeline : Pipelines]

(***************************************************************************)
(* Why a card is refused when the deal has changed: versions only rise,    *)
(* and each goes with one state of the data, until an inquiry about the    *)
(* deal is accepted.                                                       *)
(***************************************************************************)
CardIsCurrent(c) ==
    c.op \in {"read", "merged", "archive"} =>
       /\ leadDeal[c.deal].there
       /\ \/ unsorted[c.deal] = "accepted"
          \/ /\ c.version <= leadDeal[c.deal].version
             /\ c.version = leadDeal[c.deal].version => c.saw = leadDeal[c.deal].data

RecordsTyped ==
    /\ writes \in Nat
    /\ leadDeal \in [Leads -> LeadRow]
    /\ board \in [LeadStages -> [pipeline : Pipelines, archived : BOOLEAN]]
    /\ unsorted \in [Leads -> {"none", "open", "accepted"}]
    /\ card \in [Managers -> RecordCard]

RecordsInv == RecordsTyped /\ \A u \in Managers : CardIsCurrent(card[u])

LEMMA RecordsBegin == RecordsInit => RecordsInv
  <1> SUFFICES ASSUME RecordsInit PROVE RecordsInv
    OBVIOUS
  <1>1. NotHere \in LeadRow /\ NoCard \in RecordCard
    BY DEF NotHere, LeadRow, RecordCard
  <1>2. \A u \in Managers : CardIsCurrent(card[u])
    BY DEF RecordsInit, NoCard, CardIsCurrent
  <1> QED  BY <1>1, <1>2 DEF RecordsInit, RecordsInv, RecordsTyped

\* A new card, or none, while the records stay as they are.
LEMMA CardTurns ==
    ASSUME RecordsInv, NEW u \in Managers, NEW c \in RecordCard, RecordTurns(u, c), CardIsCurrent(c),
           UNCHANGED <<leadDeal, unsorted, board, writes>>
    PROVE  RecordsInv'
  <1>1. card' \in [Managers -> RecordCard] /\ \A v \in Managers : card'[v] = IF v = u THEN c ELSE card[v]
    BY DEF RecordsInv, RecordsTyped, RecordTurns
  <1>2. \A v \in Managers : CardIsCurrent(card'[v])
    BY <1>1 DEF RecordsInv
  <1>3. \A d : CardIsCurrent(d) => CardIsCurrent(d)'
    BY DEF CardIsCurrent
  <1> QED  BY <1>1, <1>2, <1>3 DEF RecordsInv, RecordsTyped, CardIsCurrent

\* What may happen to a deal under the eyes of who has its card open
DealsGoOn ==
    \A l \in Leads :
        /\ leadDeal[l].there => leadDeal'[l].there
        /\ unsorted[l] = "accepted" => unsorted'[l] = "accepted"
        /\ \/ unsorted'[l] = "accepted"
           \/ ~leadDeal[l].there
           \/ leadDeal'[l].version = leadDeal[l].version /\ leadDeal'[l].data = leadDeal[l].data
           \/ leadDeal'[l].version > leadDeal[l].version

LEMMA CardGoesOn ==
    ASSUME RecordsTyped, RecordsTyped', DealsGoOn, NEW c \in RecordCard, CardIsCurrent(c)
    PROVE  CardIsCurrent(c)'
  <1> SUFFICES ASSUME c.op \in {"read", "merged", "archive"}
               PROVE  /\ leadDeal'[c.deal].there
                      /\ \/ unsorted'[c.deal] = "accepted"
                         \/ /\ c.version <= leadDeal'[c.deal].version
                            /\ c.version = leadDeal'[c.deal].version => c.saw = leadDeal'[c.deal].data
    BY DEF CardIsCurrent
  <1> DEFINE l == c.deal
  <1>1. l \in Leads /\ c.version \in Nat
    BY DEF RecordCard, NoCard
  <1>2. leadDeal[l].version \in Nat /\ leadDeal'[l].version \in Nat
    BY <1>1 DEF RecordsTyped, LeadRow
  <1>3. /\ leadDeal[l].there
        /\ \/ unsorted[l] = "accepted"
           \/ /\ c.version <= leadDeal[l].version
              /\ c.version = leadDeal[l].version => c.saw = leadDeal[l].data
    BY DEF CardIsCurrent
  <1> HIDE DEF l
  <1>4. /\ leadDeal'[l].there
        /\ \/ unsorted'[l] = "accepted"
           \/ /\ c.version <= leadDeal'[l].version
              /\ c.version = leadDeal'[l].version => c.saw = leadDeal'[l].data
    BY <1>1, <1>2, <1>3 DEF DealsGoOn
  <1> QED  BY <1>4 DEF l

LEMMA RecordsGoOn ==
    ASSUME RecordsInv, RecordsTyped', DealsGoOn,
           \A u \in Managers : card'[u] = card[u] \/ card'[u] = NoCard
    PROVE  RecordsInv'
  <1>1. ASSUME NEW u \in Managers PROVE CardIsCurrent(card[u])'
    <2>1. card[u] \in RecordCard /\ CardIsCurrent(card[u])
      BY DEF RecordsInv, RecordsTyped
    <2>2. PICK c \in RecordCard : c = card[u]
      BY <2>1
    <2>3. CardIsCurrent(c)'
      BY <2>1, <2>2, CardGoesOn DEF RecordsInv
    <2>4. CASE card'[u] = card[u]
      BY <2>2, <2>3, <2>4 DEF CardIsCurrent
    <2>5. CASE card'[u] = NoCard
      BY <2>5 DEF CardIsCurrent, NoCard
    <2> QED  BY <2>4, <2>5
  <1> QED  BY <1>1 DEF RecordsInv

LEMMA ImportKeepsRecords == ASSUME RecordsInv, import_export PROVE RecordsInv'
  <1>1. writes' \in Nat /\ card' = card /\ board' = board
    BY DEF import_export, Recorded, RecordsInv, RecordsTyped
  <1>2. PICK s \in LeadStages, asked \in SUBSET {l \in Leads : former[l] = "live"} :
          /\ leadDeal' = [l \in Leads |->
                CASE former[l] = "live" -> add(l, Live(l, s))
                  [] former[l] = "deleted" -> [add(l, Tombstone) EXCEPT !.archived = TRUE]
                  [] OTHER -> leadDeal[l]]
          /\ unsorted' = Unsorted(asked)
    BY DEF import_export
  <1>3. ASSUME NEW l \in Leads
        PROVE  /\ leadDeal'[l] \in LeadRow
               /\ leadDeal[l].there => /\ leadDeal'[l].there /\ leadDeal'[l].version = leadDeal[l].version
                                        /\ leadDeal'[l].data = leadDeal[l].data
    <2>1. leadDeal[l] \in LeadRow
      BY DEF RecordsInv, RecordsTyped
    <2>2. Live(l, s) \in LeadRow /\ Tombstone \in LeadRow
      <3>1. board[s].pipeline \in Pipelines
        BY DEF RecordsInv, RecordsTyped
      <3> QED  BY <1>1, <3>1 DEF Live, Tombstone, LeadRow
    <2>3. ASSUME NEW row \in LeadRow PROVE add(l, row) \in LeadRow /\ (leadDeal[l].there => add(l, row) = leadDeal[l])
      BY <2>1, <2>3 DEF add
    <2>4. CASE former[l] = "live"
      BY <1>2, <2>2, <2>3, <2>4
    <2>5. CASE former[l] = "deleted"
      <3>1. leadDeal'[l] = [add(l, Tombstone) EXCEPT !.archived = TRUE]
        BY <1>2, <2>5
      <3>2. PICK row \in LeadRow : row = add(l, Tombstone)
        BY <2>2, <2>3
      <3>3. /\ [row EXCEPT !.archived = TRUE] \in LeadRow
            /\ [row EXCEPT !.archived = TRUE].there = row.there
            /\ [row EXCEPT !.archived = TRUE].version = row.version
            /\ [row EXCEPT !.archived = TRUE].data = row.data
        BY DEF LeadRow
      <3>4. leadDeal[l].there => row = leadDeal[l]
        BY <2>2, <2>3, <3>2
      <3> QED  BY <3>1, <3>2, <3>3, <3>4
    <2>6. CASE former[l] \notin {"live", "deleted"}
      BY <1>2, <2>1, <2>6
    <2> QED  BY <2>4, <2>5, <2>6
  <1>4. \A l \in Leads : unsorted'[l] \in {"none", "open", "accepted"} /\ (unsorted[l] = "accepted" => unsorted'[l] = "accepted")
    BY <1>2 DEF Unsorted, RecordsInv, RecordsTyped
  <1>5. RecordsTyped'
    <2>1. DOMAIN leadDeal' = Leads /\ leadDeal' = [l \in Leads |-> leadDeal'[l]]
      BY <1>2
    <2>2. unsorted' \in [Leads -> {"none", "open", "accepted"}]
      BY <1>2, <1>4 DEF Unsorted
    <2>3. leadDeal' \in [Leads -> LeadRow]
      BY <1>3, <2>1
    <2> QED  BY <1>1, <2>2, <2>3 DEF RecordsInv, RecordsTyped
  <1>6. DealsGoOn
    BY <1>3, <1>4 DEF DealsGoOn
  <1> QED  BY <1>1, <1>5, <1>6, RecordsGoOn

\* The rows a card and an acceptance write.
LEMMA RecordRows ==
    ASSUME NEW row \in LeadRow, NEW n \in Nat, NEW w \in Nat, NEW s \in LeadStages, NEW p \in Pipelines, NEW a \in BOOLEAN
    PROVE  /\ [row EXCEPT !.archived = a, !.version = row.version + 1] \in LeadRow
           /\ [row EXCEPT !.data = w, !.version = n, !.stage = s, !.pipeline = p] \in LeadRow
  <1>1. row.version + 1 \in Nat
    BY DEF LeadRow
  <1>2. [row EXCEPT !.archived = a, !.version = row.version + 1] \in LeadRow
    BY <1>1 DEF LeadRow
  <1>3. [row EXCEPT !.data = w, !.version = n, !.stage = s, !.pipeline = p] \in LeadRow
    BY DEF LeadRow
  <1> QED  BY <1>2, <1>3

\* One deal is written.
LEMMA DealWritten ==
    ASSUME RecordsInv, NEW l \in Leads, NEW row \in LeadRow, leadDeal' = [leadDeal EXCEPT ![l] = row],
           NEW u \in Managers, RecordTurns(u, NoCard), writes' \in Nat, board' = board,
           \/ unsorted' = unsorted /\ row.version = leadDeal[l].version + 1
           \/ unsorted' = [unsorted EXCEPT ![l] = "accepted"],
           row.there = leadDeal[l].there
    PROVE  RecordsInv'
  <1>1. leadDeal' \in [Leads -> LeadRow] /\ unsorted' \in [Leads -> {"none", "open", "accepted"}]
    BY DEF RecordsInv, RecordsTyped
  <1>2. NoCard \in RecordCard
    BY DEF RecordCard
  <1>3. card' \in [Managers -> RecordCard] /\ \A v \in Managers : card'[v] = card[v] \/ card'[v] = NoCard
    BY <1>2 DEF RecordsInv, RecordsTyped, RecordTurns
  <1>4. RecordsTyped'
    BY <1>1, <1>3 DEF RecordsInv, RecordsTyped
  <1>5. leadDeal[l].version \in Nat
    BY DEF RecordsInv, RecordsTyped, LeadRow
  <1>6. DealsGoOn
    <2> SUFFICES ASSUME NEW k \in Leads
                 PROVE  /\ leadDeal[k].there => leadDeal'[k].there
                        /\ unsorted[k] = "accepted" => unsorted'[k] = "accepted"
                        /\ \/ unsorted'[k] = "accepted"
                           \/ ~leadDeal[k].there
                           \/ leadDeal'[k].version = leadDeal[k].version /\ leadDeal'[k].data = leadDeal[k].data
                           \/ leadDeal'[k].version > leadDeal[k].version
      BY DEF DealsGoOn
    <2>1. leadDeal'[k] = IF k = l THEN row ELSE leadDeal[k]
      BY DEF RecordsInv, RecordsTyped
    <2>2. unsorted' = unsorted \/ unsorted'[k] = IF k = l THEN "accepted" ELSE unsorted[k]
      BY DEF RecordsInv, RecordsTyped
    <2>3. CASE k # l
      BY <2>1, <2>2, <2>3
    <2>4. CASE k = l /\ unsorted' = unsorted /\ row.version = leadDeal[l].version + 1
      <3>1. leadDeal'[k].version > leadDeal[k].version
        BY <1>5, <2>1, <2>4
      <3> QED  BY <2>1, <2>4, <3>1
    <2>5. CASE k = l /\ unsorted' = [unsorted EXCEPT ![l] = "accepted"]
      <3>1. unsorted'[k] = "accepted"
        BY <2>5 DEF RecordsInv, RecordsTyped
      <3> QED  BY <2>1, <2>5, <3>1
    <2> QED  BY <2>3, <2>4, <2>5
  <1> QED  BY <1>3, <1>4, <1>6, RecordsGoOn

LEMMA EntryKeepsRecords ==
    ASSUME RecordsInv, NEW u \in Managers, NEW l \in Leads, entry(u, l)
    PROVE  RecordsInv'
  <1> DEFINE c == [op |-> "read", deal |-> l, version |-> leadDeal[l].version, saw |-> leadDeal[l].data]
  <1>1. leadDeal[l] \in LeadRow
    BY DEF RecordsInv, RecordsTyped
  <1>2. c \in RecordCard
    BY <1>1 DEF RecordCard, LeadRow
  <1>3. CardIsCurrent(c)
    BY <1>1 DEF CardIsCurrent, entry, LeadRow
  <1>4. RecordTurns(u, c) /\ UNCHANGED <<leadDeal, unsorted, board, writes>>
    BY DEF entry
  <1> HIDE DEF c
  <1> QED  BY <1>2, <1>3, <1>4, CardTurns

LEMMA PatchReadKeepsRecords ==
    ASSUME RecordsInv, NEW u \in Managers, patch_record(u)
    PROVE  RecordsInv'
  <1>1. PICK o \in RecordCard : o = card[u] /\ CardIsCurrent(o) /\ o.op = "read"
    BY DEF RecordsInv, RecordsTyped, patch_record
  <1>2. o.deal \in Leads /\ o.version \in Nat /\ o.saw \in Nat
    BY <1>1 DEF RecordCard, NoCard
  <1>3. leadDeal[o.deal] \in LeadRow
    BY <1>2 DEF RecordsInv, RecordsTyped
  <1>4. UNCHANGED <<leadDeal, unsorted, board, writes>>
    BY DEF patch_record
  <1>5. NoCard \in RecordCard /\ CardIsCurrent(NoCard)
    BY DEF RecordCard, NoCard, CardIsCurrent
  <1>6. CASE RecordTurns(u, NoCard)
    BY <1>4, <1>5, <1>6, CardTurns
  <1>7. CASE \E s \in LeadStages : \E p \in Pipelines :
                RecordTurns(u, [op |-> "merged", deal |-> o.deal, version |-> o.version, saw |-> o.saw,
                                stage |-> s, pipeline |-> p, archived |-> leadDeal[o.deal].archived])
    <2>1. PICK s \in LeadStages, p \in Pipelines :
                RecordTurns(u, [op |-> "merged", deal |-> o.deal, version |-> o.version, saw |-> o.saw,
                                stage |-> s, pipeline |-> p, archived |-> leadDeal[o.deal].archived])
      BY <1>7
    <2> DEFINE c == [op |-> "merged", deal |-> o.deal, version |-> o.version, saw |-> o.saw,
                     stage |-> s, pipeline |-> p, archived |-> leadDeal[o.deal].archived]
    <2>2. c \in RecordCard
      BY <1>2, <1>3 DEF RecordCard, LeadRow
    <2>3. CardIsCurrent(c)
      BY <1>1 DEF CardIsCurrent
    <2> HIDE DEF c
    <2>4. RecordTurns(u, c)
      BY <2>1 DEF c
    <2> QED  BY <1>4, <2>2, <2>3, <2>4, CardTurns
  <1>8. CASE RecordTurns(u, [op |-> "archive", deal |-> o.deal, version |-> o.version, saw |-> o.saw,
                             archived |-> ~leadDeal[o.deal].archived])
    <2> DEFINE c == [op |-> "archive", deal |-> o.deal, version |-> o.version, saw |-> o.saw,
                     archived |-> ~leadDeal[o.deal].archived]
    <2>2. c \in RecordCard
      BY <1>2, <1>3 DEF RecordCard, LeadRow
    <2>3. CardIsCurrent(c)
      BY <1>1 DEF CardIsCurrent
    <2> HIDE DEF c
    <2>4. RecordTurns(u, c)
      BY <1>8 DEF c
    <2> QED  BY <1>4, <2>2, <2>3, <2>4, CardTurns
  <1> QED  BY <1>1, <1>6, <1>7, <1>8 DEF patch_record

LEMMA PatchedKeepsRecords ==
    ASSUME RecordsInv, NEW u \in Managers, patched(u)
    PROVE  RecordsInv'
  <1>1. PICK o \in RecordCard : o = card[u] /\ o.op \in {"merged", "archive"}
    BY DEF RecordsInv, RecordsTyped, patched
  <1>2. o.deal \in Leads /\ o.version \in Nat
    BY <1>1 DEF RecordCard, NoCard
  <1>3. PICK row \in LeadRow : row = leadDeal[o.deal]
    BY <1>2 DEF RecordsInv, RecordsTyped
  <1>4. writes' \in Nat /\ RecordTurns(u, NoCard) /\ board' = board /\ unsorted' = unsorted
    BY DEF patched, Recorded, RecordsInv, RecordsTyped
  <1>5. row.version + 1 \in Nat /\ row.there \in BOOLEAN
    BY DEF LeadRow
  <1>6. CASE row.version # o.version
    <2>1. leadDeal' = leadDeal
      BY <1>1, <1>3, <1>6 DEF patched
    <2>2. RecordsTyped' /\ \A v \in Managers : card'[v] = card[v] \/ card'[v] = NoCard
      BY <1>4, <2>1 DEF RecordsInv, RecordsTyped, RecordTurns, RecordCard
    <2>3. DealsGoOn
      BY <1>4, <2>1 DEF DealsGoOn
    <2> QED  BY <2>2, <2>3, RecordsGoOn
  <1>7. CASE row.version = o.version /\ o.op = "archive"
    <2> DEFINE new == [row EXCEPT !.archived = o.archived, !.version = row.version + 1]
    <2>1. leadDeal' = [leadDeal EXCEPT ![o.deal] = new]
      BY <1>1, <1>3, <1>7 DEF patched
    <2>2. o.archived \in BOOLEAN
      BY <1>1, <1>7 DEF RecordCard, NoCard
    <2>3. new \in LeadRow /\ new.version = leadDeal[o.deal].version + 1 /\ new.there = leadDeal[o.deal].there
      BY <1>3, <1>5, <2>2 DEF LeadRow
    <2> HIDE DEF new
    <2> QED  BY <1>2, <1>4, <2>1, <2>3, DealWritten
  <1>8. CASE row.version = o.version /\ o.op = "merged"
    <2> DEFINE new == [row EXCEPT !.data = writes', !.version = row.version + 1, !.stage = o.stage, !.pipeline = o.pipeline]
    <2>1. leadDeal' = [leadDeal EXCEPT ![o.deal] = new]
      BY <1>1, <1>3, <1>8 DEF patched
    <2>2. o.stage \in LeadStages /\ o.pipeline \in Pipelines
      BY <1>1, <1>8 DEF RecordCard, NoCard
    <2>3. new \in LeadRow /\ new.version = leadDeal[o.deal].version + 1 /\ new.there = leadDeal[o.deal].there
      BY <1>3, <1>4, <1>5, <2>2 DEF LeadRow
    <2> HIDE DEF new
    <2> QED  BY <1>2, <1>4, <2>1, <2>3, DealWritten
  <1> QED  BY <1>1, <1>6, <1>7, <1>8

LEMMA AcceptReadKeepsRecords ==
    ASSUME RecordsInv, NEW u \in Managers, NEW l \in Leads, accept_inquiry_of(u, l)
    PROVE  RecordsInv'
  <1>1. leadDeal[l] \in LeadRow
    BY DEF RecordsInv, RecordsTyped
  <1>2. PICK s \in LeadStages, p \in Pipelines :
            RecordTurns(u, [op |-> "accept", deal |-> l, version |-> leadDeal[l].version, saw |-> leadDeal[l].data,
                            stage |-> s, pipeline |-> p])
    BY DEF accept_inquiry_of
  <1> DEFINE c == [op |-> "accept", deal |-> l, version |-> leadDeal[l].version, saw |-> leadDeal[l].data,
                   stage |-> s, pipeline |-> p]
  <1>3. c \in RecordCard
    BY <1>1 DEF RecordCard, LeadRow
  <1>4. CardIsCurrent(c)
    BY DEF CardIsCurrent
  <1>5. RecordTurns(u, c) /\ UNCHANGED <<leadDeal, unsorted, board, writes>>
    BY <1>2 DEF accept_inquiry_of
  <1> HIDE DEF c
  <1> QED  BY <1>3, <1>4, <1>5, CardTurns

LEMMA AcceptedKeepsRecords ==
    ASSUME RecordsInv, NEW u \in Managers, accepted(u)
    PROVE  RecordsInv'
  <1>1. PICK o \in RecordCard : o = card[u] /\ o.op = "accept"
    BY DEF RecordsInv, RecordsTyped, accepted
  <1>2. o.deal \in Leads /\ o.version \in Nat /\ o.stage \in LeadStages /\ o.pipeline \in Pipelines
    BY <1>1 DEF RecordCard, NoCard
  <1>3. PICK row \in LeadRow : row = leadDeal[o.deal]
    BY <1>2 DEF RecordsInv, RecordsTyped
  <1>4. writes' \in Nat /\ RecordTurns(u, NoCard) /\ board' = board
    BY DEF accepted, Recorded, RecordsInv, RecordsTyped
  <1> DEFINE new == [row EXCEPT !.data = writes', !.version = o.version + 1, !.stage = o.stage, !.pipeline = o.pipeline]
  <1>5. leadDeal' = [leadDeal EXCEPT ![o.deal] = new] /\ unsorted' = [unsorted EXCEPT ![o.deal] = "accepted"]
    BY <1>1, <1>3 DEF accepted
  <1>6. o.version + 1 \in Nat
    BY <1>2
  <1>7. new \in LeadRow /\ new.there = leadDeal[o.deal].there
    BY <1>2, <1>3, <1>4, <1>6 DEF LeadRow
  <1> HIDE DEF new
  <1> QED  BY <1>2, <1>4, <1>5, <1>7, DealWritten

\* The former CRM and the board change nothing of the deals.
LEMMA AroundTheRecords ==
    ASSUME RecordsInv, NEW l, NEW s, NEW p, FormerChanges(l) \/ (s \in LeadStages /\ patch_stage(s)) \/ patch_pipeline(p)
    PROVE  RecordsInv'
  <1>1. writes' \in Nat /\ UNCHANGED <<leadDeal, unsorted, card>>
    BY DEF FormerChanges, patch_stage, patch_pipeline, Recorded, RecordsInv, RecordsTyped
  <1>2. board' \in [LeadStages -> [pipeline : Pipelines, archived : BOOLEAN]]
    BY ZenonT(30) DEF FormerChanges, patch_stage, patch_pipeline, RecordsInv, RecordsTyped
  <1>3. RecordsTyped'
    BY <1>1, <1>2 DEF RecordsInv, RecordsTyped
  <1>4. DealsGoOn
    BY <1>1 DEF DealsGoOn
  <1> QED  BY <1>1, <1>3, <1>4, RecordsGoOn

LEMMA RecordsStay == ASSUME RecordsInv, [RecordsNext]_recordVars PROVE RecordsInv'
  <1>1. CASE UNCHANGED recordVars
    BY <1>1 DEF recordVars, RecordsInv, RecordsTyped, CardIsCurrent
  <1>2. CASE RecordsNext
    <2>1. CASE import_export
      BY <2>1, ImportKeepsRecords
    <2>2. CASE \E l \in Leads : FormerChanges(l)
      BY <2>2, AroundTheRecords
    <2>3. CASE (\E s \in LeadStages : patch_stage(s)) \/ \E p \in Pipelines : patch_pipeline(p)
      BY <2>3, AroundTheRecords
    <2>4. CASE \E u \in Managers : patch_record(u) \/ patched(u) \/ accepted(u)
      BY <2>4, PatchReadKeepsRecords, PatchedKeepsRecords, AcceptedKeepsRecords
    <2>5. CASE \E u \in Managers, l \in Leads : entry(u, l) \/ accept_inquiry_of(u, l)
      BY <2>5, EntryKeepsRecords, AcceptReadKeepsRecords
    <2> QED  BY <1>2, <2>1, <2>2, <2>3, <2>4, <2>5 DEF RecordsNext
  <1> QED  BY <1>1, <1>2

LEMMA CardsSaw == RecordsInv => CardsSawTheDeal
  <1> SUFFICES ASSUME RecordsInv, NEW u \in Managers, card[u].op \in {"merged", "archive"},
                      leadDeal[card[u].deal].version = card[u].version
               PROVE  leadDeal[card[u].deal].data = card[u].saw \/ unsorted[card[u].deal] = "accepted"
    BY DEF CardsSawTheDeal
  <1> QED  BY DEF RecordsInv, CardIsCurrent

------------------------------------------------------------------------------
(* Cards of materials                                                       *)

MaterialRow == [there : BOOLEAN, unit : UnitsOfCards, archived : BOOLEAN, stock : Int, moved : Int]

DeskRow == [step : {"idle", "order", "import", "row"}, code : Codes \cup {"none"}, unit : UnitsOfCards,
            stock : Int, makes : BOOLEAN]

CardsTyped ==
    /\ cards \in [Codes -> MaterialRow]
    /\ locks \in [Codes -> Desks \cup {NoDesk}]
    /\ cardDesks \in [Desks -> DeskRow]
    /\ \A d \in Desks : cardDesks[d].step # "idle" => cardDesks[d].code \in Codes

\* What is counted is counted in the unit of a card that is there
InUnitOf(c, unit) == c \in Codes /\ cards[c].there /\ cards[c].unit = unit

UnitsKept ==
    /\ \A h \in cardHolds : InUnitOf(h.code, h.unit)
    /\ \A l \in cardLines : /\ DOMAIN l = {"number", "code", "unit", "issued"} /\ l.code \in Codes
                           /\ (l.issued => InUnitOf(l.code, l.unit))

\* A lock is a table's, which reads the stock under it
LockedBy(c, d) ==
    /\ cardDesks[d].step \in {"import", "row"} /\ cardDesks[d].code = c
    /\ cardDesks[d].step = "row" => cardDesks[d].stock = cards[c].stock
LocksOwned == \A c \in Codes : locks[c] # NoDesk => LockedBy(c, locks[c])

Journalled == unlocked \/ \A c \in Codes : cards[c].stock = cards[c].moved

MaterialsInv == CardsTyped /\ UnitsKept /\ LocksOwned /\ Journalled

LEMMA RowOfCard ==
    ASSUME NEW there \in BOOLEAN, NEW unit \in UnitsOfCards
    PROVE  /\ [Unmade EXCEPT !.there = there] \in MaterialRow
           /\ [Unmade EXCEPT !.there = there].stock = [Unmade EXCEPT !.there = there].moved
           /\ [Unmade EXCEPT !.there = TRUE, !.unit = unit] \in MaterialRow
           /\ [Unmade EXCEPT !.there = TRUE, !.unit = unit].there
           /\ [Unmade EXCEPT !.there = TRUE, !.unit = unit].stock = [Unmade EXCEPT !.there = TRUE, !.unit = unit].moved
  <1>1. Unmade \in MaterialRow /\ Unmade.stock = Unmade.moved
    BY DEF Unmade, MaterialRow, UnitsOfCards
  <1> QED  BY <1>1 DEF MaterialRow

LEMMA MaterialsBegin == CardsInit => MaterialsInv
  <1> SUFFICES ASSUME CardsInit PROVE MaterialsInv
    OBVIOUS
  <1>1. \A c \in Codes : cards[c] \in MaterialRow /\ cards[c].stock = cards[c].moved
    <2> SUFFICES ASSUME NEW c \in Codes PROVE cards[c] \in MaterialRow /\ cards[c].stock = cards[c].moved
      OBVIOUS
    <2>1. cards[c] = [Unmade EXCEPT !.there = c \in Known] /\ (c \in Known) \in BOOLEAN /\ "piece" \in UnitsOfCards
      BY DEF CardsInit, UnitsOfCards
    <2> QED  BY <2>1, RowOfCard
  <1>2. Resting \in DeskRow /\ Resting.step = "idle"
    BY DEF Resting, DeskRow, UnitsOfCards
  <1>3. CardsTyped
    BY <1>1, <1>2 DEF CardsInit, CardsTyped
  <1> QED  BY <1>1, <1>3 DEF CardsInit, MaterialsInv, UnitsKept, LocksOwned, Journalled

\* A card is written whose stock no table has read under its lock, or not its stock.
LEMMA CardWritten ==
    ASSUME MaterialsInv, NEW c \in Codes, NEW row \in MaterialRow, cards' = [cards EXCEPT ![c] = row],
           row.there \/ ~cards[c].there,
           cards[c].there => row.unit = cards[c].unit \/ ~Counted(c),
           locks[c] = NoDesk \/ row.stock = cards[c].stock,
           cards[c].stock = cards[c].moved => row.stock = row.moved,
           UNCHANGED <<locks, cardDesks, unlocked>>
    PROVE  /\ CardsTyped' /\ LocksOwned' /\ Journalled'
           /\ \A k, unit : InUnitOf(k, unit) => InUnitOf(k, unit)' \/ (k = c /\ ~Counted(c))
  <1>1. cards' \in [Codes -> MaterialRow] /\ \A k \in Codes : cards'[k] = IF k = c THEN row ELSE cards[k]
    BY DEF MaterialsInv, CardsTyped
  <1>2. CardsTyped'
    BY <1>1 DEF MaterialsInv, CardsTyped
  <1>3. LocksOwned'
    <2> SUFFICES ASSUME NEW k \in Codes, locks[k] # NoDesk PROVE LockedBy(k, locks[k])'
      BY DEF LocksOwned
    <2>1. LockedBy(k, locks[k])
      BY DEF MaterialsInv, LocksOwned
    <2>2. cards'[k].stock = cards[k].stock
      BY <1>1
    <2> QED  BY <2>1, <2>2 DEF LockedBy
  <1>4. Journalled'
    BY <1>1 DEF MaterialsInv, Journalled
  <1>5. ASSUME NEW k, NEW unit, InUnitOf(k, unit), ~(k = c /\ ~Counted(c)) PROVE InUnitOf(k, unit)'
    BY <1>1, <1>5 DEF InUnitOf
  <1> QED  BY <1>2, <1>3, <1>4, <1>5

\* Units of lines and holds that are there stay.
LEMMA UnitsStay ==
    ASSUME MaterialsInv, NEW c,
           \A k, unit : InUnitOf(k, unit) => InUnitOf(k, unit)' \/ (k = c /\ ~Counted(c)),
           UNCHANGED <<cardLines, cardHolds>>
    PROVE  UnitsKept'
  <1>1. ASSUME NEW h \in cardHolds PROVE InUnitOf(h.code, h.unit)'
    BY DEF MaterialsInv, UnitsKept, Counted
  <1>2. ASSUME NEW l \in cardLines, l.issued PROVE InUnitOf(l.code, l.unit)'
    BY <1>2 DEF MaterialsInv, UnitsKept, Counted
  <1> QED  BY <1>1, <1>2 DEF MaterialsInv, UnitsKept

LEMMA MovedCard ==
    ASSUME MaterialsInv, NEW c \in Codes, NEW n \in Int
    PROVE  \E row \in MaterialRow :
             /\ Moved(c, n) = [cards EXCEPT ![c] = row]
             /\ row.there = cards[c].there /\ row.unit = cards[c].unit
             /\ cards[c].stock = cards[c].moved => row.stock = row.moved
  <1>1. PICK old \in MaterialRow : old = cards[c]
    BY DEF MaterialsInv, CardsTyped
  <1>2. old.stock + n \in Int /\ old.moved + n \in Int
    BY DEF MaterialRow
  <1> DEFINE row == [old EXCEPT !.stock = old.stock + n, !.moved = old.moved + n]
  <1>3. row \in MaterialRow /\ row.there = old.there /\ row.unit = old.unit /\ row.stock = old.stock + n /\ row.moved = old.moved + n
    BY <1>2 DEF MaterialRow
  <1>4. Moved(c, n) = [cards EXCEPT ![c] = row]
    BY <1>1 DEF Moved
  <1> HIDE DEF row
  <1> QED  BY <1>1, <1>3, <1>4

LEMMA DesksWork ==
    ASSUME MaterialsInv, NEW d \in Desks, NEW work \in DeskRow, DeskWorks(d, work),
           work.step # "idle" => work.code \in Codes,
           UNCHANGED <<cards, unlocked>>,
           locks' \in [Codes -> Desks \cup {NoDesk}],
           \A c \in Codes : /\ locks'[c] = d => /\ work.step \in {"import", "row"} /\ work.code = c
                                                /\ work.step = "row" => work.stock = cards[c].stock
                            /\ locks'[c] # d => locks'[c] = locks[c] \/ locks'[c] = NoDesk
    PROVE  CardsTyped' /\ LocksOwned' /\ Journalled' /\ \A k, unit : InUnitOf(k, unit) => InUnitOf(k, unit)'
  <1>1. cardDesks' \in [Desks -> DeskRow] /\ \A e \in Desks : cardDesks'[e] = IF e = d THEN work ELSE cardDesks[e]
    BY DEF MaterialsInv, CardsTyped, DeskWorks
  <1>2. CardsTyped'
    BY <1>1 DEF MaterialsInv, CardsTyped
  <1>3. LocksOwned'
    <2> SUFFICES ASSUME NEW k \in Codes, locks'[k] # NoDesk PROVE LockedBy(k, locks[k])'
      BY DEF LocksOwned
    <2>1. locks'[k] \in Desks
      OBVIOUS
    <2>2. CASE locks'[k] = d
      BY <1>1, <2>1, <2>2 DEF LockedBy
    <2>3. CASE locks'[k] # d
      <3>1. locks'[k] = locks[k] /\ LockedBy(k, locks[k])
        BY <2>3 DEF MaterialsInv, LocksOwned
      <3>2. cardDesks'[locks'[k]] = cardDesks[locks[k]]
        BY <1>1, <2>1, <2>3, <3>1
      <3> QED  BY <3>1, <3>2 DEF LockedBy
    <2> QED  BY <2>2, <2>3
  <1> QED  BY <1>2, <1>3 DEF MaterialsInv, Journalled, InUnitOf

LEMMA RestingDesk == Resting \in DeskRow /\ Resting.step = "idle"
  BY DEF Resting, DeskRow, UnitsOfCards

\* Only a request that works on tables owns locks.
LEMMA NoLockWithoutTable ==
    ASSUME MaterialsInv, NEW d \in Desks, cardDesks[d].step \notin {"import", "row"}
    PROVE  \A c \in Codes : locks[c] # d
  BY KnownAssumption DEF MaterialsInv, LocksOwned, LockedBy

LEMMA CreateMaterialKeeps ==
    ASSUME MaterialsInv, NEW d \in Desks, NEW c \in Codes, create_material(d, c) PROVE MaterialsInv'
  <1>1. PICK unit \in UnitsOfCards : cards' = [cards EXCEPT ![c] = [Unmade EXCEPT !.there = TRUE, !.unit = unit]]
    BY DEF create_material
  <1> DEFINE row == [Unmade EXCEPT !.there = TRUE, !.unit = unit]
  <1>2. row \in MaterialRow /\ row.there /\ row.stock = row.moved
    BY RowOfCard
  <1>3. locks[c] = NoDesk /\ ~cards[c].there /\ UNCHANGED <<locks, cardDesks, unlocked, cardLines, cardHolds>>
    BY DEF create_material
  <1> HIDE DEF row
  <1>4. cards' = [cards EXCEPT ![c] = row]
    BY <1>1 DEF row
  <1>5. /\ CardsTyped' /\ LocksOwned' /\ Journalled'
        /\ \A k, u : InUnitOf(k, u) => InUnitOf(k, u)' \/ (k = c /\ ~Counted(c))
    BY <1>2, <1>3, <1>4, CardWritten
  <1> QED  BY <1>3, <1>5, UnitsStay DEF MaterialsInv

LEMMA UpdateMaterialKeeps ==
    ASSUME MaterialsInv, NEW d \in Desks, NEW c \in Codes, update_material(d, c) PROVE MaterialsInv'
  <1>1. PICK old \in MaterialRow : old = cards[c]
    BY DEF MaterialsInv, CardsTyped
  <1>2. \E row \in MaterialRow : /\ cards' = [cards EXCEPT ![c] = row] /\ row.there = old.there /\ row.stock = old.stock
                             /\ row.moved = old.moved /\ (row.unit = old.unit \/ ~Counted(c))
    <2>1. CASE ~Counted(c) /\ \E unit \in UnitsOfCards : cards' = [cards EXCEPT ![c].unit = unit]
      <3>1. PICK unit \in UnitsOfCards : cards' = [cards EXCEPT ![c].unit = unit]
        BY <2>1
      <3>2. [old EXCEPT !.unit = unit] \in MaterialRow
        BY DEF MaterialRow
      <3>3. cards' = [cards EXCEPT ![c] = [old EXCEPT !.unit = unit]]
        BY <1>1, <3>1
      <3> QED  BY <2>1, <3>2, <3>3 DEF MaterialRow
    <2>2. CASE cards' = [cards EXCEPT ![c].archived = ~@]
      <3>2. [old EXCEPT !.archived = ~old.archived] \in MaterialRow
        BY DEF MaterialRow
      <3>3. cards' = [cards EXCEPT ![c] = [old EXCEPT !.archived = ~old.archived]]
        BY <1>1, <2>2
      <3> QED  BY <3>2, <3>3 DEF MaterialRow
    <2> QED  BY <2>1, <2>2 DEF update_material
  <1>3. UNCHANGED <<locks, cardDesks, unlocked, cardLines, cardHolds>> /\ old.there
    BY <1>1 DEF update_material, Open
  <1>5. /\ CardsTyped' /\ LocksOwned' /\ Journalled'
        /\ \A k, u : InUnitOf(k, u) => InUnitOf(k, u)' \/ (k = c /\ ~Counted(c))
    BY <1>1, <1>2, <1>3, CardWritten
  <1> QED  BY <1>3, <1>5, UnitsStay DEF MaterialsInv

LEMMA SupplyKeeps ==
    ASSUME MaterialsInv, NEW d \in Desks, NEW c \in Codes, create_supply(d, c) PROVE MaterialsInv'
  <1>1. cards' = Moved(c, 1) /\ locks[c] = NoDesk /\ UNCHANGED <<locks, cardDesks, unlocked, cardLines, cardHolds>>
    BY DEF create_supply, Open
  <1>2. PICK row \in MaterialRow :
             /\ cards' = [cards EXCEPT ![c] = row]
             /\ row.there = cards[c].there /\ row.unit = cards[c].unit
             /\ cards[c].stock = cards[c].moved => row.stock = row.moved
    BY <1>1, MovedCard
  <1>3. /\ CardsTyped' /\ LocksOwned' /\ Journalled'
        /\ \A k, u : InUnitOf(k, u) => InUnitOf(k, u)' \/ (k = c /\ ~Counted(c))
    BY <1>1, <1>2, CardWritten
  <1> QED  BY <1>1, <1>3, UnitsStay DEF MaterialsInv

LEMMA ReserveKeeps ==
    ASSUME MaterialsInv, NEW d, NEW l \in cardLines, reserve(d, l) PROVE MaterialsInv'
  <1>1. \A h \in cardHolds' : h \in cardHolds \/ h = [code |-> l.code, unit |-> cards[l.code].unit, of |-> l.number]
    BY DEF reserve
  <1>2. UNCHANGED <<cards, locks, cardLines, cardDesks, unlocked>> /\ cards[l.code].there
    BY DEF reserve, Open
  <1>3. l.code \in Codes
    BY DEF MaterialsInv, UnitsKept
  <1> QED  BY <1>1, <1>2, <1>3 DEF MaterialsInv, CardsTyped, UnitsKept, InUnitOf, LocksOwned, LockedBy, Journalled

LEMMA ShipmentKeeps ==
    ASSUME MaterialsInv, NEW d, NEW l \in cardLines, post_card_shipment(d, l) PROVE MaterialsInv'
  <1>1. /\ cards' = Moved(l.code, -1) /\ locks[l.code] = NoDesk /\ UNCHANGED <<locks, cardDesks, unlocked>>
        /\ cards[l.code].there /\ l.unit = cards[l.code].unit
        /\ cardHolds' \subseteq cardHolds
    BY DEF post_card_shipment, Open
  <1>2. l.code \in Codes /\ DOMAIN l = {"number", "code", "unit", "issued"}
    BY DEF MaterialsInv, UnitsKept
  <1>3. PICK row \in MaterialRow :
             /\ cards' = [cards EXCEPT ![l.code] = row]
             /\ row.there = cards[l.code].there /\ row.unit = cards[l.code].unit
             /\ cards[l.code].stock = cards[l.code].moved => row.stock = row.moved
    <2>1. -1 \in Int
      OBVIOUS
    <2> QED  BY <1>1, <1>2, <2>1, MovedCard
  <1>4. CardsTyped' /\ LocksOwned' /\ Journalled'
    BY <1>1, <1>2, <1>3, CardWritten
  <1>5. ASSUME NEW k, NEW unit, InUnitOf(k, unit) PROVE InUnitOf(k, unit)'
    BY <1>2, <1>3, <1>5 DEF InUnitOf, MaterialsInv, CardsTyped
  <1>6. ASSUME NEW n \in cardLines' PROVE DOMAIN n = {"number", "code", "unit", "issued"} /\ n.code \in Codes
                                          /\ (n.issued => InUnitOf(n.code, n.unit)')
    <2>1. CASE n \in cardLines
      BY <1>5, <2>1 DEF MaterialsInv, UnitsKept
    <2>2. CASE n = [l EXCEPT !.issued = TRUE]
      <3>1. n.code = l.code /\ n.unit = l.unit /\ DOMAIN n = {"number", "code", "unit", "issued"}
        BY <1>2, <2>2
      <3>2. InUnitOf(l.code, l.unit)
        BY <1>1, <1>2 DEF InUnitOf
      <3> QED  BY <1>2, <1>5, <3>1, <3>2
    <2> QED  BY <2>1, <2>2 DEF post_card_shipment
  <1>7. UnitsKept'
    BY <1>1, <1>5, <1>6 DEF MaterialsInv, UnitsKept
  <1> QED  BY <1>4, <1>7 DEF MaterialsInv

LEMMA OrdersKeep ==
    ASSUME MaterialsInv, NEW d \in Desks, NEW c \in Codes, normalize_lines(d, c) PROVE MaterialsInv'
  <1> DEFINE work == [Resting EXCEPT !.step = "order", !.code = c, !.unit = cards[c].unit]
  <1>1. work \in DeskRow /\ work.step = "order" /\ work.code = c
    <2>1. cards[c].unit \in UnitsOfCards
      BY DEF MaterialsInv, CardsTyped, MaterialRow
    <2>2. Resting \in DeskRow
      BY RestingDesk
    <2> QED  BY <2>1, <2>2 DEF DeskRow
  <1>2. DeskWorks(d, work) /\ cardDesks[d] = Resting /\ UNCHANGED <<cards, locks, cardLines, cardHolds, unlocked>>
    BY DEF normalize_lines, TurnBegins
  <1> HIDE DEF work
  <1>3. \A k \in Codes : locks[k] # d
    BY <1>2, RestingDesk, NoLockWithoutTable
  <1>4. locks' \in [Codes -> Desks \cup {NoDesk}]
    BY <1>2 DEF MaterialsInv, CardsTyped
  <1>5. CardsTyped' /\ LocksOwned' /\ Journalled' /\ \A k, unit : InUnitOf(k, unit) => InUnitOf(k, unit)'
    BY <1>1, <1>2, <1>3, <1>4, DesksWork
  <1> QED  BY <1>2, <1>5 DEF MaterialsInv, UnitsKept

LEMMA OrderKeeps ==
    ASSUME MaterialsInv, NEW d \in Desks, create_order(d) PROVE MaterialsInv'
  <1>1. DeskWorks(d, Resting) /\ cardDesks[d].step = "order" /\ UNCHANGED <<cards, locks, cardHolds, unlocked>>
    BY DEF create_order
  <1>2. \A k \in Codes : locks[k] # d
    BY <1>1, NoLockWithoutTable
  <1>3. locks' \in [Codes -> Desks \cup {NoDesk}]
    BY <1>1 DEF MaterialsInv, CardsTyped
  <1>4. CardsTyped' /\ LocksOwned' /\ Journalled' /\ \A k, unit : InUnitOf(k, unit) => InUnitOf(k, unit)'
    BY <1>1, <1>2, <1>3, RestingDesk, DesksWork
  <1>5. cardDesks[d].code \in Codes
    BY <1>1 DEF MaterialsInv, CardsTyped
  <1>6. ASSUME NEW n \in cardLines' PROVE DOMAIN n = {"number", "code", "unit", "issued"} /\ n.code \in Codes
                                          /\ (n.issued => n \in cardLines)
    <2>1. n \in cardLines \/ n = [number |-> Cardinality(cardLines) + 1, code |-> cardDesks[d].code,
                                  unit |-> cardDesks[d].unit, issued |-> FALSE]
      BY DEF create_order
    <2> QED  BY <1>5, <2>1 DEF MaterialsInv, UnitsKept
  <1>7. UnitsKept'
    BY <1>1, <1>4, <1>6 DEF MaterialsInv, UnitsKept
  <1> QED  BY <1>4, <1>7 DEF MaterialsInv

LEMMA ImportKeeps1 ==
    ASSUME MaterialsInv, NEW d \in Desks, NEW c \in Codes, import_supply(d, c) PROVE MaterialsInv'
  <1> DEFINE work == [Resting EXCEPT !.step = "import", !.code = c]
  <1>1. work \in DeskRow /\ work.step = "import" /\ work.code = c
    <2>1. Resting \in DeskRow
      BY RestingDesk
    <2> QED  BY <2>1 DEF DeskRow
  <1>2. DeskWorks(d, work) /\ cardDesks[d] = Resting /\ UNCHANGED <<cards, cardLines, cardHolds, unlocked>>
    BY DEF import_supply, TurnBegins
  <1>3. locks' = [locks EXCEPT ![c] = IF cards[c].there THEN d ELSE NoDesk]
    BY DEF import_supply
  <1> HIDE DEF work
  <1>4. \A k \in Codes : locks[k] # d
    BY <1>2, RestingDesk, NoLockWithoutTable
  <1>5. locks' \in [Codes -> Desks \cup {NoDesk}] /\ \A k \in Codes : k # c => locks'[k] = locks[k]
    BY <1>3 DEF MaterialsInv, CardsTyped
  <1>6. locks'[c] \in {d, NoDesk}
    BY <1>3 DEF MaterialsInv, CardsTyped
  <1>7. CardsTyped' /\ LocksOwned' /\ Journalled' /\ \A k, unit : InUnitOf(k, unit) => InUnitOf(k, unit)'
    BY <1>1, <1>2, <1>4, <1>5, <1>6, DesksWork
  <1> QED  BY <1>2, <1>7 DEF MaterialsInv, UnitsKept

LEMMA RowReadsKeeps ==
    ASSUME MaterialsInv, NEW d \in Desks, RowReads(d) PROVE MaterialsInv'
  <1>1. PICK desk \in DeskRow : desk = cardDesks[d] /\ desk.step = "import" /\ desk.code \in Codes
    BY DEF MaterialsInv, CardsTyped, RowReads
  <1>2. PICK c \in Codes : c = desk.code
    BY <1>1
  <1>3. PICK old \in MaterialRow : old = cards[c]
    BY DEF MaterialsInv, CardsTyped
  <1> DEFINE work == [desk EXCEPT !.step = "row", !.stock = old.stock, !.makes = ~old.there]
  <1>4. work \in DeskRow /\ work.step = "row" /\ work.code = c /\ work.stock = old.stock
    BY <1>2 DEF DeskRow, MaterialRow
  <1>5. /\ DeskWorks(d, work) /\ UNCHANGED <<cards, cardLines, cardHolds, unlocked>>
        /\ locks' = locks \/ locks' = [locks EXCEPT ![c] = d]
    BY <1>1, <1>2, <1>3 DEF RowReads
  <1> HIDE DEF work
  <1>6. \A k \in Codes : locks[k] = d => k = c
    BY <1>1, <1>2, KnownAssumption DEF MaterialsInv, LocksOwned, LockedBy
  <1>7. locks' \in [Codes -> Desks \cup {NoDesk}] /\ \A k \in Codes : locks'[k] = locks[k] \/ (k = c /\ locks'[k] = d)
    BY <1>5 DEF MaterialsInv, CardsTyped
  <1>8. CardsTyped' /\ LocksOwned' /\ Journalled' /\ \A k, unit : InUnitOf(k, unit) => InUnitOf(k, unit)'
    BY <1>3, <1>4, <1>5, <1>6, <1>7, DesksWork
  <1> QED  BY <1>5, <1>8 DEF MaterialsInv, UnitsKept

LEMMA FailsKeeps ==
    ASSUME MaterialsInv, NEW d \in Desks, ImportFails(d) PROVE MaterialsInv'
  <1>1. DeskWorks(d, Resting) /\ UNCHANGED <<cards, cardLines, cardHolds, unlocked>>
    BY DEF ImportFails
  <1>2. \A k \in Codes : locks'[k] = IF locks[k] = d THEN NoDesk ELSE locks[k]
    BY DEF ImportFails
  <1>3. locks' \in [Codes -> Desks \cup {NoDesk}]
    BY DEF MaterialsInv, CardsTyped, ImportFails
  <1>4. \A k \in Codes : locks'[k] # d /\ (locks'[k] = locks[k] \/ locks'[k] = NoDesk)
    BY <1>2, KnownAssumption
  <1>5. CardsTyped' /\ LocksOwned' /\ Journalled' /\ \A k, unit : InUnitOf(k, unit) => InUnitOf(k, unit)'
    BY <1>1, <1>3, <1>4, RestingDesk, DesksWork
  <1> QED  BY <1>1, <1>5 DEF MaterialsInv, UnitsKept

LEMMA RowWritesKeeps ==
    ASSUME MaterialsInv, NEW d \in Desks, RowWrites(d) PROVE MaterialsInv'
  <1>1. PICK desk \in DeskRow : desk = cardDesks[d] /\ desk.step = "row" /\ desk.code \in Codes
    BY DEF MaterialsInv, CardsTyped, RowWrites
  <1>2. PICK c \in Codes : c = desk.code
    BY <1>1
  <1>3. PICK old \in MaterialRow : old = cards[c]
    BY DEF MaterialsInv, CardsTyped
  <1>4. /\ locks[c] \in {d, NoDesk} /\ locks' = [locks EXCEPT ![c] = NoDesk]
        /\ DeskWorks(d, Resting) /\ UNCHANGED <<cardLines, cardHolds>>
    BY <1>1, <1>2 DEF RowWrites
  <1>5. \A k \in Codes : locks[k] = d => k = c
    BY <1>1, <1>2, KnownAssumption DEF MaterialsInv, LocksOwned, LockedBy
  <1>6. locks' \in [Codes -> Desks \cup {NoDesk}] /\ \A k \in Codes : locks'[k] = IF k = c THEN NoDesk ELSE locks[k]
    BY <1>4 DEF MaterialsInv, CardsTyped
  <1>7. \A k \in Codes : locks'[k] # d
    BY <1>5, <1>6, KnownAssumption
  <1>8. CASE UNCHANGED <<cards, unlocked>>
    <2>1. CardsTyped' /\ LocksOwned' /\ Journalled' /\ \A k, unit : InUnitOf(k, unit) => InUnitOf(k, unit)'
      BY <1>4, <1>6, <1>7, <1>8, RestingDesk, DesksWork
    <2> QED  BY <1>4, <2>1 DEF MaterialsInv, UnitsKept
  <1>9. CASE /\ cards' = [cards EXCEPT ![c] = [old EXCEPT !.there = TRUE, !.stock = desk.stock + 1, !.moved = old.moved + 1]]
             /\ unlocked' = (unlocked \/ locks[c] # d)
    <2> DEFINE row == [old EXCEPT !.there = TRUE, !.stock = desk.stock + 1, !.moved = old.moved + 1]
    <2>1. desk.stock + 1 \in Int /\ old.moved + 1 \in Int
      BY DEF DeskRow, MaterialRow
    <2>2. row \in MaterialRow /\ row.there /\ row.unit = old.unit /\ row.stock = desk.stock + 1 /\ row.moved = old.moved + 1
      BY <2>1 DEF MaterialRow
    <2>3. cards' = [cards EXCEPT ![c] = row]
      BY <1>9
    <2> HIDE DEF row
    <2>4. cards' \in [Codes -> MaterialRow] /\ \A k \in Codes : cards'[k] = IF k = c THEN row ELSE cards[k]
      BY <2>2, <2>3 DEF MaterialsInv, CardsTyped
    <2>5. cardDesks' \in [Desks -> DeskRow] /\ \A e \in Desks : cardDesks'[e] = IF e = d THEN Resting ELSE cardDesks[e]
      BY <1>4, RestingDesk DEF MaterialsInv, CardsTyped, DeskWorks
    <2>6. CardsTyped'
      BY <1>6, <2>4, <2>5, RestingDesk DEF MaterialsInv, CardsTyped
    <2>7. LocksOwned'
      <3> SUFFICES ASSUME NEW k \in Codes, locks'[k] # NoDesk PROVE LockedBy(k, locks[k])'
        BY DEF LocksOwned
      <3>1. k # c /\ locks'[k] = locks[k] /\ locks'[k] \in Desks /\ locks'[k] # d /\ LockedBy(k, locks[k])
        BY <1>6, <1>7 DEF MaterialsInv, LocksOwned
      <3>2. cardDesks'[locks'[k]] = cardDesks[locks[k]] /\ cards'[k] = cards[k]
        BY <2>4, <2>5, <3>1
      <3> QED  BY <3>1, <3>2 DEF LockedBy
    <2>8. Journalled'
      <3> SUFFICES ASSUME ~unlocked, locks[c] = d, NEW k \in Codes PROVE cards'[k].stock = cards'[k].moved
        BY <1>9 DEF Journalled
      <3>1. desk.stock = old.stock
        BY <1>1, <1>3, KnownAssumption DEF MaterialsInv, LocksOwned, LockedBy
      <3>2. \A j \in Codes : cards[j].stock = cards[j].moved
        BY DEF MaterialsInv, Journalled
      <3> QED  BY <1>3, <2>2, <2>4, <3>1, <3>2
    <2>9. ASSUME NEW k, NEW unit, InUnitOf(k, unit) PROVE InUnitOf(k, unit)'
      BY <1>3, <2>2, <2>4, <2>9 DEF InUnitOf
    <2>10. UnitsKept'
      BY <1>4, <2>9 DEF MaterialsInv, UnitsKept
    <2> QED  BY <2>6, <2>7, <2>8, <2>10 DEF MaterialsInv
  <1> QED  BY <1>1, <1>2, <1>3, <1>8, <1>9 DEF RowWrites

LEMMA MaterialsStay == MaterialsInv /\ [CardsNext]_materialVars => MaterialsInv'
  <1> SUFFICES ASSUME MaterialsInv, [CardsNext]_materialVars PROVE MaterialsInv'
    OBVIOUS
  <1>1. CASE UNCHANGED materialVars
    BY <1>1 DEF materialVars, MaterialsInv, CardsTyped, UnitsKept, InUnitOf, LocksOwned, LockedBy, Journalled
  <1>2. ASSUME NEW d \in Desks, NEW c \in Codes,
               create_material(d, c) \/ update_material(d, c) \/ create_supply(d, c)
               \/ normalize_lines(d, c) \/ import_supply(d, c)
        PROVE  MaterialsInv'
    BY <1>2, CreateMaterialKeeps, UpdateMaterialKeeps, SupplyKeeps, OrdersKeep, ImportKeeps1
  <1>3. ASSUME NEW d \in Desks, NEW l \in cardLines, reserve(d, l) \/ post_card_shipment(d, l) PROVE MaterialsInv'
    BY <1>3, ReserveKeeps, ShipmentKeeps
  <1>4. ASSUME NEW d \in Desks, create_order(d) \/ RowReads(d) \/ RowWrites(d) \/ ImportFails(d) PROVE MaterialsInv'
    BY <1>4, OrderKeeps, RowReadsKeeps, RowWritesKeeps, FailsKeeps
  <1> QED  BY <1>1, <1>2, <1>3, <1>4 DEF CardsNext

LEMMA MaterialsAgree == MaterialsInv => CardsAgree
  BY DEF MaterialsInv, UnitsKept, InUnitOf, Journalled, CardsAgree

------------------------------------------------------------------------------
(* Recipes and their runs                                                   *)

VersionsKept ==
    /\ recipe.content \in Contents /\ recipe.version \in Nat
    /\ [version |-> recipe.version, content |-> recipe.content] \in versions
    /\ \A f \in versions : f.version \in Nat /\ f.version <= recipe.version
    /\ \A f, g \in versions : f.version = g.version => f = g

StockKept ==
    /\ stock \in [Materials -> Int] /\ held \in [Materials -> Int] /\ journal \in [Materials -> Int]
    /\ \A m \in Materials : stock[m] = OpeningStock + journal[m] /\ held[m] <= stock[m]

\* What a request knows: once its run is inserted there is no other of its number
Known1(record) ==
    /\ record.at \in {"idle", "begun", "inserted", "resolved"}
    /\ record.at # "idle" => record.request \in RunIds /\ record.params.multiplier \in Multipliers
    /\ record.at \in {"inserted", "resolved"} => runs[record.request] = NoRun
    /\ record.at = "resolved" => /\ record.content \in Contents
                                 /\ [version |-> record.version, content |-> record.content] \in versions

MakersKept ==
    /\ DOMAIN makes = Makers
    /\ \A k \in Makers : Known1(makes[k])
    /\ \A j, k \in Referring : makes[j].request = makes[k].request => j = k

RunsKept ==
    /\ DOMAIN runs = RunIds /\ DOMAIN answered = RunIds
    /\ \A u \in RunIds : /\ answered[u] \subseteq {runs[u], NoRun}
                         /\ runs[u] # NoRun => [version |-> runs[u].version, content |-> runs[u].content] \in versions

RecipesInv == VersionsKept /\ StockKept /\ MakersKept /\ RunsKept

LEMMA RecipesBegin == RecipesInit => RecipesInv
  <1> SUFFICES ASSUME RecipesInit PROVE RecipesInv
    OBVIOUS
  <1>1. VersionsKept
    BY DEF RecipesInit, VersionsKept
  <1>2. StockKept
    BY RecipesAssumption DEF RecipesInit, StockKept
  <1>3. MakersKept
    BY DEF RecipesInit, MakersKept, Known1, NotMaking, Referring
  <1>4. RunsKept
    BY DEF RecipesInit, RunsKept
  <1> QED  BY <1>1, <1>2, <1>3, <1>4 DEF RecipesInv

LEMMA GroupedIsNat ==
    ASSUME NEW lines, IsFiniteSet(DOMAIN lines), \A l \in DOMAIN lines : lines[l] \in Nat,
           NEW p, p.multiplier \in Multipliers, NEW m \in Materials
    PROVE  grouped(lines, p)[m] \in Nat
  <1> DEFINE rows == {l \in DOMAIN lines : resolve(l, p.warehouse) = m}
  <1>1. IsFiniteSet(rows)
    <2>1. rows \in SUBSET DOMAIN lines
      OBVIOUS
    <2> HIDE DEF rows
    <2> QED  BY <2>1, FS_Subset
  <1>2. \A l \in rows : lines[l] \in Nat
    OBVIOUS
  <1>3. grouped(lines, p)[m] = p.multiplier * Total(lines, rows)
    BY DEF grouped
  <1> HIDE DEF rows
  <1>4. Total(lines, rows) \in Nat
    BY <1>1, <1>2, TotalType
  <1>5. p.multiplier = 1 \/ p.multiplier = 2
    BY DEF Multipliers
  <1> QED  BY <1>3, <1>4, <1>5

LEMMA NeededIsNat ==
    ASSUME RecipesInv, NEW k \in Makers, makes[k].at = "resolved", NEW m \in Materials
    PROVE  Needed(k)[m] \in Nat /\ Made(k)[m] \in Nat
  <1>1. PICK c \in Contents : c = makes[k].content
    BY DEF RecipesInv, MakersKept, Known1
  <1>2. makes[k].params.multiplier \in Multipliers
    BY DEF RecipesInv, MakersKept, Known1
  <1>3. \A lines \in {c.inputs, c.outputs} : IsFiniteSet(DOMAIN lines) /\ \A l \in DOMAIN lines : lines[l] \in Nat
    BY RecipesAssumption
  <1>4. grouped(c.inputs, makes[k].params)[m] \in Nat
    <2>1. IsFiniteSet(DOMAIN c.inputs) /\ \A l \in DOMAIN c.inputs : c.inputs[l] \in Nat
      BY <1>3
    <2> QED  BY <1>2, <2>1, GroupedIsNat
  <1>5. grouped(c.outputs, makes[k].params)[m] \in Nat
    <2>1. IsFiniteSet(DOMAIN c.outputs) /\ \A l \in DOMAIN c.outputs : c.outputs[l] \in Nat
      BY <1>3
    <2> QED  BY <1>2, <2>1, GroupedIsNat
  <1> QED  BY <1>1, <1>4, <1>5 DEF Needed, Made

\* A request goes on; runs are as they were.
LEMMA MakerMoves ==
    ASSUME RecipesInv, NEW k \in Makers, NEW record, Moves(k, record), Known1(record),
           record.at \in {"inserted", "resolved"} =>
               \A j \in Referring \ {k} : makes[j].request # record.request,
           UNCHANGED <<runs, versions>>
    PROVE  MakersKept'
  <1>1. DOMAIN makes' = Makers /\ \A j \in Makers : makes'[j] = IF j = k THEN record ELSE makes[j]
    BY DEF RecipesInv, MakersKept, Moves
  <1>2. \A j \in Makers : Known1(makes[j])'
    BY <1>1 DEF RecipesInv, MakersKept, Known1
  <1>3. ASSUME NEW i \in Referring', NEW j \in Referring', makes'[i].request = makes'[j].request
        PROVE  i = j
    <2>1. i \in Makers /\ j \in Makers /\ (i # k => i \in Referring) /\ (j # k => j \in Referring)
      BY <1>1 DEF Referring
    <2>2. CASE i # k /\ j # k
      BY <1>1, <1>3, <2>1, <2>2 DEF RecipesInv, MakersKept
    <2>3. CASE i = k /\ j # k
      <3>1. record.at \in {"inserted", "resolved"}
        BY <1>1, <2>3 DEF Referring
      <3> QED  BY <1>1, <1>3, <2>1, <2>3, <3>1
    <2>4. CASE i # k /\ j = k
      <3>1. record.at \in {"inserted", "resolved"}
        BY <1>1, <2>4 DEF Referring
      <3> QED  BY <1>1, <1>3, <2>1, <2>4, <3>1
    <2> QED  BY <2>2, <2>3, <2>4
  <1> QED  BY <1>1, <1>2, <1>3 DEF MakersKept

LEMMA NotMakingIsKnown == Known1(NotMaking) /\ NotMaking.at = "idle"
  BY DEF Known1, NotMaking

LEMMA RecipeChangesKeep == ASSUME RecipesInv, NEW v, update_recipe(v) PROVE RecipesInv'
  <1>1. PICK c \in Contents, a \in BOOLEAN :
          /\ recipe' = [content |-> c, version |-> v + 1, archived |-> a]
          /\ versions' = versions \cup {[version |-> v + 1, content |-> c]}
    BY DEF update_recipe
  <1>2. v = recipe.version /\ v \in Nat /\ UNCHANGED <<stock, held, runs, makes, journal, answered>>
    BY DEF update_recipe, RecipesInv, VersionsKept
  <1>3. VersionsKept'
    <2>1. recipe'.content = c /\ recipe'.version = v + 1 /\ v + 1 \in Nat
      BY <1>1, <1>2
    <2>2. \A f \in versions : f.version \in Nat /\ f.version <= v
      BY <1>2 DEF RecipesInv, VersionsKept
    <2>3. \A f \in versions' : f \in versions \/ f = [version |-> v + 1, content |-> c]
      BY <1>1
    <2>4. \A f \in versions' : f.version \in Nat /\ f.version <= v + 1 /\ (f \in versions <=> f.version # v + 1)
      BY <1>2, <2>2, <2>3
    <2>5. \A f, g \in versions' : f.version = g.version => f = g
      BY <2>3, <2>4 DEF RecipesInv, VersionsKept
    <2> QED  BY <1>1, <2>1, <2>4, <2>5 DEF VersionsKept
  <1>4. versions \subseteq versions'
    BY <1>1
  <1>5. MakersKept'
    BY <1>2, <1>4 DEF RecipesInv, MakersKept, Known1, Referring
  <1>6. RunsKept'
    BY <1>2, <1>4 DEF RecipesInv, RunsKept
  <1>7. StockKept'
    BY <1>2 DEF RecipesInv, StockKept
  <1> QED  BY <1>3, <1>5, <1>6, <1>7 DEF RecipesInv

\* An answer names the run of the number, or none.
LEMMA AnswerKeeps ==
    ASSUME RecipesInv, NEW k, NEW u \in RunIds, NEW p,
           answered' = [answered EXCEPT ![u] = @ \cup {existing(k, u, p)}], UNCHANGED <<runs, versions>>
    PROVE  RunsKept'
  <1>1. existing(k, u, p) \in {runs[u], NoRun}
    BY DEF existing
  <1> QED  BY <1>1 DEF RecipesInv, RunsKept

LEMMA ManufactureKeeps ==
    ASSUME RecipesInv, NEW k \in Makers, NEW u \in RunIds, NEW p, p.multiplier \in Multipliers, manufacture(k, u, p)
    PROVE  RecipesInv'
  <1>1. UNCHANGED <<recipe, stock, held, runs, journal, versions>>
    BY DEF manufacture
  <1>2. VersionsKept' /\ StockKept'
    BY <1>1 DEF RecipesInv, VersionsKept, StockKept
  <1>3. CASE runs[u] # NoRun
    <2>1. RunsKept' /\ makes' = makes
      BY <1>1, <1>3, AnswerKeeps DEF manufacture
    <2> QED  BY <1>1, <1>2, <2>1 DEF RecipesInv, MakersKept, Known1, Referring
  <1>4. CASE runs[u] = NoRun
    <2> DEFINE record == [at |-> "begun", request |-> u, params |-> p]
    <2>1. Moves(k, record) /\ UNCHANGED answered
      BY <1>4 DEF manufacture
    <2>2. Known1(record) /\ record.at = "begun"
      BY DEF Known1
    <2> HIDE DEF record
    <2>3. MakersKept'
      BY <1>1, <2>1, <2>2, MakerMoves
    <2> QED  BY <1>1, <1>2, <2>1, <2>3 DEF RecipesInv, RunsKept
  <1> QED  BY <1>3, <1>4

LEMMA InsertKeeps == ASSUME RecipesInv, NEW k \in Makers, RunIsInserted(k) PROVE RecipesInv'
  <1>1. UNCHANGED <<recipe, stock, held, runs, journal, versions>>
    BY DEF RunIsInserted
  <1>2. VersionsKept' /\ StockKept'
    BY <1>1 DEF RecipesInv, VersionsKept, StockKept
  <1>3. PICK old : old = makes[k]
    OBVIOUS
  <1>4. old.at = "begun" /\ Known1(old) /\ old.request \in RunIds /\ \A j \in Referring : makes[j].request # old.request
    BY <1>3 DEF RunIsInserted, RecipesInv, MakersKept, Known1
  <1>5. CASE runs[old.request] # NoRun
    <2>1. Moves(k, NotMaking) /\ answered' = [answered EXCEPT ![old.request] = @ \cup {existing(k, old.request, old.params)}]
      BY <1>3, <1>5 DEF RunIsInserted
    <2>2. RunsKept'
      BY <1>1, <1>4, <2>1, AnswerKeeps
    <2>3. MakersKept'
      BY <1>1, <2>1, NotMakingIsKnown, MakerMoves
    <2> QED  BY <1>2, <2>2, <2>3 DEF RecipesInv
  <1>6. CASE runs[old.request] = NoRun
    <2> DEFINE record == [old EXCEPT !.at = "inserted"]
    <2>1. Moves(k, record) /\ UNCHANGED answered
      BY <1>3, <1>6 DEF RunIsInserted
    <2>2. Known1(record) /\ record.at = "inserted" /\ record.request = old.request
      BY <1>4, <1>6 DEF Known1
    <2> HIDE DEF record
    <2>3. MakersKept'
      BY <1>1, <1>4, <2>1, <2>2, MakerMoves
    <2> QED  BY <1>1, <1>2, <2>1, <2>3 DEF RecipesInv, RunsKept
  <1> QED  BY <1>5, <1>6

LEMMA GivesUpKeeps ==
    ASSUME RecipesInv, NEW k \in Makers, Moves(k, NotMaking), UNCHANGED <<recipe, stock, held, runs, journal, versions, answered>>
    PROVE  RecipesInv'
  <1>1. VersionsKept' /\ StockKept' /\ RunsKept'
    BY DEF RecipesInv, VersionsKept, StockKept, RunsKept
  <1>2. MakersKept'
    BY NotMakingIsKnown, MakerMoves
  <1> QED  BY <1>1, <1>2 DEF RecipesInv

LEMMA LockKeeps == ASSUME RecipesInv, NEW k \in Makers, RecipeIsLocked(k) PROVE RecipesInv'
  <1>1. UNCHANGED <<recipe, stock, held, runs, journal, versions, answered>>
    BY DEF RecipeIsLocked
  <1>2. PICK old : old = makes[k]
    OBVIOUS
  <1>3. old.at = "inserted" /\ Known1(old) /\ Referring = {k} /\ runs[old.request] = NoRun
    BY <1>2 DEF RecipeIsLocked, RecipesInv, MakersKept, Known1
  <1> DEFINE record == [at |-> "resolved", request |-> old.request, params |-> old.params,
                        content |-> recipe.content, version |-> recipe.version]
  <1>4. Moves(k, record) \/ Moves(k, NotMaking)
    BY <1>2 DEF RecipeIsLocked
  <1>5. Known1(record)
    BY <1>3 DEF Known1, RecipesInv, VersionsKept
  <1> HIDE DEF record
  <1>6. CASE Moves(k, record)
    <2>1. MakersKept'
      BY <1>1, <1>3, <1>5, <1>6, MakerMoves
    <2>2. VersionsKept' /\ StockKept' /\ RunsKept'
      BY <1>1 DEF RecipesInv, VersionsKept, StockKept, RunsKept
    <2> QED  BY <2>1, <2>2 DEF RecipesInv
  <1>7. CASE Moves(k, NotMaking)
    BY <1>1, <1>7, GivesUpKeeps
  <1> QED  BY <1>4, <1>6, <1>7

LEMMA ProducedKeeps == ASSUME RecipesInv, NEW k \in Makers, Produced(k) PROVE RecipesInv'
  <1>1. PICK old : old = makes[k]
    OBVIOUS
  <1>2. old.at = "resolved" /\ Known1(old) /\ old.request \in RunIds /\ runs[old.request] = NoRun
    BY <1>1 DEF Produced, RecipesInv, MakersKept, Known1
  <1>3. Moves(k, NotMaking) /\ UNCHANGED <<recipe, held, versions>>
    BY DEF Produced
  <1>4. CASE ~Enough(k)
    BY <1>3, <1>4, GivesUpKeeps DEF Produced
  <1>5. CASE Enough(k)
    <2> DEFINE run == [by |-> k, params |-> old.params, content |-> old.content, version |-> old.version]
               u == old.request
    <2>1. /\ runs' = [runs EXCEPT ![u] = run] /\ answered' = [answered EXCEPT ![u] = @ \cup {run}]
          /\ stock' = [m \in Materials |-> stock[m] + (Made(k)[m] - Needed(k)[m])]
          /\ journal' = [m \in Materials |-> journal[m] + (Made(k)[m] - Needed(k)[m])]
      <3>1. \A m \in Materials : [n \in Materials |-> Made(k)[n] - Needed(k)[n]][m] = Made(k)[m] - Needed(k)[m]
        OBVIOUS
      <3> QED  BY <1>1, <1>5, <3>1 DEF Produced
    <2>2. [version |-> run.version, content |-> run.content] \in versions
      BY <1>2 DEF Known1
    <2> HIDE DEF run
    <2>3. RunsKept'
      <3>1. DOMAIN runs' = RunIds /\ DOMAIN answered' = RunIds /\ u \in RunIds
        BY <1>2, <2>1 DEF RecipesInv, RunsKept
      <3>2. ASSUME NEW v \in RunIds
            PROVE  /\ answered'[v] \subseteq {runs'[v], NoRun}
                   /\ runs'[v] # NoRun => [version |-> runs'[v].version, content |-> runs'[v].content] \in versions'
        <4>1. answered[v] \subseteq {runs[v], NoRun}
              /\ (runs[v] # NoRun => [version |-> runs[v].version, content |-> runs[v].content] \in versions)
          BY DEF RecipesInv, RunsKept
        <4>2. CASE v = u
          <5>1. runs'[v] = run /\ answered'[v] = answered[v] \cup {run} /\ runs[v] = NoRun
            BY <1>2, <2>1, <4>2 DEF RecipesInv, RunsKept
          <5> QED  BY <1>3, <2>2, <4>1, <5>1
        <4>3. CASE v # u
          <5>1. runs'[v] = runs[v] /\ answered'[v] = answered[v]
            BY <2>1, <4>3 DEF RecipesInv, RunsKept
          <5> QED  BY <1>3, <4>1, <5>1
        <4> QED  BY <4>2, <4>3
      <3> QED  BY <3>1, <3>2 DEF RunsKept
    <2>4. StockKept'
      <3>1. \A m \in Materials : Needed(k)[m] \in Nat /\ Made(k)[m] \in Nat
        BY <1>1, <1>2, NeededIsNat
      <3>2. \A m \in Materials : Needed(k)[m] > 0 => stock[m] - held[m] >= Needed(k)[m]
        BY <1>5 DEF Enough, available
      <3>3. \A m \in Materials : /\ stock[m] \in Int /\ journal[m] \in Int /\ held[m] \in Int
                                 /\ stock[m] = OpeningStock + journal[m] /\ held[m] <= stock[m]
        BY DEF RecipesInv, StockKept
      <3>4. OpeningStock \in Nat
        BY RecipesAssumption
      <3>5. ASSUME NEW m \in Materials
            PROVE  /\ stock'[m] \in Int /\ journal'[m] \in Int
                   /\ stock'[m] = OpeningStock + journal'[m] /\ held'[m] <= stock'[m]
        <4>1. stock'[m] = stock[m] + (Made(k)[m] - Needed(k)[m]) /\ journal'[m] = journal[m] + (Made(k)[m] - Needed(k)[m])
          BY <2>1
        <4> HIDE DEF Needed, Made
        <4> QED  BY <1>3, <3>1, <3>2, <3>3, <3>4, <4>1
      <3>6. stock' \in [Materials -> Int] /\ journal' \in [Materials -> Int]
        BY <2>1, <3>5
      <3> QED  BY <1>3, <3>5, <3>6 DEF StockKept, RecipesInv
    <2>5. MakersKept'
      <3>1. DOMAIN makes' = Makers /\ \A j \in Makers : makes'[j] = IF j = k THEN NotMaking ELSE makes[j]
        BY <1>3 DEF RecipesInv, MakersKept, Moves
      <3>2. Referring' = Referring \ {k} /\ k \in Referring
        BY <1>1, <1>2, <3>1, NotMakingIsKnown DEF Referring
      <3>3. ASSUME NEW j \in Makers PROVE Known1(makes[j])'
        <4>1. CASE j = k
          BY <3>1, <4>1 DEF Known1, NotMaking
        <4>2. CASE j # k
          <5>1. makes'[j] = makes[j] /\ Known1(makes[j])
            BY <3>1, <4>2 DEF RecipesInv, MakersKept
          <5>2. makes[j].at \in {"inserted", "resolved"} => j \in Referring /\ makes[j].request # u
            BY <1>1, <3>2, <4>2 DEF RecipesInv, MakersKept, Referring
          <5>3. makes[j].at \in {"inserted", "resolved"} => runs'[makes[j].request] = runs[makes[j].request]
            BY <2>1, <5>2
          <5> QED  BY <1>3, <5>1, <5>3 DEF Known1
        <4> QED  BY <4>1, <4>2
      <3>4. \A i, j \in Referring' : makes'[i].request = makes'[j].request => i = j
        BY <3>1, <3>2 DEF RecipesInv, MakersKept, Referring
      <3> QED  BY <3>1, <3>3, <3>4 DEF MakersKept
    <2>6. VersionsKept'
      BY <1>3 DEF RecipesInv, VersionsKept
    <2> QED  BY <2>3, <2>4, <2>5, <2>6 DEF RecipesInv
  <1> QED  BY <1>4, <1>5

LEMMA ElsewhereKeeps == ASSUME RecipesInv, Elsewhere PROVE RecipesInv'
  <1>1. UNCHANGED <<recipe, runs, makes, versions, answered>>
    BY DEF Elsewhere
  <1>2. VersionsKept' /\ MakersKept' /\ RunsKept'
    BY <1>1 DEF RecipesInv, VersionsKept, MakersKept, RunsKept, Known1, Referring
  <1>3. PICK m \in Materials :
        \/ /\ available(m) > 0
           /\ stock' = [stock EXCEPT ![m] = @ - 1] /\ journal' = [journal EXCEPT ![m] = @ - 1]
           /\ UNCHANGED <<held, archived>>
        \/ /\ available(m) > 0
           /\ held' = [held EXCEPT ![m] = @ + 1]
           /\ UNCHANGED <<stock, journal, archived>>
        \/ archived' = archived \union {m} /\ UNCHANGED <<stock, journal, held>>
    BY DEF Elsewhere
  <1>4. OpeningStock \in Nat /\ stock[m] \in Int /\ held[m] \in Int /\ journal[m] \in Int
    BY RecipesAssumption DEF RecipesInv, StockKept
  <1>5. StockKept'
    BY <1>3, <1>4 DEF RecipesInv, StockKept, available
  <1> QED  BY <1>2, <1>5 DEF RecipesInv

LEMMA RecipesStay == RecipesInv /\ [RecipesNext]_recipeVars => RecipesInv'
  <1> SUFFICES ASSUME RecipesInv, [RecipesNext]_recipeVars PROVE RecipesInv'
    OBVIOUS
  <1>1. CASE UNCHANGED recipeVars
    BY <1>1 DEF recipeVars, RecipesInv, VersionsKept, StockKept, MakersKept, RunsKept, Known1, Referring
  <1>2. ASSUME NEW k \in Makers, Deadlock(k) PROVE RecipesInv'
    <2>1. Moves(k, NotMaking) /\ UNCHANGED <<recipe, stock, held, runs, journal, versions, answered>>
      BY <1>2 DEF Deadlock
    <2> QED  BY <2>1, GivesUpKeeps
  <1>3. ASSUME NEW k \in Makers, NEW u \in RunIds, NEW n \in Multipliers, NEW w,
               manufacture(k, u, [multiplier |-> n, warehouse |-> w])
        PROVE  RecipesInv'
    BY <1>3, ManufactureKeeps
  <1> QED
    BY <1>1, <1>2, <1>3, RecipeChangesKeep, InsertKeeps, LockKeeps, ProducedKeeps, ElsewhereKeeps DEF RecipesNext

LEMMA RecipesAreTrue == RecipesInv => RunsAreTrue
  BY DEF RecipesInv, RunsKept, StockKept, VersionsKept, RunsAreTrue

------------------------------------------------------------------------------
(* Orders of the former system                                              *)

OrderHold ==
    {h \in [order : Orders, bound : {"source", "native"}, quantity : Nat, consumed : Nat, released : Nat, version : Nat] :
        h.consumed + h.released <= h.quantity}

NativeRow == [there : BOOLEAN, opening : Nat, shipped : Nat, status : {"draft", "confirmed"}]

HoldsTyped == \E n \in Nat : holds \in [1..n -> OrderHold]

HistoryTyped ==
    /\ source \in [Orders -> [shipped : 0..1, applicable : BOOLEAN]]
    /\ native \in [Orders -> NativeRow]
    /\ given \in [Orders -> Nat] /\ slipped \in [Orders -> Nat]
    /\ HoldsTyped
    /\ DOMAIN works = Storekeepers

HoldSum(o) == Total(Remaining, order_holds(o))
TakenSum(o) == Total(Consumed, order_holds(o))

\* What was handed out for an order, before it is here and after
GoodsCounted ==
    \A o \in Orders :
        /\ given[o] + HoldSum(o) <= Ordered + slipped[o]
        /\ IF native[o].there THEN shipped(o) <= given[o] /\ given[o] <= shipped(o) + slipped[o]
           ELSE slipped[o] = 0 /\ given[o] = source[o].shipped + TakenSum(o) /\ SourceHolds(o) = order_holds(o)

\* Whoever is at work; what the script has read may be outdated, but is not too much
WorkIsCurrent(w) ==
    /\ w.op \in {"none", "reserve", "issue"}
    /\ w.op = "reserve" => w.order \in Orders /\ w.quantity \in Nat
    /\ w.op = "issue" => w.hold \in DOMAIN holds /\ w.quantity \in Nat
ScriptIsCurrent ==
    script.runs =>
        /\ DOMAIN script.opening = {o \in Orders : ~native[o].there}
        /\ \A o \in DOMAIN script.opening :
              script.opening[o].quantity \in Nat /\ script.opening[o].quantity <= given[o]

HistoryInv ==
    HistoryTyped /\ GoodsCounted /\ ScriptIsCurrent /\ \A k \in Storekeepers : WorkIsCurrent(works[k])

\* Columns of the holds, and the holds of an order, are finite.
LEMMA HoldColumns ==
    ASSUME HoldsTyped, NEW o
    PROVE  /\ IsFiniteSet(order_holds(o)) /\ order_holds(o) \in SUBSET DOMAIN holds
           /\ \A h \in DOMAIN holds : holds[h] \in OrderHold /\ Remaining[h] \in Nat /\ Consumed[h] \in Nat
                                      /\ Remaining[h] = holds[h].quantity - holds[h].released - holds[h].consumed
                                      /\ Consumed[h] = holds[h].consumed
                                      /\ Promised[h] = Remaining[h] + Consumed[h] /\ Promised[h] \in Nat
           /\ HoldSum(o) \in Nat /\ TakenSum(o) \in Nat
           /\ Total(Promised, order_holds(o)) = HoldSum(o) + TakenSum(o)
  <1>1. PICK n \in Nat : holds \in [1..n -> OrderHold]
    BY DEF HoldsTyped
  <1>2. IsFiniteSet(order_holds(o)) /\ order_holds(o) \in SUBSET DOMAIN holds
    <2>1. IsFiniteSet(1..n)
      BY FS_Interval
    <2>2. order_holds(o) \subseteq 1..n
      BY <1>1 DEF order_holds
    <2>3. \A S : S \subseteq 1..n => IsFiniteSet(S)
      BY <2>1, FS_Subset
    <2> QED  BY <1>1, <2>2, <2>3
  <1>3. ASSUME NEW h \in DOMAIN holds
        PROVE  /\ holds[h] \in OrderHold /\ Remaining[h] \in Nat /\ Consumed[h] \in Nat
               /\ Remaining[h] = holds[h].quantity - holds[h].released - holds[h].consumed
               /\ Consumed[h] = holds[h].consumed
               /\ Promised[h] = Remaining[h] + Consumed[h] /\ Promised[h] \in Nat
    <2>1. holds[h] \in OrderHold
      BY <1>1
    <2>2. /\ Remaining[h] = holds[h].quantity - holds[h].released - holds[h].consumed
          /\ Consumed[h] = holds[h].consumed /\ Promised[h] = holds[h].quantity - holds[h].released
      BY DEF Remaining, Consumed, Promised, remaining
    <2> QED  BY <2>1, <2>2 DEF OrderHold
  <1>4. PICK R : R = Remaining
    OBVIOUS
  <1>5. PICK C : C = Consumed
    OBVIOUS
  <1>6. PICK P : P = Promised
    OBVIOUS
  <1>7. PICK S : S = order_holds(o)
    OBVIOUS
  <1>8. IsFiniteSet(S) /\ \A h \in S : R[h] \in Nat /\ C[h] \in Nat /\ P[h] = R[h] + C[h]
    BY <1>2, <1>3, <1>4, <1>5, <1>6, <1>7
  <1>9. Total(R, S) \in Nat /\ Total(C, S) \in Nat
    BY <1>8, TotalType
  <1>10. Total(P, S) = Total(R, S) + Total(C, S)
    BY <1>8, TotalAdd
  <1> QED  BY <1>2, <1>3, <1>4, <1>5, <1>6, <1>7, <1>9, <1>10 DEF HoldSum, TakenSum

\* A hold is made: what is held grows by it.
LEMMA HoldIsMade ==
    ASSUME HoldsTyped, NEW o \in Orders, NEW b \in {"source", "native"}, NEW q \in Nat,
           holds' = HoldsAnd(NewHold(o, b, q))
    PROVE  /\ HoldsTyped' /\ DOMAIN holds \subseteq DOMAIN holds' /\ \A h \in DOMAIN holds : holds'[h] = holds[h]
           /\ \A p \in Orders : /\ HoldSum(p)' = HoldSum(p) + (IF p = o THEN q ELSE 0)
                                /\ TakenSum(p)' = TakenSum(p)
           /\ \A p \in Orders : SourceHolds(p) = order_holds(p) /\ (p = o => b = "source") => (SourceHolds(p) = order_holds(p))'
  <1>1. PICK n \in Nat : holds \in [1..n -> OrderHold]
    BY DEF HoldsTyped
  <1>2. Cardinality(DOMAIN holds) = n /\ DOMAIN holds = 1..n
    <2>1. DOMAIN holds = 1..n
      BY <1>1
    <2>2. Cardinality(1..n) = n
      BY FS_Interval
    <2> QED  BY <2>1, <2>2
  <1>3. PICK row : row = NewHold(o, b, q)
    OBVIOUS
  <1>4. row \in OrderHold /\ row.order = o /\ row.bound = b /\ row.quantity - row.released - row.consumed = q /\ row.consumed = 0
    BY <1>3 DEF NewHold, OrderHold
  <1>5. /\ DOMAIN holds' = 1..(n + 1) /\ holds' \in [1..(n + 1) -> OrderHold]
        /\ holds'[n + 1] = row /\ \A h \in 1..n : holds'[h] = holds[h]
    <2>1. 1..n \cup {n + 1} = 1..(n + 1)
      OBVIOUS
    <2>2. holds' = [h \in 1..(n + 1) |-> IF h = n + 1 THEN row ELSE holds[h]]
      BY <1>2, <1>3, <2>1 DEF HoldsAnd
    <2> QED  BY <1>1, <1>4, <2>2
  <1>6. HoldsTyped'
    <2>1. n + 1 \in Nat
      OBVIOUS
    <2> QED  BY <1>5, <2>1 DEF HoldsTyped
  <1>7. PICK R : R = Remaining
    OBVIOUS
  <1>8. PICK C : C = Consumed
    OBVIOUS
  <1>9. PICK R1 : R1 = Remaining'
    OBVIOUS
  <1>10. PICK C1 : C1 = Consumed'
    OBVIOUS
  <1>11. \A h \in 1..n : R1[h] = R[h] /\ C1[h] = C[h] /\ R[h] \in Nat /\ C[h] \in Nat
    <2>1. \A h \in 1..n : R[h] \in Nat /\ C[h] \in Nat
      BY <1>1, <1>7, <1>8, HoldColumns
    <2>2. \A h \in 1..n : R1[h] = R[h] /\ C1[h] = C[h]
      BY <1>1, <1>5, <1>7, <1>8, <1>9, <1>10 DEF Remaining, Consumed, remaining
    <2> QED  BY <2>1, <2>2
  <1>12. R1[n + 1] = q /\ C1[n + 1] = 0
    BY <1>4, <1>5, <1>9, <1>10 DEF Remaining, Consumed, remaining
  <1>13. ASSUME NEW p \in Orders
         PROVE  /\ HoldSum(p)' = HoldSum(p) + (IF p = o THEN q ELSE 0)
                /\ TakenSum(p)' = TakenSum(p)
    <2>1. PICK S : S = order_holds(p)
      OBVIOUS
    <2>2. PICK T : T = order_holds(p)'
      OBVIOUS
    <2>3. IsFiniteSet(S) /\ S \subseteq 1..n
      BY <1>1, <2>1, HoldColumns
    <2>4. \A h \in S : R1[h] = R[h] /\ C1[h] = C[h] /\ R[h] \in Nat /\ C[h] \in Nat
      BY <1>11, <2>3
    <2>5. Total(R1, S) = Total(R, S) /\ Total(C1, S) = Total(C, S) /\ Total(R, S) \in Nat /\ Total(C, S) \in Nat
      BY <2>3, <2>4, TotalSame, TotalType
    <2>6. CASE p # o
      <3>1. T = S
        BY <1>1, <1>4, <1>5, <2>1, <2>2, <2>6 DEF order_holds
      <3> QED  BY <1>7, <1>8, <1>9, <1>10, <2>1, <2>2, <2>5, <2>6, <3>1 DEF HoldSum, TakenSum
    <2>7. CASE p = o
      <3>1. T \ {n + 1} = S /\ n + 1 \in T
        BY <1>1, <1>4, <1>5, <2>1, <2>2, <2>7 DEF order_holds
      <3>2. IsFiniteSet(T)
        <4>1. T = S \cup {n + 1}
          BY <3>1
        <4> QED  BY <2>3, <4>1, FS_AddElement
      <3>3. \A h \in T : R1[h] \in Nat /\ C1[h] \in Nat
        BY <1>12, <2>4, <3>1
      <3>4. Total(R1, T) = Total(R1, T \ {n + 1}) + R1[n + 1] /\ Total(C1, T) = Total(C1, T \ {n + 1}) + C1[n + 1]
        BY <3>1, <3>2, <3>3, TotalSplit
      <3>5. Total(R1, T) = Total(R, S) + q /\ Total(C1, T) = Total(C, S)
        BY <1>12, <2>5, <3>1, <3>4
      <3> QED  BY <1>7, <1>8, <1>9, <1>10, <2>1, <2>2, <2>7, <3>5 DEF HoldSum, TakenSum
    <2> QED  BY <2>6, <2>7
  <1>14. ASSUME NEW p \in Orders, SourceHolds(p) = order_holds(p), p = o => b = "source"
         PROVE  (SourceHolds(p) = order_holds(p))'
    <2>1. \A h \in 1..n : holds[h].order = p => holds[h].bound = "source"
      BY <1>1, <1>14 DEF SourceHolds, order_holds
    <2>2. \A h \in 1..(n + 1) : holds'[h].order = p => holds'[h].bound = "source"
      BY <1>4, <1>5, <1>14, <2>1
    <2> QED  BY <1>5, <2>2 DEF SourceHolds, order_holds
  <1> QED  BY <1>1, <1>5, <1>6, <1>13, <1>14

\* A hold changes.
LEMMA HoldIsChanged ==
    ASSUME HoldsTyped, NEW h \in DOMAIN holds, NEW row \in OrderHold, holds' = [holds EXCEPT ![h] = row],
           row.order = holds[h].order, row.bound = holds[h].bound
    PROVE  /\ HoldsTyped' /\ DOMAIN holds' = DOMAIN holds /\ \A g \in DOMAIN holds : holds'[g].order = holds[g].order
           /\ \A p \in Orders :
                IF p = row.order
                THEN /\ HoldSum(p)' = HoldSum(p) - Remaining[h] + (row.quantity - row.released - row.consumed)
                     /\ TakenSum(p)' = TakenSum(p) - Consumed[h] + row.consumed
                ELSE HoldSum(p)' = HoldSum(p) /\ TakenSum(p)' = TakenSum(p)
           /\ \A p \in Orders : order_holds(p)' = order_holds(p) /\ SourceHolds(p)' = SourceHolds(p)
  <1>1. PICK n \in Nat : holds \in [1..n -> OrderHold]
    BY DEF HoldsTyped
  <1>2. holds' \in [1..n -> OrderHold] /\ \A g \in 1..n : holds'[g] = IF g = h THEN row ELSE holds[g]
    BY <1>1
  <1>3. HoldsTyped'
    BY <1>2 DEF HoldsTyped
  <1>4. ASSUME NEW p \in Orders PROVE order_holds(p)' = order_holds(p) /\ SourceHolds(p)' = SourceHolds(p)
    BY <1>1, <1>2 DEF order_holds, SourceHolds
  <1>7. PICK R : R = Remaining
    OBVIOUS
  <1>8. PICK C : C = Consumed
    OBVIOUS
  <1>9. PICK R1 : R1 = Remaining'
    OBVIOUS
  <1>10. PICK C1 : C1 = Consumed'
    OBVIOUS
  <1>11. \A g \in 1..n : R[g] \in Nat /\ C[g] \in Nat
    BY <1>1, <1>7, <1>8, HoldColumns
  <1>12. \A g \in 1..n : R1[g] \in Nat /\ C1[g] \in Nat
    <2>1. \A g \in 1..n : /\ R1[g] = holds'[g].quantity - holds'[g].released - holds'[g].consumed
                          /\ C1[g] = holds'[g].consumed /\ holds'[g] \in OrderHold
      BY <1>2, <1>9, <1>10 DEF Remaining, Consumed, remaining
    <2>2. \A r \in OrderHold : r.quantity - r.released - r.consumed \in Nat /\ r.consumed \in Nat
      BY DEF OrderHold
    <2> QED  BY <2>1, <2>2
  <1>13. \A g \in 1..n : g # h => R1[g] = R[g] /\ C1[g] = C[g]
    BY <1>1, <1>2, <1>7, <1>8, <1>9, <1>10 DEF Remaining, Consumed, remaining
  <1>14. R1[h] = row.quantity - row.released - row.consumed /\ C1[h] = row.consumed
    BY <1>1, <1>2, <1>9, <1>10 DEF Remaining, Consumed, remaining
  <1>15. ASSUME NEW p \in Orders
         PROVE  IF p = row.order
                THEN /\ HoldSum(p)' = HoldSum(p) - Remaining[h] + (row.quantity - row.released - row.consumed)
                     /\ TakenSum(p)' = TakenSum(p) - Consumed[h] + row.consumed
                ELSE HoldSum(p)' = HoldSum(p) /\ TakenSum(p)' = TakenSum(p)
    <2>1. PICK S : S = order_holds(p) /\ S = order_holds(p)'
      BY <1>4
    <2>2. IsFiniteSet(S) /\ S \subseteq 1..n
      BY <1>1, <2>1, HoldColumns
    <2>3. CASE p = row.order
      <3>1. h \in S
        BY <1>1, <2>1, <2>3 DEF order_holds
      <3>2. Total(R1, S) = Total(R, S) - R[h] + R1[h]
        BY <1>11, <1>12, <1>13, <2>2, <3>1, TotalUpdate
      <3>3. Total(C1, S) = Total(C, S) - C[h] + C1[h]
        BY <1>11, <1>12, <1>13, <2>2, <3>1, TotalUpdate
      <3> QED  BY <1>7, <1>8, <1>9, <1>10, <1>14, <2>1, <2>3, <3>2, <3>3 DEF HoldSum, TakenSum
    <2>4. CASE p # row.order
      <3>1. h \notin S
        BY <1>1, <2>1, <2>4 DEF order_holds
      <3>2. \A g \in S : R1[g] = R[g] /\ C1[g] = C[g]
        BY <1>13, <2>2, <3>1
      <3>3. Total(R1, S) = Total(R, S) /\ Total(C1, S) = Total(C, S)
        BY <3>2, TotalSame
      <3> QED  BY <1>7, <1>8, <1>9, <1>10, <2>1, <2>4, <3>3 DEF HoldSum, TakenSum
    <2> QED  BY <2>3, <2>4
  <1> QED  BY <1>1, <1>2, <1>3, <1>4, <1>15

LEMMA HistoryBegins == HistoryInit => HistoryInv
  <1> SUFFICES ASSUME HistoryInit PROVE HistoryInv
    OBVIOUS
  <1>1. holds \in [1..0 -> OrderHold] /\ 0 \in Nat /\ DOMAIN holds = {}
    BY DEF HistoryInit
  <1>2. HistoryTyped
    <2>1. NotMade \in NativeRow
      BY DEF NotMade, NativeRow
    <2>2. \A o \in Orders : source[o].shipped \in Nat
      BY DEF HistoryInit
    <2>3. HoldsTyped
      BY <1>1 DEF HoldsTyped
    <2> QED  BY <2>1, <2>2, <2>3 DEF HistoryInit, HistoryTyped
  <1>3. ASSUME NEW o \in Orders PROVE order_holds(o) = {} /\ SourceHolds(o) = {} /\ HoldSum(o) = 0 /\ TakenSum(o) = 0
    <2>1. order_holds(o) = {} /\ SourceHolds(o) = {}
      BY <1>1 DEF order_holds, SourceHolds
    <2>2. Total(Remaining, {}) = 0 /\ Total(Consumed, {}) = 0
      BY TotalZero
    <2> QED  BY <2>1, <2>2 DEF HoldSum, TakenSum
  <1>4. GoodsCounted
    <2> SUFFICES ASSUME NEW o \in Orders
                 PROVE  /\ given[o] + HoldSum(o) <= Ordered + slipped[o]
                        /\ IF native[o].there THEN shipped(o) <= given[o] /\ given[o] <= shipped(o) + slipped[o]
                           ELSE slipped[o] = 0 /\ given[o] = source[o].shipped + TakenSum(o)
                                /\ SourceHolds(o) = order_holds(o)
      BY DEF GoodsCounted
    <2>1. given[o] = source[o].shipped /\ source[o].shipped \in 0..1 /\ ~native[o].there /\ slipped[o] = 0
      BY DEF HistoryInit, NotMade
    <2>2. Ordered \in Nat /\ Ordered # 0
      BY HistoryAssumption
    <2> QED  BY <1>3, <2>1, <2>2
  <1>5. ScriptIsCurrent /\ \A k \in Storekeepers : WorkIsCurrent(works[k])
    BY DEF HistoryInit, NotRun, NoWork, ScriptIsCurrent, WorkIsCurrent
  <1> QED  BY <1>2, <1>4, <1>5 DEF HistoryInv

\* The requests that go on, when the holds they refer to are still there.
LEMMA WorkGoesOn ==
    ASSUME HistoryInv, DOMAIN holds \subseteq DOMAIN holds'
    PROVE  /\ \A j \in Storekeepers : works'[j] = works[j] => WorkIsCurrent(works[j])'
           /\ works' = works => DOMAIN works' = Storekeepers /\ \A j \in Storekeepers : WorkIsCurrent(works[j])'
  <1>1. DOMAIN works = Storekeepers /\ \A j \in Storekeepers : WorkIsCurrent(works[j])
    BY DEF HistoryInv, HistoryTyped
  <1>2. ASSUME NEW w0, WorkIsCurrent(w0) PROVE WorkIsCurrent(w0)'
    BY <1>2 DEF WorkIsCurrent
  <1>3. ASSUME NEW j \in Storekeepers, works'[j] = works[j] PROVE WorkIsCurrent(works[j])'
    <2>1. PICK w0 : w0 = works[j]
      OBVIOUS
    <2>2. WorkIsCurrent(w0)'
      BY <1>1, <1>2, <2>1
    <2> QED  BY <1>3, <2>1, <2>2 DEF WorkIsCurrent
  <1> QED  BY <1>1, <1>3

LEMMA WorksGoOn ==
    ASSUME HistoryInv, NEW k \in Storekeepers, NEW w, works' = [works EXCEPT ![k] = w], WorkIsCurrent(w)',
           DOMAIN holds \subseteq DOMAIN holds'
    PROVE  DOMAIN works' = Storekeepers /\ \A j \in Storekeepers : WorkIsCurrent(works[j])'
  <1>1. DOMAIN works' = Storekeepers /\ \A j \in Storekeepers : works'[j] = IF j = k THEN w ELSE works[j]
    BY DEF HistoryInv, HistoryTyped
  <1>2. WorkIsCurrent(works[k])'
    BY <1>1 DEF WorkIsCurrent
  <1> QED  BY <1>1, <1>2, WorkGoesOn

\* What the script has read is not too much as long as nothing is taken back.
LEMMA ScriptGoesOn ==
    ASSUME HistoryInv, script' = script, \A o \in Orders : native'[o].there = native[o].there,
           \A o \in Orders : given'[o] \in Nat /\ given[o] <= given'[o]
    PROVE  ScriptIsCurrent'
  <1>1. SUFFICES ASSUME script.runs
                 PROVE  /\ DOMAIN script.opening = {o \in Orders : ~native'[o].there}
                        /\ \A o \in DOMAIN script.opening :
                              script.opening[o].quantity \in Nat /\ script.opening[o].quantity <= given'[o]
    BY DEF ScriptIsCurrent
  <1>2. /\ DOMAIN script.opening = {o \in Orders : ~native[o].there}
        /\ \A o \in DOMAIN script.opening :
              script.opening[o].quantity \in Nat /\ script.opening[o].quantity <= given[o]
    BY <1>1 DEF HistoryInv, ScriptIsCurrent
  <1>3. DOMAIN script.opening = {o \in Orders : ~native'[o].there}
    BY <1>2
  <1>4. ASSUME NEW o \in DOMAIN script.opening
        PROVE  script.opening[o].quantity \in Nat /\ script.opening[o].quantity <= given'[o]
    <2>1. o \in Orders /\ given[o] \in Nat
      BY <1>2 DEF HistoryInv, HistoryTyped
    <2> QED  BY <1>2, <2>1
  <1> QED  BY <1>3, <1>4

LEMMA GoodsStay ==
    ASSUME HistoryInv, UNCHANGED <<source, native, holds, given, slipped>>
    PROVE  GoodsCounted' /\ HoldsTyped'
  <1>1. UNCHANGED <<Remaining, Consumed>> /\ \A o : order_holds(o)' = order_holds(o) /\ SourceHolds(o)' = SourceHolds(o)
    BY DEF Remaining, Consumed, remaining, order_holds, SourceHolds
  <1>2. \A o : HoldSum(o)' = HoldSum(o) /\ TakenSum(o)' = TakenSum(o) /\ shipped(o)' = shipped(o)
    BY <1>1 DEF HoldSum, TakenSum, shipped
  <1> QED  BY <1>1, <1>2 DEF HistoryInv, GoodsCounted, HistoryTyped, HoldsTyped

LEMMA ReservationKeeps ==
    ASSUME HistoryInv, NEW k \in Storekeepers, NEW o \in Orders, create_reservation(k, o)
    PROVE  HistoryInv'
  <1>1. UNCHANGED <<source, native, script, given, slipped>>
    BY DEF create_reservation
  <1>2. ScriptIsCurrent'
    <2>1. \A p \in Orders : given[p] \in Nat
      BY DEF HistoryInv, HistoryTyped
    <2> QED  BY <1>1, <2>1, ScriptGoesOn
  <1>3. CASE holds' = holds /\ ~native[o].there /\ \E q \in 1..Ordered : Answer(k, [op |-> "reserve", order |-> o, quantity |-> q])
    <2>1. PICK q \in 1..Ordered : works' = [works EXCEPT ![k] = [op |-> "reserve", order |-> o, quantity |-> q]]
      BY <1>3 DEF Answer
    <2> DEFINE w == [op |-> "reserve", order |-> o, quantity |-> q]
    <2>2. WorkIsCurrent(w)'
      <3>1. q \in Nat
        BY HistoryAssumption
      <3> QED  BY <3>1 DEF WorkIsCurrent
    <2> HIDE DEF w
    <2>3. works' = [works EXCEPT ![k] = w]
      BY <2>1 DEF w
    <2>4. DOMAIN works' = Storekeepers /\ \A j \in Storekeepers : WorkIsCurrent(works[j])'
      BY <1>1, <1>3, <2>2, <2>3, WorksGoOn
    <2>5. GoodsCounted' /\ HoldsTyped'
      BY <1>1, <1>3, GoodsStay
    <2> QED  BY <1>1, <1>2, <2>4, <2>5 DEF HistoryInv, HistoryTyped
  <1>4. CASE works' = works /\ native[o].there /\ \E q \in 1..remaining_to_reserve(o) : holds' = HoldsAnd(NewHold(o, "native", q))
    <2>1. PICK q \in 1..remaining_to_reserve(o) : holds' = HoldsAnd(NewHold(o, "native", q))
      BY <1>4
    <2>2. PICK left : left = Ordered - (shipped(o) + HoldSum(o))
      OBVIOUS
    <2>3. /\ Ordered \in Nat /\ given[o] \in Nat /\ HoldSum(o) \in Nat /\ slipped[o] \in Nat /\ shipped(o) \in Nat
          /\ shipped(o) <= given[o] /\ given[o] <= shipped(o) + slipped[o]
      BY <1>4, HistoryAssumption, HoldColumns DEF HistoryInv, HistoryTyped, GoodsCounted, shipped, NativeRow
    <2>4. left \in Int /\ remaining_to_reserve(o) = AtLeast(0, left)
      <3>1. remaining_to_reserve(o) = AtLeast(0, left)
        BY <2>2 DEF remaining_to_reserve, HoldSum
      <3> HIDE DEF HoldSum
      <3> QED  BY <2>2, <2>3, <3>1
    <2>5. q \in Nat /\ q <= left
      BY <2>4 DEF AtLeast
    <2>6. /\ HoldsTyped' /\ DOMAIN holds \subseteq DOMAIN holds' /\ \A h \in DOMAIN holds : holds'[h] = holds[h]
          /\ \A p \in Orders : /\ HoldSum(p)' = HoldSum(p) + (IF p = o THEN q ELSE 0)
                               /\ TakenSum(p)' = TakenSum(p)
          /\ \A p \in Orders : SourceHolds(p) = order_holds(p) /\ p # o => (SourceHolds(p) = order_holds(p))'
      BY <2>1, <2>5, HoldIsMade DEF HistoryInv, HistoryTyped
    <2>7. DOMAIN works' = Storekeepers /\ \A j \in Storekeepers : WorkIsCurrent(works[j])'
      BY <1>1, <1>4, <2>6, WorkGoesOn
    <2>8. GoodsCounted'
      <3> SUFFICES ASSUME NEW p \in Orders
                   PROVE  /\ given'[p] + HoldSum(p)' <= Ordered + slipped'[p]
                          /\ IF native'[p].there THEN shipped(p)' <= given'[p] /\ given'[p] <= shipped(p)' + slipped'[p]
                             ELSE slipped'[p] = 0 /\ given'[p] = source'[p].shipped + TakenSum(p)'
                                  /\ (SourceHolds(p) = order_holds(p))'
        BY DEF GoodsCounted
      <3>1. HoldSum(p) \in Nat /\ given[p] \in Nat /\ slipped[p] \in Nat /\ given[p] + HoldSum(p) <= Ordered + slipped[p]
        BY HoldColumns DEF HistoryInv, HistoryTyped, GoodsCounted
      <3>2. given'[p] + HoldSum(p)' <= Ordered + slipped'[p]
        <4>1. CASE p = o
          <5>1. given[o] + HoldSum(o) + q <= Ordered + slipped[o]
            BY <2>2, <2>3, <2>5
          <5> QED  BY <1>1, <2>3, <2>5, <2>6, <3>1, <4>1, <5>1
        <4>2. CASE p # o
          BY <1>1, <2>6, <3>1, <4>2
        <4> QED  BY <4>1, <4>2
      <3>3. shipped(p)' = shipped(p)
        BY <1>1 DEF shipped
      <3>4. native[p].there => shipped(p)' <= given'[p] /\ given'[p] <= shipped(p)' + slipped'[p]
        BY <1>1, <3>3 DEF HistoryInv, GoodsCounted
      <3>5. ~native[p].there => /\ slipped'[p] = 0 /\ given'[p] = source'[p].shipped + TakenSum(p)'
                                /\ (SourceHolds(p) = order_holds(p))'
        BY <1>1, <1>4, <2>6 DEF HistoryInv, GoodsCounted
      <3> QED  BY <1>1, <3>2, <3>4, <3>5
    <2> QED  BY <1>1, <1>2, <2>6, <2>7, <2>8 DEF HistoryInv, HistoryTyped
  <1> QED  BY <1>3, <1>4 DEF create_reservation

LEMMA SourceHeldKeeps ==
    ASSUME HistoryInv, NEW k \in Storekeepers, SourceIsHeld(k)
    PROVE  HistoryInv'
  <1>1. works[k].op = "reserve"
    BY DEF SourceIsHeld
  <1>2. PICK o \in Orders : o = works[k].order
    BY <1>1 DEF HistoryInv, WorkIsCurrent
  <1>3. PICK q \in Nat : q = works[k].quantity
    BY <1>1 DEF HistoryInv, WorkIsCurrent
  <1>5. UNCHANGED <<source, native, script, given>> /\ works' = [works EXCEPT ![k] = NoWork]
    BY DEF SourceIsHeld, Answer
  <1>6. ScriptIsCurrent' /\ WorkIsCurrent(NoWork)'
    <2>1. \A p \in Orders : given[p] \in Nat
      BY DEF HistoryInv, HistoryTyped
    <2>2. ScriptIsCurrent'
      BY <1>5, <2>1, ScriptGoesOn
    <2> QED  BY <2>2 DEF WorkIsCurrent, NoWork
  <1>7. CASE UNCHANGED <<holds, slipped>>
    <2>1. DOMAIN works' = Storekeepers /\ \A j \in Storekeepers : WorkIsCurrent(works[j])'
      BY <1>5, <1>6, <1>7, WorksGoOn
    <2>2. GoodsCounted' /\ HoldsTyped'
      BY <1>5, <1>7, GoodsStay
    <2> QED  BY <1>5, <1>6, <1>7, <2>1, <2>2 DEF HistoryInv, HistoryTyped
  <1>8. CASE q <= order_capacity(o) /\ holds' = HoldsAnd(NewHold(o, "source", q)) /\ BehindTheImport(o, q)
    <2>1. /\ HoldsTyped' /\ DOMAIN holds \subseteq DOMAIN holds' /\ \A h \in DOMAIN holds : holds'[h] = holds[h]
          /\ \A p \in Orders : /\ HoldSum(p)' = HoldSum(p) + (IF p = o THEN q ELSE 0)
                               /\ TakenSum(p)' = TakenSum(p)
          /\ \A p \in Orders : SourceHolds(p) = order_holds(p) => (SourceHolds(p) = order_holds(p))'
      BY <1>8, HoldIsMade DEF HistoryInv, HistoryTyped
    <2>2. DOMAIN works' = Storekeepers /\ \A j \in Storekeepers : WorkIsCurrent(works[j])'
      BY <1>5, <1>6, <2>1, WorksGoOn
    <2>t. slipped \in [Orders -> Nat]
      BY DEF HistoryInv, HistoryTyped
    <2>3. PICK shippedThere \in Nat : shippedThere = source[o].shipped
      BY DEF HistoryInv, HistoryTyped
    <2>4. /\ Ordered \in Nat /\ given[o] \in Nat /\ HoldSum(o) \in Nat /\ TakenSum(o) \in Nat
          /\ given[o] + HoldSum(o) <= Ordered + slipped[o]
          /\ ~native[o].there => given[o] = shippedThere + TakenSum(o) /\ slipped[o] = 0
      BY <2>3, HistoryAssumption, HoldColumns DEF HistoryInv, HistoryTyped, GoodsCounted
    <2>5. ~native[o].there => order_capacity(o) = AtLeast(0, Ordered - (shippedThere + (HoldSum(o) + TakenSum(o))))
      <3> SUFFICES ASSUME ~native[o].there PROVE order_capacity(o) = AtLeast(0, Ordered - (shippedThere + (HoldSum(o) + TakenSum(o))))
        OBVIOUS
      <3>1. SourceHolds(o) = order_holds(o)
        BY DEF HistoryInv, GoodsCounted
      <3>2. Total(Promised, order_holds(o)) = HoldSum(o) + TakenSum(o)
        BY HoldColumns DEF HistoryInv, HistoryTyped
      <3> HIDE DEF HoldSum, TakenSum
      <3> QED  BY <2>3, <3>1, <3>2 DEF order_capacity
    <2>s. /\ slipped' \in [Orders -> Nat]
          /\ \A p \in Orders : slipped'[p] = slipped[p] + (IF p = o /\ native[o].there THEN q ELSE 0)
      BY <1>8, <2>t DEF BehindTheImport
    <2>6. given[o] + HoldSum(o) + q <= Ordered + slipped'[o]
      <3>c. CASE native[o].there
        BY <2>4, <2>s, <2>t, <3>c
      <3>d. CASE ~native[o].there
        <4>1. PICK a \in Nat : a = HoldSum(o)
          BY <2>4
        <4>2. PICK b \in Nat : b = TakenSum(o)
          BY <2>4
        <4>3. order_capacity(o) = AtLeast(0, Ordered - (shippedThere + (a + b))) /\ shippedThere + b + a <= Ordered
          BY <2>4, <2>5, <3>d, <4>1, <4>2
        <4>4. q <= Ordered - (shippedThere + (a + b))
          BY <1>8, <2>4, <4>3 DEF AtLeast
        <4>5. slipped'[o] = 0
          BY <2>4, <2>s, <3>d
        <4> QED  BY <2>4, <3>d, <4>1, <4>2, <4>4, <4>5
      <3> QED  BY <3>c, <3>d
    <2>7. GoodsCounted'
      <3> SUFFICES ASSUME NEW p \in Orders
                   PROVE  /\ given'[p] + HoldSum(p)' <= Ordered + slipped'[p]
                          /\ IF native'[p].there THEN shipped(p)' <= given'[p] /\ given'[p] <= shipped(p)' + slipped'[p]
                             ELSE slipped'[p] = 0 /\ given'[p] = source'[p].shipped + TakenSum(p)'
                                  /\ (SourceHolds(p) = order_holds(p))'
        BY DEF GoodsCounted
      <3>1. HoldSum(p) \in Nat /\ given[p] \in Nat /\ slipped[p] \in Nat /\ given[p] + HoldSum(p) <= Ordered + slipped[p]
        BY HoldColumns DEF HistoryInv, HistoryTyped, GoodsCounted
      <3>2. given'[p] + HoldSum(p)' <= Ordered + slipped'[p]
        <4>1. CASE p = o
          BY <1>5, <2>1, <2>4, <2>6, <4>1
        <4>2. CASE p # o
          BY <1>5, <2>1, <2>s, <3>1, <4>2
        <4> QED  BY <4>1, <4>2
      <3>3. shipped(p)' = shipped(p)
        BY <1>5 DEF shipped
      <3>4. native[p].there => shipped(p)' <= given'[p] /\ given'[p] <= shipped(p)' + slipped'[p]
        <4>1. native[p].there => shipped(p) <= given[p] /\ given[p] <= shipped(p) + slipped[p]
          BY DEF HistoryInv, GoodsCounted
        <4>2. slipped[p] <= slipped'[p] /\ slipped'[p] \in Nat /\ shipped(p) \in Nat
          BY <2>s, <3>1 DEF HistoryInv, HistoryTyped, NativeRow, shipped
        <4> QED  BY <1>5, <3>1, <3>3, <4>1, <4>2
      <3>5. ~native[p].there => /\ slipped'[p] = 0 /\ given'[p] = source'[p].shipped + TakenSum(p)'
                                /\ (SourceHolds(p) = order_holds(p))'
        BY <1>5, <2>1, <2>s, <3>1 DEF HistoryInv, GoodsCounted
      <3> QED  BY <1>5, <3>2, <3>4, <3>5
    <2> QED  BY <1>5, <1>6, <2>1, <2>2, <2>7, <2>s DEF HistoryInv, HistoryTyped
  <1> QED  BY <1>2, <1>3, <1>7, <1>8 DEF SourceIsHeld

LEMMA IssueAskedKeeps ==
    ASSUME HistoryInv, NEW k \in Storekeepers, NEW h \in DOMAIN holds, IssueAsked(k, h)
    PROVE  HistoryInv'
  <1>1. UNCHANGED <<source, native, holds, script, given, slipped>>
    BY DEF IssueAsked
  <1>2. PICK q \in 1..Ordered : works' = [works EXCEPT ![k] = [op |-> "issue", hold |-> h, quantity |-> q, version |-> holds[h].version]]
    BY DEF IssueAsked, Answer
  <1>w. PICK w : w = [op |-> "issue", hold |-> h, quantity |-> q, version |-> holds[h].version]
    OBVIOUS
  <1>3. WorkIsCurrent(w)'
    <2>1. q \in Nat
      BY HistoryAssumption
    <2> QED  BY <1>1, <1>w, <2>1 DEF WorkIsCurrent
  <1>4. works' = [works EXCEPT ![k] = w]
    BY <1>2, <1>w
  <1>5. DOMAIN works' = Storekeepers /\ \A j \in Storekeepers : WorkIsCurrent(works[j])'
    BY <1>1, <1>3, <1>4, WorksGoOn
  <1>6. GoodsCounted' /\ HoldsTyped' /\ ScriptIsCurrent'
    <2>1. \A p \in Orders : given[p] \in Nat
      BY DEF HistoryInv, HistoryTyped
    <2> QED  BY <1>1, <2>1, GoodsStay, ScriptGoesOn
  <1> QED  BY <1>1, <1>5, <1>6 DEF HistoryInv, HistoryTyped

LEMMA IssueKeeps ==
    ASSUME HistoryInv, NEW k \in Storekeepers, issue(k)
    PROVE  HistoryInv'
  <1>1. works[k].op = "issue"
    BY DEF issue
  <1>2. PICK h \in DOMAIN holds : h = works[k].hold
    BY <1>1 DEF HistoryInv, WorkIsCurrent
  <1>3. PICK q \in Nat : q = works[k].quantity
    BY <1>1 DEF HistoryInv, WorkIsCurrent
  <1>4. PICK row \in OrderHold : row = holds[h]
    BY HoldColumns DEF HistoryInv, HistoryTyped
  <1>5. row.order \in Orders
    BY DEF OrderHold
  <1>6. UNCHANGED <<source, native, script>> /\ works' = [works EXCEPT ![k] = NoWork]
    BY DEF issue, Answer
  <1>7. WorkIsCurrent(NoWork)'
    BY DEF WorkIsCurrent, NoWork
  <1>8. CASE UNCHANGED <<holds, given, slipped>>
    <2>1. DOMAIN works' = Storekeepers /\ \A j \in Storekeepers : WorkIsCurrent(works[j])'
      BY <1>6, <1>7, <1>8, WorksGoOn
    <2>2. GoodsCounted' /\ HoldsTyped'
      BY <1>6, <1>8, GoodsStay
    <2>3. \A p \in Orders : given[p] \in Nat
      BY DEF HistoryInv, HistoryTyped
    <2>4. ScriptIsCurrent'
      BY <1>6, <1>8, <2>3, ScriptGoesOn
    <2> QED  BY <1>6, <1>8, <2>1, <2>2, <2>4 DEF HistoryInv, HistoryTyped
  <1>9. CASE /\ q <= remaining(h)
             /\ holds' = [holds EXCEPT ![h] = [row EXCEPT !.consumed = row.consumed + q, !.version = row.version + 1]]
             /\ given' = [given EXCEPT ![row.order] = @ + q] /\ BehindTheImport(row.order, q)
    <2> DEFINE new == [row EXCEPT !.consumed = row.consumed + q, !.version = row.version + 1]
    <2>1. /\ row.consumed + q \in Nat /\ row.version + 1 \in Nat
          /\ row.consumed + q + row.released <= row.quantity /\ {row.consumed, row.released, row.quantity} \subseteq Nat
      BY <1>4, <1>9 DEF OrderHold, remaining
    <2>2. /\ new \in OrderHold /\ new.order = row.order /\ new.bound = row.bound
          /\ new.quantity = row.quantity /\ new.released = row.released /\ new.consumed = row.consumed + q
      BY <2>1 DEF OrderHold
    <2>3. holds' = [holds EXCEPT ![h] = new]
      BY <1>9
    <2> HIDE DEF new
    <2>4. /\ HoldsTyped' /\ DOMAIN holds' = DOMAIN holds /\ \A g \in DOMAIN holds : holds'[g].order = holds[g].order
          /\ \A p \in Orders :
                IF p = new.order
                THEN /\ HoldSum(p)' = HoldSum(p) - Remaining[h] + (new.quantity - new.released - new.consumed)
                     /\ TakenSum(p)' = TakenSum(p) - Consumed[h] + new.consumed
                ELSE HoldSum(p)' = HoldSum(p) /\ TakenSum(p)' = TakenSum(p)
          /\ \A p \in Orders : order_holds(p)' = order_holds(p) /\ SourceHolds(p)' = SourceHolds(p)
      <3>1. HoldsTyped
        BY DEF HistoryInv, HistoryTyped
      <3> QED  BY <1>4, <2>2, <2>3, <3>1, HoldIsChanged
    <2>5. Remaining[h] = row.quantity - row.released - row.consumed /\ Consumed[h] = row.consumed
      BY <1>4, HoldColumns DEF HistoryInv, HistoryTyped
    <2>6. DOMAIN works' = Storekeepers /\ \A j \in Storekeepers : WorkIsCurrent(works[j])'
      BY <1>6, <1>7, <2>4, WorksGoOn
    <2>7. given' \in [Orders -> Nat] /\ \A p \in Orders : given'[p] = given[p] + (IF p = row.order THEN q ELSE 0)
      BY <1>5, <1>9 DEF HistoryInv, HistoryTyped
    <2>s. /\ slipped' \in [Orders -> Nat]
          /\ \A p \in Orders : slipped'[p] = slipped[p] + (IF p = row.order /\ native[p].there THEN q ELSE 0)
      <3>1. slipped \in [Orders -> Nat]
        BY DEF HistoryInv, HistoryTyped
      <3> QED  BY <1>5, <1>9, <3>1 DEF BehindTheImport
    <2>g. ScriptIsCurrent'
      <3>1. given \in [Orders -> Nat]
        BY DEF HistoryInv, HistoryTyped
      <3>2. \A p \in Orders : given'[p] \in Nat /\ given[p] <= given'[p]
        BY <2>7, <3>1
      <3> QED  BY <1>6, <3>2, ScriptGoesOn
    <2>8. GoodsCounted'
      <3> SUFFICES ASSUME NEW p \in Orders
                   PROVE  /\ given'[p] + HoldSum(p)' <= Ordered + slipped'[p]
                          /\ IF native'[p].there THEN shipped(p)' <= given'[p] /\ given'[p] <= shipped(p)' + slipped'[p]
                             ELSE slipped'[p] = 0 /\ given'[p] = source'[p].shipped + TakenSum(p)'
                                  /\ (SourceHolds(p) = order_holds(p))'
        BY DEF GoodsCounted
      <3>1. /\ HoldSum(p) \in Nat /\ TakenSum(p) \in Nat /\ given[p] \in Nat /\ given[p] + HoldSum(p) <= Ordered + slipped[p]
            /\ source[p].shipped \in Nat /\ slipped[p] \in Nat /\ shipped(p) \in Nat /\ Ordered \in Nat
        BY HistoryAssumption, HoldColumns DEF HistoryInv, HistoryTyped, GoodsCounted, shipped, NativeRow
      <3>2. CASE p # row.order
        <4>1. /\ HoldSum(p)' = HoldSum(p) /\ TakenSum(p)' = TakenSum(p) /\ given'[p] = given[p] /\ shipped(p)' = shipped(p)
              /\ slipped'[p] = slipped[p]
          BY <1>6, <2>2, <2>4, <2>7, <2>s, <3>1, <3>2 DEF shipped
        <4> QED  BY <1>6, <2>4, <3>1, <4>1 DEF HistoryInv, GoodsCounted
      <3>3. CASE p = row.order
        <4>1. HoldSum(p)' = HoldSum(p) - q /\ TakenSum(p)' = TakenSum(p) + q /\ given'[p] = given[p] + q
          BY <2>1, <2>2, <2>4, <2>5, <2>7, <3>1, <3>3
        <4>2. CASE ~native[p].there
          <5>1. given[p] = source[p].shipped + TakenSum(p) /\ SourceHolds(p) = order_holds(p) /\ slipped[p] = 0
            BY <4>2 DEF HistoryInv, GoodsCounted
          <5>2. slipped'[p] = 0
            BY <2>s, <4>2, <5>1
          <5> QED  BY <1>6, <2>4, <3>1, <4>1, <4>2, <5>1, <5>2
        <4>3. CASE native[p].there
          <5>1. shipped(p) <= given[p] /\ given[p] <= shipped(p) + slipped[p]
            BY <4>3 DEF HistoryInv, GoodsCounted
          <5>2. slipped'[p] = slipped[p] + q /\ shipped(p)' = shipped(p) /\ native'[p].there
            BY <1>6, <2>s, <3>3, <4>3 DEF shipped
          <5> QED  BY <3>1, <4>1, <5>1, <5>2
        <4> QED  BY <4>2, <4>3
      <3> QED  BY <3>2, <3>3
    <2> QED  BY <1>6, <2>4, <2>6, <2>7, <2>8, <2>g, <2>s DEF HistoryInv, HistoryTyped
  <1> QED  BY <1>2, <1>3, <1>4, <1>8, <1>9 DEF issue, locked_change

LEMMA ReleaseKeeps ==
    ASSUME HistoryInv, NEW k \in Storekeepers, NEW h \in DOMAIN holds, release(k, h)
    PROVE  HistoryInv'
  <1>1. UNCHANGED <<source, native, works, script, given, slipped>>
    BY DEF release
  <1>2. PICK row \in OrderHold : row = holds[h]
    BY HoldColumns DEF HistoryInv, HistoryTyped
  <1>3. PICK q \in 1..Ordered :
          /\ q <= remaining(h)
          /\ holds' = [holds EXCEPT ![h] = [row EXCEPT !.released = row.released + q, !.version = row.version + 1]]
    BY <1>2 DEF release, locked_change
  <1> DEFINE new == [row EXCEPT !.released = row.released + q, !.version = row.version + 1]
  <1>4. /\ row.released + q \in Nat /\ row.version + 1 \in Nat
        /\ row.consumed + (row.released + q) <= row.quantity /\ {row.consumed, row.released, row.quantity} \subseteq Nat
    BY <1>2, <1>3 DEF OrderHold, remaining
  <1>5. /\ new \in OrderHold /\ new.order = row.order /\ new.bound = row.bound /\ row.order \in Orders
        /\ new.quantity = row.quantity /\ new.consumed = row.consumed /\ new.released = row.released + q
    BY <1>4 DEF OrderHold
  <1>6. holds' = [holds EXCEPT ![h] = new]
    BY <1>3
  <1> HIDE DEF new
  <1>7. /\ HoldsTyped' /\ DOMAIN holds' = DOMAIN holds /\ \A g \in DOMAIN holds : holds'[g].order = holds[g].order
        /\ \A p \in Orders :
              IF p = new.order
              THEN /\ HoldSum(p)' = HoldSum(p) - Remaining[h] + (new.quantity - new.released - new.consumed)
                   /\ TakenSum(p)' = TakenSum(p) - Consumed[h] + new.consumed
              ELSE HoldSum(p)' = HoldSum(p) /\ TakenSum(p)' = TakenSum(p)
        /\ \A p \in Orders : order_holds(p)' = order_holds(p) /\ SourceHolds(p)' = SourceHolds(p)
    <2>1. HoldsTyped
      BY DEF HistoryInv, HistoryTyped
    <2> QED  BY <1>2, <1>5, <1>6, <2>1, HoldIsChanged
  <1>8. Remaining[h] = row.quantity - row.released - row.consumed /\ Consumed[h] = row.consumed
    BY <1>2, HoldColumns DEF HistoryInv, HistoryTyped
  <1>9. DOMAIN works' = Storekeepers /\ \A j \in Storekeepers : WorkIsCurrent(works[j])'
    BY <1>1, <1>7, WorkGoesOn
  <1>10. GoodsCounted'
    <2> SUFFICES ASSUME NEW p \in Orders
                 PROVE  /\ given'[p] + HoldSum(p)' <= Ordered + slipped'[p]
                        /\ IF native'[p].there THEN shipped(p)' <= given'[p] /\ given'[p] <= shipped(p)' + slipped'[p]
                           ELSE slipped'[p] = 0 /\ given'[p] = source'[p].shipped + TakenSum(p)'
                                /\ (SourceHolds(p) = order_holds(p))'
      BY DEF GoodsCounted
    <2>1. HoldSum(p) \in Nat /\ TakenSum(p) \in Nat /\ given[p] \in Nat /\ given[p] + HoldSum(p) <= Ordered + slipped[p]
          /\ shipped(p)' = shipped(p) /\ Ordered \in Nat /\ slipped[p] \in Nat /\ slipped'[p] = slipped[p]
      BY <1>1, HistoryAssumption, HoldColumns DEF HistoryInv, HistoryTyped, GoodsCounted, shipped
    <2>2. HoldSum(p)' \in Int /\ HoldSum(p)' <= HoldSum(p) /\ TakenSum(p)' = TakenSum(p)
      BY <1>4, <1>5, <1>7, <1>8, <2>1
    <2> QED  BY <1>1, <1>7, <2>1, <2>2 DEF HistoryInv, GoodsCounted
  <1>11. ScriptIsCurrent'
    <2>1. \A p \in Orders : given[p] \in Nat
      BY DEF HistoryInv, HistoryTyped
    <2> QED  BY <1>1, <2>1, ScriptGoesOn
  <1> QED  BY <1>1, <1>7, <1>9, <1>10, <1>11 DEF HistoryInv, HistoryTyped

\* A hold that is used up by so much that l is left.
LEMMA HoldIsUsedUp ==
    ASSUME NEW row \in OrderHold, NEW l \in Nat, l <= row.quantity - row.released - row.consumed,
           NEW u, u = row.quantity - row.released - row.consumed - l
    PROVE  /\ UsedUp(row, u) \in OrderHold /\ UsedUp(row, u).order = row.order /\ UsedUp(row, u).bound = row.bound
           /\ UsedUp(row, u).quantity - UsedUp(row, u).released - UsedUp(row, u).consumed = l
  <1>1. /\ row.quantity \in Nat /\ row.released \in Nat /\ row.consumed \in Nat /\ row.version \in Nat
        /\ row.consumed + row.released <= row.quantity
    BY DEF OrderHold
  <1>2. PICK c \in Nat : c = row.consumed + u /\ c + row.released <= row.quantity /\ row.quantity - row.released - c = l
    BY <1>1
  <1>3. row.version + 1 \in Nat
    BY <1>1
  <1>4. UsedUp(row, u) = [row EXCEPT !.consumed = c, !.version = row.version + 1]
    BY <1>2 DEF UsedUp
  <1> QED  BY <1>2, <1>3, <1>4 DEF OrderHold

\* What is left of each hold of an order after a shipment.
LEMMA HoldsAreTaken ==
    ASSUME HoldsTyped, NEW o \in Orders, NEW left, NEW q \in Nat,
           \A h \in order_holds(o) : left[h] \in Nat,
           TakenInOrder(Remaining, left, order_holds(o), q), holds' = HoldsLeft(o, left)
    PROVE  /\ HoldsTyped' /\ DOMAIN holds' = DOMAIN holds /\ \A h \in DOMAIN holds : holds'[h].order = holds[h].order
           /\ \A p \in Orders : order_holds(p)' = order_holds(p) /\ SourceHolds(p)' = SourceHolds(p)
           /\ \A p \in Orders \ {o} : HoldSum(p)' = HoldSum(p) /\ TakenSum(p)' = TakenSum(p)
           /\ HoldSum(o)' = AtLeast(0, HoldSum(o) - q)
  <1>1. PICK n \in Nat : holds \in [1..n -> OrderHold]
    BY DEF HoldsTyped
  <1>a. DOMAIN holds = 1..n
    BY <1>1
  <1>b. /\ DOMAIN holds' = 1..n
        /\ \A h \in 1..n : holds'[h] = IF h \in order_holds(o) /\ left[h] < remaining(h)
                                       THEN UsedUp(holds[h], remaining(h) - left[h]) ELSE holds[h]
    BY <1>a DEF HoldsLeft
  <1>2. ASSUME NEW h \in 1..n
        PROVE  /\ holds'[h] \in OrderHold /\ holds'[h].order = holds[h].order /\ holds'[h].bound = holds[h].bound
               /\ IF h \in order_holds(o) THEN holds'[h].quantity - holds'[h].released - holds'[h].consumed = left[h]
                  ELSE holds'[h] = holds[h]
    <2>1. PICK row \in OrderHold : row = holds[h]
      BY <1>1
    <2>2. remaining(h) = row.quantity - row.released - row.consumed
          /\ {row.quantity, row.released, row.consumed} \subseteq Nat
          /\ row.consumed + row.released <= row.quantity
      BY <2>1 DEF remaining, OrderHold
    <2>3. CASE h \in order_holds(o)
      <3>1. Remaining[h] = remaining(h)
        BY <1>a DEF Remaining
      <3>2. PICK l \in Nat : l = left[h] /\ l <= remaining(h)
        BY <2>3, <3>1 DEF TakenInOrder
      <3>3. CASE l < remaining(h)
        <4>1. PICK u : u = row.quantity - row.released - row.consumed - l
          OBVIOUS
        <4>2. holds'[h] = UsedUp(row, u)
          BY <1>b, <2>1, <2>2, <2>3, <3>2, <3>3, <4>1
        <4>3. /\ UsedUp(row, u) \in OrderHold /\ UsedUp(row, u).order = row.order /\ UsedUp(row, u).bound = row.bound
              /\ UsedUp(row, u).quantity - UsedUp(row, u).released - UsedUp(row, u).consumed = l
          BY <2>2, <3>2, <4>1, HoldIsUsedUp
        <4> QED  BY <2>1, <2>3, <3>2, <4>2, <4>3
      <3>4. CASE ~(l < remaining(h))
        <4>1. holds'[h] = row
          BY <1>b, <2>1, <3>2, <3>4
        <4>2. l = row.quantity - row.released - row.consumed
          BY <2>2, <3>2, <3>4
        <4> QED  BY <2>1, <2>3, <3>2, <4>1, <4>2
      <3> QED  BY <3>3, <3>4
    <2>4. CASE h \notin order_holds(o)
      <3>1. holds'[h] = row
        BY <1>b, <2>1, <2>4
      <3> QED  BY <2>1, <2>4, <3>1
    <2> QED  BY <2>3, <2>4
  <1>3. DOMAIN holds' = 1..n /\ holds' \in [1..n -> OrderHold]
    <2>1. DOMAIN holds' = 1..n /\ holds' = [h \in 1..n |-> holds'[h]]
      BY <1>a, <1>b DEF HoldsLeft
    <2> QED  BY <1>2, <2>1
  <1>4. HoldsTyped'
    BY <1>3 DEF HoldsTyped
  <1>5. ASSUME NEW p \in Orders PROVE order_holds(p)' = order_holds(p) /\ SourceHolds(p)' = SourceHolds(p)
    BY <1>1, <1>2, <1>3 DEF order_holds, SourceHolds
  <1>6. ASSUME NEW p \in Orders \ {o} PROVE HoldSum(p)' = HoldSum(p) /\ TakenSum(p)' = TakenSum(p)
    <2>1. PICK S : S = order_holds(p) /\ S = order_holds(p)'
      BY <1>5
    <2>2. \A h \in S : h \in 1..n /\ holds'[h] = holds[h]
      BY <1>1, <1>2, <2>1 DEF order_holds
    <2>3. PICK R : R = Remaining
      OBVIOUS
    <2>4. PICK C : C = Consumed
      OBVIOUS
    <2>5. PICK R1 : R1 = Remaining'
      OBVIOUS
    <2>6. PICK C1 : C1 = Consumed'
      OBVIOUS
    <2>7. \A h \in S : R1[h] = R[h] /\ C1[h] = C[h]
      <3> SUFFICES ASSUME NEW h \in S PROVE R1[h] = R[h] /\ C1[h] = C[h]
        OBVIOUS
      <3>1. h \in DOMAIN holds /\ h \in DOMAIN holds' /\ holds'[h] = holds[h]
        BY <1>a, <1>b, <2>2
      <3>2. R[h] = holds[h].quantity - holds[h].released - holds[h].consumed /\ C[h] = holds[h].consumed
        BY <2>3, <2>4, <3>1 DEF Remaining, Consumed, remaining
      <3>3. R1[h] = holds'[h].quantity - holds'[h].released - holds'[h].consumed /\ C1[h] = holds'[h].consumed
        BY <2>5, <2>6, <3>1 DEF Remaining, Consumed, remaining
      <3> QED  BY <3>1, <3>2, <3>3
    <2>8. Total(R1, S) = Total(R, S) /\ Total(C1, S) = Total(C, S)
      BY <2>7, TotalSame
    <2> QED  BY <2>1, <2>3, <2>4, <2>5, <2>6, <2>8 DEF HoldSum, TakenSum
  <1>7. HoldSum(o)' = AtLeast(0, HoldSum(o) - q)
    <2>1. PICK S : S = order_holds(o) /\ S = order_holds(o)'
      BY <1>5
    <2>2. PICK R1 : R1 = Remaining'
      OBVIOUS
    <2>3. \A h \in S : h \in 1..n
      BY <1>1, <2>1 DEF order_holds
    <2>4. \A h \in S : R1[h] = left[h]
      BY <1>2, <1>3, <2>1, <2>2, <2>3 DEF Remaining, remaining
    <2>5. Total(R1, S) = Total(left, S)
      BY <2>4, TotalSame
    <2>6. Total(left, S) = AtLeast(0, Total(Remaining, S) - q)
      BY <2>1 DEF TakenInOrder
    <2> QED  BY <2>1, <2>2, <2>5, <2>6 DEF HoldSum
  <1> QED  BY <1>1, <1>2, <1>3, <1>4, <1>5, <1>6, <1>7

LEMMA ShipmentOfHistoryKeeps ==
    ASSUME HistoryInv, NEW k \in Storekeepers, NEW o \in Orders, post_shipment(k, o)
    PROVE  HistoryInv'
  <1>1. UNCHANGED <<source, works, script, slipped>> /\ native[o].there
    BY DEF post_shipment
  <1>2. PICK q \in 1..Ordered, left \in [order_holds(o) -> 0..Ordered] :
         /\ shipped(o) + q <= Ordered
         /\ TakenInOrder(Remaining, left, order_holds(o), q)
         /\ native' = [native EXCEPT ![o].shipped = @ + q]
         /\ holds' = HoldsLeft(o, left)
         /\ given' = [given EXCEPT ![o] = @ + q]
    BY DEF post_shipment
  <1>3. Ordered \in Nat /\ q \in Nat /\ shipped(o) + q <= Ordered /\ \A h \in order_holds(o) : left[h] \in Nat
    BY <1>2, HistoryAssumption
  <1>4. slipped \in [Orders -> Nat] /\ HoldsTyped /\ given \in [Orders -> Nat] /\ native \in [Orders -> NativeRow]
    BY DEF HistoryInv, HistoryTyped
  <1>5. /\ HoldsTyped' /\ DOMAIN holds' = DOMAIN holds /\ \A h \in DOMAIN holds : holds'[h].order = holds[h].order
        /\ \A p \in Orders : order_holds(p)' = order_holds(p) /\ SourceHolds(p)' = SourceHolds(p)
        /\ \A p \in Orders \ {o} : HoldSum(p)' = HoldSum(p) /\ TakenSum(p)' = TakenSum(p)
        /\ HoldSum(o)' = AtLeast(0, HoldSum(o) - q)
    <2>1. TakenInOrder(Remaining, left, order_holds(o), q) /\ holds' = HoldsLeft(o, left)
      BY <1>2
    <2> QED  BY <1>3, <1>4, <2>1, HoldsAreTaken
  <1>6. PICK old \in NativeRow : old = native[o]
    BY <1>4
  <1>7. native' = [native EXCEPT ![o] = [old EXCEPT !.shipped = old.shipped + q]]
    BY <1>2, <1>4, <1>6
  <1>7a. old.shipped \in Nat /\ old.shipped + q \in Nat
    BY <1>3 DEF NativeRow
  <1>8. PICK new \in NativeRow : /\ new = [old EXCEPT !.shipped = old.shipped + q] /\ new.there = old.there
                                 /\ new.opening = old.opening /\ new.shipped = old.shipped + q
    <2>1. PICK s \in Nat : s = old.shipped + q
      BY <1>7a
    <2>2. [old EXCEPT !.shipped = s] \in NativeRow /\ [old EXCEPT !.shipped = s].there = old.there
          /\ [old EXCEPT !.shipped = s].opening = old.opening /\ [old EXCEPT !.shipped = s].shipped = s
      BY DEF NativeRow
    <2> QED  BY <2>1, <2>2
  <1>9. native' \in [Orders -> NativeRow] /\ \A p \in Orders : native'[p] = IF p = o THEN new ELSE native[p]
    BY <1>4, <1>7, <1>8
  <1>10. given' \in [Orders -> Nat] /\ \A p \in Orders : given'[p] = IF p = o THEN given[o] + q ELSE given[p]
    <2>1. given' = [given EXCEPT ![o] = given[o] + q]
      BY <1>2
    <2>2. given[o] + q \in Nat
      BY <1>3, <1>4
    <2> QED  BY <1>4, <2>1, <2>2
  <1>11. DOMAIN works' = Storekeepers /\ \A j \in Storekeepers : WorkIsCurrent(works[j])'
    BY <1>1, <1>5, <1>6, <1>8, <1>9, WorkGoesOn
  <1>12. ASSUME NEW p \in Orders
         PROVE  /\ given'[p] + HoldSum(p)' <= Ordered + slipped'[p]
                /\ IF native'[p].there THEN shipped(p)' <= given'[p] /\ given'[p] <= shipped(p)' + slipped'[p]
                   ELSE slipped'[p] = 0 /\ given'[p] = source'[p].shipped + TakenSum(p)'
                        /\ (SourceHolds(p) = order_holds(p))'
    <2>1. HoldSum(p) \in Nat /\ given[p] \in Nat /\ slipped[p] \in Nat /\ given[p] + HoldSum(p) <= Ordered + slipped[p]
      BY <1>4, HoldColumns DEF HistoryInv, HistoryTyped, GoodsCounted
    <2>2. CASE p # o
      <3>1. HoldSum(p)' = HoldSum(p) /\ TakenSum(p)' = TakenSum(p) /\ given'[p] = given[p] /\ shipped(p)' = shipped(p)
        BY <1>5, <1>9, <1>10, <2>1, <2>2 DEF shipped
      <3>2. native'[p].there = native[p].there /\ order_holds(p)' = order_holds(p) /\ SourceHolds(p)' = SourceHolds(p)
        BY <1>5, <1>9, <2>2
      <3> QED  BY <1>1, <2>1, <3>1, <3>2 DEF HistoryInv, GoodsCounted
    <2>3. CASE p = o
      <3>1. shipped(o) <= given[o] /\ given[o] <= shipped(o) + slipped[o] /\ shipped(o) = old.opening + old.shipped
            /\ given'[o] = given[o] + q
        BY <1>1, <1>6, <1>10, <2>1, <2>3 DEF HistoryInv, GoodsCounted, shipped
      <3>2. shipped(o)' = old.opening + (old.shipped + q) /\ native'[o].there
        BY <1>1, <1>6, <1>8, <1>9 DEF shipped
      <3>3. old.opening \in Nat /\ old.shipped \in Nat
        BY DEF NativeRow
      <3>4. shipped(o)' <= given'[o] /\ given'[o] <= shipped(o)' + slipped[o]
        BY <1>3, <2>1, <2>3, <3>1, <3>2, <3>3
      <3>5. PICK a \in Nat : a = HoldSum(o)
        BY <2>1, <2>3
      <3>6. HoldSum(o)' = AtLeast(0, a - q)
        BY <1>5, <3>5
      <3>7. given'[o] + AtLeast(0, a - q) <= Ordered + slipped[o]
        BY <1>3, <2>1, <2>3, <3>1, <3>3, <3>5 DEF AtLeast
      <3> QED  BY <1>1, <2>3, <3>2, <3>4, <3>6, <3>7
    <2> QED  BY <2>2, <2>3
  <1>13. GoodsCounted' /\ ScriptIsCurrent'
    <2>1. \A p \in Orders : given'[p] \in Nat /\ given[p] <= given'[p] /\ native'[p].there = native[p].there
      <3> SUFFICES ASSUME NEW p \in Orders
                   PROVE  given'[p] \in Nat /\ given[p] <= given'[p] /\ native'[p].there = native[p].there
        OBVIOUS
      <3>1. native'[p].there = native[p].there
        BY <1>6, <1>8, <1>9
      <3>2. given'[p] \in Nat /\ given[p] <= given'[p]
        BY <1>3, <1>4, <1>10
      <3> QED  BY <3>1, <3>2
    <2>2. ScriptIsCurrent'
      BY <1>1, <2>1, ScriptGoesOn
    <2> QED  BY <1>12, <2>2 DEF GoodsCounted
  <1> QED  BY <1>1, <1>5, <1>9, <1>10, <1>11, <1>13 DEF HistoryInv, HistoryTyped

LEMMA ConfirmKeeps ==
    ASSUME HistoryInv, NEW k \in Storekeepers, NEW o \in Orders, confirm_order(k, o)
    PROVE  HistoryInv'
  <1>1. UNCHANGED <<source, holds, works, script, given, slipped>>
    BY DEF confirm_order
  <1>2. PICK old \in NativeRow : old = native[o]
    BY DEF HistoryInv, HistoryTyped
  <1>3. native' = [native EXCEPT ![o] = [old EXCEPT !.status = "confirmed"]]
    BY <1>2 DEF confirm_order
  <1>4. [old EXCEPT !.status = "confirmed"] \in NativeRow
    BY DEF NativeRow
  <1>5. /\ native' \in [Orders -> NativeRow]
        /\ \A p \in Orders : native'[p].there = native[p].there /\ native'[p].opening = native[p].opening
                             /\ native'[p].shipped = native[p].shipped
    BY <1>2, <1>3, <1>4 DEF HistoryInv, HistoryTyped, NativeRow
  <1>6. DOMAIN works' = Storekeepers /\ \A j \in Storekeepers : WorkIsCurrent(works[j])'
    BY <1>1, <1>5, WorkGoesOn
  <1>7. UNCHANGED <<Remaining, Consumed>> /\ \A p : order_holds(p)' = order_holds(p) /\ SourceHolds(p)' = SourceHolds(p)
    BY <1>1 DEF Remaining, Consumed, remaining, order_holds, SourceHolds
  <1>8. \A p \in Orders : HoldSum(p)' = HoldSum(p) /\ TakenSum(p)' = TakenSum(p) /\ shipped(p)' = shipped(p)
    BY <1>5, <1>7 DEF HoldSum, TakenSum, shipped
  <1>9. GoodsCounted' /\ ScriptIsCurrent' /\ HoldsTyped'
    <2>1. \A p \in Orders : given[p] \in Nat
      BY DEF HistoryInv, HistoryTyped
    <2>2. ScriptIsCurrent'
      BY <1>1, <1>5, <2>1, ScriptGoesOn
    <2> QED  BY <1>1, <1>5, <1>7, <1>8, <2>2 DEF HistoryInv, GoodsCounted, HistoryTyped, HoldsTyped
  <1> QED  BY <1>1, <1>5, <1>6, <1>9 DEF HistoryInv, HistoryTyped

LEMMA ImportReadsKeeps == ASSUME HistoryInv, ImportReads PROVE HistoryInv'
  <1>1. UNCHANGED <<source, native, past, holds, works, given, slipped>>
    BY DEF ImportReads
  <1>2. script' = [runs |-> TRUE, opening |-> [o \in {x \in Orders : ~native[x].there} |->
                     [quantity |-> source[o].shipped + Total(Consumed, SourceHolds(o)),
                      holds |-> SourceHolds(o)]]]
    BY DEF ImportReads
  <1>4. ScriptIsCurrent'
    <2>1. DOMAIN script'.opening = {o \in Orders : ~native[o].there}
      BY <1>2
    <2>2. ASSUME NEW o \in Orders, ~native[o].there
          PROVE  script'.opening[o].quantity = given[o] /\ given[o] \in Nat
      <3>1. given[o] = source[o].shipped + Total(Consumed, order_holds(o)) /\ SourceHolds(o) = order_holds(o)
        BY <2>2 DEF HistoryInv, GoodsCounted, TakenSum
      <3>2. script'.opening[o] = [quantity |-> source[o].shipped + Total(Consumed, SourceHolds(o)), holds |-> SourceHolds(o)]
        BY <1>2, <2>2
      <3>3. given[o] \in Nat
        BY DEF HistoryInv, HistoryTyped
      <3> QED  BY <3>1, <3>2, <3>3
    <2> QED  BY <1>1, <2>1, <2>2 DEF ScriptIsCurrent
  <1>5. GoodsCounted' /\ HoldsTyped'
    BY <1>1, GoodsStay
  <1>6. \A k \in Storekeepers : WorkIsCurrent(works[k])'
    BY <1>1, WorkGoesOn
  <1> QED  BY <1>1, <1>4, <1>5, <1>6 DEF HistoryInv, HistoryTyped

LEMMA NativeKeeps == ASSUME HistoryInv, import_native PROVE HistoryInv'
  <1>1. script.runs /\ script' = NotRun /\ UNCHANGED <<source, links, works, given>>
    BY DEF import_native
  <1>2. DOMAIN holds' = DOMAIN holds
    BY DEF import_native
  <1>3. ScriptIsCurrent' /\ \A k \in Storekeepers : WorkIsCurrent(works[k])'
    <2>1. ScriptIsCurrent'
      BY <1>1 DEF ScriptIsCurrent, NotRun
    <2> QED  BY <1>1, <1>2, <2>1, WorkGoesOn
  <1>4. CASE UNCHANGED <<native, holds, slipped>>
    <2>1. GoodsCounted' /\ HoldsTyped'
      BY <1>1, <1>4, GoodsStay
    <2> QED  BY <1>1, <1>3, <1>4, <2>1 DEF HistoryInv, HistoryTyped
  <1>5. CASE /\ native' = [o \in Orders |-> IF o \notin DOMAIN script.opening THEN native[o] ELSE
                  [there |-> TRUE, opening |-> script.opening[o].quantity, shipped |-> 0,
                   status |-> IF source[o].applicable THEN "confirmed" ELSE "draft"]]
             /\ holds' = [h \in DOMAIN holds |->
                  IF \E o \in DOMAIN script.opening : h \in script.opening[o].holds
                  THEN [holds[h] EXCEPT !.bound = "native"] ELSE holds[h]]
             /\ slipped' = [o \in Orders |-> IF o \notin DOMAIN script.opening THEN slipped[o]
                                            ELSE given[o] - script.opening[o].quantity]
    <2>1. PICK n \in Nat : holds \in [1..n -> OrderHold]
      BY DEF HistoryInv, HistoryTyped, HoldsTyped
    <2>2. ASSUME NEW h \in 1..n
          PROVE  /\ holds'[h] \in OrderHold /\ holds'[h].order = holds[h].order /\ holds'[h].quantity = holds[h].quantity
                 /\ holds'[h].consumed = holds[h].consumed /\ holds'[h].released = holds[h].released
      <3>1. PICK row \in OrderHold : row = holds[h]
        BY <2>1
      <3>2. holds'[h] = row \/ holds'[h] = [row EXCEPT !.bound = "native"]
        BY <1>5, <2>1, <3>1
      <3> QED  BY <3>1, <3>2 DEF OrderHold
    <2>3. DOMAIN holds' = 1..n /\ holds' \in [1..n -> OrderHold]
      <3>1. DOMAIN holds' = 1..n /\ holds' = [h \in 1..n |-> holds'[h]]
        BY <1>5, <2>1
      <3> QED  BY <2>2, <3>1
    <2>4. HoldsTyped'
      BY <2>3 DEF HoldsTyped
    <2>5. ASSUME NEW o \in Orders
          PROVE  /\ native'[o] \in NativeRow /\ native'[o].there
                 /\ slipped'[o] \in Nat /\ slipped[o] <= slipped'[o]
                 /\ native'[o].opening + native'[o].shipped <= given[o]
                 /\ given[o] <= native'[o].opening + native'[o].shipped + slipped'[o]
      <3>1. CASE native[o].there
        <4>1. native'[o] = native[o] /\ slipped'[o] = slipped[o]
          BY <1>1, <1>5, <3>1 DEF HistoryInv, ScriptIsCurrent
        <4> QED  BY <3>1, <4>1 DEF HistoryInv, HistoryTyped, GoodsCounted, shipped
      <3>2. CASE ~native[o].there
        <4>1. PICK q \in Nat : o \in DOMAIN script.opening /\ script.opening[o].quantity = q /\ q <= given[o]
          BY <1>1, <3>2 DEF HistoryInv, ScriptIsCurrent
        <4>2. native'[o] = [there |-> TRUE, opening |-> q, shipped |-> 0,
                            status |-> IF source[o].applicable THEN "confirmed" ELSE "draft"]
          BY <1>5, <4>1
        <4>3. given[o] \in Nat /\ slipped[o] = 0
          BY <3>2 DEF HistoryInv, HistoryTyped, GoodsCounted
        <4>4. slipped'[o] = given[o] - q
          BY <1>5, <4>1
        <4>5. /\ native'[o].there /\ native'[o].opening = q /\ native'[o].shipped = 0 /\ native'[o] \in NativeRow
          BY <4>2 DEF NativeRow
        <4> QED  BY <4>1, <4>3, <4>4, <4>5
      <3> QED  BY <3>1, <3>2
    <2>6. native' \in [Orders -> NativeRow] /\ slipped' \in [Orders -> Nat]
      BY <1>5, <2>5
    <2>7. ASSUME NEW o \in Orders PROVE HoldSum(o)' = HoldSum(o)
      <3>1. order_holds(o)' = order_holds(o)
        BY <2>1, <2>2, <2>3 DEF order_holds
      <3>2. PICK S : S = order_holds(o) /\ S = order_holds(o)'
        BY <3>1
      <3>3. PICK R : R = Remaining
        OBVIOUS
      <3>4. PICK R1 : R1 = Remaining'
        OBVIOUS
      <3>5. \A h \in S : h \in 1..n
        BY <2>1, <3>2 DEF order_holds
      <3>6. \A h \in S : R1[h] = R[h]
        BY <2>1, <2>2, <2>3, <3>3, <3>4, <3>5 DEF Remaining, remaining
      <3>7. Total(R1, S) = Total(R, S)
        BY <3>6, TotalSame
      <3> QED  BY <3>2, <3>3, <3>4, <3>7 DEF HoldSum
    <2>8. GoodsCounted'
      <3> SUFFICES ASSUME NEW o \in Orders
                   PROVE  /\ given'[o] + HoldSum(o)' <= Ordered + slipped'[o] /\ native'[o].there
                          /\ shipped(o)' <= given'[o] /\ given'[o] <= shipped(o)' + slipped'[o]
        BY DEF GoodsCounted
      <3>1. /\ given[o] + HoldSum(o) <= Ordered + slipped[o] /\ Ordered \in Nat /\ slipped[o] \in Nat
            /\ given[o] \in Nat /\ HoldSum(o) \in Nat
        BY HistoryAssumption, HoldColumns DEF HistoryInv, HistoryTyped, GoodsCounted
      <3>2. given'[o] + HoldSum(o)' <= Ordered + slipped'[o]
        BY <1>1, <2>5, <2>7, <3>1
      <3> QED  BY <1>1, <2>5, <3>2 DEF shipped
    <2> QED  BY <1>1, <1>3, <2>4, <2>6, <2>8 DEF HistoryInv, HistoryTyped
  <1> QED  BY <1>4, <1>5 DEF import_native

LEMMA HistoryStays == HistoryInv /\ [HistoryNext]_historyVars => HistoryInv'
  <1> SUFFICES ASSUME HistoryInv, [HistoryNext]_historyVars PROVE HistoryInv'
    OBVIOUS
  <1>1. CASE UNCHANGED historyVars
    <2>1. GoodsCounted' /\ HoldsTyped'
      BY <1>1, GoodsStay DEF historyVars
    <2>3. ScriptIsCurrent'
      BY <1>1 DEF historyVars, HistoryInv, ScriptIsCurrent
    <2>4. \A k \in Storekeepers : WorkIsCurrent(works[k])'
      BY <1>1 DEF historyVars, HistoryInv, WorkIsCurrent
    <2> QED  BY <1>1, <2>1, <2>3, <2>4 DEF historyVars, HistoryInv, HistoryTyped
  <1>2. ASSUME NEW k \in Storekeepers, SourceIsHeld(k) \/ issue(k) PROVE HistoryInv'
    BY <1>2, SourceHeldKeeps, IssueKeeps
  <1>3. ASSUME NEW k \in Storekeepers, NEW o \in Orders,
               create_reservation(k, o) \/ post_shipment(k, o) \/ confirm_order(k, o)
        PROVE  HistoryInv'
    BY <1>3, ReservationKeeps, ShipmentOfHistoryKeeps, ConfirmKeeps
  <1>4. ASSUME NEW k \in Storekeepers, NEW h \in DOMAIN holds, IssueAsked(k, h) \/ release(k, h) PROVE HistoryInv'
    BY <1>4, IssueAskedKeeps, ReleaseKeeps
  <1> QED  BY <1>1, <1>2, <1>3, <1>4, ImportReadsKeeps, NativeKeeps DEF HistoryNext

LEMMA HistoryFits == HistoryInv => PromisesFit /\ CardCountsGoods
  <1> SUFFICES ASSUME HistoryInv, NEW o \in Orders
               PROVE  /\ given[o] + HoldSum(o) <= Ordered + slipped[o]
                      /\ native[o].there => given[o] - shipped(o) \in 0..slipped[o]
    BY DEF PromisesFit, CardCountsGoods, HoldSum
  <1>1. given[o] + HoldSum(o) <= Ordered + slipped[o]
    BY DEF HistoryInv, GoodsCounted
  <1>2. given[o] \in Nat /\ slipped[o] \in Nat /\ shipped(o) \in Nat
    BY DEF HistoryInv, HistoryTyped, NativeRow, shipped
  <1>3. native[o].there => shipped(o) <= given[o] /\ given[o] <= shipped(o) + slipped[o]
    BY DEF HistoryInv, GoodsCounted
  <1> QED  BY <1>1, <1>2, <1>3

------------------------------------------------------------------------------
(* Payments.  A request id is locked from the look for its payment to the   *)
(* commit, so whoever is about to insert one is alone with it; an approval  *)
(* task outlives its draft only in the hands of who is closing it.          *)

PaymentRow ==
    [subkind : Subkinds, source : {"client", "employee", "none"}, employee : Employees \cup {NoOne},
     status : {"draft", "approved", "posted", "cancelled"}, request : RequestIds \cup {NoOne},
     line : Lines \cup {NoOne}, account : Accounts]

PaymentJob(j) ==
    /\ j.op = "create" => j.row \in PaymentRow /\ j.row.status = "draft"
    /\ j.op = "import" => /\ j.row \in PaymentRow /\ j.row.status = "draft"
                          /\ j.row.request = NoOne /\ j.row.line # NoOne

PaymentsTyped ==
    /\ made \in Nat /\ stops \in Nat
    /\ DOMAIN payments \subseteq 1..made /\ \A p \in DOMAIN payments : payments[p] \in PaymentRow
    /\ DOMAIN job = Clerks /\ \A c \in Clerks : PaymentJob(job[c])

\* Nobody else makes a payment of the request that c holds, nor is there one
AloneWith(c, request_id) ==
    request_id # NoOne =>
        /\ \A p \in DOMAIN payments : payments[p].request # request_id
        /\ \A d \in Clerks \ {c} : job[d].op = "create" => job[d].row.request # request_id

RequestsHeld == \A c \in Clerks : job[c].op = "create" => AloneWith(c, job[c].row.request)

\* Whoever is to close a task has seen its payment decided
ClosingIsDecided ==
    \A c \in Clerks : job[c].op = "close" =>
        /\ job[c].payment \in 1..made
        /\ job[c].payment \in DOMAIN payments => payments[job[c].payment].status # "draft"

PaymentsInv == PaymentsTyped /\ RequestsHeld /\ ClosingIsDecided /\ OnePaymentPerRequest /\ ApprovalsFollowDrafts

LEMMA PaymentsBegin == PaymentsInit => PaymentsInv
  <1> SUFFICES ASSUME PaymentsInit PROVE PaymentsInv
    OBVIOUS
  <1>1. DOMAIN payments = {} /\ made = 0 /\ stops = 0
    BY DEF PaymentsInit
  <1>2. DOMAIN job = Clerks /\ \A c \in Clerks : job[c].op = "idle"
    BY DEF PaymentsInit, Unasked
  <1>3. PaymentsTyped
    BY <1>1, <1>2 DEF PaymentsTyped, PaymentJob
  <1> QED  BY <1>1, <1>2, <1>3 DEF PaymentsInv, RequestsHeld, ClosingIsDecided, OnePaymentPerRequest, ApprovalsFollowDrafts

\* A request takes a step and no payment changes.
LEMMA JobKeeps ==
    ASSUME PaymentsInv, NEW c \in Clerks, NEW j, job[c].op # "close", job' = [job EXCEPT ![c] = j],
           PaymentJob(j), j.op = "create" => AloneWith(c, j.row.request), j.op # "close",
           UNCHANGED <<payments, made, approvals, submitted, stops>>
    PROVE  PaymentsInv'
  <1>1. DOMAIN job' = Clerks /\ \A d \in Clerks : job'[d] = IF d = c THEN j ELSE job[d]
    BY DEF PaymentsInv, PaymentsTyped
  <1>2. PaymentsTyped'
    BY <1>1 DEF PaymentsInv, PaymentsTyped, PaymentJob
  <1>3. RequestsHeld'
    <2> SUFFICES ASSUME NEW d \in Clerks, job'[d].op = "create", job'[d].row.request # NoOne
                 PROVE  /\ \A p \in DOMAIN payments : payments[p].request # job'[d].row.request
                        /\ \A e \in Clerks \ {d} : job'[e].op = "create" => job'[e].row.request # job'[d].row.request
      BY DEF RequestsHeld, AloneWith
    <2>1. CASE d = c
      BY <1>1, <2>1 DEF AloneWith
    <2>2. CASE d # c
      <3>1. job'[d] = job[d] /\ AloneWith(d, job[d].row.request)
        BY <1>1, <2>2 DEF PaymentsInv, RequestsHeld
      <3>2. j.op = "create" => j.row.request # job[d].row.request
        BY <2>2, <3>1 DEF AloneWith
      <3> QED  BY <1>1, <2>2, <3>1, <3>2 DEF AloneWith
    <2> QED  BY <2>1, <2>2
  <1>4. OnePaymentPerRequest'
    BY DEF PaymentsInv, OnePaymentPerRequest
  <1>5. ApprovalsFollowDrafts'
    <2>1. ASSUME NEW p, NEW d \in Clerks, job[d] = [op |-> "close", payment |-> p]
          PROVE  job'[d] = [op |-> "close", payment |-> p]
      <3>1. job[d].op = "close"
        BY <2>1
      <3> QED  BY <1>1, <2>1, <3>1
    <2> QED  BY <2>1 DEF PaymentsInv, ApprovalsFollowDrafts
  <1>6. ClosingIsDecided'
    BY <1>1 DEF PaymentsInv, ClosingIsDecided
  <1> QED  BY <1>2, <1>3, <1>4, <1>5, <1>6 DEF PaymentsInv

\* A payment changes but for its request, and the one who changes it goes on.
RowGoesTo(c, j, p, row) ==
    /\ job[c].op # "close" /\ j.op \notin {"create", "import"}
    /\ DOMAIN job' = Clerks /\ \A d \in Clerks : job'[d] = IF d = c THEN j ELSE job[d]
    /\ row \in PaymentRow /\ payments' = [payments EXCEPT ![p] = row]
    /\ row.request = payments[p].request /\ row.line = payments[p].line
    /\ j.op = "close" => j.payment = p /\ row.status # "draft"
    /\ row.status # payments[p].status =>
          row.status # "draft" /\ (payments[p].status = "draft" => j = [op |-> "close", payment |-> p])
    /\ UNCHANGED <<made, approvals, submitted, stops>>

LEMMA RowKeeps ==
    ASSUME PaymentsInv, NEW c \in Clerks, NEW j, NEW p \in DOMAIN payments, NEW row, RowGoesTo(c, j, p, row)
    PROVE  PaymentsInv'
  <1> USE DEF RowGoesTo
  <1>1. DOMAIN job' = Clerks /\ \A d \in Clerks : job'[d] = IF d = c THEN j ELSE job[d]
    OBVIOUS
  <1>2. DOMAIN payments' = DOMAIN payments /\ \A r \in DOMAIN payments : payments'[r] = IF r = p THEN row ELSE payments[r]
    OBVIOUS
  <1>3. \A r \in DOMAIN payments : payments'[r].request = payments[r].request /\ payments'[r].line = payments[r].line
    BY <1>2
  <1>4. PaymentsTyped'
    BY <1>1, <1>2 DEF PaymentsInv, PaymentsTyped, PaymentJob
  <1>5. RequestsHeld'
    BY <1>1, <1>2, <1>3 DEF PaymentsInv, RequestsHeld, AloneWith
  <1>6. OnePaymentPerRequest'
    BY <1>2, <1>3 DEF PaymentsInv, OnePaymentPerRequest
  <1>7. ASSUME NEW r, NEW d \in Clerks, job[d] = [op |-> "close", payment |-> r]
        PROVE  job'[d] = [op |-> "close", payment |-> r]
    <2>1. job[d].op = "close"
      BY <1>7
    <2> QED  BY <1>1, <1>7, <2>1
  <1>8. ApprovalsFollowDrafts'
    <2> SUFFICES ASSUME NEW r \in DOMAIN payments
                 PROVE  IF payments'[r].status = "draft" THEN payments'[r].line = NoOne => r \in approvals \cup submitted
                        ELSE r \in approvals => stops > 0 \/ \E d \in Clerks : job'[d] = [op |-> "close", payment |-> r]
      BY <1>2 DEF ApprovalsFollowDrafts
    <2>1. CASE payments'[r].status = payments[r].status
      BY <1>3, <1>7, <2>1 DEF PaymentsInv, ApprovalsFollowDrafts
    <2>2. CASE payments'[r].status # payments[r].status
      <3>1. r = p /\ payments'[p] = row
        BY <1>2, <2>2
      <3>2. CASE payments[p].status = "draft"
        BY <1>1, <2>2, <3>1, <3>2
      <3>3. CASE payments[p].status # "draft"
        BY <1>7, <2>2, <3>1, <3>3 DEF PaymentsInv, ApprovalsFollowDrafts
      <3> QED  BY <3>2, <3>3
    <2> QED  BY <2>1, <2>2
  <1>9. ClosingIsDecided'
    <2> SUFFICES ASSUME NEW d \in Clerks, job'[d].op = "close"
                 PROVE  /\ job'[d].payment \in 1..made
                        /\ job'[d].payment \in DOMAIN payments => payments'[job'[d].payment].status # "draft"
      BY <1>2 DEF ClosingIsDecided
    <2>1. CASE d = c
      <3>1. job'[d].payment = p /\ p \in 1..made /\ payments'[p].status # "draft"
        BY <1>1, <1>2, <2>1 DEF PaymentsInv, PaymentsTyped
      <3> QED  BY <3>1
    <2>2. CASE d # c
      <3>1. PICK q : q = job[d].payment /\ q = job'[d].payment
        BY <1>1, <2>2
      <3>2. q \in 1..made /\ (q \in DOMAIN payments => payments[q].status # "draft")
        BY <1>1, <2>2, <3>1 DEF PaymentsInv, ClosingIsDecided
      <3> QED  BY <1>2, <3>1, <3>2
    <2> QED  BY <2>1, <2>2
  <1> QED  BY <1>4, <1>5, <1>6, <1>8, <1>9 DEF PaymentsInv

\* A payment is made of what the request has prepared.
LEMMA InsertKeeps1 ==
    ASSUME PaymentsInv, NEW c \in Clerks, job[c].op \in {"create", "import"}, Insert(job[c].row), Finish(c),
           approvals' = approvals \cup (IF job[c].op = "create" THEN {made'} ELSE {}), submitted' = submitted, stops' = stops
    PROVE  PaymentsInv'
  <1>1. DOMAIN job' = Clerks /\ \A d \in Clerks : job'[d] = IF d = c THEN Unasked ELSE job[d]
    BY DEF PaymentsInv, PaymentsTyped, Finish, Remember
  <1>2. PICK row \in PaymentRow : row = job[c].row /\ row.status = "draft"
                                  /\ (job[c].op = "import" => row.request = NoOne /\ row.line # NoOne)
    BY DEF PaymentsInv, PaymentsTyped, PaymentJob
  <1>3. PICK n \in Nat : n = made' /\ n = made + 1
    BY DEF PaymentsInv, PaymentsTyped, Insert
  <1>4. DOMAIN payments \subseteq 1..made /\ made \in Nat /\ n \notin DOMAIN payments
    BY <1>3 DEF PaymentsInv, PaymentsTyped
  <1>5. DOMAIN payments' = DOMAIN payments \cup {n}
        /\ \A p \in DOMAIN payments' : payments'[p] = IF p = n THEN row ELSE payments[p]
    BY <1>2, <1>3 DEF Insert
  <1>6. PaymentsTyped'
    <2>1. DOMAIN payments' \subseteq 1..made'
      BY <1>3, <1>4, <1>5
    <2>2. \A p \in DOMAIN payments' : payments'[p] \in PaymentRow
      BY <1>2, <1>5 DEF PaymentsInv, PaymentsTyped
    <2>3. \A d \in Clerks : PaymentJob(job'[d])
      BY <1>1 DEF PaymentsInv, PaymentsTyped, PaymentJob, Unasked
    <2> QED  BY <1>1, <1>3, <2>1, <2>2, <2>3 DEF PaymentsInv, PaymentsTyped, PaymentJob
  <1>7. row.request # NoOne =>
            /\ \A p \in DOMAIN payments : payments[p].request # row.request
            /\ \A d \in Clerks \ {c} : job[d].op = "create" => job[d].row.request # row.request
    BY <1>2 DEF PaymentsInv, RequestsHeld, AloneWith
  <1>8. RequestsHeld'
    <2> SUFFICES ASSUME NEW d \in Clerks, job'[d].op = "create", job'[d].row.request # NoOne
                 PROVE  /\ \A p \in DOMAIN payments' : payments'[p].request # job'[d].row.request
                        /\ \A e \in Clerks \ {d} : job'[e].op = "create" => job'[e].row.request # job'[d].row.request
      BY DEF RequestsHeld, AloneWith
    <2>1. d # c /\ job'[d] = job[d] /\ AloneWith(d, job[d].row.request)
      BY <1>1 DEF Unasked, PaymentsInv, RequestsHeld
    <2>2. row.request # job[d].row.request
      BY <1>7, <2>1
    <2>3. \A e \in Clerks : job'[e].op = "create" => job'[e] = job[e]
      BY <1>1 DEF Unasked
    <2> QED  BY <1>5, <2>1, <2>2, <2>3 DEF AloneWith
  <1>9. OnePaymentPerRequest'
    BY <1>5, <1>7 DEF PaymentsInv, OnePaymentPerRequest
  <1>10. ApprovalsFollowDrafts'
    <2> SUFFICES ASSUME NEW p \in DOMAIN payments'
                 PROVE  IF payments'[p].status = "draft" THEN payments'[p].line = NoOne => p \in approvals' \cup submitted
                        ELSE p \in approvals' => stops > 0 \/ \E d \in Clerks : job'[d] = [op |-> "close", payment |-> p]
      BY DEF ApprovalsFollowDrafts
    <2>1. CASE p = n
      BY <1>2, <1>3, <1>5, <2>1
    <2>2. CASE p # n
      <3>1. p \in DOMAIN payments /\ payments'[p] = payments[p] /\ (p \in approvals' <=> p \in approvals)
        BY <1>3, <1>5, <2>2
      <3>2. ASSUME NEW d \in Clerks, job[d] = [op |-> "close", payment |-> p]
            PROVE  job'[d] = [op |-> "close", payment |-> p]
        <4>1. job[d].op = "close"
          BY <3>2
        <4> QED  BY <1>1, <3>2, <4>1
      <3> QED  BY <3>1, <3>2 DEF PaymentsInv, ApprovalsFollowDrafts
    <2> QED  BY <2>1, <2>2
  <1>11. ClosingIsDecided'
    <2> SUFFICES ASSUME NEW d \in Clerks, job'[d].op = "close"
                 PROVE  /\ job'[d].payment \in 1..made'
                        /\ job'[d].payment \in DOMAIN payments' => payments'[job'[d].payment].status # "draft"
      BY DEF ClosingIsDecided
    <2>1. job'[d] = job[d] /\ job[d].op = "close"
      BY <1>1 DEF Unasked
    <2>2. PICK q : q = job[d].payment
      OBVIOUS
    <2>3. q \in 1..made /\ (q \in DOMAIN payments => payments[q].status # "draft")
      BY <2>1, <2>2 DEF PaymentsInv, ClosingIsDecided
    <2>4. q \in 1..made' /\ q # n
      BY <1>3, <1>4, <2>3
    <2> QED  BY <1>5, <2>1, <2>2, <2>3, <2>4
  <1> QED  BY <1>6, <1>8, <1>9, <1>10, <1>11 DEF PaymentsInv

\* The look for the payment of a request, under its lock.
LEMMA CreateAskedKeeps == ASSUME PaymentsInv, NEW c \in Clerks, CreateAsked(c) PROVE PaymentsInv'
  <1>1. PICK s \in Subkinds, e \in Employees, q \in RequestIds \cup {NoOne}, a \in Accounts :
            /\ Begin(c)
            /\ q = NoOne \/ (~Held(q) /\ ~\E p \in DOMAIN payments : payments[p].request = q)
            /\ Remember(c, [op |-> "create",
                            row |-> Movement(s, RequiredSource[s],
                                             IF s = "salary_payout" THEN e ELSE NoOne, q, NoOne, a)])
            /\ UNCHANGED <<payments, made, approvals, submitted, accounts, directory, stops>>
    BY DEF CreateAsked
  <1>2. PICK row \in PaymentRow :
            /\ row = Movement(s, RequiredSource[s], IF s = "salary_payout" THEN e ELSE NoOne, q, NoOne, a)
            /\ row.status = "draft" /\ row.request = q
    <2>1. PICK src \in {"client", "employee", "none"} : src = RequiredSource[s]
      BY DEF RequiredSource, Subkinds
    <2>2. PICK w \in Employees \cup {NoOne} : w = IF s = "salary_payout" THEN e ELSE NoOne
      OBVIOUS
    <2>3. PICK l \in Lines \cup {NoOne} : l = NoOne
      OBVIOUS
    <2>4. /\ Movement(s, src, w, q, l, a) \in PaymentRow
          /\ Movement(s, src, w, q, l, a).status = "draft"
          /\ Movement(s, src, w, q, l, a).request = q
      BY DEF Movement, PaymentRow
    <2> QED  BY <2>1, <2>2, <2>3, <2>4
  <1>3. AloneWith(c, q)
    BY <1>1 DEF AloneWith, Held
  <1>4. PICK j : j = [op |-> "create", row |-> row]
    OBVIOUS
  <1>5. j.op = "create" /\ j.row = row /\ job' = [job EXCEPT ![c] = j] /\ job[c].op = "idle"
    BY <1>1, <1>2, <1>4 DEF Remember, Begin, Unasked
  <1>6. PaymentJob(j) /\ AloneWith(c, j.row.request)
    BY <1>2, <1>3, <1>5 DEF PaymentJob
  <1> QED  BY <1>1, <1>5, <1>6, JobKeeps

LEMMA ImportAskedKeeps == ASSUME PaymentsInv, NEW c \in Clerks, ImportAsked(c) PROVE PaymentsInv'
  <1>1. PICK l \in Lines, a \in Accounts, s \in Subkinds, client \in BOOLEAN, party \in Parties :
            /\ Begin(c)
            /\ Remember(c, [op |-> "import", party |-> party, known |-> directory[party] > 0,
                            row |-> Movement(s, IF client THEN "client" ELSE "none", NoOne, NoOne, l, a)])
            /\ UNCHANGED <<payments, made, approvals, submitted, accounts, directory, stops>>
    BY DEF ImportAsked
  <1>2. PICK row \in PaymentRow : /\ row = Movement(s, IF client THEN "client" ELSE "none", NoOne, NoOne, l, a)
                                  /\ row.status = "draft" /\ row.request = NoOne /\ row.line = l
    <2>1. PICK src \in {"client", "employee", "none"} : src = IF client THEN "client" ELSE "none"
      OBVIOUS
    <2>2. PICK none : none = NoOne /\ none \in Employees \cup {NoOne} /\ none \in RequestIds \cup {NoOne}
                      /\ l \in Lines \cup {NoOne}
      OBVIOUS
    <2>3. /\ Movement(s, src, none, none, l, a) \in PaymentRow
          /\ Movement(s, src, none, none, l, a).status = "draft"
          /\ Movement(s, src, none, none, l, a).request = none
          /\ Movement(s, src, none, none, l, a).line = l
      BY <2>2 DEF Movement, PaymentRow
    <2> QED  BY <2>1, <2>2, <2>3
  <1>3. l # NoOne
    BY PaymentBounds
  <1>4. PICK j : j = [op |-> "import", party |-> party, known |-> directory[party] > 0, row |-> row]
    OBVIOUS
  <1>5. j.op = "import" /\ j.row = row /\ job' = [job EXCEPT ![c] = j] /\ job[c].op = "idle"
    BY <1>1, <1>2, <1>4 DEF Remember, Begin, Unasked
  <1>6. PaymentJob(j)
    BY <1>2, <1>3, <1>5 DEF PaymentJob
  <1> QED  BY <1>1, <1>5, <1>6, JobKeeps

\* Requests that touch no payment.
LEMMA OtherAskedKeeps ==
    ASSUME PaymentsInv, NEW c \in Clerks,
           FillAsked(c) \/ CounterpartyAsked(c) \/ AccountAsked(c) \/ create_counterparty(c) \/ AccountSaved(c)
    PROVE  PaymentsInv'
  <1>1. UNCHANGED <<payments, made, approvals, submitted, stops>>
    BY DEF FillAsked, CounterpartyAsked, AccountAsked, create_counterparty, AccountSaved
  <1>2. job[c].op # "close"
    <2>1. CASE create_counterparty(c) \/ AccountSaved(c)
      BY <2>1 DEF create_counterparty, AccountSaved
    <2>2. CASE FillAsked(c) \/ CounterpartyAsked(c) \/ AccountAsked(c)
      <3>1. Begin(c)
        BY <2>2 DEF FillAsked, CounterpartyAsked, AccountAsked
      <3> QED  BY <3>1 DEF Begin, Unasked
    <2> QED  BY <2>1, <2>2
  <1>3. PICK j : j.op \notin {"create", "import", "close"} /\ job' = [job EXCEPT ![c] = j]
    <2>1. CASE FillAsked(c)
      <3>1. PICK p \in DOMAIN payments :
                Remember(c, [op |-> "fill", payment |-> p, subkind |-> payments[p].subkind, source |-> payments[p].source])
        BY <2>1 DEF FillAsked
      <3> QED  BY <3>1 DEF Remember
    <2>2. CASE CounterpartyAsked(c)
      BY <2>2 DEF CounterpartyAsked, Remember
    <2>3. CASE AccountAsked(c)
      <3>1. PICK x : x.op = "account" /\ Remember(c, x)
        <4>1. PICK a \in Accounts, default \in BOOLEAN :
                 \/ LET first == ~\E y \in Accounts : accounts[y].default /\ accounts[y].active
                        row   == [open |-> TRUE, default |-> default \/ first, active |-> TRUE]
                    IN Remember(c, [op |-> "account", account |-> a, was |-> accounts[a], row |-> row,
                                    clear |-> IF row.default THEN clear_other_defaults(a) ELSE {}])
                 \/ \E w \in AccountWrites(a) :
                       Remember(c, [op |-> "account", account |-> a, was |-> accounts[a],
                                    row |-> [open |-> TRUE, default |-> w.default, active |-> w.active],
                                    clear |-> IF w.default THEN clear_other_defaults(a) ELSE {}])
          BY <2>3 DEF AccountAsked
        <4> QED  BY <4>1
      <3> QED  BY <3>1 DEF Remember
    <2>4. CASE create_counterparty(c) \/ AccountSaved(c)
      BY <2>4 DEF create_counterparty, AccountSaved, Finish, Remember, Unasked
    <2> QED  BY <2>1, <2>2, <2>3, <2>4
  <1>4. PaymentJob(j)
    BY <1>3 DEF PaymentJob
  <1> QED  BY <1>1, <1>2, <1>3, <1>4, JobKeeps

LEMMA PaymentRowAt == ASSUME PaymentsInv, NEW p \in DOMAIN payments PROVE payments[p] \in PaymentRow
  BY DEF PaymentsInv, PaymentsTyped

LEMMA UpdatePaymentKeeps == ASSUME PaymentsInv, NEW c \in Clerks, update_money_movement(c) PROVE PaymentsInv'
  <1>1. PICK p \in DOMAIN payments, s \in Subkinds, e \in Employees \cup {NoOne} :
            LET row == payments[p] IN
            payments' = [payments EXCEPT ![p] = [row EXCEPT !.subkind = s, !.source = RequiredSource[s], !.employee = e]]
    BY DEF update_money_movement
  <1>2. Begin(c) /\ UNCHANGED <<made, approvals, submitted, job, stops>>
    BY DEF update_money_movement
  <1>3. PICK old \in PaymentRow : old = payments[p]
    BY PaymentRowAt
  <1>4. PICK row \in PaymentRow :
            /\ row = [old EXCEPT !.subkind = s, !.source = RequiredSource[s], !.employee = e]
            /\ row.request = old.request /\ row.line = old.line /\ row.status = old.status
    <2>1. PICK src \in {"client", "employee", "none"} : src = RequiredSource[s]
      BY DEF RequiredSource, Subkinds
    <2>2. PICK row : row = [old EXCEPT !.subkind = s, !.source = src, !.employee = e]
      OBVIOUS
    <2>3. row \in PaymentRow /\ row.request = old.request /\ row.line = old.line /\ row.status = old.status
      BY <2>2 DEF PaymentRow
    <2> QED  BY <2>1, <2>2, <2>3
  <1>5. payments' = [payments EXCEPT ![p] = row]
    BY <1>1, <1>3, <1>4
  <1>6. /\ job[c].op = "idle" /\ Unasked.op = "idle" /\ DOMAIN job' = Clerks
        /\ \A d \in Clerks : job'[d] = IF d = c THEN Unasked ELSE job[d]
    BY <1>2 DEF Begin, Unasked, PaymentsInv, PaymentsTyped
  <1>7. RowGoesTo(c, Unasked, p, row)
    BY <1>2, <1>3, <1>4, <1>5, <1>6 DEF RowGoesTo
  <1> QED  BY <1>7, RowKeeps

LEMMA FillKeeps == ASSUME PaymentsInv, NEW c \in Clerks, ai_fill_subkinds(c) PROVE PaymentsInv'
  <1>1. /\ job[c].op = "fill" /\ job' = [job EXCEPT ![c] = Unasked] /\ Unasked.op = "idle"
        /\ UNCHANGED <<made, approvals, submitted, stops>>
    BY DEF ai_fill_subkinds, Finish, Remember, Unasked
  <1>4. DOMAIN job' = Clerks /\ \A d \in Clerks : job'[d] = IF d = c THEN Unasked ELSE job[d]
    BY <1>1 DEF PaymentsInv, PaymentsTyped
  <1>2. CASE payments' = payments
    <2>1. PaymentJob(Unasked)
      BY DEF PaymentJob, Unasked
    <2> QED  BY <1>1, <1>2, <2>1, JobKeeps
  <1>3. CASE payments' # payments
    <2>1. PICK p \in DOMAIN payments, s \in Subkinds : payments' = [payments EXCEPT ![p].subkind = s]
      BY <1>3 DEF ai_fill_subkinds
    <2>2. PICK old \in PaymentRow : old = payments[p]
      BY PaymentRowAt
    <2>3. PICK row \in PaymentRow :
              /\ row = [old EXCEPT !.subkind = s]
              /\ row.request = old.request /\ row.line = old.line /\ row.status = old.status
      <3>1. PICK row : row = [old EXCEPT !.subkind = s]
        OBVIOUS
      <3>2. row \in PaymentRow /\ row.request = old.request /\ row.line = old.line /\ row.status = old.status
        BY <3>1 DEF PaymentRow
      <3> QED  BY <3>1, <3>2
    <2>4. payments' = [payments EXCEPT ![p] = row]
      BY <2>1, <2>2, <2>3
    <2>5. RowGoesTo(c, Unasked, p, row)
      BY <1>1, <1>4, <2>2, <2>3, <2>4 DEF RowGoesTo
    <2> QED  BY <2>5, RowKeeps
  <1> QED  BY <1>2, <1>3

LEMMA ChangeStatusKeeps == ASSUME PaymentsInv, NEW c \in Clerks, change_status(c) PROVE PaymentsInv'
  <1>1. PICK p \in DOMAIN payments : \E to \in AllowedTransitions[payments[p].status] :
            /\ Begin(c)
            /\ payments' = [payments EXCEPT ![p].status = to]
            /\ Remember(c, IF payments[p].status = "draft" THEN [op |-> "close", payment |-> p] ELSE Unasked)
            /\ UNCHANGED <<made, approvals, submitted, accounts, directory, stops>>
    BY DEF change_status
  <1>2. PICK old \in PaymentRow : old = payments[p]
    BY PaymentRowAt
  <1>3. PICK to : /\ to \in AllowedTransitions[old.status]
                  /\ payments' = [payments EXCEPT ![p].status = to]
                  /\ Remember(c, IF old.status = "draft" THEN [op |-> "close", payment |-> p] ELSE Unasked)
    BY <1>1, <1>2
  <1>4. to \in {"approved", "posted", "cancelled"}
    BY <1>3 DEF AllowedTransitions, PaymentRow
  <1>5. PICK row \in PaymentRow :
            /\ row = [old EXCEPT !.status = to]
            /\ row.request = old.request /\ row.line = old.line /\ row.status = to
    <2>1. PICK row : row = [old EXCEPT !.status = to]
      OBVIOUS
    <2>2. row \in PaymentRow /\ row.request = old.request /\ row.line = old.line /\ row.status = to
      BY <1>4, <2>1 DEF PaymentRow
    <2> QED  BY <2>1, <2>2
  <1>6. payments' = [payments EXCEPT ![p] = row]
    BY <1>2, <1>3, <1>5
  <1>7. PICK j : /\ j.op \notin {"create", "import"} /\ job' = [job EXCEPT ![c] = j]
                 /\ (old.status = "draft" => j = [op |-> "close", payment |-> p])
                 /\ (j.op = "close" => j.payment = p)
    <2>1. CASE old.status = "draft"
      <3>1. PICK j : j = [op |-> "close", payment |-> p]
        OBVIOUS
      <3>2. j.op = "close" /\ j.payment = p /\ job' = [job EXCEPT ![c] = j]
        BY <1>3, <2>1, <3>1 DEF Remember
      <3> QED  BY <2>1, <3>1, <3>2
    <2>2. CASE old.status # "draft"
      <3>1. Unasked.op = "idle" /\ job' = [job EXCEPT ![c] = Unasked]
        BY <1>3, <2>2 DEF Remember, Unasked
      <3> QED  BY <2>2, <3>1
    <2> QED  BY <2>1, <2>2
  <1>12. DOMAIN job' = Clerks /\ \A d \in Clerks : job'[d] = IF d = c THEN j ELSE job[d]
    BY <1>7 DEF PaymentsInv, PaymentsTyped
  <1>8. job[c].op # "close" /\ UNCHANGED <<made, approvals, submitted, stops>>
    BY <1>1 DEF Begin, Unasked
  <1>9. /\ j.op \notin {"create", "import"} /\ (j.op = "close" => j.payment = p /\ row.status # "draft")
        /\ IF row.status = payments[p].status THEN TRUE
           ELSE row.status # "draft" /\ (payments[p].status = "draft" => j = [op |-> "close", payment |-> p])
    BY <1>2, <1>4, <1>5, <1>7
  <1>10. row.request = payments[p].request /\ row.line = payments[p].line
    BY <1>2, <1>5
  <1>11. RowGoesTo(c, j, p, row)
    BY <1>6, <1>12, <1>8, <1>9, <1>10 DEF RowGoesTo
  <1> QED  BY <1>11, RowKeeps

LEMMA DeletePaymentKeeps == ASSUME PaymentsInv, NEW c \in Clerks, delete_money_movement(c) PROVE PaymentsInv'
  <1>1. PICK p \in DOMAIN payments : payments' = [x \in DOMAIN payments \ {p} |-> payments[x]]
    BY DEF delete_money_movement
  <1>2. DOMAIN payments' \subseteq DOMAIN payments /\ \A x \in DOMAIN payments' : payments'[x] = payments[x]
    BY <1>1
  <1>3. UNCHANGED <<made, approvals, submitted, job, stops>>
    BY DEF delete_money_movement
  <1>4. PaymentsTyped'
    BY <1>2, <1>3 DEF PaymentsInv, PaymentsTyped, PaymentJob
  <1>5. RequestsHeld'
    BY <1>2, <1>3 DEF PaymentsInv, RequestsHeld, AloneWith
  <1>6. OnePaymentPerRequest' /\ ApprovalsFollowDrafts' /\ ClosingIsDecided'
    BY <1>2, <1>3 DEF PaymentsInv, OnePaymentPerRequest, ApprovalsFollowDrafts, ClosingIsDecided
  <1> QED  BY <1>4, <1>5, <1>6 DEF PaymentsInv

LEMMA CloseTaskKeeps == ASSUME PaymentsInv, NEW c \in Clerks, close_open_link_task(c) PROVE PaymentsInv'
  <1>1. PICK q : /\ job[c].payment = q /\ approvals' = approvals \ {q} /\ job[c].op = "close"
                 /\ job' = [job EXCEPT ![c] = Unasked] /\ UNCHANGED <<payments, made, submitted, stops>>
    BY DEF close_open_link_task, Finish, Remember
  <1>2. DOMAIN job' = Clerks /\ \A d \in Clerks : job'[d] = IF d = c THEN Unasked ELSE job[d]
    BY <1>1 DEF PaymentsInv, PaymentsTyped
  <1>3. PaymentsTyped'
    BY <1>1, <1>2 DEF PaymentsInv, PaymentsTyped, PaymentJob, Unasked
  <1>4. RequestsHeld' /\ ClosingIsDecided'
    BY <1>1, <1>2 DEF PaymentsInv, RequestsHeld, AloneWith, ClosingIsDecided, Unasked
  <1>5. OnePaymentPerRequest'
    BY <1>1 DEF PaymentsInv, OnePaymentPerRequest
  <1>6. ApprovalsFollowDrafts'
    <2> SUFFICES ASSUME NEW p \in DOMAIN payments
                 PROVE  IF payments[p].status = "draft" THEN payments[p].line = NoOne => p \in approvals' \cup submitted
                        ELSE p \in approvals' => stops > 0 \/ \E d \in Clerks : job'[d] = [op |-> "close", payment |-> p]
      BY <1>1 DEF ApprovalsFollowDrafts
    <2>1. q \in DOMAIN payments => payments[q].status # "draft"
      BY <1>1 DEF PaymentsInv, ClosingIsDecided
    <2>2. CASE p = q
      BY <1>1, <2>1, <2>2
    <2>3. CASE p # q
      <3>1. ASSUME NEW d \in Clerks, job[d] = [op |-> "close", payment |-> p]
            PROVE  job'[d] = [op |-> "close", payment |-> p]
        <4>1. job[d].payment = p
          BY <3>1
        <4>2. d # c
          BY <1>1, <2>3, <4>1
        <4> QED  BY <1>2, <3>1, <4>2
      <3> QED  BY <1>1, <2>3, <3>1 DEF PaymentsInv, ApprovalsFollowDrafts
    <2> QED  BY <2>2, <2>3
  <1> QED  BY <1>3, <1>4, <1>5, <1>6 DEF PaymentsInv

\* On the board a task is done and its payment is not decided.
LEMMA SubmitKeeps == ASSUME PaymentsInv, NEW c \in Clerks, SubmitsApprovalTask(c) PROVE PaymentsInv'
  <1>1. PICK q \in approvals : /\ approvals' = approvals \ {q} /\ submitted' = submitted \cup {q}
                               /\ UNCHANGED <<payments, made, job, stops>>
    BY DEF SubmitsApprovalTask
  <1>2. approvals' \subseteq approvals /\ approvals \cup submitted \subseteq approvals' \cup submitted'
    BY <1>1
  <1>3. PaymentsTyped' /\ RequestsHeld'
    BY <1>1 DEF PaymentsInv, PaymentsTyped, PaymentJob, RequestsHeld, AloneWith
  <1>4. ClosingIsDecided' /\ OnePaymentPerRequest'
    BY <1>1 DEF PaymentsInv, ClosingIsDecided, OnePaymentPerRequest
  <1>5. ApprovalsFollowDrafts'
    BY <1>1, <1>2 DEF PaymentsInv, ApprovalsFollowDrafts
  <1> QED  BY <1>3, <1>4, <1>5 DEF PaymentsInv

\* A process that stops leaves the tasks it was about to close.
LEMMA PaymentStopKeeps == ASSUME PaymentsInv, NEW c \in Clerks, PaymentStop(c) PROVE PaymentsInv'
  <1>1. job' = [job EXCEPT ![c] = Unasked] /\ stops' = stops + 1 /\ UNCHANGED <<payments, made, approvals, submitted>>
    BY DEF PaymentStop, Finish, Remember
  <1>2. DOMAIN job' = Clerks /\ \A d \in Clerks : job'[d] = IF d = c THEN Unasked ELSE job[d]
    BY <1>1 DEF PaymentsInv, PaymentsTyped
  <1>3. stops' \in Nat /\ stops' > 0
    BY <1>1 DEF PaymentsInv, PaymentsTyped
  <1>4. PaymentsTyped'
    BY <1>1, <1>2, <1>3 DEF PaymentsInv, PaymentsTyped, PaymentJob, Unasked
  <1>5. RequestsHeld' /\ ClosingIsDecided'
    BY <1>1, <1>2 DEF PaymentsInv, RequestsHeld, AloneWith, ClosingIsDecided, Unasked
  <1>6. OnePaymentPerRequest' /\ ApprovalsFollowDrafts'
    BY <1>1, <1>3 DEF PaymentsInv, OnePaymentPerRequest, ApprovalsFollowDrafts
  <1> QED  BY <1>4, <1>5, <1>6 DEF PaymentsInv

LEMMA MakesKeep ==
    ASSUME PaymentsInv, NEW c \in Clerks, create_money_movement(c) \/ import_payments(c)
    PROVE  PaymentsInv'
  <1>1. CASE create_money_movement(c)
    BY <1>1, InsertKeeps1 DEF create_money_movement
  <1>2. CASE import_payments(c)
    BY <1>2, InsertKeeps1 DEF import_payments
  <1> QED  BY <1>1, <1>2

LEMMA PaymentsStay == PaymentsInv /\ [PaymentsNext]_paymentVars => PaymentsInv'
  <1> SUFFICES ASSUME PaymentsInv, [PaymentsNext]_paymentVars PROVE PaymentsInv'
    OBVIOUS
  <1>1. CASE UNCHANGED paymentVars
    BY <1>1 DEF paymentVars, PaymentsInv, PaymentsTyped, PaymentJob, RequestsHeld, AloneWith, ClosingIsDecided,
                OnePaymentPerRequest, ApprovalsFollowDrafts
  <1>2. CASE PaymentsNext
    <2>1. PICK c \in Clerks :
            \/ CreateAsked(c) \/ update_money_movement(c) \/ delete_money_movement(c) \/ change_status(c)
            \/ ImportAsked(c) \/ FillAsked(c) \/ CounterpartyAsked(c) \/ AccountAsked(c)
            \/ SubmitsApprovalTask(c) \/ Answers(c) \/ PaymentStop(c)
      BY <1>2 DEF PaymentsNext
    <2> QED  BY <2>1, CreateAskedKeeps, UpdatePaymentKeeps, DeletePaymentKeeps, ChangeStatusKeeps, ImportAskedKeeps,
                OtherAskedKeeps, MakesKeep, CloseTaskKeeps, SubmitKeeps, FillKeeps, PaymentStopKeeps DEF Answers
  <1> QED  BY <1>1, <1>2
==============================================================================
