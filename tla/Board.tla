------------------------------- MODULE Board -------------------------------
(***************************************************************************)
(* The board of directors (app/board): a tree of strategic nodes, the root *)
(* and the directions under it, that people edit by hand, a council of     *)
(* models edits through proposals that are accepted, and a pass over the   *)
(* data of the company refreshes.  Nothing is locked: a request reads the  *)
(* proposal and the tree, waits for the models, which takes minutes, and   *)
(* writes.  Discussions beside the tree never edit it.                     *)
(***************************************************************************)
EXTENDS Naturals, Sequences, FiniteSets, SequencesExt

CONSTANTS
    Root,
    Directions,                     \* nodes that may stand under the root
    Founding,                       \* those the seed makes
    DIRECTION_MIN, DIRECTION_MAX,   \* how many the root may have
    Directors,                      \* requests that may run at once
    MaxTexts,                       \* bound: descriptions written
    MaxSittings,                    \* bound: requests that begin
    MaxRounds                       \* bound: rounds of the council over a proposal

ASSUME BoardAssumption ==
    /\ IsFiniteSet(Directions) /\ Root \notin Directions /\ Founding \subseteq Directions
    /\ DIRECTION_MIN \in Nat /\ DIRECTION_MAX \in Nat
    /\ Cardinality(Founding) \in DIRECTION_MIN..DIRECTION_MAX
    /\ {MaxTexts, MaxSittings, MaxRounds} \subseteq Nat

VARIABLES
    tree,       \* of a node: whether it is there, its description, what its summary condenses
    texts,      \* descriptions written so far
    nodeHistory,    \* BoardNodeChange: kind, node and new description
    boardProposal,   \* a proposal about a node: its rounds' decisions and its status
    thread,     \* a discussion: the node it is pinned to, messages and replies
    boardDesks,      \* what each request is doing and has read
    sittings,   \* requests begun
    applied,    \* history: how often the proposal edited the tree
    overlapped  \* history: a request wrote after another wrote what it had read

boardVars == <<tree, texts, nodeHistory, boardProposal, thread, boardDesks, sittings, applied, overlapped>>

Nodes == {Root} \union Directions
Original == 1
NoSummary == 0
Gone == [there |-> FALSE, text |-> Original, summary |-> NoSummary]
NoProposal == [node |-> "none", rounds |-> <<>>, status |-> "none"]
NotWorking == [step |-> "idle", does |-> "none", node |-> "none", saw |-> <<>>, rounds |-> <<>>, stale |-> FALSE]

BoardInit ==
    /\ tree = [n \in Nodes |-> [Gone EXCEPT !.there = n = Root \/ n \in Founding]]
    /\ texts = Original
    /\ nodeHistory = {}
    /\ boardProposal = NoProposal
    /\ thread = [pinned |-> "none", asked |-> 0, answered |-> 0]
    /\ boardDesks = [u \in Directors |-> NotWorking]
    /\ sittings = 0
    /\ applied = 0
    /\ overlapped = FALSE

There(t) == {n \in Nodes : t[n].there}
Children(t, n) == IF n = Root THEN There(t) \ {Root} ELSE {}
New(kind, n, text) == [kind |-> kind, node |-> n, text |-> text]

\* A request reads the tree and the proposal, and begins to wait
Sits(u, does, n) ==
    /\ boardDesks[u] = NotWorking /\ sittings < MaxSittings
    /\ sittings' = sittings + 1
    /\ boardDesks' = [boardDesks EXCEPT ![u] = [step |-> "waits", does |-> does, node |-> n, saw |-> tree,
                                      rounds |-> boardProposal.rounds, stale |-> FALSE]]
    /\ UNCHANGED <<tree, texts, nodeHistory, boardProposal, thread, applied, overlapped>>

\* It leaves; if it wrote, what the others have read is no longer so
Leaves(u, wrote) ==
    /\ boardDesks' = [v \in Directors |->
                    IF v = u THEN NotWorking
                    ELSE IF wrote /\ boardDesks[v] # NotWorking THEN [boardDesks[v] EXCEPT !.stale = TRUE] ELSE boardDesks[v]]
    /\ overlapped' = (overlapped \/ (wrote /\ boardDesks[u].stale))

\* The model does not answer, or a row it was to write is gone: nothing is written
BoardFails(u) ==
    /\ boardDesks[u].step = "waits"
    /\ Leaves(u, FALSE)
    /\ UNCHANGED <<tree, texts, nodeHistory, boardProposal, thread, sittings, applied>>

update_node(u, n) == tree[n].there /\ Sits(u, "manual", n)
propose(u, n) == tree[n].there /\ boardProposal = NoProposal /\ Sits(u, "propose", n)

\* respond_to_proposal and cancel_proposal: only while it is pending
Responds(u, does) == boardProposal.status = "pending" /\ Sits(u, does, boardProposal.node)

actualize_tree(u) == Sits(u, "actualize", Root)

-----------------------------------------------------------------------------
(* Edits of nodes.  Rows are written as they were read, but for the change. *)

Busy(u, does) == boardDesks[u].step = "waits" /\ boardDesks[u].does = does

\* A description and its summary; the model may leave the summary out
Edited(t, n, text, condensed) ==
    [t EXCEPT ![n].text = text, ![n].summary = IF condensed THEN text ELSE @]

\* By hand: the summary is dropped, if there was one when the row was read
update_node_manual(u) ==
    /\ Busy(u, "manual") /\ tree[boardDesks[u].node].there /\ texts < MaxTexts
    /\ LET n == boardDesks[u].node IN
       /\ tree' = [tree EXCEPT ![n].text = texts + 1,
                               ![n].summary = IF boardDesks[u].saw[n].summary # NoSummary THEN NoSummary ELSE @]
       /\ nodeHistory' = nodeHistory \union {New("updated", n, texts + 1)}
    /\ texts' = texts + 1
    /\ Leaves(u, TRUE)
    /\ UNCHANGED <<boardProposal, thread, sittings, applied>>

\* A pass over the data edits any nodes and makes or deletes none
actualize(u) ==
    /\ Busy(u, "actualize") /\ texts < MaxTexts
    /\ \E n \in There(boardDesks[u].saw), condensed \in BOOLEAN :
        /\ tree[n].there
        /\ tree' = Edited(tree, n, texts + 1, condensed)
        /\ nodeHistory' = nodeHistory \union {New("updated", n, texts + 1)}
    /\ texts' = texts + 1
    /\ Leaves(u, TRUE)
    /\ UNCHANGED <<boardProposal, thread, sittings, applied>>

-----------------------------------------------------------------------------
(* Proposals, council.py *)

propose_change(u) ==
    /\ Busy(u, "propose") /\ tree[boardDesks[u].node].there
    /\ boardProposal' = [node |-> boardDesks[u].node, rounds |-> <<"pending">>, status |-> "pending"]
    /\ Leaves(u, TRUE)
    /\ UNCHANGED <<tree, texts, nodeHistory, thread, sittings, applied>>

BoardDecided(rounds, decision) == [rounds EXCEPT ![Len(rounds)] = decision]

\* A comment: the last round is rejected and another is held
add_round(u) ==
    /\ Busy(u, "reject") /\ boardProposal.status # "none" /\ Len(boardDesks[u].rounds) < MaxRounds
    /\ boardProposal' = [boardProposal EXCEPT !.rounds = Append(BoardDecided(boardDesks[u].rounds, "rejected"), "pending")]
    /\ Leaves(u, TRUE)
    /\ UNCHANGED <<tree, texts, nodeHistory, thread, sittings, applied>>

cancel_proposal(u) ==
    /\ Busy(u, "cancel") /\ boardProposal.status # "none"
    /\ boardProposal' = [boardProposal EXCEPT !.status = "cancelled"]
    /\ Leaves(u, TRUE)
    /\ UNCHANGED <<tree, texts, nodeHistory, thread, sittings, applied>>

\* How many children the parent would have, as it was read
Resulting(saw, parent, dropped, made) == Cardinality(Children(saw, parent)) - Cardinality(dropped) + Cardinality(made)

\* apply_structural_ops: the whole operation or none of it
apply_structural_ops(saw, parent, dropped, made) ==
    /\ parent = Root /\ dropped \subseteq Children(saw, Root)
    /\ Resulting(saw, parent, dropped, made) \in DIRECTION_MIN..DIRECTION_MAX

\* The node, one more that the cascade reaches, down or up, and the structure
\* of the root: one transaction
apply_proposal(u) ==
    /\ Busy(u, "accept") /\ boardProposal.status # "none" /\ texts < MaxTexts
    /\ LET saw == boardDesks[u].saw
           n == boardDesks[u].node
       IN \E touched \in SUBSET There(saw), dropped \in SUBSET Children(saw, Root),
             made \in SUBSET (Directions \ There(saw)), condensed \in BOOLEAN :
          /\ touched \subseteq IF n = Root THEN There(saw) ELSE {Root, n}
          /\ n \in touched /\ Cardinality(touched) <= 2
          /\ (dropped = {} /\ made = {}) \/ apply_structural_ops(saw, Root, dropped, made)
          /\ \A m \in touched \union dropped : tree[m].there
          /\ \A m \in made : ~tree[m].there
          /\ tree' = [m \in Nodes |->
                 IF m \in dropped THEN Gone
                 ELSE IF m \in made THEN [there |-> TRUE, text |-> texts + 1, summary |-> texts + 1]
                 ELSE IF m \in touched THEN Edited(tree, m, texts + 1, condensed)[m]
                 ELSE tree[m]]
          /\ nodeHistory' = nodeHistory \union {New("updated", m, texts + 1) : m \in touched}
                                \union {New("deleted", m, tree[m].text) : m \in dropped}
                                \union {New("created", m, texts + 1) : m \in made}
          /\ boardProposal' = IF boardProposal.node \in dropped THEN NoProposal
                         ELSE [boardProposal EXCEPT !.rounds = BoardDecided(boardDesks[u].rounds, "accepted"),
                                               !.status = "applied"]
          /\ applied' = IF boardProposal.node \in dropped THEN 0 ELSE applied + 1
          /\ thread' = [thread EXCEPT !.pinned = IF @ \in dropped THEN "none" ELSE @]
    /\ texts' = texts + 1
    /\ Leaves(u, TRUE)
    /\ UNCHANGED sittings

-----------------------------------------------------------------------------
(* Discussions, discussion.py *)

\* The question is committed first; the council is polled only of a pinned
\* thread, and a thread that is not gets 400 with the question kept
post_message(u, n) ==
    /\ thread.asked = 0 /\ boardDesks[u] = NotWorking
    /\ thread' = [pinned |-> IF tree[n].there THEN n ELSE "none", asked |-> 1, answered |-> 0]
    /\ UNCHANGED <<tree, texts, nodeHistory, boardProposal, boardDesks, sittings, applied, overlapped>>

_answer ==
    /\ thread.answered < thread.asked
    /\ thread' = [thread EXCEPT !.answered = @ + 1]
    /\ UNCHANGED <<tree, texts, nodeHistory, boardProposal, boardDesks, sittings, applied, overlapped>>

-----------------------------------------------------------------------------
BoardNext ==
    \/ \E u \in Directors :
        \/ \E n \in Nodes : update_node(u, n) \/ propose(u, n) \/ post_message(u, n)
        \/ \E does \in {"accept", "reject", "cancel"} : Responds(u, does)
        \/ actualize_tree(u) \/ BoardFails(u)
        \/ update_node_manual(u) \/ actualize(u)
        \/ propose_change(u) \/ add_round(u) \/ cancel_proposal(u) \/ apply_proposal(u)
    \/ _answer

BoardSpec == BoardInit /\ [][BoardNext]_boardVars

-----------------------------------------------------------------------------
\* Every description a node shows was written into its history, and a node that
\* is gone left one there (models.py, BoardNodeChange: the audit trail)
HistoryIsWhole ==
    /\ \A n \in There(tree) : tree[n].text = Original \/ \E h \in nodeHistory : h.node = n /\ h.text = tree[n].text
    /\ \A n \in Founding \ There(tree) : \E h \in nodeHistory : h.node = n /\ h.kind = "deleted"

DirectionsInRange == Cardinality(Children(tree, Root)) \in DIRECTION_MIN..DIRECTION_MAX

\* A proposal is applied once, and ends in one decision that was accepted
SettledOnce ==
    /\ applied <= 1
    /\ boardProposal.status = "applied" <=> "accepted" \in Range(boardProposal.rounds)
    /\ \A i \in DOMAIN boardProposal.rounds : boardProposal.rounds[i] # "rejected" => i = Len(boardProposal.rounds)

\* Requests that do not overlap keep the number of directions (service.py,
\* "always has between 3 and 6") and settle a proposal once
OnlyOverlapsBreak == overlapped \/ (DirectionsInRange /\ SettledOnce)

\* What overlaps, or a model that leaves it out, do break, not among the runs:
\* a summary is of the description beside it (models.py, "kept in sync")
SummariesAgree == \A n \in There(tree) : tree[n].summary \in {NoSummary, tree[n].text}
=============================================================================
