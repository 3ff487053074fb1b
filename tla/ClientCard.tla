------------------------------ MODULE ClientCard ------------------------------
(***************************************************************************)
(* What stands on the card of a client besides his stage: the contract and *)
(* who has checked it, the chats of MAX that are his, the partner who      *)
(* recommended him, and the inquiries from the site that find or create    *)
(* the card (app/clients, app/partners).                                   *)
(*                                                                         *)
(* Every operation reads, checks and writes without a lock; a session that *)
(* assigns the value a column had when it was read writes nothing.         *)
(***************************************************************************)
EXTENDS Integers, FiniteSets

CONSTANTS
    Staff,          \* employees with the right to edit clients
    Editors,        \* requests served at the same time
    Cards,          \* clients
    Partners,
    MaxFiles,       \* bound: files ever attached as the contract
    MaxCardEdits        \* bound: what the requests begin

NoPerson == "nobody"
Marina == "marina"      \* the assistant: its contract is a draft

ASSUME ClientCardAssumption ==
    /\ MaxFiles \in Nat /\ MaxCardEdits \in Nat
    /\ {NoPerson, Marina} \cap Staff = {} /\ Cards \cap Partners = {}

VARIABLES
    contract,       \* the file, its uploader and source, the mark of the check
    locked,         \* documents_locked_at is set
    chatOf,         \* who the chat is linked to, among clients and partners
    referrer,       \* referrer_partner_id of a client, or NoPerson
    partners,       \* partners in the base
    found,          \* clients with the contact of the inquiry
    unprocessed,    \* the inquiry waits to be taken
    sales,          \* inquiries registered with sales
    editor,         \* what each request is doing
    cardEdits

cardVars == <<contract, locked, chatOf, referrer, partners, found, unprocessed, sales, editor, cardEdits>>

NoMark   == [by |-> NoPerson, file |-> 0]
NoFile   == [file |-> 0, by |-> NoPerson, source |-> "none", required |-> FALSE, mark |-> NoMark]
NotEditing == [op |-> "none", seen |-> NoPerson, who |-> NoPerson, file |-> 0]

\* A contract may have been attached before checks were introduced
ClientCardInit ==
    /\ contract \in {NoFile, [NoFile EXCEPT !.file = 1, !.by = CHOOSE u \in Staff : TRUE]}
    /\ locked = FALSE /\ chatOf = {} /\ referrer = NoPerson /\ partners = Partners
    /\ found = 0 /\ unprocessed = FALSE /\ sales = 0
    /\ editor = [e \in Editors |-> NotEditing]
    /\ cardEdits = MaxCardEdits

Reads(e, columns) ==
    /\ editor[e] = NotEditing /\ cardEdits > 0
    /\ editor' = [editor EXCEPT ![e] = columns] /\ cardEdits' = cardEdits - 1
    /\ UNCHANGED <<contract, locked, chatOf, referrer, partners, found, unprocessed, sales>>

Writes(e, op) == editor[e].op = op /\ editor' = [editor EXCEPT ![e] = NotEditing] /\ UNCHANGED cardEdits

------------------------------------------------------------------------------
(* The contract                                                            *)

\* An upload of an employee, or a text that Marina wrote and attached
set_contract_files(e, who) == ~locked /\ contract.file < MaxFiles /\ 
    Reads(e, [NotEditing EXCEPT !.op = "attach", !.who = who, !.seen = contract.mark.by])

Attached(e) ==
    LET who == editor[e].who IN
    /\ Writes(e, "attach") /\ contract.file < MaxFiles
    /\ contract' = [file |-> contract.file + 1, by |-> who, required |-> TRUE,
                    source |-> IF who = Marina THEN "generated" ELSE "uploaded",
                    mark |-> IF editor[e].seen = NoPerson THEN contract.mark ELSE NoMark]
    /\ UNCHANGED <<locked, chatOf, referrer, partners, found, unprocessed, sales>>

\* One's own upload is for another employee to check, if there is one
MayVerify(who) ==
    /\ contract.file # 0 /\ contract.source # "generated"
    /\ contract.by = who => Staff = {who}

verify_contract_document(e, who) ==
    MayVerify(who) /\ 
    Reads(e, [NotEditing EXCEPT !.op = "verify", !.who = who, !.file = contract.file])

Verified(e) ==
    /\ Writes(e, "verify")
    /\ contract' = [contract EXCEPT !.mark = [by |-> editor[e].who, file |-> editor[e].file]]
    /\ UNCHANGED <<locked, chatOf, referrer, partners, found, unprocessed, sales>>

_contract_gate_error ==
    \/ contract.file = 0 \/ contract.source = "generated"
    \/ contract.required /\ contract.mark = NoMark

\* The client leaves "approval", which locks the documents
LeaveApproval(e) == ~locked /\ ~_contract_gate_error /\ Reads(e, [NotEditing EXCEPT !.op = "lock"])

Locked(e) ==
    /\ Writes(e, "lock") /\ locked' = TRUE
    /\ UNCHANGED <<contract, chatOf, referrer, partners, found, unprocessed, sales>>

------------------------------------------------------------------------------
(* Chats and partners                                                      *)

\* Both tables are looked up before either is written
create_chat_link(e, who) ==
    /\ who \in Cards \/ who \in partners
    /\ chatOf = {} /\ Reads(e, [NotEditing EXCEPT !.op = "link", !.who = who])

\* uq_client_chat_links_max_chat_id and uq_partner_chat_links_max_chat_id
SameTable(who) == IF who \in Cards THEN Cards ELSE Partners

Linked(e) ==
    LET who == editor[e].who IN
    /\ Writes(e, "link")
    /\ chatOf' = IF chatOf \cap SameTable(who) = {} /\ who \in Cards \cup partners
                 THEN chatOf \cup {who} ELSE chatOf
    /\ UNCHANGED <<contract, locked, referrer, partners, found, unprocessed, sales>>

delete_chat_link(who) ==
    /\ cardEdits > 0 /\ who \in chatOf /\ chatOf' = chatOf \ {who} /\ cardEdits' = cardEdits - 1
    /\ UNCHANGED <<contract, locked, referrer, partners, found, unprocessed, sales, editor>>

\* _clean_source finds the partner before the client is written
update_source(e, p) == p \in partners \cup {NoPerson} /\ Reads(e, [NotEditing EXCEPT !.op = "source", !.who = p])

\* The foreign key refuses a partner who is not there any more
Recommended(e) ==
    /\ Writes(e, "source")
    /\ referrer' = IF editor[e].who \in partners \cup {NoPerson} THEN editor[e].who ELSE referrer
    /\ UNCHANGED <<contract, locked, chatOf, partners, found, unprocessed, sales>>

delete_partner(e, p) == p \in partners /\ referrer # p /\ Reads(e, [NotEditing EXCEPT !.op = "delete", !.who = p])

\* RESTRICT; the links of the partner's chats go with him
PartnerDeleted(e) ==
    LET p == editor[e].who IN
    /\ Writes(e, "delete")
    /\ IF referrer = p THEN UNCHANGED <<partners, chatOf>>
       ELSE partners' = partners \ {p} /\ chatOf' = chatOf \ {p}
    /\ UNCHANGED <<contract, locked, referrer, found, unprocessed, sales>>

------------------------------------------------------------------------------
(* Inquiries                                                               *)

\* find_client_by_contact, and the flag of the client it finds
intake_lead(e) ==
    Reads(e, [NotEditing EXCEPT !.op = "intake", !.seen =
                 IF found = 0 THEN "new" ELSE IF unprocessed THEN "waits" ELSE "taken"])

\* Client, request and the entry with sales in one transaction
TakenIn(e) ==
    /\ Writes(e, "intake")
    /\ found' = IF editor[e].seen = "new" THEN found + 1 ELSE found
    /\ unprocessed' = (unprocessed \/ editor[e].seen # "waits")
    /\ sales' = sales + 1
    /\ UNCHANGED <<contract, locked, chatOf, referrer, partners>>

\* "Take", or anything else an employee does with the lead
take_lead ==
    /\ cardEdits > 0 /\ unprocessed /\ unprocessed' = FALSE /\ cardEdits' = cardEdits - 1
    /\ UNCHANGED <<contract, locked, chatOf, referrer, partners, found, sales, editor>>

\* The contact of one card is changed to that of another, if it is nobody's
update_basic(e) == found = 0 /\ Reads(e, [NotEditing EXCEPT !.op = "basic"])

BasicUpdated(e) ==
    /\ Writes(e, "basic") /\ found' = found + 1
    /\ UNCHANGED <<contract, locked, chatOf, referrer, partners, unprocessed, sales>>

CardNext ==
    \/ take_lead
    \/ \E who \in Cards \cup Partners : delete_chat_link(who)
    \/ \E e \in Editors :
         \/ \E who \in Staff \cup {Marina} : set_contract_files(e, who)
         \/ \E who \in Staff : verify_contract_document(e, who)
         \/ LeaveApproval(e) \/ intake_lead(e) \/ update_basic(e)
         \/ \E who \in Cards \cup Partners : create_chat_link(e, who)
         \/ \E p \in Partners \cup {NoPerson} : update_source(e, p)
         \/ \E p \in Partners : delete_partner(e, p)
         \/ Attached(e) \/ Verified(e) \/ Locked(e) \/ Linked(e) \/ Recommended(e)
         \/ PartnerDeleted(e) \/ TakenIn(e) \/ BasicUpdated(e)

CardSpec == ClientCardInit /\ [][CardNext]_cardVars

------------------------------------------------------------------------------
(***************************************************************************)
(* Whatever was looked up before, a chat is one client's and one partner's *)
(* at most, and the partner who recommended a client, or whose a chat is,  *)
(* is in the base.                                                         *)
(***************************************************************************)
LinksHold ==
    /\ Cardinality(chatOf \cap Cards) <= 1 /\ Cardinality(chatOf \cap Partners) <= 1
    /\ chatOf \cap Partners \subseteq partners
    /\ referrer \in partners \cup {NoPerson}

(***************************************************************************)
(* partners/service.py: a chat cannot be a partner's and a client's.       *)
(***************************************************************************)
ChatHasOneOwner == Cardinality(chatOf) <= 1

(***************************************************************************)
(* _mark_contract_document_replaced: the mark of a former file is not one  *)
(* of the new file.                                                        *)
(***************************************************************************)
MarksAreOfTheFile == contract.mark # NoMark => contract.mark.file = contract.file
=============================================================================
