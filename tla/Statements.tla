----------------------------- MODULE Statements -----------------------------
(***************************************************************************)
(* The import of a bank statement (accounting: payment_import.py,          *)
(* service.import_payments and the handlers of router.py).  A table is     *)
(* read, its columns are told apart by a language model or by a dictionary *)
(* of words their headers contain, and every line becomes a draft payment  *)
(* with its counterparty, unless the account has it already.  A bank       *)
(* writes the direction of a payment in one of three forms: the sign of    *)
(* the sum, a column of its own, or a pair of columns.                     *)
(***************************************************************************)
EXTENDS Naturals, FiniteSets, SequencesExt

CONSTANTS
    Layouts,        \* the rows of headers a statement may have
    BankLines,      \* payments of the bank: [number, way, type, inn, name, kind, client]
    MAX_DATA_ROWS,  \* lines of a table that are read
    MaxRows,        \* bound: lines of a table
    MaxUploads      \* bound: tables, and payments people settle

ASSUME StatementsAssumption == MAX_DATA_ROWS \in Nat /\ Layouts \subseteq Seq(STRING)

VARIABLES
    upload,         \* the table that is being imported
    bankPayments,       \* payments of the account, in the order they were made
    parties,      \* counterparties: [inn, name]
    backfills,      \* tasks to fill in what an import left open
    uploads         \* counter of the bound

statementVars == <<upload, bankPayments, parties, backfills, uploads>>

Blank == ""
NoUpload == [stage |-> "none"]

StatementsInit ==
    /\ upload = NoUpload
    /\ bankPayments = <<>>
    /\ parties = <<>>
    /\ backfills = 0
    /\ uploads = 0

-----------------------------------------------------------------------------
(* The columns *)

\* In the order of the dictionary: a field takes the first header that is left
Fields == <<"counterparty_inn", "payment_purpose", "doc_date", "counterparty", "external_number",
            "tax", "subkind", "direction_col", "amount_debit", "amount_credit", "amount">>

\* The fields whose words a header contains
HEURISTIC_SYNONYMS ==
    [ inn |-> {"counterparty_inn", "counterparty"}, party |-> {"counterparty"},
      date |-> {"doc_date"}, number |-> {"external_number"}, purpose |-> {"payment_purpose"},
      vat |-> {"tax"}, sum_of_vat |-> {"tax", "amount"}, sum |-> {"amount"}, kind |-> {"subkind"},
      type_of_operation |-> {"direction_col"}, kind_of_operation |-> {"subkind", "direction_col"},
      income_or_expense |-> {"direction_col", "amount_debit", "amount_credit"},
      income |-> {"amount_credit"}, expense |-> {"amount_debit"} ]

_heuristic_mapping(headers) ==
    LET Fits(f, h) == f \in HEURISTIC_SYNONYMS[h] /\ ~(f = "amount" /\ h = "sum_of_vat")
        Take(m, f) == LET left == SelectSeq(headers, LAMBDA h : Fits(f, h) /\ h \notin Range(m))
                      IN IF left = <<>> THEN m ELSE [m EXCEPT ![f] = Head(left)]
    IN FoldLeft(Take, [f \in Range(Fields) |-> Blank], Fields)

\* The model finds the columns the dictionary finds, but for one at most, which it misses
\* or takes for another that could be it; a header the table does not have counts for nothing
_ai_mapping(headers) ==
    UNION {{[_heuristic_mapping(headers) EXCEPT ![f] = h] :
               h \in {x \in Range(headers) : f \in HEURISTIC_SYNONYMS[x]} \union {Blank}} : f \in Range(Fields)}

has_amount(m) == m.amount # Blank \/ (m.amount_debit # Blank /\ m.amount_credit # Blank)
has_direction_signal(m) == has_amount(m) \/ m.direction_col # Blank

missing_critical(m) ==
    \/ ~has_amount(m) \/ ~has_direction_signal(m)
    \/ \E f \in {"doc_date", "counterparty", "tax", "external_number"} : m[f] = Blank

-----------------------------------------------------------------------------
(* The lines *)

TypeColumns == {"type_of_operation", "kind_of_operation", "income_or_expense"}
Paired(headers) == {"income", "expense"} \subseteq Range(headers)
Typed(headers) == TypeColumns \intersect Range(headers) # {}

\* Words of income and of expense a text contains, anywhere in it: "outgoing" has
\* "out" and "in", the name of a document has none
_WORDS == [credit |-> {"in"}, debit |-> {"out"}, outgoing |-> {"in", "out"}, order |-> {}]
words(text) == IF text \in DOMAIN _WORDS THEN _WORDS[text] ELSE {}

\* What the bank writes: the sum has a sign only where nothing else shows the direction
cell(l, h, headers) ==
    CASE h = Blank -> ""
      [] h = "sum" -> IF l.way = "none" THEN "" ELSE
                      IF l.way = "out" /\ ~Paired(headers) /\ ~(Typed(headers) /\ words(l.type) # {})
                  THEN "minus" ELSE "plus"
      [] h = "income" -> IF l.way = "in" THEN "plus" ELSE "zero"
      [] h = "expense" -> IF l.way = "out" THEN "plus" ELSE "zero"
      [] h \in TypeColumns -> l.type
      [] h \in {"sum_of_vat", "vat"} -> "tax"
      [] h = "kind" -> l.kind
      [] h = "inn" -> l.inn
      [] h = "party" -> l.name
      [] OTHER -> "text"

_to_number(text) == IF text \in {"plus", "minus", "tax", "zero"} THEN text ELSE Blank

Amount(text, direction) ==
    [amount |-> IF text = "zero" THEN "zero" ELSE IF text = "tax" THEN "tax" ELSE "whole", direction |-> direction]
Unread == [amount |-> Blank, direction |-> "out"]

\* Words of income are looked for before those of expense
_row_amount_direction(l, m, headers) ==
    LET Number(f) == _to_number(cell(l, m[f], headers))
        type == words(cell(l, m.direction_col, headers))
    IN IF m.amount_debit # Blank /\ m.amount_credit # Blank
       THEN IF Number("amount_credit") \notin {Blank, "zero"} THEN Amount(Number("amount_credit"), "in")
            ELSE IF Number("amount_debit") \notin {Blank, "zero"} THEN Amount(Number("amount_debit"), "out")
            ELSE Unread
       ELSE IF Number("amount") = Blank THEN Unread
       ELSE Amount(Number("amount"),
                   IF "in" \in type THEN "in" ELSE IF "out" \in type THEN "out"
                   ELSE IF Number("amount") = "minus" THEN "out" ELSE "in")

KindsOf == [in |-> {"sale_income", "other_income"}, out |-> {"rent", "tax_payment", "other_expense"}]
_direction_for(kind) == IF kind \in KindsOf["in"] THEN "in" ELSE "out"
_PRELIMINARY == [in |-> "other_income", out |-> "other_expense"]
subkind_from_text(text) == IF text \in KindsOf["in"] \union KindsOf["out"] THEN text ELSE Blank

build_rows(headers, data, m) ==
    LET Built(l) == LET read == _row_amount_direction(l, m, headers)
                        Text(f) == cell(l, m[f], headers)
                    IN [line |-> l, amount |-> read.amount, direction |-> read.direction,
                        number |-> IF m.external_number = "number" THEN l.number ELSE Text("external_number"),
                        name |-> Text("counterparty"), inn |-> Text("counterparty_inn"),
                        kind |-> subkind_from_text(Text("subkind"))]
    IN SelectSeq([i \in DOMAIN data |-> Built(data[i])], LAMBDA row : row.amount # Blank)

-----------------------------------------------------------------------------
(* The books *)

\* A party is known by its number, or by its name, which then gets the number
match_or_create_counterparty(known, name, inn) ==
    LET byInn  == {i \in DOMAIN known : inn # Blank /\ known[i].inn = inn}
        byName == {i \in DOMAIN known : name # Blank /\ known[i].name = name}
        First(s) == CHOOSE i \in s : \A j \in s : i <= j
    IN IF byInn # {} THEN [known |-> known, id |-> First(byInn)]
       ELSE IF name = Blank THEN [known |-> known, id |-> 0]
       ELSE IF byName # {}
       THEN [known |-> IF known[First(byName)].inn = Blank THEN [known EXCEPT ![First(byName)].inn = inn] ELSE known,
             id |-> First(byName)]
       ELSE [known |-> Append(known, [inn |-> inn, name |-> name]), id |-> Len(known) + 1]

_duplicate_movement_exists(made, row) ==
    \E i \in DOMAIN made : made[i].number = row.number /\ made[i].amount = row.amount

\* The one kind all posted payments of the party had, if it says anything
_settled_subkind_for(made, party, direction) ==
    LET kinds == {made[i].kind : i \in {j \in DOMAIN made :
                     made[j].party = party /\ made[j].direction = direction /\ made[j].posted}}
    IN IF Cardinality(kinds) = 1 THEN kinds \ {_PRELIMINARY[direction]} ELSE {}

KindOf(made, row, party) ==
    LET settled == IF party = 0 THEN {} ELSE _settled_subkind_for(made, party, row.direction)
    IN IF row.kind # Blank THEN row.kind
       ELSE IF row.line.client /\ row.direction = "in" THEN "sale_income"
       ELSE IF settled # {} THEN CHOOSE k \in settled : TRUE
       ELSE _PRELIMINARY[row.direction]

\* One line after another, each sees what the ones before it made
Imported(made, known, rows, ai) ==
    LET Add(books, row) ==
            IF _duplicate_movement_exists(books.made, row)
            THEN [books EXCEPT !.duplicates = @ + 1]
            ELSE LET party == match_or_create_counterparty(books.known, row.name, row.inn)
                     kind  == KindOf(books.made, row, party.id)
                 IN [books EXCEPT
                       !.known = party.known,
                       !.made = Append(@, [line |-> row.line, number |-> row.number, amount |-> row.amount,
                                           direction |-> _direction_for(kind), kind |-> kind,
                                           party |-> party.id, posted |-> FALSE, ai |-> ai])]
    IN FoldLeft(Add, [made |-> made, known |-> known, duplicates |-> 0], rows)

-----------------------------------------------------------------------------
(* Requests *)

UploadAsked == uploads < MaxUploads /\ uploads' = uploads + 1

\* Of a longer table the first lines are read, and nothing is said of the others
read_table ==
    /\ UploadAsked
    /\ upload.stage \in {"none", "done", "refused"}
    /\ \E headers \in Layouts, n \in 1..MaxRows : \E file \in [1..n -> BankLines] :
        upload' = [stage |-> "read", headers |-> headers, file |-> file,
                   data |-> SubSeq(file, 1, IF n < MAX_DATA_ROWS THEN n ELSE MAX_DATA_ROWS)]
    /\ UNCHANGED <<bankPayments, parties, backfills>>

resolve_mapping ==
    /\ upload.stage = "read"
    /\ \E m \in _ai_mapping(upload.headers) :
        upload' = IF missing_critical(m) THEN [stage |-> "refused"]
                  ELSE [stage |-> "mapped", headers |-> upload.headers, file |-> upload.file,
                        data |-> upload.data, mapping |-> m, ai |-> m # _heuristic_mapping(upload.headers)]
    /\ UNCHANGED <<bankPayments, parties, backfills, uploads>>

import_statement ==
    /\ upload.stage = "mapped"
    /\ LET rows  == build_rows(upload.headers, upload.data, upload.mapping)
           books == Imported(bankPayments, parties, rows, upload.ai)
       IN /\ bankPayments' = books.made
          /\ parties' = books.known
          /\ upload' = [stage |-> "done", skipped |-> Len(upload.data) - Len(rows),
                        imported |-> Len(books.made) - Len(bankPayments), duplicates |-> books.duplicates,
                        rows |-> Len(upload.file)]
    /\ UNCHANGED <<backfills, uploads>>

\* Somebody settles the kind of a draft and posts it
settle(i) ==
    /\ UploadAsked
    /\ ~bankPayments[i].posted
    /\ \E way \in {"in", "out"} : \E kind \in KindsOf[way] :
        bankPayments' = [bankPayments EXCEPT ![i].kind = kind, ![i].direction = way, ![i].posted = TRUE]
    /\ UNCHANGED <<upload, parties, backfills>>

create_import_backfill_task ==
    /\ UploadAsked
    /\ upload.stage = "done" /\ upload.imported > 0
    /\ backfills' = backfills + 1
    /\ UNCHANGED <<upload, bankPayments, parties>>

StatementsNext ==
    \/ read_table \/ resolve_mapping \/ import_statement \/ create_import_backfill_task
    \/ \E i \in DOMAIN bankPayments : settle(i)

StatementsSpec == StatementsInit /\ [][StatementsNext]_statementVars

-----------------------------------------------------------------------------
(* A draft that the dictionary read has the direction the bank gave it, in *)
(* whichever form the bank writes it (_row_amount_direction): nothing is   *)
(* booked the wrong way round, but for an expense whose type has a word of *)
(* income in it.  It takes the order of the dictionary, the precedence of  *)
(* the pair and of the column, and the kind of the payment.                *)
ReadsAsIncome(l) == l.way = "out" /\ "in" \in words(l.type)

DirectionsAreRead ==
    \A i \in DOMAIN bankPayments :
        \/ bankPayments[i].posted \/ bankPayments[i].ai \/ ReadsAsIncome(bankPayments[i].line)
        \/ bankPayments[i].direction = bankPayments[i].line.way

(* Not so: every direction is read.  "outgoing" is taken for income.       *)
EveryDirectionIsRead ==
    \A i \in DOMAIN bankPayments :
        bankPayments[i].posted \/ bankPayments[i].ai \/ bankPayments[i].direction = bankPayments[i].line.way

(* A line of the bank is one payment however often its statement is loaded *)
(* (import_payments: "повторная загрузка того же файла на тот же счёт      *)
(* дублей не плодит"), as long as its sum was read from the same column.   *)
OncePerLine ==
    \A i, j \in DOMAIN bankPayments :
        bankPayments[i].number = bankPayments[j].number /\ bankPayments[i].amount = bankPayments[j].amount => i = j

(* A taxpayer number is one row of the directory, whatever statements were *)
(* loaded one after another (match_or_create_counterparty).                *)
InnsAreUnique ==
    \A i, j \in DOMAIN parties : parties[i].inn = parties[j].inn => i = j \/ parties[i].inn = Blank

(* Not so: the kinds and the lines of a table are all accounted for.       *)
EveryLineIsReported ==
    upload.stage = "done" => upload.imported + upload.skipped + upload.duplicates = upload.rows

(* Not so: a payment with a taxpayer number is booked on the row that has  *)
(* it.  A row of the same name with another number takes it.               *)
PartyHasTheNumber ==
    \A i \in DOMAIN bankPayments :
        bankPayments[i].line.inn # Blank /\ bankPayments[i].party # 0 /\ ~bankPayments[i].ai
            => parties[bankPayments[i].party].inn \in {bankPayments[i].line.inn}
=============================================================================
