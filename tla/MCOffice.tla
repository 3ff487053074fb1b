------------------------------ MODULE MCOffice ------------------------------
(***************************************************************************)
(* Parts of the office that share no state, explored in one run of TLC: a  *)
(* behaviour is one part's, and the others stay as they begin.             *)
(***************************************************************************)
EXTENDS MCTasks, Shifts, Crm, ClientCard, Payments, StagePlan,
        Content, PriceLists, MaterialCards, Statements, SalesHistory, CrmRecords,
        Board, Feedback

CONSTANT Parts      \* the parts to explore

VARIABLE part       \* the one this behaviour is of

CONSTANTS lawyer, finance, sales1,
          log, glue, beam, shop, yard, kit,     \* of recipes: materials, warehouses, a position
          w1, w2, w3                            \* of salaries: a task and the employees

MCReviewers == lawyer :> {} @@ finance :> {lawyer} @@ sales1 :> {}
MCQuestions == [r \in Roles |-> "allow"]

\* Thresholds of a price list
MCColumns == <<0, 2, 4>>

\* Headers of statements, and the payments of the bank
MCLayouts ==
    { <<"date", "number">> \o rest : rest \in
        { <<"sum", "vat", "party", "inn">>, <<"inn", "party", "sum_of_vat", "sum", "kind">>,
          <<"expense", "income", "vat", "party">>, <<"party", "vat", "sum", "type_of_operation", "kind">>,
          <<"party", "vat", "income_or_expense", "sum">> } }
BankLine(n, way, type, inn, name, kind, client) ==
    [number |-> n, way |-> way, type |-> type, inn |-> inn, name |-> name, kind |-> kind, client |-> client]
MCBankLines ==
    { BankLine("n1", "in", "order", "i1", "x", "", TRUE), BankLine("n2", "out", "debit", "i2", "x", "rent", FALSE),
      BankLine("n3", "out", "outgoing", "i1", "y", "", FALSE), BankLine("n4", "none", "credit", "", "y", "", FALSE) }

\* Materials of two warehouses, and recipes made of them
MCHome == log :> shop @@ glue :> shop @@ beam :> yard
MCLinkedTo == kit :> {glue, beam}
MCContents == { [inputs |-> log :> 1, outputs |-> kit :> 1],
                [inputs |-> log :> 1 @@ kit :> 1, outputs |-> log :> 1] }

\* A task two employees are assigned to
MCPayroll == <<w2, w3>>
MCAssigned == w1 :> {w2, w3}

\* One of its first states is enough for a part that does not move
Still(p, first) == part # p => first

OfficeInit ==
    /\ part \in Parts
    /\ TasksInit /\ OutboxInit /\ ShiftsInit /\ CrmInit /\ PlanInit
    /\ ClientCardInit /\ Still("card", contract = NoFile)
    /\ PaymentsInit
    /\ Still("payments", accounts = [x \in Accounts |-> LET d == x = CHOOSE y \in Accounts : TRUE IN
                                        [open |-> d, default |-> d, active |-> d]])
    /\ BoardInit /\ FeedbackInit
    /\ PricesInit /\ CardsInit /\ StatementsInit
    /\ ContentInit /\ Still("content", openEdits = <<"idea">> /\ ~content.assigned)
    /\ HistoryInit
    /\ Still("history", /\ \A o \in Orders : source[o].shipped = 0 /\ source[o].applicable
                        /\ \A d \in Demands : links[d].direct = {} /\ links[d].invoices = {})
    /\ RecordsInit
    /\ Still("records", \A s \in LeadStages : board[s].pipeline = CHOOSE p \in Pipelines : TRUE)
    /\ RecipesInit /\ Still("recipes", recipe.content = CHOOSE c \in Contents : TRUE)
    /\ SalariesInit
    /\ Still("salaries", \A t \in Jobs : jobs[t].deadline = CHOOSE d \in Days : TRUE)

\* A part that does not move
Stays(p, state) == IF part = p THEN TRUE ELSE UNCHANGED state

OfficeNext ==
    /\ UNCHANGED part
    /\ Stays("tasks", vars) /\ Stays("outbox", outboxVars) /\ Stays("shifts", shiftVars)
    /\ Stays("crm", crmVars) /\ Stays("card", cardVars)
    /\ Stays("payments", paymentVars) /\ Stays("plan", planVars)
    /\ Stays("content", contentVars) /\ Stays("prices", priceVars)
    /\ Stays("materials", materialVars) /\ Stays("statements", statementVars)
    /\ Stays("history", historyVars) /\ Stays("records", recordVars)
    /\ Stays("recipes", recipeVars) /\ Stays("salaries", salaryVars)
    /\ Stays("board", boardVars)
    /\ Stays("feedback", feedbackVars)
    /\ \/ part = "tasks" /\ TasksNext
       \/ part = "outbox" /\ OutboxNext
       \/ part = "shifts" /\ ShiftsNext
       \/ part = "crm" /\ CrmNext
       \/ part = "card" /\ CardNext
       \/ part = "payments" /\ PaymentsNext
       \/ part = "plan" /\ PlanNext
       \/ part = "content" /\ ContentNext
       \/ part = "prices" /\ PricesNext
       \/ part = "materials" /\ CardsNext
       \/ part = "statements" /\ StatementsNext
       \/ part = "history" /\ HistoryNext
       \/ part = "records" /\ RecordsNext
       \/ part = "recipes" /\ RecipesNext
       \/ part = "salaries" /\ SalariesNext
       \/ part = "board" /\ BoardNext
       \/ part = "feedback" /\ FeedbackNext

officeVars == <<part, vars, outboxVars, shiftVars, crmVars,
                cardVars, paymentVars, planVars, contentVars, priceVars,
                materialVars, statementVars, historyVars, recordVars, recipeVars, salaryVars,
                boardVars, feedbackVars>>

(***************************************************************************)
(* What agents report is what they did: a message counts as sent only when *)
(* it was, and a shift without remarks had none left (agents/autonomy/     *)
(* outbox.py, agents/shift.py).                                            *)
(***************************************************************************)
AgentsReportTruly == ReportsAreTrue /\ QuietShiftsAreClean

(***************************************************************************)
(* Deals, clients, partners and their records tell the same of each other: *)
(* the board mirrors the tasks of an inquiry, an inquiry becomes one deal, *)
(* links of clients and partners hold, and who changes a card of the       *)
(* former CRM has seen it (crm/service.py, crm/importer.py,                *)
(* clients/service.py, partners/service.py).                               *)
(***************************************************************************)
ClientRecordsAgree == MirrorAgrees /\ OneDealPerInquiry /\ LinksHold /\ CardsSawTheDeal

(***************************************************************************)
(* A payment is entered once and goes the way it was meant: one for each   *)
(* request, one for each line of a statement, with the direction the bank  *)
(* wrote, one counterparty for each tax number, and the task of its        *)
(* approval as its status says (accounting/service.py, payment_import.py). *)
(***************************************************************************)
PaymentsAreTrue == /\ OnePaymentPerRequest /\ ApprovalsFollowDrafts
                   /\ DirectionsAreRead /\ OncePerLine /\ InnsAreUnique

(***************************************************************************)
(* What the books of the warehouse say of a material holds: lines and      *)
(* holds keep to the card they name, a run of a recipe changed the stock   *)
(* by what the recipe said, and what the former system shipped is neither  *)
(* shipped nor promised again, but for what requests took that the import  *)
(* overtook (warehouse/service.py, moysklad/recipes.py,                    *)
(* sales/importer.py).                                                     *)
(***************************************************************************)
StockBooksAgree == CardsAgree /\ RunsAreTrue /\ PromisesFit /\ CardCountsGoods

(***************************************************************************)
(* Histories are whole: of the nodes of the board of directors, which only *)
(* overlapping changes of its tree can break, and of what a report of a    *)
(* problem went through (board/service.py, feedback/service.py).           *)
(***************************************************************************)
HistoriesAreWhole == HistoryIsWhole /\ OnlyOverlapsBreak /\ StatusFollowsFeed

OfficeSpec == OfficeInit /\ [][OfficeNext]_officeVars
=============================================================================
