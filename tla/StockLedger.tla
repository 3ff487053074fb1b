---------------------------- MODULE StockLedger ----------------------------
(***************************************************************************)
(* What a warehouse with holds promises, with no documents, versions or    *)
(* request numbers: of each material there is a balance and there are      *)
(* promises to recipients, goods enter freely, and they are promised or    *)
(* handed out only from what is free, or from the recipient's own promise. *)
(***************************************************************************)
EXTENDS Quantities

CONSTANTS Materials,
          Recipients,   \* a finite set
          Anonymous     \* in Recipients: goods that nobody in particular waits for

VARIABLES onHand,       \* Materials -> the balance, negative only by an import
          promised      \* Materials -> Recipients -> the part of it that is spoken for

ledger == <<onHand, promised>>

Free(m) == onHand[m] - Total(promised[m], Recipients)

Init ==
    /\ onHand \in [Materials -> Int]
    /\ promised = [m \in Materials |-> [r \in Recipients |-> 0]]

Keep(m) == onHand'[m] = onHand[m] /\ promised'[m] = promised[m]

Enter(m) == onHand'[m] > onHand[m] /\ promised'[m] = promised[m]

Promise(m) ==
    \E r \in Recipients :
        LET q == promised'[m][r] - promised[m][r] IN
        /\ q > 0 /\ q <= Free(m)
        /\ promised'[m] = [promised[m] EXCEPT ![r] = @ + q]
        /\ onHand'[m] = onHand[m]

Withdraw(m) ==
    \E r \in Recipients :
        LET q == promised[m][r] - promised'[m][r] IN
        /\ q > 0
        /\ promised'[m] = [promised[m] EXCEPT ![r] = @ - q]
        /\ onHand'[m] = onHand[m]

\* Hand out part[r] to each recipient r.  A recipient on file is served from its own
\* promise first; an anonymous one may be served by a promise or past it.
HandOut(m) ==
    LET out == onHand[m] - onHand'[m]
        own == [r \in Recipients |-> promised[m][r] - promised'[m][r]]
    IN
    /\ out > 0
    /\ \A r \in Recipients : own[r] >= 0
    /\ promised'[m] \in [Recipients -> Nat]
    /\ Total(own, Recipients) <= out
    /\ out <= Free(m) + Total(own, Recipients)
    /\ \E part \in [Recipients -> 0 .. out] :
          /\ Total(part, Recipients) = out
          /\ \A r \in Recipients :
                IF r = Anonymous THEN own[r] <= part[r]
                ELSE own[r] = AtMost(part[r], promised[m][r])

Next ==
    \A m \in Materials : Keep(m) \/ Enter(m) \/ Promise(m) \/ Withdraw(m) \/ HandOut(m)

Spec == Init /\ [][Next]_ledger
=============================================================================
