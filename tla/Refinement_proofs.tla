-------------------------- MODULE Refinement_proofs --------------------------
(* The payment core implements the ledger it promises: every step of Billing  *)
(* is a step of Ledger, seen through the mapping of Promise, or a stutter.    *)
EXTENDS Billing_proofs

USE BillingAssumption

-----------------------------------------------------------------------------
LEMMA InitPromised == Init => Promise!Init
<1> SUFFICES ASSUME Init PROVE Promise!Init
  OBVIOUS
<1>1. [i \in Invoices |-> Owed(i)] = [i \in Invoices |-> 0]
  BY DEF Init, Owed, Effective, Confirmed
<1>2. [i \in Invoices |-> charges[i] > 0] = [i \in Invoices |-> FALSE]
  <2>1. \A i \in Invoices : (charges[i] > 0) = FALSE
    BY DEF Init
  <2> QED
    BY <2>1
<1> QED
  BY <1>1, <1>2 DEF Init, Promise!Init

\* A commit settles its invoice at the sum the ledger then shows, and executes
\* the intent in the same step.
LEMMA CommitSettlesPromise ==
  ASSUME SumInv, [Next]_vars, NEW p \in Procs, Commit(p),
         NEW i \in Invoices, i = op[p].inv
  PROVE  Promise!Settle(i)
<1> DEFINE o == op[p]
           u == Owner[i]
<1>1. /\ u \in Users /\ TypeOK
      /\ o \in Locals
      /\ Credit(o) \in Nat /\ Charge(o) \in {0, Price}
  BY SettlementTypes DEF SumInv, MoneyInv, TypeOK, Locals
<1>2. /\ o.bal = balance[u] /\ o.sub = subs[u]
      /\ o.credited = deposits[i] /\ (o.charged <=> charges[i] > 0)
  BY DEF SumInv, MoneyInv, LocalsFresh, Commit, HoldsUser
<1>3. /\ deposits[i] \in Nat /\ balance[u] \in Int /\ Owed(i) \in Nat
      /\ deposits[i] <= Owed(i)
  BY <1>1, OwedGrows DEF SumInv, Sums, NoOvercredit, TypeOK
<1>4. deposits'[i] \in deposits[i] .. Owed(i)
  BY <1>1, <1>3, CommitSettles, CommitEffect DEF SumInv, MoneyInv, MaxOf
<1>5. deposits'[i] - deposits[i] = Credit(o)
  BY <1>1, <1>3, CommitEffect
<1>6. Activates(o) => /\ i \in SubInvoices
                      /\ ~(charges[i] > 0)
                      /\ balance[u] + (deposits'[i] - deposits[i]) >= Price
  BY <1>2, <1>5 DEF Activates
<1>7. deposits' = [deposits EXCEPT ![i] = deposits'[i]]
  BY <1>1 DEF Commit, TypeOK
<1>8. [j \in Invoices |-> charges'[j] > 0]
        = [[j \in Invoices |-> charges[j] > 0] EXCEPT ![i] = @ \/ Activates(o)]
  <2>1. charges[i] \in Nat /\ \A j \in Invoices : charges[j] \in Nat
    BY <1>1 DEF TypeOK
  <2>2. \A j \in Invoices : j # i => charges'[j] = charges[j]
    BY <1>1, CommitEffect
  <2>3. (charges'[i] > 0) = (charges[i] > 0 \/ Activates(o))
    BY <1>1, <2>1, CommitEffect
  <2> QED
    BY <1>1, <2>2, <2>3
<1>9. balance' = [balance EXCEPT
          ![u] = @ + (deposits'[i] - deposits[i]) - (IF Activates(o) THEN Price ELSE 0)]
  BY <1>1, <1>2, <1>3, <1>5 DEF Commit, Charge, Written, TypeOK
<1>10. subs' = [subs EXCEPT ![u] = IF Activates(o) THEN @ + 1 ELSE @]
  BY <1>1, <1>2 DEF Commit, TypeOK
<1>11. \A j \in Invoices : Owed(j)' = Owed(j)
  BY DEF Commit, Owed, Effective, Confirmed, worldVars
<1>12. [j \in Invoices |-> Owed(j)][i] = Owed(i)
  BY <1>1
<1>13. [j \in Invoices |-> charges[j] > 0][i] = (charges[i] > 0)
  BY <1>1
<1>14. PICK executed \in BOOLEAN : executed <=> Activates(o)
  OBVIOUS
<1>15. PICK sum : sum = deposits'[i]
  OBVIOUS
<1> QED
  <2> HIDE DEF o, u
  <2>1. sum \in deposits[i] .. [j \in Invoices |-> Owed(j)][i]
    BY <1>4, <1>12, <1>15
  <2>2. executed => /\ i \in SubInvoices
                    /\ ~[j \in Invoices |-> charges[j] > 0][i]
                    /\ balance[u] + (sum - deposits[i]) >= Price
    BY <1>6, <1>13, <1>14, <1>15
  <2>3. deposits' = [deposits EXCEPT ![i] = sum]
    BY <1>7, <1>15
  <2>4. [j \in Invoices |-> charges'[j] > 0]
          = [[j \in Invoices |-> charges[j] > 0] EXCEPT ![i] = @ \/ executed]
    BY <1>8, <1>14
  <2>5. balance' = [balance EXCEPT
            ![u] = @ + (sum - deposits[i]) - (IF executed THEN Price ELSE 0)]
    BY <1>9, <1>14, <1>15
  <2>6. subs' = [subs EXCEPT ![u] = IF executed THEN @ + 1 ELSE @]
    BY <1>10, <1>14
  <2>7. [j \in Invoices |-> Owed(j)'] = [j \in Invoices |-> Owed(j)]
    BY <1>11
  <2> QED
    BY <2>1, <2>2, <2>3, <2>4, <2>5, <2>6, <2>7 DEF Promise!Settle, u

\* A purchase is a purchase; with no bonus configured the referrer gets zero.
LEMMA PurchaseBuys ==
  ASSUME TypeOK, NEW u \in Users, PurchaseSubscription(u)
  PROVE  Promise!Buy(u)
<1>1. /\ balance[u] >= Price
      /\ subs' = [subs EXCEPT ![u] = @ + 1]
      /\ UNCHANGED <<deposits, charges>>
  BY DEF PurchaseSubscription
<1>2. \A i \in Invoices : Owed(i)' = Owed(i)
  BY DEF PurchaseSubscription, Owed, Effective, Confirmed, invoiceVars, worldVars
<1>3. balance' = [v \in Users |->
          IF v = u THEN balance[v] - Price
          ELSE IF v = Referrer[u] THEN balance[v] + Bonus
          ELSE balance[v]]
  <2>1. \A v \in Users : v \in Sponsors(u) <=> Bonus > 0 /\ v = Referrer[u]
    BY DEF Sponsors
  <2>2. \A v \in Users : balance[v] \in Int
    BY DEF TypeOK
  <2>3. \A v \in Users : ~(Bonus > 0) => balance[v] + Bonus = balance[v]
    BY <2>2
  <2> QED
    BY <2>1, <2>3 DEF PurchaseSubscription
<1> QED
  BY <1>1, <1>2, <1>3 DEF Promise!Buy

\* Every other step leaves the money alone; what is due may only grow.
LEMMA OthersVouch ==
  ASSUME SumInv, [Next]_vars,
         \A p \in Procs : ~Commit(p), \A u \in Users : ~PurchaseSubscription(u)
  PROVE  Promise!Vouch
<1>1. UNCHANGED <<userVars, ledgerVars>>
  BY MoneyRests DEF SumInv, MoneyInv
<1>2. \A i \in Invoices : Owed(i)' \in Nat /\ Owed(i)' >= Owed(i)
  BY OwedGrows DEF SumInv, MoneyInv
<1> QED
  BY <1>1, <1>2 DEF Promise!Vouch, userVars, ledgerVars

LEMMA StepPromised == SumInv /\ [Next]_vars => [Promise!Next]_(Promise!vars)
<1> SUFFICES ASSUME SumInv, [Next]_vars PROVE Promise!Next
  BY DEF Promise!vars
<1>1. ASSUME NEW p \in Procs, Commit(p) PROVE Promise!Next
  <2>1. PICK i \in Invoices : i = op[p].inv
    BY DEF SumInv, MoneyInv, TypeOK, Locals
  <2>2. Promise!Settle(i)
    BY <1>1, <2>1, CommitSettlesPromise
  <2> QED
    BY <2>2 DEF Promise!Next
<1>2. ASSUME NEW u \in Users, PurchaseSubscription(u) PROVE Promise!Next
  BY <1>2, PurchaseBuys DEF Promise!Next, SumInv, MoneyInv
<1>3. CASE (\A p \in Procs : ~Commit(p)) /\ \A u \in Users : ~PurchaseSubscription(u)
  BY <1>3, OthersVouch DEF Promise!Next
<1> QED
  BY <1>1, <1>2, <1>3

\* The payment core refines its ledger: money that somebody vouched for reaches
\* the balance once, an intent is charged at most once and only when the balance
\* covers it, and no step of any task, crash or expired lock changes a balance
\* in another way (billing_processor.py, billing_service.py).
THEOREM PromiseKept == Spec => KeepsPromise
<1>1. Init => Promise!Init
  BY InitPromised
<1>2. SumInv /\ [Next]_vars => [Promise!Next]_(Promise!vars)
  BY StepPromised
<1> QED
  BY <1>1, <1>2, SumInvariant, PTL DEF Spec, KeepsPromise, Promise!Spec
=============================================================================
