------------------------------- MODULE Ledger -------------------------------
(***************************************************************************)
(* What the payment system promises, without locks, sessions, providers or  *)
(* statuses: money that is due to an invoice reaches the owner's balance     *)
(* once, a paid intent is charged at most once, and a balance changes in no *)
(* other way than by a settlement or a purchase.                            *)
(*                                                                          *)
(* due[i] is the sum somebody outside (a provider, an admin) vouches for;    *)
(* it only grows.  settled[i] is the part of it the balance has received.    *)
(***************************************************************************)
EXTENDS Integers

CONSTANTS Users, Invoices, None, Owner, Referrer, SubInvoices, Price, Bonus

VARIABLES due, settled, charged, balance, subs

vars == <<due, settled, charged, balance, subs>>

Init ==
    /\ due     = [i \in Invoices |-> 0]
    /\ settled = [i \in Invoices |-> 0]
    /\ charged = [i \in Invoices |-> FALSE]
    /\ balance = [u \in Users |-> 0]
    /\ subs    = [u \in Users |-> 0]

\* Somebody vouches for more money.
Vouch ==
    /\ due' \in [Invoices -> Nat]
    /\ \A i \in Invoices : due'[i] >= due[i]
    /\ UNCHANGED <<settled, charged, balance, subs>>

\* The owner receives a sum that is due; with enough on the balance the
\* intent of the invoice is executed in the same step.
Settle(i) ==
    LET u == Owner[i] IN
    \E sum \in settled[i] .. due[i], executed \in BOOLEAN :
        /\ executed => /\ i \in SubInvoices
                       /\ ~charged[i]
                       /\ balance[u] + (sum - settled[i]) >= Price
        /\ settled' = [settled EXCEPT ![i] = sum]
        /\ charged' = [charged EXCEPT ![i] = @ \/ executed]
        /\ balance' = [balance EXCEPT
               ![u] = @ + (sum - settled[i]) - (IF executed THEN Price ELSE 0)]
        /\ subs' = [subs EXCEPT ![u] = IF executed THEN @ + 1 ELSE @]
        /\ UNCHANGED due

\* Somebody buys a period from the balance; the referrer gets a bonus.
Buy(u) ==
    /\ balance[u] >= Price
    /\ balance' = [v \in Users |->
           IF v = u THEN balance[v] - Price
           ELSE IF v = Referrer[u] THEN balance[v] + Bonus
           ELSE balance[v]]
    /\ subs' = [subs EXCEPT ![u] = @ + 1]
    /\ UNCHANGED <<due, settled, charged>>

Next ==
    \/ Vouch
    \/ \E i \in Invoices : Settle(i)
    \/ \E u \in Users : Buy(u)

Spec == Init /\ [][Next]_vars
=============================================================================
