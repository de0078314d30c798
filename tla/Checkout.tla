------------------------------ MODULE Checkout ------------------------------
(***************************************************************************)
(* One buyer's way to a payment page: _start_cactus_payment_flow, which    *)
(* reuses an open order of the same tariff and gap or has CactusPay make   *)
(* one, under a Redis lock that lives ten seconds while the request to     *)
(* CactusPay may take fifteen; and _start_manual_payment_flow, which has   *)
(* no lock and always makes an invoice.  The gap is the tariff's price     *)
(* less the balance as the handler read it; what is paid in roubles is     *)
(* left out.                                                               *)
(***************************************************************************)
EXTENDS Integers, FiniteSets, Sequences

CONSTANTS
  Presses,     \* the handlers' tasks, one press each at a time
  Plans,       \* the tariffs
  Price,       \* TARIFFS: each plan's price_usd
  Balances,    \* the balances the buyer may have
  MaxOrders,   \* bound: invoices and orders made
  MaxUpsets    \* bound: failures, lapses, crashes

ASSUME CheckoutAssumption ==
  /\ Plans # {} /\ "nobody" \notin Presses
  /\ Price \in [Plans -> Nat] /\ Balances \subseteq Nat
  /\ MaxOrders \in Nat /\ MaxUpsets \in Nat

VARIABLES
  balance,     \* users.balance
  invoices,    \* the table: a sequence of records, in the order of created_at
  orders,      \* external ids CactusPay has an order for
  latest,      \* the last external id made
  lock,        \* the token in the checkout lock's key, Nobody when there is none
  press,       \* press[h]: what h's task holds
  upsets,
  overlap,     \* history: the lock lapsed under a running task, or a search failed
  reopened     \* history: invoices a stale sync put back from PAID to PENDING

choVars == <<balance, invoices, orders, latest, lock, press, upsets, overlap, reopened>>

Nobody == "nobody"
NoPress == [pc |-> "idle", plan |-> CHOOSE p \in Plans : TRUE, had |-> 0, order |-> 0,
            kind |-> "CACTUS"]

CheckoutInit ==
  /\ balance \in Balances /\ invoices = <<>> /\ orders = {} /\ latest = 0
  /\ lock = Nobody /\ press = [h \in Presses |-> NoPress]
  /\ upsets = 0 /\ overlap = FALSE /\ reopened = {}

Upset == upsets < MaxUpsets /\ upsets' = upsets + 1

At(h, pc)   == press[h].pc = pc
Moves(h, pc) == press' = [press EXCEPT ![h].pc = pc]
Gap(h)      == Price[press[h].plan] - press[h].had

-----------------------------------------------------------------------------
\* Mutation: the answer of acquire_lock is not looked at.
PressUnlocked(h, plan) ==
  /\ At(h, "idle") /\ lock' = IF lock = Nobody THEN h ELSE lock
  /\ press' = [press EXCEPT ![h] = [NoPress EXCEPT !.pc = "user", !.plan = plan]]
  /\ UNCHANGED <<balance, invoices, orders, latest, upsets, overlap, reopened>>

\* A busy lock, or Redis in error, ends the press at once.
PressCactus(h, plan) ==
  /\ At(h, "idle") /\ lock = Nobody /\ lock' = h
  /\ press' = [press EXCEPT ![h] = [NoPress EXCEPT !.pc = "user", !.plan = plan]]
  /\ UNCHANGED <<balance, invoices, orders, latest, upsets, overlap, reopened>>

PressManual(h, plan) ==
  /\ At(h, "idle")
  /\ press' = [press EXCEPT ![h] = [NoPress EXCEPT !.pc = "user", !.plan = plan, !.kind = "MANUAL"]]
  /\ UNCHANGED <<balance, invoices, orders, latest, lock, upsets, overlap, reopened>>

\* A new external id; nothing is awaited before it is used.
Numbered(h, pc, had) ==
  /\ latest < MaxOrders /\ latest' = latest + 1
  /\ press' = [press EXCEPT ![h].pc = pc, ![h].order = latest', ![h].had = had]
NewOrder(h) == Numbered(h, "create", press[h].had)

\* With enough money the buyer is asked to confirm a purchase instead.
ReadBalance(h) ==
  /\ At(h, "user")
  /\ \/ /\ balance >= Price[press[h].plan] \/ press[h].kind = "CACTUS"
        /\ press' = [press EXCEPT ![h].had = balance, ![h].pc =
                       IF balance >= Price[press[h].plan] THEN "leave" ELSE "find"]
        /\ UNCHANGED latest
     \/ balance < Price[press[h].plan] /\ press[h].kind = "MANUAL" /\ Numbered(h, "record", balance)
  /\ UNCHANGED <<balance, invoices, orders, lock, upsets, overlap, reopened>>

\* find_active_cactus_invoice (its limit of twenty rows is never reached here)
Reusable(i, h) ==
  /\ invoices[i].kind = "CACTUS" /\ invoices[i].status = "PENDING" /\ invoices[i].fresh
  /\ invoices[i].plan = press[h].plan /\ invoices[i].gap = Gap(h)

FindOrder(h) ==
  /\ At(h, "find")
  /\ LET open == {i \in DOMAIN invoices : Reusable(i, h)}
     IN IF open = {} THEN NewOrder(h)
        ELSE \E newest \in open :
               /\ \A i \in open : i <= newest
               /\ press' = [press EXCEPT ![h].pc = "shown", ![h].order = invoices[newest].order]
               /\ UNCHANGED latest
  /\ UNCHANGED <<balance, invoices, orders, lock, upsets, overlap, reopened>>

\* A database error is taken for "none".
FindFails(h) ==
  /\ At(h, "find") /\ Upset /\ overlap' = TRUE /\ NewOrder(h)
  /\ UNCHANGED <<balance, invoices, orders, lock, reopened>>

\* create_payment answers with a link.
CreatePayment(h) ==
  /\ At(h, "create") /\ orders' = orders \cup {press[h].order} /\ Moves(h, "record")
  /\ UNCHANGED <<balance, invoices, latest, lock, upsets, overlap, reopened>>

\* It times out, is refused or gives no link; CactusPay may have the order.
CreateFails(h) ==
  /\ At(h, "create") /\ Upset /\ Moves(h, "leave")
  /\ orders' \in {orders, orders \cup {press[h].order}}
  /\ UNCHANGED <<balance, invoices, latest, lock, overlap, reopened>>

Recorded(h) == [order |-> press[h].order, kind |-> press[h].kind, plan |-> press[h].plan,
                gap |-> Gap(h), status |-> "PENDING", fresh |-> TRUE]

\* Mutation: the result of create_invoice is not looked at.
RecordUnchecked(h) ==
  /\ At(h, "record") /\ Moves(h, "shown")
  /\ \/ invoices' = Append(invoices, Recorded(h)) /\ UNCHANGED upsets
     \/ Upset /\ UNCHANGED invoices
  /\ UNCHANGED <<balance, orders, latest, lock, overlap, reopened>>

\* create_invoice
Record(h) ==
  /\ At(h, "record")
  /\ \/ invoices' = Append(invoices, Recorded(h)) /\ Moves(h, "shown") /\ UNCHANGED upsets
     \/ Upset /\ Moves(h, "leave") /\ UNCHANGED invoices
  /\ UNCHANGED <<balance, orders, latest, lock, overlap, reopened>>

\* The screen is rendered, or that fails: either way the finally block is next.
Shown(h) ==
  /\ At(h, "shown") /\ Moves(h, "leave")
  /\ UNCHANGED <<balance, invoices, orders, latest, lock, upsets, overlap, reopened>>

\* release_lock compares tokens: a task's token may outlive its press, but a
\* press without a lock releases none.
Owns(h)    == lock = h /\ press[h].kind = "CACTUS" /\ ~At(h, "idle")
Release(h) == lock' = IF Owns(h) THEN Nobody ELSE lock

Leave(h) ==
  /\ At(h, "leave") /\ press' = [press EXCEPT ![h] = NoPress]
  /\ \/ Release(h) /\ UNCHANGED upsets
     \/ Upset /\ UNCHANGED lock
  /\ UNCHANGED <<balance, invoices, orders, latest, overlap, reopened>>

-----------------------------------------------------------------------------
\* The key's ten seconds are over.
Lapse ==
  /\ lock # Nobody /\ lock' = Nobody
  /\ IF Owns(lock) THEN Upset /\ overlap' = TRUE ELSE UNCHANGED <<upsets, overlap>>
  /\ UNCHANGED <<balance, invoices, orders, latest, press, reopened>>

BotDies ==
  /\ Upset /\ press' = [h \in Presses |-> NoPress]
  /\ UNCHANGED <<balance, invoices, orders, latest, lock, overlap, reopened>>

\* Another handler deposits or spends.
BalanceMoves(b) ==
  /\ b # balance /\ balance' = b /\ Upset
  /\ UNCHANGED <<invoices, orders, latest, lock, press, overlap, reopened>>

\* Only CactusPay's invoices are looked up again.
Cactus(i) == i \in DOMAIN invoices /\ invoices[i].kind = "CACTUS"

\* It leaves the window find_active_cactus_invoice looks into.
Grows(i) ==
  /\ Cactus(i) /\ invoices[i].fresh
  /\ invoices' = [invoices EXCEPT ![i].fresh = FALSE]
  /\ UNCHANGED <<balance, orders, latest, lock, press, upsets, overlap, reopened>>

Settles(i) ==
  /\ Cactus(i) /\ invoices[i].status = "PENDING"
  /\ invoices' = [invoices EXCEPT ![i].status = "PAID"]
  /\ UNCHANGED <<balance, orders, latest, lock, press, upsets, overlap, reopened>>

\* The payment processor's stale sync.
Reopens(i) ==
  /\ Cactus(i) /\ invoices[i].status = "PAID" /\ Upset
  /\ invoices' = [invoices EXCEPT ![i].status = "PENDING"] /\ reopened' = reopened \cup {i}
  /\ UNCHANGED <<balance, orders, latest, lock, press, overlap>>

CheckoutNext ==
  \/ \E h \in Presses :
       \/ \E plan \in Plans : PressCactus(h, plan) \/ PressManual(h, plan)
       \/ ReadBalance(h) \/ FindOrder(h) \/ FindFails(h) \/ CreatePayment(h)
       \/ CreateFails(h) \/ Record(h) \/ Shown(h) \/ Leave(h)
  \/ Lapse \/ BotDies
  \/ \E b \in Balances : BalanceMoves(b)
  \/ \E i \in 1 .. MaxOrders : Grows(i) \/ Settles(i) \/ Reopens(i)

CheckoutSpec == CheckoutInit /\ [][CheckoutNext]_choVars

-----------------------------------------------------------------------------
Open(i) == Cactus(i) /\ invoices[i].status = "PENDING" /\ invoices[i].fresh

\* Pressing again, with whatever interleaving, restart or balance in between,
\* never opens a second CactusPay order for the same tariff and gap, unless
\* the lock lapsed under a slow press or the search for the first one failed.
OneOpenOrder ==
  ~overlap => \A i, j \in DOMAIN invoices \ reopened :
    /\ Open(i) /\ Open(j) /\ i # j
    => <<invoices[i].plan, invoices[i].gap>> # <<invoices[j].plan, invoices[j].gap>>

\* Nobody is shown a way to pay that would not be credited: the screen's
\* order has an invoice, CactusPay knows it, and with the balance the screen
\* shows it makes up the price of the tariff.
ScreenIsPayable ==
  \A h \in Presses : At(h, "shown") =>
    \E i \in DOMAIN invoices :
      /\ invoices[i].order = press[h].order /\ invoices[i].plan = press[h].plan
      /\ invoices[i].gap + press[h].had = Price[press[h].plan]
      /\ invoices[i].kind = "CACTUS" => press[h].order \in orders
=============================================================================
