------------------------------ MODULE Billing ------------------------------
(***************************************************************************)
(* The payment core: how an invoice becomes a deposit, a balance and a      *)
(* subscription (services/logic/billing_processor.py,                       *)
(* database/crud/billing_service.py) together with everything that writes   *)
(* the same rows concurrently: the payment worker's timeouts, the manual    *)
(* screenshot flow (bot/handlers/shop.py) and the admin review              *)
(* (bot/handlers/admin_payments.py).                                        *)
(*                                                                          *)
(* A process is one asyncio task with its own database session.  It runs    *)
(* one handler at a time; pc says which await it is suspended on and op     *)
(* holds the handler's local variables, the attributes of the ORM objects   *)
(* its session loaded among them.  An attribute keeps the value it was      *)
(* loaded with: SELECT ... FOR UPDATE on an object the session already      *)
(* holds takes the row lock and does not refresh it.                        *)
(***************************************************************************)
EXTENDS Integers

CONSTANTS
    Users,          \* rows of table users
    Invoices,       \* rows table invoices may get
    Procs,          \* asyncio tasks that run handlers or poll an invoice
    None,           \* no task, no referrer
    Orphan,         \* owner of a Redis lock whose token nobody holds any more
    Owner,          \* Invoice.user_id
    Referrer,       \* User.referrer_id
    Provider,       \* Invoice.provider
    SubInvoices,    \* invoices whose payload carries the intent "sub"
    Price,          \* config.TARIFFS[days].price_usd, in money units
    Bonus,          \* the referral bonus of one purchase
    Tolerance,      \* config.PAYMENT_TOLERANCE_USD
    Amounts         \* sums of money a provider or an admin may name

Providers == {"CRYPTOMUS", "CRYPTOPAY", "CACTUS", "MANUAL"}

ASSUME BillingAssumption ==
    /\ Invoices # {}
    /\ None \notin Procs \cup Users
    /\ Orphan \notin Procs \cup {None}
    /\ Owner \in [Invoices -> Users]
    /\ Referrer \in [Users -> Users \cup {None}]
    /\ \A u \in Users : Referrer[u] # u
    /\ Provider \in [Invoices -> Providers]
    /\ SubInvoices \subseteq Invoices
    /\ Price \in Nat \ {0}
    /\ Bonus \in Nat
    /\ Tolerance \in Nat
    /\ Amounts \subseteq Nat

VARIABLES
    \* table invoices
    status,         \* status; "NONE" before the row exists
    amt,            \* amount_actual
    expected,       \* amount_expected
    shot,           \* screenshot_file_id is set
    \* table users
    balance,        \* balance
    subs,           \* subscription_end, as the number of periods ever added
    \* table transactions, by what the code sums over it
    deposits,       \* sum of the DEPOSIT rows that name the invoice
    charges,        \* number of WITHDRAW rows "Direct Pay ... Invoice #i"
    ledger,         \* sum of all rows of a user
    withdrawals,    \* number of WITHDRAW rows of a user
    \* locks
    rowInv,         \* holder of the row lock on an invoice
    rowUser,        \* holder of the row lock on a user
    rlock,          \* holder of the Redis lock billing:payment:<user>
    \* the outside world
    provSt,         \* the provider's view of the payment
    provAmt,        \* what a CRYPTOMUS payment has received so far
    approved,       \* the largest sum an admin confirmed for the invoice
    card,           \* some review card of the invoice has live buttons
    aged,           \* the invoice is older than its timeout
    \* tasks
    pc, op

invoiceVars == <<status, amt, expected, shot>>
userVars    == <<balance, subs>>
ledgerVars  == <<deposits, charges, ledger, withdrawals>>
rowVars     == <<rowInv, rowUser>>
worldVars   == <<provSt, provAmt, approved, card, aged>>
procVars    == <<pc, op>>
dataVars    == <<invoiceVars, userVars, ledgerVars>>
vars        == <<dataVars, rowVars, rlock, worldVars, procVars>>

-----------------------------------------------------------------------------
(* Types.                                                                   *)

InvoiceStatuses  == {"NONE", "PENDING", "PARTIAL", "WAITING_ADMIN", "PAID", "EXPIRED"}
ProviderStatuses == {"open", "expired", "paid"}
Kinds            == {"none", "sync", "approve", "custom", "reject", "expire", "upload"}
Places           == {"idle", "snapshot", "prompt", "redis", "read", "lockInvoice",
                     "lockUser", "ledger", "commit", "release", "write", "postCard"}

\* Places where the task is inside `async with session.begin()`.
InTransaction == {"read", "lockInvoice", "lockUser", "ledger", "commit"}
HoldsInvoice  == {"lockUser", "ledger", "commit"}
HoldsUser     == {"ledger", "commit"}

Locals == [kind : Kinds, inv : Invoices, api : Nat, pst : ProviderStatuses,
           seenStatus : InvoiceStatuses, seenAmt : Nat, seenShot : BOOLEAN,
           bal : Int, sub : Nat, credited : Nat, charged : BOOLEAN]

NoOp == [kind |-> "none", inv |-> CHOOSE i \in Invoices : TRUE, api |-> 0,
         pst |-> "open", seenStatus |-> "NONE", seenAmt |-> 0, seenShot |-> FALSE,
         bal |-> 0, sub |-> 0, credited |-> 0, charged |-> FALSE]

TypeOK ==
    /\ status \in [Invoices -> InvoiceStatuses]
    /\ amt \in [Invoices -> Nat]
    /\ expected \in [Invoices -> Nat]
    /\ shot \in [Invoices -> BOOLEAN]
    /\ balance \in [Users -> Int]
    /\ subs \in [Users -> Nat]
    /\ deposits \in [Invoices -> Nat]
    /\ charges \in [Invoices -> Nat]
    /\ ledger \in [Users -> Int]
    /\ withdrawals \in [Users -> Nat]
    /\ rowInv \in [Invoices -> Procs \cup {None}]
    /\ rowUser \in [Users -> Procs \cup {None}]
    /\ rlock \in [Users -> Procs \cup {None, Orphan}]
    /\ provSt \in [Invoices -> ProviderStatuses]
    /\ provAmt \in [Invoices -> Nat]
    /\ approved \in [Invoices -> Nat]
    /\ card \in [Invoices -> BOOLEAN]
    /\ aged \in [Invoices -> BOOLEAN]
    /\ pc \in [Procs -> Places]
    /\ op \in [Procs -> Locals]

-----------------------------------------------------------------------------
(* Pure parts of the processor.                                             *)

MaxOf(a, b) == IF a >= b THEN a ELSE b

\* A shortfall within the tolerance counts as full payment.
Effective(i, amount) ==
    IF /\ 0 < expected[i] - amount
       /\ expected[i] - amount <= Tolerance
    THEN expected[i] ELSE amount

\* Mutations: the provider's word stored as it came; any payment closes.
RawStatus(pst, amount, due) ==
    IF amount >= due /\ amount > 0 THEN "PAID" ELSE pst
PaidByAnything(pst, amount, due) ==
    IF amount > 0 THEN "PAID" ELSE IF pst = "expired" THEN "EXPIRED" ELSE "PENDING"

InvoiceStatus(pst, amount, due) ==
    IF pst = "expired" /\ amount = 0 THEN "EXPIRED"
    ELSE IF amount >= due /\ amount > 0 THEN "PAID"
    ELSE IF amount > 0 THEN "PARTIAL" ELSE "PENDING"

\* An UPDATE names only the columns whose new value differs from the one
\* the session loaded; the others keep what the table holds.
Written(new, loaded, stored) == IF new = loaded THEN stored ELSE new

\* Mutation: an approval taken as one more payment.
ResolvedAsSum(o) == o.api + o.seenAmt

\* What the handler takes as the sum received so far.  A CACTUS answer is
\* final; every other source may lag behind what is already recorded.
Resolved(o) ==
    IF Provider[o.inv] = "CACTUS" THEN o.api ELSE MaxOf(o.api, o.seenAmt)

\* Mutation: no tolerance.
DueExactly(o) == Resolved(o)

Due(o) ==
    IF Provider[o.inv] = "CACTUS" THEN Resolved(o) ELSE Effective(o.inv, Resolved(o))

\* Mutations: no delta; a partial payment recorded only.
CreditInFull(o) == Due(o)
CreditWhenFull(o) ==
    IF Due(o) > o.credited /\ Due(o) >= expected[o.inv] THEN Due(o) - o.credited ELSE 0

Credit(o) == IF Due(o) > o.credited THEN Due(o) - o.credited ELSE 0

Target(o) ==
    InvoiceStatus(IF o.kind = "sync" THEN o.pst ELSE "open", Due(o), expected[o.inv])

\* Mutations: the intent executed again; executed on credit.
ActivatesAgain(o) ==
    Target(o) = "PAID" /\ o.inv \in SubInvoices /\ o.bal + Credit(o) >= Price
ActivatesOnCredit(o) == Target(o) = "PAID" /\ o.inv \in SubInvoices /\ ~o.charged

Activates(o) ==
    /\ Target(o) = "PAID"
    /\ o.inv \in SubInvoices
    /\ ~o.charged
    /\ o.bal + Credit(o) >= Price

Charge(o) == IF Activates(o) THEN Price ELSE 0

\* A second approval of a PAID invoice for no more than was recorded.
AlreadyApproved(o) ==
    o.kind = "approve" /\ o.seenStatus = "PAID" /\ o.api <= o.seenAmt

\* The sum the provider, or an admin, vouches for at this moment.
Confirmed(i) ==
    IF Provider[i] = "CRYPTOMUS" THEN provAmt[i]
    ELSE IF Provider[i] = "MANUAL" THEN approved[i]
    ELSE IF provSt[i] = "paid" THEN expected[i] ELSE 0

-----------------------------------------------------------------------------
Init ==
    /\ status   = [i \in Invoices |-> "NONE"]
    /\ amt      = [i \in Invoices |-> 0]
    /\ expected = [i \in Invoices |-> 0]
    /\ shot     = [i \in Invoices |-> FALSE]
    /\ balance  = [u \in Users |-> 0]
    /\ subs     = [u \in Users |-> 0]
    /\ deposits = [i \in Invoices |-> 0]
    /\ charges  = [i \in Invoices |-> 0]
    /\ ledger   = [u \in Users |-> 0]
    /\ withdrawals = [u \in Users |-> 0]
    /\ rowInv   = [i \in Invoices |-> None]
    /\ rowUser  = [u \in Users |-> None]
    /\ rlock    = [u \in Users |-> None]
    /\ provSt   = [i \in Invoices |-> "open"]
    /\ provAmt  = [i \in Invoices |-> 0]
    /\ approved = [i \in Invoices |-> 0]
    /\ card     = [i \in Invoices |-> FALSE]
    /\ aged     = [i \in Invoices |-> FALSE]
    /\ pc       = [p \in Procs |-> "idle"]
    /\ op       = [p \in Procs |-> NoOp]

\* Task p moves to another await, with its locals set to o.
Goto(p, place, o) ==
    /\ pc' = [pc EXCEPT ![p] = place]
    /\ op' = [op EXCEPT ![p] = o]

Stop(p) == Goto(p, "idle", NoOp)

\* The transaction is over: `finally` still has the Redis lock to give back.
Finish(p) == Goto(p, "release", [NoOp EXCEPT !.inv = op[p].inv])

\* COMMIT and ROLLBACK give back every row lock of the transaction.
ReleaseRows(p) ==
    /\ rowInv'  = [i \in Invoices |-> IF rowInv[i] = p THEN None ELSE rowInv[i]]
    /\ rowUser' = [u \in Users |-> IF rowUser[u] = p THEN None ELSE rowUser[u]]

-----------------------------------------------------------------------------
(* The world: buyers, providers, the clock.                                 *)

\* The shop asks for the price less the balance it read, unlocked, a moment
\* before: any part of the price.
CreateInvoice(i, e) ==
    /\ status[i] = "NONE"
    /\ 0 < e /\ e <= Price
    /\ status'   = [status EXCEPT ![i] = "PENDING"]
    /\ expected' = [expected EXCEPT ![i] = e]
    /\ UNCHANGED <<amt, shot, userVars, ledgerVars, rowVars, rlock, worldVars, procVars>>

PaymentArrives(i, a) ==
    /\ Provider[i] = "CRYPTOMUS"
    /\ status[i] # "NONE"
    /\ a > provAmt[i]
    /\ provAmt' = [provAmt EXCEPT ![i] = a]
    /\ UNCHANGED <<dataVars, rowVars, rlock, provSt, approved, card, aged, procVars>>

\* A payment may still be accepted after the provider reported it expired.
ProviderMoves(i, s) ==
    /\ Provider[i] # "MANUAL"
    /\ status[i] # "NONE"
    /\ \/ provSt[i] = "open" /\ s = "expired"
       \/ Provider[i] # "CRYPTOMUS" /\ provSt[i] # "paid" /\ s = "paid"
    /\ provSt' = [provSt EXCEPT ![i] = s]
    /\ UNCHANGED <<dataVars, rowVars, rlock, provAmt, approved, card, aged, procVars>>

Age(i) ==
    /\ status[i] # "NONE"
    /\ ~aged[i]
    /\ aged' = [aged EXCEPT ![i] = TRUE]
    /\ UNCHANGED <<dataVars, rowVars, rlock, provSt, provAmt, approved, card, procVars>>

-----------------------------------------------------------------------------
(* Buying a subscription from the balance.  One transaction in a fresh       *)
(* session, which locks the buyer's row, then the referrer's.               *)

Sponsors(u) == IF Bonus > 0 THEN {Referrer[u]} \ {None} ELSE {}

\* Mutation: the purchase looks at no row lock.
PurchaseUnlocked(u) ==
    /\ balance[u] >= Price
    /\ balance' = [balance EXCEPT ![u] = @ - Price]
    /\ ledger'  = [ledger EXCEPT ![u] = @ - Price]
    /\ subs' = [subs EXCEPT ![u] = @ + 1]
    /\ withdrawals' = [withdrawals EXCEPT ![u] = @ + 1]
    /\ UNCHANGED <<invoiceVars, deposits, charges, rowVars, rlock, worldVars, procVars>>

\* Mutation: the referrer's reward leaves no transaction.
RewardUnrecorded(u) ==
    /\ balance[u] >= Price
    /\ \A v \in {u} \cup Sponsors(u) : rowUser[v] = None
    /\ balance' = [v \in Users |-> IF v = u THEN balance[v] - Price
                                   ELSE IF v \in Sponsors(u) THEN balance[v] + Bonus
                                   ELSE balance[v]]
    /\ ledger'  = [ledger EXCEPT ![u] = @ - Price]
    /\ subs' = [subs EXCEPT ![u] = @ + 1]
    /\ withdrawals' = [withdrawals EXCEPT ![u] = @ + 1]
    /\ UNCHANGED <<invoiceVars, deposits, charges, rowVars, rlock, worldVars, procVars>>

PurchaseSubscription(u) ==
    /\ balance[u] >= Price
    /\ \A v \in {u} \cup Sponsors(u) : rowUser[v] = None
    /\ balance' = [v \in Users |-> IF v = u THEN balance[v] - Price
                                   ELSE IF v \in Sponsors(u) THEN balance[v] + Bonus
                                   ELSE balance[v]]
    /\ ledger'  = [v \in Users |-> IF v = u THEN ledger[v] - Price
                                   ELSE IF v \in Sponsors(u) THEN ledger[v] + Bonus
                                   ELSE ledger[v]]
    /\ subs' = [subs EXCEPT ![u] = @ + 1]
    /\ withdrawals' = [withdrawals EXCEPT ![u] = @ + 1]
    /\ UNCHANGED <<invoiceVars, deposits, charges, rowVars, rlock, worldVars, procVars>>

-----------------------------------------------------------------------------
(* process_payment_update, from the worker or from a "check" button: the     *)
(* provider is asked before any lock is taken.                              *)

StartSync(p, i) ==
    /\ pc[p] = "idle"
    /\ status[i] # "NONE"
    /\ Goto(p, "snapshot", [NoOp EXCEPT !.kind = "sync", !.inv = i, !.seenAmt = amt[i]])
    /\ UNCHANGED <<dataVars, rowVars, rlock, worldVars>>

\* The credited amount a provider's answer stands for.
Answer(o) ==
    IF Provider[o.inv] = "CRYPTOMUS" THEN provAmt[o.inv]
    ELSE IF provSt[o.inv] = "paid" THEN expected[o.inv]
    ELSE IF Provider[o.inv] = "CRYPTOPAY" THEN o.seenAmt ELSE 0

ProviderAnswers(p) ==
    /\ pc[p] = "snapshot"
    /\ Provider[op[p].inv] # "MANUAL"
    /\ Goto(p, "redis", [op[p] EXCEPT !.api = Answer(op[p]), !.pst = provSt[op[p].inv]])
    /\ UNCHANGED <<dataVars, rowVars, rlock, worldVars>>

\* provider_error; MANUAL has no provider to ask.
ProviderFails(p) ==
    /\ pc[p] = "snapshot"
    /\ Stop(p)
    /\ UNCHANGED <<dataVars, rowVars, rlock, worldVars>>

-----------------------------------------------------------------------------
(* The admin's review card.                                                 *)

\* The card loses its buttons; editing it may fail, and another card of the
\* same invoice may still be in the chat.
DisarmCard(i) == \E b \in {FALSE, card[i]} : card' = [card EXCEPT ![i] = b]

\* Pressing "custom" or "reject": the bot waits for the admin's text.
OpenPrompt(p, i, kind) ==
    /\ pc[p] = "idle"
    /\ Provider[i] = "MANUAL"
    /\ card[i]
    /\ status[i] # "PAID"
    /\ DisarmCard(i)
    /\ Goto(p, "prompt", [NoOp EXCEPT !.kind = kind, !.inv = i])
    /\ UNCHANGED <<dataVars, rowVars, rlock, provSt, provAmt, approved, aged>>

\* The admin vouches for sum a: process_manual_approval starts.
Approve(p, i, a) ==
    /\ approved' = [approved EXCEPT ![i] = MaxOf(@, a)]
    /\ Goto(p, "redis", [NoOp EXCEPT !.kind = "approve", !.inv = i, !.api = a])

PressApprove(p, i) ==
    /\ pc[p] = "idle"
    /\ Provider[i] = "MANUAL"
    /\ card[i]
    /\ status[i] # "PAID"
    /\ DisarmCard(i)
    /\ Approve(p, i, expected[i])
    /\ UNCHANGED <<dataVars, rowVars, rlock, provSt, provAmt, aged>>

SubmitCustom(p, a) ==
    /\ pc[p] = "prompt"
    /\ op[p].kind = "custom"
    /\ Provider[op[p].inv] = "MANUAL"
    /\ status[op[p].inv] # "PAID"
    /\ a > 0
    /\ Approve(p, op[p].inv, a)
    /\ UNCHANGED <<dataVars, rowVars, rlock, provSt, provAmt, card, aged>>

\* The rejection re-reads the invoice; the write is another await later.
SubmitReason(p) ==
    /\ pc[p] = "prompt"
    /\ op[p].kind = "reject"
    /\ status[op[p].inv] # "PAID"
    /\ Goto(p, "write", [op[p] EXCEPT !.seenStatus = status[op[p].inv],
                                      !.seenShot = shot[op[p].inv]])
    /\ UNCHANGED <<dataVars, rowVars, rlock, worldVars>>

\* "Already processed".
ClosePrompt(p) ==
    /\ pc[p] = "prompt"
    /\ status[op[p].inv] = "PAID"
    /\ Stop(p)
    /\ UNCHANGED <<dataVars, rowVars, rlock, worldVars>>

-----------------------------------------------------------------------------
(* The part process_payment_update and process_manual_approval share: the    *)
(* Redis lock of the user, then one database transaction.                   *)

AcquireRedis(p) ==
    LET u == Owner[op[p].inv] IN
    /\ pc[p] = "redis"
    /\ rlock[u] = None
    /\ rlock' = [rlock EXCEPT ![u] = p]
    /\ Goto(p, "read", op[p])
    /\ UNCHANGED <<dataVars, rowVars, worldVars>>

\* BUSY, or ERROR: the caller is told to try later.
RedisRefuses(p) ==
    /\ pc[p] = "redis"
    /\ Stop(p)
    /\ UNCHANGED <<dataVars, rowVars, rlock, worldVars>>

\* PAYMENT_LOCK_TTL_SEC passes, whatever the holder is doing.
RedisExpires(u) ==
    /\ rlock[u] # None
    /\ rlock' = [rlock EXCEPT ![u] = None]
    /\ UNCHANGED <<dataVars, rowVars, worldVars, procVars>>

\* get_invoice_by_external_id: unlocked, and what it loads is kept.
ReadInvoice(p) ==
    /\ pc[p] = "read"
    /\ Goto(p, "lockInvoice", [op[p] EXCEPT !.seenStatus = status[op[p].inv],
                                            !.seenAmt = amt[op[p].inv]])
    /\ UNCHANGED <<dataVars, rowVars, rlock, worldVars>>

LockInvoice(p) ==
    /\ pc[p] = "lockInvoice"
    /\ rowInv[op[p].inv] = None
    /\ rowInv' = [rowInv EXCEPT ![op[p].inv] = p]
    /\ Goto(p, "lockUser", op[p])
    /\ UNCHANGED <<dataVars, rowUser, rlock, worldVars>>

\* Mutation: the user read without FOR UPDATE.
LoadUserUnlocked(p) ==
    LET u == Owner[op[p].inv] IN
    /\ pc[p] = "lockUser"
    /\ Goto(p, "ledger", [op[p] EXCEPT !.bal = balance[u], !.sub = subs[u]])
    /\ UNCHANGED <<dataVars, rowVars, rlock, worldVars>>

\* The user is first loaded here, by the locking SELECT itself.
LockUser(p) ==
    LET u == Owner[op[p].inv] IN
    /\ pc[p] = "lockUser"
    /\ rowUser[u] = None
    /\ rowUser' = [rowUser EXCEPT ![u] = p]
    /\ Goto(p, "ledger", [op[p] EXCEPT !.bal = balance[u], !.sub = subs[u]])
    /\ UNCHANGED <<dataVars, rowInv, rlock, worldVars>>

ReturnApproved(p) ==
    /\ pc[p] = "ledger"
    /\ AlreadyApproved(op[p])
    /\ ReleaseRows(p)
    /\ Finish(p)
    /\ UNCHANGED <<dataVars, rlock, worldVars>>

\* Mutation: the sum of earlier deposits never asked for.
ReadNoLedger(p) ==
    /\ pc[p] = "ledger"
    /\ ~AlreadyApproved(op[p])
    /\ Goto(p, "commit", [op[p] EXCEPT !.charged = charges[op[p].inv] > 0])
    /\ UNCHANGED <<dataVars, rowVars, rlock, worldVars>>

ReadLedger(p) ==
    /\ pc[p] = "ledger"
    /\ ~AlreadyApproved(op[p])
    /\ Goto(p, "commit", [op[p] EXCEPT !.credited = deposits[op[p].inv],
                                       !.charged = charges[op[p].inv] > 0])
    /\ UNCHANGED <<dataVars, rowVars, rlock, worldVars>>

Commit(p) ==
    LET o == op[p]
        i == o.inv
        u == Owner[i]
        n == IF Activates(o) THEN 1 ELSE 0
        new == o.bal + Credit(o) - Charge(o)
    IN
    /\ pc[p] = "commit"
    /\ status'  = [status EXCEPT ![i] = Written(Target(o), o.seenStatus, @)]
    /\ amt'     = [amt EXCEPT ![i] = Written(Resolved(o), o.seenAmt, @)]
    /\ balance' = [balance EXCEPT ![u] = Written(new, o.bal, @)]
    /\ subs'    = [subs EXCEPT ![u] = IF Activates(o) THEN o.sub + 1 ELSE @]
    /\ deposits' = [deposits EXCEPT ![i] = @ + Credit(o)]
    /\ charges'  = [charges EXCEPT ![i] = @ + n]
    /\ ledger'   = [ledger EXCEPT ![u] = @ + Credit(o) - Charge(o)]
    /\ withdrawals' = [withdrawals EXCEPT ![u] = @ + n]
    /\ ReleaseRows(p)
    /\ Finish(p)
    /\ UNCHANGED <<expected, shot, rlock, worldVars>>

\* An exception anywhere in the transaction rolls it back.
Abort(p) ==
    /\ pc[p] \in InTransaction
    /\ ReleaseRows(p)
    /\ Finish(p)
    /\ UNCHANGED <<dataVars, rlock, worldVars>>

\* Compare-and-delete of the token.  When Redis does not answer, the key
\* stays until its TTL and nobody owns it.
ReleaseRedis(p) ==
    LET u == Owner[op[p].inv] IN
    /\ pc[p] = "release"
    /\ IF rlock[u] = p
       THEN \E left \in {None, Orphan} : rlock' = [rlock EXCEPT ![u] = left]
       ELSE UNCHANGED rlock
    /\ Stop(p)
    /\ UNCHANGED <<dataVars, rowVars, worldVars>>

-----------------------------------------------------------------------------
(* Handlers that read an invoice unlocked and later write its status.  The   *)
(* write locks the one row and commits; it does not look again.             *)

WriteNow(p, kind) ==
    /\ pc[p] = "write"
    /\ op[p].kind = kind
    /\ rowInv[op[p].inv] = None

\* The worker finds an invoice past its deadline.
FindOverdue(p, i) ==
    /\ pc[p] = "idle"
    /\ aged[i]
    /\ status[i] \in {"PENDING", "PARTIAL"}
    /\ Provider[i] = "MANUAL" => status[i] = "PENDING" /\ ~shot[i]
    /\ Goto(p, "write", [NoOp EXCEPT !.kind = "expire", !.inv = i])
    /\ UNCHANGED <<dataVars, rowVars, rlock, worldVars>>

WriteExpired(p) ==
    /\ WriteNow(p, "expire")
    /\ status' = [status EXCEPT ![op[p].inv] = "EXPIRED"]
    /\ Stop(p)
    /\ UNCHANGED <<amt, expected, shot, userVars, ledgerVars, rowVars, rlock, worldVars>>

\* The buyer sends a screenshot of the transfer.
SendScreenshot(p, i) ==
    /\ pc[p] = "idle"
    /\ Provider[i] = "MANUAL"
    /\ status[i] \in {"PENDING", "PARTIAL"}
    /\ Goto(p, "write", [NoOp EXCEPT !.kind = "upload", !.inv = i])
    /\ UNCHANGED <<dataVars, rowVars, rlock, worldVars>>

WriteScreenshot(p) ==
    /\ WriteNow(p, "upload")
    /\ status' = [status EXCEPT ![op[p].inv] = "WAITING_ADMIN"]
    /\ shot'   = [shot EXCEPT ![op[p].inv] = TRUE]
    /\ Goto(p, "postCard", op[p])
    /\ UNCHANGED <<amt, expected, userVars, ledgerVars, rowVars, rlock, worldVars>>

\* Telegram may refuse the card; the handler only logs it.
PostCard(p) ==
    /\ pc[p] = "postCard"
    /\ \E posted \in BOOLEAN : card' = [card EXCEPT ![op[p].inv] = @ \/ posted]
    /\ Stop(p)
    /\ UNCHANGED <<dataVars, rowVars, rlock, provSt, provAmt, approved, aged>>

WriteRejected(p) ==
    /\ WriteNow(p, "reject")
    /\ status' = [status EXCEPT ![op[p].inv] = Written("PENDING", op[p].seenStatus, @)]
    /\ shot'   = [shot EXCEPT ![op[p].inv] = Written(FALSE, op[p].seenShot, @)]
    /\ Stop(p)
    /\ UNCHANGED <<amt, expected, userVars, ledgerVars, rowVars, rlock, worldVars>>

\* The bot's process dies: all its tasks with it, and the admins' prompts,
\* which aiogram keeps in memory.  PostgreSQL rolls back; the Redis keys stay.
Crash ==
    /\ \E p \in Procs : pc[p] # "idle"
    /\ pc' = [p \in Procs |-> "idle"]
    /\ op' = [p \in Procs |-> NoOp]
    /\ rowInv'  = [i \in Invoices |-> None]
    /\ rowUser' = [u \in Users |-> None]
    /\ rlock' = [u \in Users |-> IF rlock[u] = None THEN None ELSE Orphan]
    /\ UNCHANGED <<dataVars, worldVars>>

-----------------------------------------------------------------------------
World(i) ==
    \/ \E e \in Amounts : CreateInvoice(i, e)
    \/ \E a \in Amounts : PaymentArrives(i, a)
    \/ \E s \in ProviderStatuses : ProviderMoves(i, s)
    \/ Age(i)

Starts(p, i) ==
    \/ StartSync(p, i)
    \/ \E kind \in {"custom", "reject"} : OpenPrompt(p, i, kind)
    \/ PressApprove(p, i)
    \/ FindOverdue(p, i)
    \/ SendScreenshot(p, i)

Moves(p) ==
    \/ ProviderAnswers(p) \/ ProviderFails(p)
    \/ \E a \in Amounts : SubmitCustom(p, a)
    \/ SubmitReason(p) \/ ClosePrompt(p)
    \/ AcquireRedis(p) \/ RedisRefuses(p)
    \/ ReadInvoice(p) \/ LockInvoice(p) \/ LockUser(p)
    \/ ReturnApproved(p) \/ ReadLedger(p) \/ Commit(p) \/ Abort(p) \/ ReleaseRedis(p)
    \/ WriteExpired(p) \/ WriteScreenshot(p) \/ PostCard(p) \/ WriteRejected(p)

Next ==
    \/ \E i \in Invoices : World(i)
    \/ \E u \in Users : PurchaseSubscription(u) \/ RedisExpires(u)
    \/ \E p \in Procs, i \in Invoices : Starts(p, i)
    \/ \E p \in Procs : Moves(p)
    \/ Crash

Spec == Init /\ [][Next]_vars

-----------------------------------------------------------------------------
(* Properties.                                                              *)

\* The sum the owner of an invoice is entitled to.
Owed(i) ==
    IF Provider[i] = "CACTUS" THEN Confirmed(i) ELSE Effective(i, Confirmed(i))

\* No invoice is ever credited with more than its provider, or an admin,
\* vouched for (up to the tolerance), however many workers, buttons and admins
\* settle it at once: the delta over credited_total is taken under both row
\* locks (billing_processor.py).
NoOvercredit == \A i \in Invoices : deposits[i] <= Owed(i)

\* Money recorded on an invoice has reached the balance: no interleaving
\* records amount_actual and loses the deposit that belongs to it.
RecordedIsCredited ==
    \A i \in Invoices : amt[i] > 0 =>
        deposits[i] >= IF Provider[i] = "CACTUS" THEN amt[i] ELSE Effective(i, amt[i])

\* The intent of an invoice is executed at most once, although every sync and
\* every approval of a PAID invoice tries again.
ChargedAtMostOnce == \A i \in Invoices : charges[i] <= 1

\* users.balance is the sum of the user's transactions: the absolute value a
\* session writes never overwrites somebody else's change.
BooksBalance == \A u \in Users : balance[u] = ledger[u]

\* No balance is ever negative.
NoDebt == \A u \in Users : balance[u] >= 0

\* Every withdrawal has extended the subscription: subscription_end, too, is
\* written as an absolute value.
EveryChargeExtends == \A u \in Users : subs[u] = withdrawals[u]

\* An invoice is PAID, or its intent executed, only when the whole price asked
\* for has been deposited.
PaidMeansFunded ==
    \A i \in Invoices : status[i] = "PAID" \/ charges[i] > 0 => deposits[i] >= expected[i]

\* "Binary success": a CACTUS invoice is credited with all of its price or
\* with nothing, never in part and never twice.
CactusAllOrNothing ==
    \A i \in Invoices : Provider[i] = "CACTUS" => deposits[i] \in {0, expected[i]}

\* The ledger this system promises, seen through the database.
Promise == INSTANCE Ledger WITH
    due     <- [i \in Invoices |-> Owed(i)],
    settled <- deposits,
    charged <- [i \in Invoices |-> charges[i] > 0]

\* Every step of the payment core is a step of the ledger it promises, or
\* leaves that ledger alone.
KeepsPromise == Promise!Spec

\* docs/MANUAL_BILLING.md: PAID is left by no arrow of the life cycle, and a
\* rejection starts from WAITING_ADMIN.  Two admins who hold the same card can
\* approve and reject it at once; what was approved should stay so.
ApprovalIsFinal ==
    [][\A i \in Invoices :
          Provider[i] = "MANUAL" /\ status[i] = "PAID" => status'[i] = "PAID"]_vars

\* docs/CACTUS_PAY_INTEGRATION.md, the worker racing the "I have paid" button:
\* the second sync sees PAID and returns, whatever the order.
SecondSyncSeesPaid ==
    [][\A p \in Procs :
          /\ pc[p] = "commit" /\ pc'[p] = "release"
          /\ Provider[op[p].inv] = "CACTUS"
          /\ op[p].seenStatus = "PAID"
          => status'[op[p].inv] = "PAID"]_vars
=============================================================================
