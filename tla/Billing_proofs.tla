--------------------------- MODULE Billing_proofs ---------------------------
(* Proofs about Billing, for every set of users, invoices and tasks and       *)
(* every price, bonus and tolerance.                                         *)
EXTENDS Billing, TLAPS

USE BillingAssumption

-----------------------------------------------------------------------------
(* Typing.                                                                  *)

LEMMA NoOpType == NoOp \in Locals
  BY DEF NoOp, Locals, Kinds, ProviderStatuses, InvoiceStatuses

\* What Goto leaves behind.
LEMMA GotoType ==
  ASSUME pc \in [Procs -> Places], op \in [Procs -> Locals],
         NEW p \in Procs, NEW place \in Places, NEW o \in Locals,
         Goto(p, place, o)
  PROVE  /\ pc' \in [Procs -> Places]
         /\ op' \in [Procs -> Locals]
         /\ pc'[p] = place
         /\ op'[p] = o
         /\ \A q \in Procs : q # p => pc'[q] = pc[q] /\ op'[q] = op[q]
  BY DEF Goto

\* The values a settlement computes.
LEMMA SettlementTypes ==
  ASSUME expected \in [Invoices -> Nat], NEW o \in Locals
  PROVE  /\ o.inv \in Invoices /\ o.bal \in Int /\ o.sub \in Nat
         /\ o.api \in Nat /\ o.seenAmt \in Nat /\ o.credited \in Nat
         /\ o.kind \in Kinds /\ o.charged \in BOOLEAN
         /\ o.seenStatus \in InvoiceStatuses /\ o.pst \in ProviderStatuses
         /\ Resolved(o) \in Nat
         /\ Due(o) \in Nat
         /\ Credit(o) \in Nat
         /\ Target(o) \in {"PENDING", "PARTIAL", "PAID", "EXPIRED"}
         /\ Charge(o) \in {0, Price}
<1>1. /\ o.inv \in Invoices /\ o.bal \in Int /\ o.sub \in Nat
      /\ o.api \in Nat /\ o.seenAmt \in Nat /\ o.credited \in Nat
      /\ o.kind \in Kinds /\ o.charged \in BOOLEAN
      /\ o.seenStatus \in InvoiceStatuses /\ o.pst \in ProviderStatuses
  BY DEF Locals
<1>2. Resolved(o) \in Nat
  BY <1>1 DEF Resolved, MaxOf
<1>3. Due(o) \in Nat
  BY <1>1, <1>2 DEF Due, Effective
<1>4. Credit(o) \in Nat
  BY <1>1, <1>3 DEF Credit
<1>5. Target(o) \in {"PENDING", "PARTIAL", "PAID", "EXPIRED"}
  BY <1>1, <1>3 DEF Target, InvoiceStatus
<1>6. Charge(o) \in {0, Price}
  BY DEF Charge
<1> QED
  BY <1>1, <1>2, <1>3, <1>4, <1>5, <1>6

\* Stop and Finish are Goto with typed locals.
LEMMA StopType ==
  ASSUME pc \in [Procs -> Places], op \in [Procs -> Locals], NEW p \in Procs, Stop(p)
  PROVE  pc' \in [Procs -> Places] /\ op' \in [Procs -> Locals]
<1>1. "idle" \in Places BY DEF Places
<1> QED
  BY <1>1, NoOpType, GotoType DEF Stop

LEMMA FinishType ==
  ASSUME pc \in [Procs -> Places], op \in [Procs -> Locals], NEW p \in Procs, Finish(p)
  PROVE  pc' \in [Procs -> Places] /\ op' \in [Procs -> Locals]
<1>1. "release" \in Places BY DEF Places
<1>2. [NoOp EXCEPT !.inv = op[p].inv] \in Locals
  BY NoOpType DEF Locals
<1> QED
  BY <1>1, <1>2, GotoType DEF Finish

LEMMA ReleaseType ==
  ASSUME rowInv \in [Invoices -> Procs \cup {None}],
         rowUser \in [Users -> Procs \cup {None}],
         NEW p \in Procs, ReleaseRows(p)
  PROVE  /\ rowInv' \in [Invoices -> Procs \cup {None}]
         /\ rowUser' \in [Users -> Procs \cup {None}]
  BY DEF ReleaseRows

-----------------------------------------------------------------------------
(* Typing is preserved: one lemma per group of actions.                     *)

LEMMA InitType == Init => TypeOK
<1> SUFFICES ASSUME Init PROVE TypeOK
  OBVIOUS
<1>1. /\ pc \in [Procs -> Places]
      /\ op \in [Procs -> Locals]
  BY NoOpType DEF Init, Places
<1> QED
  BY <1>1 DEF Init, TypeOK, InvoiceStatuses, ProviderStatuses

LEMMA WorldType ==
  ASSUME TypeOK, NEW i \in Invoices, World(i)
  PROVE  TypeOK'
<1> USE DEF TypeOK, dataVars, invoiceVars, userVars, ledgerVars, rowVars, worldVars, procVars
<1>1. ASSUME NEW e \in Amounts, CreateInvoice(i, e) PROVE TypeOK'
  <2>1. status' \in [Invoices -> InvoiceStatuses] /\ expected' \in [Invoices -> Nat]
    BY <1>1 DEF CreateInvoice, InvoiceStatuses
  <2> QED BY <1>1, <2>1 DEF CreateInvoice
<1>2. ASSUME NEW a \in Amounts, PaymentArrives(i, a) PROVE TypeOK'
  <2>1. provAmt' \in [Invoices -> Nat]
    BY <1>2 DEF PaymentArrives
  <2> QED BY <1>2, <2>1 DEF PaymentArrives
<1>3. ASSUME NEW s \in ProviderStatuses, ProviderMoves(i, s) PROVE TypeOK'
  <2>1. provSt' \in [Invoices -> ProviderStatuses]
    BY <1>3 DEF ProviderMoves
  <2> QED BY <1>3, <2>1 DEF ProviderMoves
<1>4. ASSUME Age(i) PROVE TypeOK'
  <2>1. aged' \in [Invoices -> BOOLEAN]
    BY <1>4 DEF Age
  <2> QED BY <1>4, <2>1 DEF Age
<1> QED
  BY <1>1, <1>2, <1>3, <1>4 DEF World

LEMMA PurchaseType ==
  ASSUME TypeOK, NEW u \in Users, PurchaseSubscription(u)
  PROVE  TypeOK'
<1> USE DEF TypeOK, dataVars, invoiceVars, userVars, ledgerVars, rowVars, worldVars, procVars
<1>1. balance' \in [Users -> Int] /\ ledger' \in [Users -> Int]
  BY DEF PurchaseSubscription
<1>2. subs' \in [Users -> Nat] /\ withdrawals' \in [Users -> Nat]
  BY DEF PurchaseSubscription
<1> QED
  BY <1>1, <1>2 DEF PurchaseSubscription

LEMMA StartsType ==
  ASSUME TypeOK, NEW p \in Procs, NEW i \in Invoices, Starts(p, i)
  PROVE  TypeOK'
<1> USE DEF TypeOK, dataVars, invoiceVars, userVars, ledgerVars, rowVars, worldVars, procVars
<1>0. {"snapshot", "prompt", "redis", "write"} \subseteq Places
      /\ {"sync", "custom", "reject", "approve", "expire", "upload"} \subseteq Kinds
  BY DEF Places, Kinds
<1>1. ASSUME StartSync(p, i) PROVE TypeOK'
  <2>1. [NoOp EXCEPT !.kind = "sync", !.inv = i, !.seenAmt = amt[i]] \in Locals
    BY <1>0, NoOpType DEF Locals
  <2> QED BY <1>0, <1>1, <2>1, GotoType DEF StartSync
<1>2. ASSUME NEW kind \in {"custom", "reject"}, OpenPrompt(p, i, kind) PROVE TypeOK'
  <2>1. [NoOp EXCEPT !.kind = kind, !.inv = i] \in Locals
    BY <1>0, NoOpType DEF Locals
  <2>2. card' \in [Invoices -> BOOLEAN]
    BY <1>2 DEF OpenPrompt, DisarmCard
  <2> QED BY <1>0, <1>2, <2>1, <2>2, GotoType DEF OpenPrompt
<1>3. ASSUME PressApprove(p, i) PROVE TypeOK'
  <2>1. [NoOp EXCEPT !.kind = "approve", !.inv = i, !.api = expected[i]] \in Locals
    BY <1>0, NoOpType DEF Locals
  <2>2. card' \in [Invoices -> BOOLEAN]
    BY <1>3 DEF PressApprove, DisarmCard
  <2>3. approved' \in [Invoices -> Nat]
    BY <1>3 DEF PressApprove, Approve, MaxOf
  <2> QED BY <1>0, <1>3, <2>1, <2>2, <2>3, GotoType DEF PressApprove, Approve
<1>4. ASSUME FindOverdue(p, i) PROVE TypeOK'
  <2>1. [NoOp EXCEPT !.kind = "expire", !.inv = i] \in Locals
    BY <1>0, NoOpType DEF Locals
  <2> QED BY <1>0, <1>4, <2>1, GotoType DEF FindOverdue
<1>5. ASSUME SendScreenshot(p, i) PROVE TypeOK'
  <2>1. [NoOp EXCEPT !.kind = "upload", !.inv = i] \in Locals
    BY <1>0, NoOpType DEF Locals
  <2> QED BY <1>0, <1>5, <2>1, GotoType DEF SendScreenshot
<1> QED
  BY <1>1, <1>2, <1>3, <1>4, <1>5 DEF Starts

LEMMA SyncType ==
  ASSUME TypeOK, NEW p \in Procs,
         \/ ProviderAnswers(p) \/ ProviderFails(p)
         \/ \E a \in Amounts : SubmitCustom(p, a)
         \/ SubmitReason(p) \/ ClosePrompt(p)
  PROVE  TypeOK'
<1> USE DEF TypeOK, dataVars, invoiceVars, userVars, ledgerVars, rowVars, worldVars, procVars
<1>0. /\ {"redis", "write"} \subseteq Places /\ {"approve"} \subseteq Kinds
      /\ op[p] \in Locals /\ op[p].inv \in Invoices /\ op[p].seenAmt \in Nat
  BY DEF Places, Kinds, Locals
<1>1. ASSUME ProviderAnswers(p) PROVE TypeOK'
  <2>1. Answer(op[p]) \in Nat
    BY <1>0 DEF Answer
  <2>2. [op[p] EXCEPT !.api = Answer(op[p]), !.pst = provSt[op[p].inv]] \in Locals
    BY <1>0, <2>1 DEF Locals
  <2> QED BY <1>0, <1>1, <2>2, GotoType DEF ProviderAnswers
<1>2. ASSUME ProviderFails(p) \/ ClosePrompt(p) PROVE TypeOK'
  BY <1>2, StopType DEF ProviderFails, ClosePrompt
<1>3. ASSUME NEW a \in Amounts, SubmitCustom(p, a) PROVE TypeOK'
  <2>1. [NoOp EXCEPT !.kind = "approve", !.inv = op[p].inv, !.api = a] \in Locals
    BY <1>0, NoOpType DEF Locals
  <2>2. approved' \in [Invoices -> Nat]
    BY <1>0, <1>3 DEF SubmitCustom, Approve, MaxOf
  <2> QED BY <1>0, <1>3, <2>1, <2>2, GotoType DEF SubmitCustom, Approve
<1>4. ASSUME SubmitReason(p) PROVE TypeOK'
  <2>1. [op[p] EXCEPT !.seenStatus = status[op[p].inv], !.seenShot = shot[op[p].inv]] \in Locals
    BY <1>0 DEF Locals
  <2> QED BY <1>0, <1>4, <2>1, GotoType DEF SubmitReason
<1> QED
  BY <1>1, <1>2, <1>3, <1>4

LEMMA LockingType ==
  ASSUME TypeOK, NEW p \in Procs,
         \/ AcquireRedis(p) \/ RedisRefuses(p) \/ ReadInvoice(p) \/ LockInvoice(p)
         \/ LockUser(p) \/ ReturnApproved(p) \/ ReadLedger(p) \/ Abort(p) \/ ReleaseRedis(p)
  PROVE  TypeOK'
<1> USE DEF TypeOK, dataVars, invoiceVars, userVars, ledgerVars, rowVars, worldVars, procVars
<1>0. /\ {"read", "lockInvoice", "lockUser", "ledger", "commit"} \subseteq Places
      /\ op[p] \in Locals /\ op[p].inv \in Invoices /\ Owner[op[p].inv] \in Users
  BY DEF Places, Locals
<1>1. ASSUME AcquireRedis(p) PROVE TypeOK'
  <2>1. rlock' \in [Users -> Procs \cup {None, Orphan}]
    BY <1>0, <1>1 DEF AcquireRedis
  <2> QED BY <1>0, <1>1, <2>1, GotoType DEF AcquireRedis
<1>2. ASSUME RedisRefuses(p) PROVE TypeOK'
  BY <1>2, StopType DEF RedisRefuses
<1>3. ASSUME ReadInvoice(p) PROVE TypeOK'
  <2>1. [op[p] EXCEPT !.seenStatus = status[op[p].inv], !.seenAmt = amt[op[p].inv]] \in Locals
    BY <1>0 DEF Locals
  <2> QED BY <1>0, <1>3, <2>1, GotoType DEF ReadInvoice
<1>4. ASSUME LockInvoice(p) PROVE TypeOK'
  <2>1. rowInv' \in [Invoices -> Procs \cup {None}]
    BY <1>0, <1>4 DEF LockInvoice
  <2> QED BY <1>0, <1>4, <2>1, GotoType DEF LockInvoice
<1>5. ASSUME LockUser(p) PROVE TypeOK'
  <2>1. rowUser' \in [Users -> Procs \cup {None}]
    BY <1>0, <1>5 DEF LockUser
  <2>2. [op[p] EXCEPT !.bal = balance[Owner[op[p].inv]],
                      !.sub = subs[Owner[op[p].inv]]] \in Locals
    BY <1>0 DEF Locals
  <2> QED BY <1>0, <1>5, <2>1, <2>2, GotoType DEF LockUser
<1>6. ASSUME ReturnApproved(p) \/ Abort(p) PROVE TypeOK'
  BY <1>6, FinishType, ReleaseType DEF ReturnApproved, Abort
<1>7. ASSUME ReadLedger(p) PROVE TypeOK'
  <2> DEFINE any == charges[op[p].inv] > 0
  <2>0. any \in BOOLEAN
    OBVIOUS
  <2> HIDE DEF any
  <2>1. [op[p] EXCEPT !.credited = deposits[op[p].inv], !.charged = any] \in Locals
    BY <1>0, <2>0 DEF Locals
  <2> USE DEF any
  <2> QED BY <1>0, <1>7, <2>1, GotoType DEF ReadLedger
<1>8. ASSUME ReleaseRedis(p) PROVE TypeOK'
  <2>1. rlock' \in [Users -> Procs \cup {None, Orphan}]
    BY <1>0, <1>8 DEF ReleaseRedis
  <2> QED BY <1>8, <2>1, StopType DEF ReleaseRedis
<1> QED
  BY <1>1, <1>2, <1>3, <1>4, <1>5, <1>6, <1>7, <1>8

LEMMA CommitType ==
  ASSUME TypeOK, NEW p \in Procs, Commit(p)
  PROVE  TypeOK'
<1> DEFINE o == op[p]
           u == Owner[o.inv]
<1>1. /\ o \in Locals /\ o.inv \in Invoices /\ u \in Users /\ o.bal \in Int /\ o.sub \in Nat
      /\ Resolved(o) \in Nat /\ Credit(o) \in Nat /\ Charge(o) \in {0, Price}
      /\ Charge(o) \in Nat
      /\ Target(o) \in InvoiceStatuses
  BY SettlementTypes DEF TypeOK, InvoiceStatuses
<1> HIDE DEF o
<1>2. status' \in [Invoices -> InvoiceStatuses] /\ amt' \in [Invoices -> Nat]
  BY <1>1 DEF TypeOK, Commit, Written, o
<1>3. balance' \in [Users -> Int] /\ ledger' \in [Users -> Int]
  BY <1>1 DEF TypeOK, Commit, Written, o
<1>4. /\ subs' \in [Users -> Nat] /\ withdrawals' \in [Users -> Nat]
      /\ deposits' \in [Invoices -> Nat] /\ charges' \in [Invoices -> Nat]
  BY <1>1 DEF TypeOK, Commit, o
<1>5. /\ pc' \in [Procs -> Places] /\ op' \in [Procs -> Locals]
      /\ rowInv' \in [Invoices -> Procs \cup {None}]
      /\ rowUser' \in [Users -> Procs \cup {None}]
  BY FinishType, ReleaseType DEF TypeOK, Commit
<1> QED
  BY <1>2, <1>3, <1>4, <1>5 DEF TypeOK, Commit, worldVars

LEMMA WritesType ==
  ASSUME TypeOK, NEW p \in Procs,
         WriteExpired(p) \/ WriteScreenshot(p) \/ PostCard(p) \/ WriteRejected(p)
  PROVE  TypeOK'
<1> USE DEF TypeOK, dataVars, invoiceVars, userVars, ledgerVars, rowVars, worldVars, procVars
<1>0. /\ "postCard" \in Places
      /\ {"PENDING", "EXPIRED", "WAITING_ADMIN"} \subseteq InvoiceStatuses
      /\ op[p] \in Locals /\ op[p].inv \in Invoices
  BY DEF Places, Locals, InvoiceStatuses
<1>1. ASSUME WriteExpired(p) PROVE TypeOK'
  <2>1. status' \in [Invoices -> InvoiceStatuses]
    BY <1>0, <1>1 DEF WriteExpired
  <2> QED BY <1>1, <2>1, StopType DEF WriteExpired
<1>2. ASSUME WriteScreenshot(p) PROVE TypeOK'
  <2>1. status' \in [Invoices -> InvoiceStatuses] /\ shot' \in [Invoices -> BOOLEAN]
    BY <1>0, <1>2 DEF WriteScreenshot
  <2> QED BY <1>0, <1>2, <2>1, GotoType DEF WriteScreenshot
<1>3. ASSUME PostCard(p) PROVE TypeOK'
  <2>1. card' \in [Invoices -> BOOLEAN]
    BY <1>0, <1>3 DEF PostCard
  <2> QED BY <1>3, <2>1, StopType DEF PostCard
<1>4. ASSUME WriteRejected(p) PROVE TypeOK'
  <2>1. status' \in [Invoices -> InvoiceStatuses]
    BY <1>0, <1>4 DEF WriteRejected, Written
  <2>2. shot' \in [Invoices -> BOOLEAN]
    BY <1>0, <1>4 DEF WriteRejected, Written
  <2> QED BY <1>4, <2>1, <2>2, StopType DEF WriteRejected
<1> QED
  BY <1>1, <1>2, <1>3, <1>4

LEMMA CrashType == TypeOK /\ Crash => TypeOK'
<1> SUFFICES ASSUME TypeOK, Crash PROVE TypeOK'
  OBVIOUS
<1>1. /\ pc' \in [Procs -> Places]
      /\ op' \in [Procs -> Locals]
  BY NoOpType DEF Crash, Places
<1>2. rlock' \in [Users -> Procs \cup {None, Orphan}]
  BY DEF Crash, TypeOK
<1> QED
  BY <1>1, <1>2 DEF Crash, TypeOK, dataVars, invoiceVars, userVars, ledgerVars, worldVars

LEMMA NextType == TypeOK /\ [Next]_vars => TypeOK'
<1> SUFFICES ASSUME TypeOK, [Next]_vars PROVE TypeOK'
  OBVIOUS
<1>1. ASSUME NEW u \in Users, RedisExpires(u) PROVE TypeOK'
  <2>1. rlock' \in [Users -> Procs \cup {None, Orphan}]
    BY <1>1 DEF RedisExpires, TypeOK
  <2> QED
    BY <1>1, <2>1 DEF RedisExpires, TypeOK, dataVars, invoiceVars, userVars, ledgerVars,
                      rowVars, worldVars, procVars
<1>2. ASSUME NEW p \in Procs, Moves(p) PROVE TypeOK'
  BY <1>2, SyncType, LockingType, CommitType, WritesType DEF Moves
<1>3. CASE UNCHANGED vars
  BY <1>3 DEF TypeOK, vars, dataVars, invoiceVars, userVars, ledgerVars, rowVars,
              worldVars, procVars
<1> QED
  BY <1>1, <1>2, <1>3, WorldType, PurchaseType, StartsType, CrashType DEF Next

\* Every reachable state is well typed.
THEOREM TypeCorrect == Spec => []TypeOK
  BY InitType, NextType, PTL DEF Spec

-----------------------------------------------------------------------------
(* The inductive invariant behind the money properties.  BooksBalance and     *)
(* ChargedAtMostOnce are not inductive: a commit writes absolute values       *)
(* computed from locals, so what matters is that the locals are still true    *)
(* then.  They are, because the task holds the row locks since it read them.  *)

LocksHeld ==
    \A p \in Procs :
        /\ pc[p] \in HoldsInvoice => rowInv[op[p].inv] = p
        /\ pc[p] \in HoldsUser => rowUser[Owner[op[p].inv]] = p

LocalsFresh ==
    \A p \in Procs :
        /\ pc[p] \in HoldsUser => /\ op[p].bal = balance[Owner[op[p].inv]]
                                 /\ op[p].sub = subs[Owner[op[p].inv]]
        /\ pc[p] = "commit" => /\ op[p].credited = deposits[op[p].inv]
                               /\ op[p].charged <=> charges[op[p].inv] > 0

Books == BooksBalance /\ NoDebt /\ EveryChargeExtends /\ ChargedAtMostOnce

MoneyInv == TypeOK /\ LocksHeld /\ LocalsFresh /\ Books

\* A step of one task moves no other task.
LEMMA OthersStay ==
  ASSUME TypeOK, NEW p \in Procs, NEW q \in Procs, q # p,
         (\E i \in Invoices : Starts(p, i)) \/ Moves(p)
  PROVE  pc'[q] = pc[q] /\ op'[q] = op[q]
<1> USE DEF TypeOK
<1>1. ASSUME NEW i \in Invoices, Starts(p, i) PROVE pc'[q] = pc[q] /\ op'[q] = op[q]
  BY <1>1 DEF Starts, StartSync, OpenPrompt, PressApprove, Approve, FindOverdue,
              SendScreenshot, Goto
<1>2. CASE Moves(p)
  <2>1. \E place, o : Goto(p, place, o)
    BY <1>2, Zenon DEF Moves, ProviderAnswers, ProviderFails, SubmitCustom, SubmitReason, ClosePrompt,
              AcquireRedis, RedisRefuses, ReadInvoice, LockInvoice, LockUser, ReturnApproved,
              ReadLedger, Commit, Abort, ReleaseRedis, WriteExpired, WriteScreenshot,
              PostCard, WriteRejected, Approve, Stop, Finish
  <2> QED
    BY <2>1 DEF Goto
<1> QED
  BY <1>1, <1>2

\* Nor does it take away a row another task has locked.
LEMMA OthersKeepRows ==
  ASSUME TypeOK, NEW p \in Procs, NEW q \in Procs, q # p,
         (\E i \in Invoices : Starts(p, i)) \/ Moves(p)
  PROVE  /\ \A i \in Invoices : rowInv[i] = q => rowInv'[i] = q
         /\ \A u \in Users : rowUser[u] = q => rowUser'[u] = q
<1> USE DEF TypeOK
<1>0. op[p].inv \in Invoices /\ Owner[op[p].inv] \in Users
  BY DEF Locals
<1>1. CASE rowInv' = rowInv /\ rowUser' = rowUser
  BY <1>1
<1>2. CASE ReleaseRows(p)
  BY <1>2 DEF ReleaseRows
<1>3. CASE LockInvoice(p)
  BY <1>0, <1>3 DEF LockInvoice
<1>4. CASE LockUser(p)
  BY <1>0, <1>4 DEF LockUser
<1>5. ASSUME NEW i \in Invoices, Starts(p, i) PROVE rowInv' = rowInv /\ rowUser' = rowUser
  BY <1>5 DEF Starts, StartSync, OpenPrompt, PressApprove, FindOverdue, SendScreenshot, rowVars
<1>6. ASSUME Moves(p), ~ReleaseRows(p), ~LockInvoice(p), ~LockUser(p)
      PROVE rowInv' = rowInv /\ rowUser' = rowUser
  BY <1>6 DEF Moves, ProviderAnswers, ProviderFails, SubmitCustom, SubmitReason, ClosePrompt,
              AcquireRedis, RedisRefuses, ReadInvoice, ReturnApproved,
              ReadLedger, Commit, Abort, ReleaseRedis, WriteExpired, WriteScreenshot,
              PostCard, WriteRejected, rowVars
<1> QED
  BY <1>1, <1>2, <1>3, <1>4, <1>5, <1>6

\* Where a step leaves its own task.
LEMMA OwnPlace ==
  ASSUME TypeOK, NEW p \in Procs, (\E i \in Invoices : Starts(p, i)) \/ Moves(p)
  PROVE  \/ pc'[p] \notin HoldsInvoice \cup HoldsUser
         \/ LockInvoice(p) \/ LockUser(p) \/ ReadLedger(p)
<1> USE DEF TypeOK, HoldsInvoice, HoldsUser
<1>1. ASSUME NEW i \in Invoices, Starts(p, i) PROVE pc'[p] \notin HoldsInvoice \cup HoldsUser
  BY <1>1 DEF Starts, StartSync, OpenPrompt, PressApprove, Approve, FindOverdue,
              SendScreenshot, Goto
<1>2. ASSUME Moves(p), ~LockInvoice(p), ~LockUser(p), ~ReadLedger(p)
      PROVE  pc'[p] \notin HoldsInvoice \cup HoldsUser
  <2>1. \E o : \E place \in {"idle", "redis", "read", "lockInvoice", "write", "release", "postCard"} :
           Goto(p, place, o)
    BY <1>2, Zenon DEF Moves, ProviderAnswers, ProviderFails, SubmitCustom, SubmitReason, ClosePrompt,
              AcquireRedis, RedisRefuses, ReadInvoice, ReturnApproved,
              Commit, Abort, ReleaseRedis, WriteExpired, WriteScreenshot,
              PostCard, WriteRejected, Approve, Stop, Finish
  <2> QED
    BY <2>1 DEF Goto
<1> QED
  BY <1>1, <1>2

LEMMA LocksHeldKept == TypeOK /\ LocksHeld /\ [Next]_vars => LocksHeld'
<1> SUFFICES ASSUME TypeOK, LocksHeld, [Next]_vars PROVE LocksHeld'
  OBVIOUS
<1>1. ASSUME NEW p \in Procs, (\E i \in Invoices : Starts(p, i)) \/ Moves(p) PROVE LocksHeld'
  <2>0. op[p].inv \in Invoices /\ Owner[op[p].inv] \in Users
    BY DEF Locals, TypeOK
  <2>1. ASSUME NEW q \in Procs, q # p
        PROVE  /\ pc'[q] \in HoldsInvoice => rowInv'[op'[q].inv] = q
               /\ pc'[q] \in HoldsUser => rowUser'[Owner[op'[q].inv]] = q
    <3>1. op[q].inv \in Invoices /\ Owner[op[q].inv] \in Users
      BY DEF Locals, TypeOK
    <3> QED
      BY <1>1, <2>1, <3>1, OthersStay, OthersKeepRows DEF LocksHeld
  <2>2. /\ pc'[p] \in HoldsInvoice => rowInv'[op'[p].inv] = p
        /\ pc'[p] \in HoldsUser => rowUser'[Owner[op'[p].inv]] = p
    <3>1. CASE pc'[p] \notin HoldsInvoice \cup HoldsUser
      BY <3>1
    <3>2. CASE LockInvoice(p)
      BY <2>0, <3>2 DEF LockInvoice, Goto, HoldsUser, TypeOK
    <3>3. CASE LockUser(p)
      <4>1. rowInv[op[p].inv] = p
        BY <3>3 DEF LockUser, LocksHeld, HoldsInvoice
      <4>2. op'[p].inv = op[p].inv /\ rowInv' = rowInv
        BY <3>3 DEF LockUser, Goto, TypeOK, Locals
      <4> QED
        BY <2>0, <3>3, <4>1, <4>2 DEF LockUser, TypeOK
    <3>4. CASE ReadLedger(p)
      <4>1. rowInv[op[p].inv] = p /\ rowUser[Owner[op[p].inv]] = p
        BY <3>4 DEF ReadLedger, LocksHeld, HoldsInvoice, HoldsUser
      <4>2. op'[p].inv = op[p].inv
        BY <3>4 DEF ReadLedger, Goto, TypeOK, Locals
      <4> QED
        BY <3>4, <4>1, <4>2 DEF ReadLedger, rowVars
    <3> QED
      BY <1>1, <3>1, <3>2, <3>3, <3>4, OwnPlace
  <2> QED
    BY <2>1, <2>2 DEF LocksHeld
<1>2. CASE Crash
  BY <1>2 DEF Crash, LocksHeld, HoldsInvoice, HoldsUser
<1>3. ASSUME UNCHANGED <<rowVars, procVars>> PROVE LocksHeld'
  BY <1>3 DEF LocksHeld, rowVars, procVars
<1>4. ASSUME NEW i \in Invoices, World(i) PROVE UNCHANGED <<rowVars, procVars>>
  BY <1>4 DEF World, CreateInvoice, PaymentArrives, ProviderMoves, Age, procVars
<1>5. ASSUME NEW u \in Users, PurchaseSubscription(u) \/ RedisExpires(u)
      PROVE  UNCHANGED <<rowVars, procVars>>
  BY <1>5 DEF PurchaseSubscription, RedisExpires, procVars
<1>6. CASE UNCHANGED vars
  BY <1>3, <1>6 DEF vars
<1> QED
  BY <1>1, <1>2, <1>3, <1>4, <1>5, <1>6 DEF Next

\* Only a commit and a purchase touch money.
LEMMA MoneyRests ==
  ASSUME TypeOK, [Next]_vars,
         \A p \in Procs : ~Commit(p), \A u \in Users : ~PurchaseSubscription(u)
  PROVE  UNCHANGED <<userVars, ledgerVars>>
<1>1. ASSUME NEW i \in Invoices, World(i) PROVE UNCHANGED <<userVars, ledgerVars>>
  BY <1>1 DEF World, CreateInvoice, PaymentArrives, ProviderMoves, Age, dataVars
<1>2. ASSUME NEW u \in Users, RedisExpires(u) PROVE UNCHANGED <<userVars, ledgerVars>>
  BY <1>2 DEF RedisExpires, dataVars
<1>3. ASSUME NEW p \in Procs, NEW i \in Invoices, Starts(p, i)
      PROVE  UNCHANGED <<userVars, ledgerVars>>
  BY <1>3 DEF Starts, StartSync, OpenPrompt, PressApprove, FindOverdue, SendScreenshot, dataVars
<1>4. ASSUME NEW p \in Procs, Moves(p) PROVE UNCHANGED <<userVars, ledgerVars>>
  BY <1>4 DEF Moves, ProviderAnswers, ProviderFails, SubmitCustom, SubmitReason, ClosePrompt,
              AcquireRedis, RedisRefuses, ReadInvoice, LockInvoice, LockUser, ReturnApproved,
              ReadLedger, Abort, ReleaseRedis, WriteExpired, WriteScreenshot,
              PostCard, WriteRejected, dataVars
<1>5. CASE Crash
  BY <1>5 DEF Crash, dataVars
<1>6. CASE UNCHANGED vars
  BY <1>6 DEF vars, dataVars
<1> QED
  BY <1>1, <1>2, <1>3, <1>4, <1>5, <1>6 DEF Next

\* A commit changes the money of one invoice and of one user.
LEMMA CommitEffect ==
  ASSUME TypeOK, NEW p \in Procs, Commit(p)
  PROVE  LET o == op[p]  i == op[p].inv  u == Owner[op[p].inv] IN
         /\ i \in Invoices /\ u \in Users
         /\ \A j \in Invoices : j # i => deposits'[j] = deposits[j] /\ charges'[j] = charges[j]
         /\ \A v \in Users : v # u => /\ balance'[v] = balance[v] /\ subs'[v] = subs[v]
                                     /\ ledger'[v] = ledger[v]
                                     /\ withdrawals'[v] = withdrawals[v]
         /\ deposits'[i] = deposits[i] + Credit(o)
         /\ charges'[i] = charges[i] + (IF Activates(o) THEN 1 ELSE 0)
         /\ balance'[u] = Written(o.bal + Credit(o) - Charge(o), o.bal, balance[u])
         /\ subs'[u] = IF Activates(o) THEN o.sub + 1 ELSE subs[u]
         /\ ledger'[u] = ledger[u] + Credit(o) - Charge(o)
         /\ withdrawals'[u] = withdrawals[u] + (IF Activates(o) THEN 1 ELSE 0)
<1> DEFINE o == op[p]
           i == op[p].inv
           u == Owner[op[p].inv]
<1>1. o \in Locals /\ i \in Invoices /\ u \in Users
  BY DEF TypeOK, Locals
<1>2. /\ \A j \in Invoices : j # i => deposits'[j] = deposits[j] /\ charges'[j] = charges[j]
      /\ deposits'[i] = deposits[i] + Credit(o)
      /\ charges'[i] = charges[i] + (IF Activates(o) THEN 1 ELSE 0)
  BY <1>1 DEF Commit, TypeOK
<1>3. /\ \A v \in Users : v # u => balance'[v] = balance[v] /\ subs'[v] = subs[v]
      /\ balance'[u] = Written(o.bal + Credit(o) - Charge(o), o.bal, balance[u])
      /\ subs'[u] = IF Activates(o) THEN o.sub + 1 ELSE subs[u]
  BY <1>1 DEF Commit, TypeOK
<1>4. /\ \A v \in Users : v # u => ledger'[v] = ledger[v] /\ withdrawals'[v] = withdrawals[v]
      /\ ledger'[u] = ledger[u] + Credit(o) - Charge(o)
      /\ withdrawals'[u] = withdrawals[u] + (IF Activates(o) THEN 1 ELSE 0)
  BY <1>1 DEF Commit, TypeOK
<1> QED
  BY <1>1, <1>2, <1>3, <1>4

LEMMA LocalsFreshKept ==
  ASSUME TypeOK, LocksHeld, LocalsFresh, [Next]_vars
  PROVE  LocalsFresh'
<1> DEFINE Fresh(q) ==
      /\ pc[q] \in HoldsUser => /\ op[q].bal = balance[Owner[op[q].inv]]
                               /\ op[q].sub = subs[Owner[op[q].inv]]
      /\ pc[q] = "commit" => /\ op[q].credited = deposits[op[q].inv]
                             /\ op[q].charged <=> charges[op[q].inv] > 0
<1>0. \A q \in Procs : /\ Fresh(q)
                       /\ op[q].inv \in Invoices /\ Owner[op[q].inv] \in Users
  BY DEF LocalsFresh, TypeOK, Locals
<1>1. ASSUME NEW q \in Procs, pc'[q] = pc[q], op'[q] = op[q], UNCHANGED <<userVars, ledgerVars>>
      PROVE  Fresh(q)'
  BY <1>0, <1>1 DEF userVars, ledgerVars
<1>2. ASSUME NEW p \in Procs, (\E i \in Invoices : Starts(p, i)) \/ Moves(p), ~Commit(p)
      PROVE  LocalsFresh'
  <2>1. UNCHANGED <<userVars, ledgerVars>>
    <3>1. CASE Moves(p)
      BY <1>2, <3>1 DEF Moves, ProviderAnswers, ProviderFails, SubmitCustom, SubmitReason, ClosePrompt,
              AcquireRedis, RedisRefuses, ReadInvoice, LockInvoice, LockUser, ReturnApproved,
              ReadLedger, Abort, ReleaseRedis, WriteExpired, WriteScreenshot,
              PostCard, WriteRejected, dataVars
    <3>2. ASSUME NEW i \in Invoices, Starts(p, i) PROVE UNCHANGED <<userVars, ledgerVars>>
      BY <3>2 DEF Starts, StartSync, OpenPrompt, PressApprove, FindOverdue, SendScreenshot, dataVars
    <3> QED BY <1>2, <3>1, <3>2
  <2>2. ASSUME NEW q \in Procs, q # p PROVE Fresh(q)'
    BY <1>1, <1>2, <2>1, <2>2, OthersStay
  <2>3. Fresh(p)'
    <3>1. CASE pc'[p] \notin HoldsInvoice \cup HoldsUser
      BY <3>1 DEF HoldsInvoice
    <3>2. CASE LockInvoice(p)
      BY <3>2 DEF LockInvoice, Goto, HoldsUser, TypeOK
    <3>3. CASE LockUser(p)
      <4>1. /\ op'[p].bal = balance[Owner[op[p].inv]] /\ op'[p].sub = subs[Owner[op[p].inv]]
            /\ op'[p].inv = op[p].inv /\ pc'[p] = "ledger"
        BY <3>3 DEF LockUser, Goto, TypeOK, Locals
      <4> QED BY <2>1, <4>1 DEF userVars
    <3>4. CASE ReadLedger(p)
      <4>1. /\ op'[p].bal = op[p].bal /\ op'[p].sub = op[p].sub /\ op'[p].inv = op[p].inv
            /\ op'[p].credited = deposits[op[p].inv]
            /\ op'[p].charged = (charges[op[p].inv] > 0)
            /\ pc[p] \in HoldsUser
        BY <3>4 DEF ReadLedger, Goto, TypeOK, Locals, HoldsUser
      <4> QED BY <1>0, <2>1, <4>1 DEF userVars, ledgerVars
    <3> QED
      BY <1>2, <3>1, <3>2, <3>3, <3>4, OwnPlace
  <2> QED
    BY <2>2, <2>3 DEF LocalsFresh
<1>3. ASSUME NEW p \in Procs, Commit(p) PROVE LocalsFresh'
  <2>1. ASSUME NEW q \in Procs, q # p PROVE Fresh(q)'
    <3>1. pc'[q] = pc[q] /\ op'[q] = op[q]
      BY <1>3, <2>1, OthersStay DEF Moves
    <3>2. rowInv[op[p].inv] = p /\ rowUser[Owner[op[p].inv]] = p
      BY <1>3 DEF Commit, LocksHeld, HoldsInvoice, HoldsUser
    <3>3. pc[q] \in HoldsUser => op[q].inv # op[p].inv /\ Owner[op[q].inv] # Owner[op[p].inv]
      BY <2>1, <3>2 DEF LocksHeld
    <3> QED
      BY <1>0, <1>3, <3>1, <3>3, CommitEffect DEF HoldsUser
  <2>2. pc'[p] = "release"
    BY <1>3 DEF Commit, Finish, Goto, TypeOK
  <2> QED
    BY <2>1, <2>2 DEF LocalsFresh, HoldsUser
<1>4. ASSUME NEW u \in Users, PurchaseSubscription(u) PROVE LocalsFresh'
  <2>1. UNCHANGED <<procVars, deposits, charges>>
    BY <1>4 DEF PurchaseSubscription
  <2>2. ASSUME NEW q \in Procs, pc[q] \in HoldsUser
        PROVE  /\ balance'[Owner[op[q].inv]] = balance[Owner[op[q].inv]]
               /\ subs'[Owner[op[q].inv]] = subs[Owner[op[q].inv]]
    <3>1. rowUser[Owner[op[q].inv]] # None
      BY <2>2 DEF LocksHeld
    <3>2. Owner[op[q].inv] # u /\ Owner[op[q].inv] \notin Sponsors(u)
      BY <1>4, <3>1 DEF PurchaseSubscription
    <3> QED
      BY <1>0, <1>4, <3>2 DEF PurchaseSubscription, TypeOK
  <2> QED
    BY <1>0, <2>1, <2>2 DEF LocalsFresh, procVars, HoldsUser
<1>5. CASE Crash
  BY <1>5 DEF Crash, LocalsFresh, HoldsUser
<1>6. ASSUME UNCHANGED <<userVars, ledgerVars, procVars>> PROVE LocalsFresh'
  BY <1>1, <1>6 DEF LocalsFresh, procVars
<1>7. ASSUME NEW i \in Invoices, World(i) PROVE UNCHANGED <<userVars, ledgerVars, procVars>>
  BY <1>7 DEF World, CreateInvoice, PaymentArrives, ProviderMoves, Age, dataVars
<1>8. ASSUME NEW u \in Users, RedisExpires(u) PROVE UNCHANGED <<userVars, ledgerVars, procVars>>
  BY <1>8 DEF RedisExpires, dataVars
<1>9. CASE UNCHANGED vars
  BY <1>6, <1>9 DEF vars, dataVars
<1> QED
  BY <1>2, <1>3, <1>4, <1>5, <1>6, <1>7, <1>8, <1>9 DEF Next

LEMMA BooksKept ==
  ASSUME TypeOK, LocksHeld, LocalsFresh, Books, [Next]_vars
  PROVE  Books'
<1> USE DEF Books, BooksBalance, NoDebt, EveryChargeExtends, ChargedAtMostOnce
<1>1. ASSUME NEW p \in Procs, Commit(p) PROVE Books'
  <2> DEFINE o == op[p]
             i == op[p].inv
             u == Owner[op[p].inv]
  <2>1. /\ o \in Locals /\ i \in Invoices /\ u \in Users
        /\ Credit(o) \in Nat /\ Charge(o) \in {0, Price} /\ o.bal \in Int /\ o.sub \in Nat
        /\ o.credited \in Nat /\ o.charged \in BOOLEAN
    BY SettlementTypes DEF TypeOK
  <2>2. /\ o.bal = balance[u] /\ o.sub = subs[u]
        /\ o.charged <=> charges[i] > 0
    BY <1>1 DEF Commit, LocalsFresh, HoldsUser
  <2>3. balance'[u] = balance[u] + Credit(o) - Charge(o)
    BY <1>1, <2>1, <2>2, CommitEffect DEF Written, TypeOK
  <2>4. balance'[u] = ledger'[u]
    BY <1>1, <2>1, <2>3, CommitEffect
  <2>5. balance'[u] >= 0
    <3>1. CASE Activates(o)
      <4>1. o.bal + Credit(o) >= Price /\ Charge(o) = Price
        BY <3>1 DEF Activates, Charge
      <4> QED BY <2>1, <2>2, <2>3, <4>1
    <3>2. CASE ~Activates(o)
      <4>1. Charge(o) = 0
        BY <3>2 DEF Charge
      <4>2. balance[u] \in Int /\ balance[u] >= 0
        BY <2>1 DEF TypeOK
      <4> QED BY <2>1, <2>3, <4>1, <4>2
    <3> QED BY <3>1, <3>2
  <2>6. subs'[u] = withdrawals'[u]
    BY <1>1, <2>1, <2>2, CommitEffect DEF TypeOK
  <2>7. charges'[i] <= 1
    <3>1. Activates(o) => charges[i] = 0
      BY <2>1, <2>2 DEF Activates, TypeOK
    <3>2. charges[i] <= 1 /\ charges[i] \in Nat
      BY <2>1 DEF TypeOK
    <3>3. charges'[i] = charges[i] + (IF Activates(o) THEN 1 ELSE 0)
      BY <1>1, CommitEffect
    <3> QED
      BY <3>1, <3>2, <3>3
  <2> QED
    BY <1>1, <2>4, <2>5, <2>6, <2>7, CommitEffect
<1>2. ASSUME NEW u \in Users, PurchaseSubscription(u) PROVE Books'
  <2>1. \A v \in Users : balance'[v] = ledger'[v]
    BY <1>2 DEF PurchaseSubscription, TypeOK
  <2>2. \A v \in Users : balance'[v] >= 0
    BY <1>2 DEF PurchaseSubscription, TypeOK
  <2>3. \A v \in Users : subs'[v] = withdrawals'[v]
    BY <1>2 DEF PurchaseSubscription, TypeOK
  <2> QED
    BY <1>2, <2>1, <2>2, <2>3 DEF PurchaseSubscription
<1>3. CASE UNCHANGED <<userVars, ledgerVars>>
  BY <1>3 DEF userVars, ledgerVars
<1> QED
  BY <1>1, <1>2, <1>3, MoneyRests

LEMMA MoneyInvKept == MoneyInv /\ [Next]_vars => MoneyInv'
  BY NextType, LocksHeldKept, LocalsFreshKept, BooksKept DEF MoneyInv

LEMMA MoneyInvInit == Init => MoneyInv
<1> SUFFICES ASSUME Init PROVE MoneyInv
  OBVIOUS
<1>1. TypeOK
  BY InitType
<1>2. LocksHeld /\ LocalsFresh
  BY DEF Init, LocksHeld, LocalsFresh, HoldsInvoice, HoldsUser
<1>3. Books
  BY DEF Init, Books, BooksBalance, NoDebt, EveryChargeExtends, ChargedAtMostOnce
<1> QED
  BY <1>1, <1>2, <1>3 DEF MoneyInv

\* A task that is about to commit still knows the truth about the rows it
\* locked, whatever happened to its Redis lock in the meantime.
THEOREM MoneyInvariant == Spec => []MoneyInv
  BY MoneyInvInit, MoneyInvKept, PTL DEF Spec

\* The balance is the sum of the transactions and never negative; every
\* withdrawal extended a subscription; no intent was charged twice.
THEOREM BooksAreRight ==
  Spec => [](BooksBalance /\ NoDebt /\ EveryChargeExtends /\ ChargedAtMostOnce)
<1>1. MoneyInv => BooksBalance /\ NoDebt /\ EveryChargeExtends /\ ChargedAtMostOnce
  BY DEF MoneyInv, Books
<1> QED
  BY <1>1, MoneyInvariant, PTL

\* One by one: no intent is charged twice, although every sync and approval of
\* a PAID invoice tries again ...
THEOREM ChargedOnce == Spec => []ChargedAtMostOnce
<1>1. MoneyInv => ChargedAtMostOnce
  BY DEF MoneyInv, Books
<1> QED
  BY <1>1, MoneyInvariant, PTL

\* ... no balance becomes negative, although prices are checked against a copy ...
THEOREM NeverInDebt == Spec => []NoDebt
<1>1. MoneyInv => NoDebt
  BY DEF MoneyInv, Books
<1> QED
  BY <1>1, MoneyInvariant, PTL

\* ... and every withdrawal has extended a subscription, crashes included.
THEOREM ChargesExtend == Spec => []EveryChargeExtends
<1>1. MoneyInv => EveryChargeExtends
  BY DEF MoneyInv, Books
<1> QED
  BY <1>1, MoneyInvariant, PTL


-----------------------------------------------------------------------------
(* The sums.  What a task carries was vouched for when it read it, and what   *)
(* is vouched for only grows, so an old answer is never too much.            *)

RowsExist ==
    /\ \A i \in Invoices : status[i] = "NONE" =>
          /\ expected[i] = 0 /\ amt[i] = 0 /\ deposits[i] = 0 /\ charges[i] = 0
          /\ provSt[i] = "open" /\ provAmt[i] = 0 /\ approved[i] = 0
          /\ ~card[i] /\ ~aged[i]
    /\ \A p \in Procs : pc[p] # "idle" => status[op[p].inv] # "NONE"

Carries(p) ==
    /\ op[p].api <= Confirmed(op[p].inv)
    /\ op[p].seenAmt <= Confirmed(op[p].inv)
    /\ Provider[op[p].inv] = "CACTUS" => op[p].api \in {0, expected[op[p].inv]}

Vouched ==
    /\ \A i \in Invoices : amt[i] <= Confirmed(i)
    /\ \A p \in Procs : Carries(p)

Sums == NoOvercredit /\ RecordedIsCredited /\ PaidMeansFunded /\ CactusAllOrNothing

SumInv == MoneyInv /\ RowsExist /\ Vouched /\ Sums

\* A task works on an invoice that exists.
LEMMA RowsExistKept ==
  ASSUME TypeOK, RowsExist, [Next]_vars
  PROVE  RowsExist'
<1> DEFINE Blank(i) ==
      /\ expected[i] = 0 /\ amt[i] = 0 /\ deposits[i] = 0 /\ charges[i] = 0
      /\ provSt[i] = "open" /\ provAmt[i] = 0 /\ approved[i] = 0
      /\ ~card[i] /\ ~aged[i]
<1>0. \A p \in Procs : op[p].inv \in Invoices /\ op[p] \in Locals
  BY DEF TypeOK, Locals
<1>1. ASSUME NEW j \in Invoices, World(j) PROVE RowsExist'
  <2>1. UNCHANGED procVars
    BY <1>1 DEF World, CreateInvoice, PaymentArrives, ProviderMoves, Age
  <2>2. \A i \in Invoices : status[i] # "NONE" => status'[i] # "NONE"
    BY <1>1 DEF World, CreateInvoice, PaymentArrives, ProviderMoves, Age, dataVars, invoiceVars, TypeOK
  <2>3. ASSUME NEW i \in Invoices, status'[i] = "NONE" PROVE Blank(i)'
    <3>1. Blank(i) /\ status[i] = "NONE"
      BY <2>2, <2>3 DEF RowsExist
    <3>2. ASSUME NEW e \in Amounts, CreateInvoice(j, e) PROVE Blank(i)'
      <4>1. i # j
        BY <2>3, <3>2 DEF CreateInvoice, TypeOK
      <4> QED
        BY <3>1, <3>2, <4>1 DEF CreateInvoice, TypeOK, ledgerVars, worldVars
    <3>3. ASSUME NEW a \in Amounts, PaymentArrives(j, a) PROVE Blank(i)'
      BY <3>1, <3>3 DEF PaymentArrives, TypeOK, dataVars, invoiceVars, ledgerVars
    <3>4. ASSUME NEW s \in ProviderStatuses, ProviderMoves(j, s) PROVE Blank(i)'
      BY <3>1, <3>4 DEF ProviderMoves, TypeOK, dataVars, invoiceVars, ledgerVars
    <3>5. ASSUME Age(j) PROVE Blank(i)'
      BY <3>1, <3>5 DEF Age, TypeOK, dataVars, invoiceVars, ledgerVars
    <3> QED
      BY <1>1, <3>2, <3>3, <3>4, <3>5 DEF World
  <2> QED
    BY <1>0, <2>1, <2>2, <2>3 DEF RowsExist, procVars
<1>2. ASSUME NEW p \in Procs, NEW j \in Invoices, Starts(p, j) PROVE RowsExist'
  <2>0. status[j] # "NONE"
    BY <1>2 DEF Starts, StartSync, OpenPrompt, PressApprove, FindOverdue, SendScreenshot, RowsExist
  <2>1. op'[p].inv = j
    <3>1. CASE StartSync(p, j)
      BY <3>1, NoOpType DEF StartSync, Goto, TypeOK, Locals
    <3>2. ASSUME NEW kind \in {"custom", "reject"}, OpenPrompt(p, j, kind) PROVE op'[p].inv = j
      BY <3>2, NoOpType DEF OpenPrompt, Goto, TypeOK, Locals
    <3>3. CASE PressApprove(p, j)
      <4>1. op'[p] = [NoOp EXCEPT !.kind = "approve", !.inv = j, !.api = expected[j]]
        BY <3>3 DEF PressApprove, Approve, Goto, TypeOK
      <4>2. [NoOp EXCEPT !.kind = "approve", !.inv = j, !.api = expected[j]].inv = j
        BY DEF NoOp
      <4> QED BY <4>1, <4>2
    <3>4. CASE FindOverdue(p, j)
      BY <3>4, NoOpType DEF FindOverdue, Goto, TypeOK, Locals
    <3>5. CASE SendScreenshot(p, j)
      BY <3>5, NoOpType DEF SendScreenshot, Goto, TypeOK, Locals
    <3> QED
      BY <1>2, <3>1, <3>2, <3>3, <3>4, <3>5 DEF Starts
  <2>2. UNCHANGED dataVars
    BY <1>2 DEF Starts, StartSync, OpenPrompt, PressApprove, FindOverdue, SendScreenshot
  <2>3. UNCHANGED <<provSt, provAmt, aged>>
    BY <1>2 DEF Starts, StartSync, OpenPrompt, PressApprove, FindOverdue, SendScreenshot, worldVars
  <2>4. \A i \in Invoices : i # j => card'[i] = card[i] /\ approved'[i] = approved[i]
    BY <1>2 DEF Starts, StartSync, OpenPrompt, PressApprove, Approve, DisarmCard, FindOverdue,
              SendScreenshot, worldVars, TypeOK
  <2>5. \A q \in Procs : q # p => pc'[q] = pc[q] /\ op'[q] = op[q]
    BY <1>2, OthersStay
  <2> QED
    BY <1>0, <2>0, <2>1, <2>2, <2>3, <2>4, <2>5 DEF RowsExist, dataVars, invoiceVars, ledgerVars
<1>3. ASSUME NEW p \in Procs, Moves(p) PROVE RowsExist'
  <2> DEFINE j == op[p].inv
  <2>1. pc[p] # "idle" /\ status[j] # "NONE"
    BY <1>3 DEF Moves, ProviderAnswers, ProviderFails, SubmitCustom, SubmitReason, ClosePrompt,
              AcquireRedis, RedisRefuses, ReadInvoice, LockInvoice, LockUser, ReturnApproved,
              ReadLedger, Commit, Abort, InTransaction, ReleaseRedis, WriteNow, WriteExpired,
              WriteScreenshot, PostCard, WriteRejected, RowsExist
  <2>2. pc'[p] # "idle" => op'[p].inv = j
    <3>1. CASE ProviderAnswers(p) \/ SubmitReason(p) \/ ReadInvoice(p) \/ LockUser(p) \/ ReadLedger(p)
      <4>1. CASE ProviderAnswers(p)
        BY <1>0, <4>1 DEF ProviderAnswers, Goto, TypeOK, Locals
      <4>2. CASE SubmitReason(p)
        BY <1>0, <4>2 DEF SubmitReason, Goto, TypeOK, Locals
      <4>3. CASE ReadInvoice(p)
        BY <1>0, <4>3 DEF ReadInvoice, Goto, TypeOK, Locals
      <4>4. CASE LockUser(p)
        BY <1>0, <4>4 DEF LockUser, Goto, TypeOK, Locals
      <4>5. CASE ReadLedger(p)
        BY <1>0, <4>5 DEF ReadLedger, Goto, TypeOK, Locals
      <4> QED BY <3>1, <4>1, <4>2, <4>3, <4>4, <4>5
    <3>2. CASE AcquireRedis(p) \/ LockInvoice(p) \/ WriteScreenshot(p)
      BY <1>0, <3>2 DEF AcquireRedis, LockInvoice, WriteScreenshot, Goto, TypeOK
    <3>3. ASSUME NEW a \in Amounts, SubmitCustom(p, a) PROVE op'[p].inv = j
      BY <1>0, <3>3, NoOpType DEF SubmitCustom, Approve, Goto, TypeOK, Locals
    <3>4. CASE Finish(p)
      BY <1>0, <3>4, NoOpType DEF Finish, Goto, TypeOK, Locals
    <3>5. CASE Stop(p)
      BY <3>5 DEF Stop, Goto, TypeOK
    <3> QED
      BY <1>3, <3>1, <3>2, <3>3, <3>4, <3>5, Zenon DEF Moves, ProviderFails, ClosePrompt, RedisRefuses,
         ReturnApproved, Commit, Abort, ReleaseRedis, WriteExpired, PostCard, WriteRejected
  <2> DEFINE Rests(i) ==
          /\ status'[i] = status[i] /\ expected'[i] = expected[i] /\ amt'[i] = amt[i]
          /\ deposits'[i] = deposits[i] /\ charges'[i] = charges[i]
          /\ provSt'[i] = provSt[i] /\ provAmt'[i] = provAmt[i] /\ approved'[i] = approved[i]
          /\ card'[i] = card[i] /\ aged'[i] = aged[i]
  <2>3. \A i \in Invoices : i # j => Rests(i)
    <3>1. CASE UNCHANGED <<dataVars, worldVars>>
      BY <3>1 DEF dataVars, invoiceVars, ledgerVars, worldVars
    <3>2. CASE Commit(p)
      BY <1>0, <3>2, CommitEffect DEF Commit, TypeOK, worldVars
    <3>3. ASSUME NEW a \in Amounts, SubmitCustom(p, a)
          PROVE  \A i \in Invoices : i # j => Rests(i)
      BY <1>0, <3>3 DEF SubmitCustom, Approve, TypeOK, dataVars, invoiceVars, ledgerVars
    <3>4. CASE WriteExpired(p) \/ WriteScreenshot(p) \/ WriteRejected(p)
      BY <1>0, <3>4 DEF WriteExpired, WriteScreenshot, WriteRejected, TypeOK, ledgerVars, worldVars
    <3>5. CASE PostCard(p)
      BY <1>0, <3>5 DEF PostCard, TypeOK, dataVars, invoiceVars, ledgerVars
    <3> QED
      BY <1>3, <3>1, <3>2, <3>3, <3>4, <3>5, Zenon DEF Moves, ProviderAnswers, ProviderFails, SubmitReason,
         ClosePrompt, AcquireRedis, RedisRefuses, ReadInvoice, LockInvoice, LockUser,
         ReturnApproved, ReadLedger, Abort, ReleaseRedis
  <2>4. status'[j] # "NONE"
    <3>1. CASE status' = status
      BY <2>1, <3>1
    <3>2. CASE Commit(p)
      BY <1>0, <2>1, <3>2, SettlementTypes DEF Commit, Written, TypeOK
    <3>3. CASE WriteExpired(p) \/ WriteScreenshot(p) \/ WriteRejected(p)
      BY <1>0, <2>1, <3>3 DEF WriteExpired, WriteScreenshot, WriteRejected, Written, TypeOK
    <3> QED
      BY <1>3, <3>1, <3>2, <3>3 DEF Moves, ProviderAnswers, ProviderFails, SubmitCustom, SubmitReason, ClosePrompt,
              AcquireRedis, RedisRefuses, ReadInvoice, LockInvoice, LockUser, ReturnApproved,
              ReadLedger, Abort, ReleaseRedis, PostCard, dataVars, invoiceVars
  <2>5. \A q \in Procs : q # p => pc'[q] = pc[q] /\ op'[q] = op[q]
    BY <1>3, OthersStay
  <2>6. \A i \in Invoices : status'[i] = "NONE" => Blank(i)'
    BY <2>3, <2>4 DEF RowsExist
  <2>7. \A q \in Procs : pc'[q] # "idle" => status'[op'[q].inv] # "NONE"
    BY <1>0, <2>2, <2>3, <2>4, <2>5 DEF RowsExist
  <2> QED
    BY <2>6, <2>7 DEF RowsExist
<1>4. ASSUME NEW u \in Users, PurchaseSubscription(u) \/ RedisExpires(u) PROVE RowsExist'
  BY <1>4 DEF PurchaseSubscription, RedisExpires, RowsExist, dataVars, invoiceVars, ledgerVars,
              worldVars, procVars
<1>5. CASE Crash
  BY <1>5 DEF Crash, RowsExist, dataVars, invoiceVars, ledgerVars, worldVars
<1>6. CASE UNCHANGED vars
  BY <1>6 DEF RowsExist, vars, dataVars, invoiceVars, ledgerVars, worldVars, procVars
<1> QED
  BY <1>1, <1>2, <1>3, <1>4, <1>5, <1>6 DEF Next

\* The price asked for is fixed, and the sum vouched for only grows.
LEMMA ConfirmedGrows ==
  ASSUME TypeOK, RowsExist, [Next]_vars, NEW i \in Invoices
  PROVE  /\ expected'[i] # expected[i] => status[i] = "NONE" /\ Confirmed(i)' = 0
         /\ Confirmed(i) <= Confirmed(i)'
         /\ Confirmed(i) \in Nat /\ Confirmed(i)' \in Nat
<1> USE DEF Confirmed
<1>0. Confirmed(i) \in Nat
  BY DEF TypeOK
<1>1. CASE UNCHANGED <<expected, provSt, provAmt, approved>>
  BY <1>0, <1>1
<1>2. ASSUME NEW j \in Invoices, NEW e \in Amounts, CreateInvoice(j, e)
      PROVE  /\ expected'[i] # expected[i] => status[i] = "NONE" /\ Confirmed(i)' = 0
             /\ Confirmed(i) <= Confirmed(i)' /\ Confirmed(i)' \in Nat
  <2>1. CASE i = j
    BY <1>2, <2>1 DEF CreateInvoice, RowsExist, TypeOK, worldVars
  <2>2. CASE i # j
    BY <1>0, <1>2, <2>2 DEF CreateInvoice, TypeOK, worldVars
  <2> QED BY <2>1, <2>2
<1>3. ASSUME NEW j \in Invoices, NEW a \in Amounts, PaymentArrives(j, a)
      PROVE  expected' = expected /\ Confirmed(i) <= Confirmed(i)' /\ Confirmed(i)' \in Nat
  BY <1>3 DEF PaymentArrives, TypeOK, dataVars, invoiceVars
<1>4. ASSUME NEW j \in Invoices, NEW s \in ProviderStatuses, ProviderMoves(j, s)
      PROVE  expected' = expected /\ Confirmed(i) <= Confirmed(i)' /\ Confirmed(i)' \in Nat
  BY <1>4 DEF ProviderMoves, TypeOK, dataVars, invoiceVars
<1>5. ASSUME NEW p \in Procs, NEW j \in Invoices, PressApprove(p, j)
      PROVE  expected' = expected /\ Confirmed(i) <= Confirmed(i)' /\ Confirmed(i)' \in Nat
  BY <1>5 DEF PressApprove, Approve, MaxOf, TypeOK, dataVars, invoiceVars
<1>6. ASSUME NEW p \in Procs, NEW a \in Amounts, SubmitCustom(p, a)
      PROVE  expected' = expected /\ Confirmed(i) <= Confirmed(i)' /\ Confirmed(i)' \in Nat
  BY <1>6 DEF SubmitCustom, Approve, MaxOf, TypeOK, dataVars, invoiceVars
<1>7. ASSUME NEW j \in Invoices, Age(j) PROVE UNCHANGED <<expected, provSt, provAmt, approved>>
  BY <1>7 DEF Age, dataVars, invoiceVars
<1>8. ASSUME NEW p \in Procs, NEW j \in Invoices, Starts(p, j), ~PressApprove(p, j)
      PROVE  UNCHANGED <<expected, provSt, provAmt, approved>>
  BY <1>8 DEF Starts, StartSync, OpenPrompt, FindOverdue, SendScreenshot,
              dataVars, invoiceVars, worldVars
<1>9. ASSUME NEW p \in Procs, Moves(p), \A a \in Amounts : ~SubmitCustom(p, a)
      PROVE  UNCHANGED <<expected, provSt, provAmt, approved>>
  BY <1>9 DEF Moves, ProviderAnswers, ProviderFails, SubmitReason, ClosePrompt,
              AcquireRedis, RedisRefuses, ReadInvoice, LockInvoice, LockUser, ReturnApproved,
              ReadLedger, Commit, Abort, ReleaseRedis, WriteExpired, WriteScreenshot,
              PostCard, WriteRejected, dataVars, invoiceVars, worldVars
<1>10. ASSUME \/ \E u \in Users : PurchaseSubscription(u) \/ RedisExpires(u)
              \/ Crash \/ UNCHANGED vars
       PROVE  UNCHANGED <<expected, provSt, provAmt, approved>>
  BY <1>10 DEF PurchaseSubscription, RedisExpires, Crash, vars, dataVars, invoiceVars, worldVars
<1> QED
  BY <1>0, <1>1, <1>2, <1>3, <1>4, <1>5, <1>6, <1>7, <1>8, <1>9, <1>10 DEF Next, World

\* The sum a task carries stays vouched for while others move.
LEMMA CarriesOn ==
  ASSUME TypeOK, RowsExist, Vouched, [Next]_vars,
         NEW q \in Procs, op'[q].inv = op[q].inv,
         op'[q].api = op[q].api, op'[q].seenAmt = op[q].seenAmt
  PROVE  Carries(q)'
<1>1. PICK i \in Invoices : i = op[q].inv
  BY DEF TypeOK, Locals
<1>2. Carries(q) /\ op[q].api \in Nat /\ op[q].seenAmt \in Nat
  BY DEF Vouched, TypeOK, Locals
<1>3. Confirmed(i) <= Confirmed(i)' /\ Confirmed(i) \in Nat /\ Confirmed(i)' \in Nat
  BY ConfirmedGrows
<1>4. op[q].api <= Confirmed(i)' /\ op[q].seenAmt <= Confirmed(i)'
  BY <1>1, <1>2, <1>3 DEF Carries
<1>5. Provider[i] = "CACTUS" => op[q].api \in {0, expected'[i]}
  <2>1. CASE expected'[i] = expected[i]
    BY <1>1, <1>2, <2>1 DEF Carries
  <2>2. CASE expected'[i] # expected[i]
    <3>1. Confirmed(i)' = 0
      BY <2>2, ConfirmedGrows
    <3> QED BY <1>2, <1>4, <3>1
  <2> QED BY <2>1, <2>2
<1> QED
  BY <1>1, <1>4, <1>5 DEF Carries, Confirmed

LEMMA VouchedKept ==
  ASSUME TypeOK, RowsExist, Vouched, [Next]_vars
  PROVE  Vouched'
<1>0. \A q \in Procs : /\ op[q] \in Locals /\ op[q].inv \in Invoices
                       /\ op[q].api \in Nat /\ op[q].seenAmt \in Nat
  BY DEF TypeOK, Locals
<1>1. ASSUME NEW i \in Invoices PROVE amt'[i] <= Confirmed(i)'
  <2>1. amt[i] <= Confirmed(i) /\ amt[i] \in Nat
    BY DEF Vouched, TypeOK
  <2>2. Confirmed(i) <= Confirmed(i)' /\ Confirmed(i) \in Nat /\ Confirmed(i)' \in Nat
    BY ConfirmedGrows
  <2>3. CASE amt'[i] = amt[i]
    BY <2>1, <2>2, <2>3
  <2>4. ASSUME NEW p \in Procs, Commit(p) PROVE amt'[i] <= Confirmed(i)'
    <3>1. CASE i = op[p].inv
      <4>1. Resolved(op[p]) \in {op[p].api, op[p].seenAmt}
        BY DEF Resolved, MaxOf
      <4>2. Resolved(op[p]) <= Confirmed(i)
        BY <3>1, <4>1 DEF Vouched, Carries
      <4>3. amt'[i] \in {amt[i], Resolved(op[p])} /\ Resolved(op[p]) \in Nat
        BY <1>0, <2>4, <3>1, <4>1 DEF Commit, Written, TypeOK
      <4> QED BY <2>1, <2>2, <4>2, <4>3
    <3>2. CASE i # op[p].inv
      BY <2>1, <2>2, <2>4, <3>2 DEF Commit, TypeOK
    <3> QED BY <3>1, <3>2
  <2>5. ASSUME \A p \in Procs : ~Commit(p) PROVE amt' = amt
    <3>1. ASSUME NEW j \in Invoices, World(j) PROVE amt' = amt
      BY <3>1 DEF World, CreateInvoice, PaymentArrives, ProviderMoves, Age, dataVars, invoiceVars
    <3>2. ASSUME NEW p \in Procs, NEW j \in Invoices, Starts(p, j) PROVE amt' = amt
      BY <3>2 DEF Starts, StartSync, OpenPrompt, PressApprove, FindOverdue, SendScreenshot,
                  dataVars, invoiceVars
    <3>3. ASSUME NEW p \in Procs, Moves(p) PROVE amt' = amt
      BY <2>5, <3>3 DEF Moves, ProviderAnswers, ProviderFails, SubmitCustom, SubmitReason, ClosePrompt,
              AcquireRedis, RedisRefuses, ReadInvoice, LockInvoice, LockUser, ReturnApproved,
              ReadLedger, Abort, ReleaseRedis, WriteExpired, WriteScreenshot,
              PostCard, WriteRejected, dataVars, invoiceVars
    <3>4. ASSUME \/ \E u \in Users : PurchaseSubscription(u) \/ RedisExpires(u)
                 \/ Crash \/ UNCHANGED vars
          PROVE  amt' = amt
      BY <3>4 DEF PurchaseSubscription, RedisExpires, Crash, vars, dataVars, invoiceVars
    <3> QED BY <3>1, <3>2, <3>3, <3>4 DEF Next
  <2> QED BY <2>3, <2>4, <2>5
<1>2. ASSUME NEW q \in Procs, op'[q] = op[q] PROVE Carries(q)'
  BY <1>2, CarriesOn
<1>3. ASSUME NEW q \in Procs, op'[q].api = 0, op'[q].seenAmt = 0, op'[q].inv \in Invoices
      PROVE  Carries(q)'
  <2>1. PICK i \in Invoices : i = op'[q].inv
    BY <1>3
  <2>2. Confirmed(i)' \in Nat
    BY ConfirmedGrows
  <2> QED BY <1>3, <2>1, <2>2 DEF Carries, Confirmed
<1>4. NoOp.api = 0 /\ NoOp.seenAmt = 0 /\ NoOp.inv \in Invoices
  BY NoOpType DEF NoOp, Locals
<1>5. ASSUME NEW p \in Procs, NEW j \in Invoices, Starts(p, j) PROVE Carries(p)'
  <2>0. Confirmed(j) <= Confirmed(j)' /\ Confirmed(j) \in Nat /\ Confirmed(j)' \in Nat
    BY ConfirmedGrows
  <2>1. CASE StartSync(p, j)
    <3>1. op'[p] = [NoOp EXCEPT !.kind = "sync", !.inv = j, !.seenAmt = amt[j]]
      BY <2>1 DEF StartSync, Goto, TypeOK
    <3>2. op'[p].inv = j /\ op'[p].api = 0 /\ op'[p].seenAmt = amt[j]
      BY <3>1 DEF NoOp
    <3>3. amt[j] <= Confirmed(j) /\ amt[j] \in Nat
      BY DEF Vouched, TypeOK
    <3>4. op'[p].api <= Confirmed(j)' /\ op'[p].seenAmt <= Confirmed(j)'
      BY <2>0, <3>2, <3>3
    <3> QED BY <3>2, <3>4 DEF Carries, Confirmed
  <2>2. CASE PressApprove(p, j)
    <3>1. op'[p] = [NoOp EXCEPT !.kind = "approve", !.inv = j, !.api = expected[j]]
      BY <2>2 DEF PressApprove, Approve, Goto, TypeOK
    <3>2. op'[p].inv = j /\ op'[p].api = expected[j] /\ op'[p].seenAmt = 0
      BY <3>1 DEF NoOp
    <3>3. approved'[j] >= expected[j] /\ Provider[j] = "MANUAL"
      BY <2>2 DEF PressApprove, Approve, MaxOf, TypeOK
    <3>4. op'[p].api <= Confirmed(j)' /\ op'[p].seenAmt <= Confirmed(j)'
      BY <2>0, <3>2, <3>3 DEF Confirmed, TypeOK
    <3> QED BY <3>2, <3>3, <3>4 DEF Carries, Confirmed
  <2>3. ASSUME NEW kind \in {"custom", "reject"}, OpenPrompt(p, j, kind) PROVE Carries(p)'
    <3>1. op'[p] = [NoOp EXCEPT !.kind = kind, !.inv = j]
      BY <2>3 DEF OpenPrompt, Goto, TypeOK
    <3> QED BY <1>3, <3>1 DEF NoOp
  <2>4. CASE FindOverdue(p, j)
    <3>1. op'[p] = [NoOp EXCEPT !.kind = "expire", !.inv = j]
      BY <2>4 DEF FindOverdue, Goto, TypeOK
    <3> QED BY <1>3, <3>1 DEF NoOp
  <2>5. CASE SendScreenshot(p, j)
    <3>1. op'[p] = [NoOp EXCEPT !.kind = "upload", !.inv = j]
      BY <2>5 DEF SendScreenshot, Goto, TypeOK
    <3> QED BY <1>3, <3>1 DEF NoOp
  <2> QED
    BY <1>5, <2>1, <2>2, <2>3, <2>4, <2>5 DEF Starts
<1>6. ASSUME NEW p \in Procs, Moves(p) PROVE Carries(p)'
  <2> DEFINE o == op[p]
             n == op'[p]
  <2>0. PICK j \in Invoices : j = op[p].inv
    BY <1>0
  <2>1. Confirmed(j) <= Confirmed(j)' /\ Confirmed(j) \in Nat /\ Confirmed(j)' \in Nat
    BY ConfirmedGrows
  <2>2. CASE ProviderAnswers(p)
    <3>1. n = [o EXCEPT !.api = Answer(o), !.pst = provSt[o.inv]]
      BY <2>2 DEF ProviderAnswers, Goto, TypeOK
    <3>2. n.inv = o.inv /\ n.api = Answer(o) /\ n.seenAmt = o.seenAmt
      BY <1>0, <3>1 DEF Locals
    <3>3. Provider[j] # "MANUAL" /\ expected' = expected
      BY <2>0, <2>2 DEF ProviderAnswers, dataVars, invoiceVars
    <3>4. Carries(p)
      BY DEF Vouched
    <3>5. Answer(o) <= Confirmed(j)
      BY <2>0, <2>1, <3>3, <3>4 DEF Answer, Confirmed, Carries
    <3>6. Provider[j] = "CACTUS" => Answer(o) \in {0, expected[j]}
      BY <2>0 DEF Answer
    <3>7. Answer(o) \in Nat
      BY <1>0, <2>0 DEF Answer, TypeOK
    <3>8. n.api <= Confirmed(j)' /\ n.seenAmt <= Confirmed(j)'
      BY <1>0, <2>0, <2>1, <3>2, <3>4, <3>5, <3>7 DEF Carries
    <3> QED BY <2>0, <3>2, <3>3, <3>6, <3>8 DEF Carries, Confirmed
  <2>3. CASE ReadInvoice(p)
    <3>1. n = [o EXCEPT !.seenStatus = status[o.inv], !.seenAmt = amt[o.inv]]
      BY <2>3 DEF ReadInvoice, Goto, TypeOK
    <3>2. n.inv = o.inv /\ n.api = o.api /\ n.seenAmt = amt[o.inv]
      BY <1>0, <3>1 DEF Locals
    <3>3. expected' = expected
      BY <2>3 DEF ReadInvoice, dataVars, invoiceVars
    <3>4. Carries(p)
      BY DEF Vouched
    <3>5. amt[j] <= Confirmed(j) /\ amt[j] \in Nat
      BY DEF Vouched, TypeOK
    <3>6. n.api <= Confirmed(j)' /\ n.seenAmt <= Confirmed(j)'
      BY <1>0, <2>0, <2>1, <3>2, <3>4, <3>5 DEF Carries
    <3> QED BY <2>0, <3>2, <3>3, <3>4, <3>6 DEF Carries, Confirmed
  <2>4. ASSUME NEW a \in Amounts, SubmitCustom(p, a) PROVE Carries(p)'
    <3>1. n = [NoOp EXCEPT !.kind = "approve", !.inv = o.inv, !.api = a]
      BY <2>4 DEF SubmitCustom, Approve, Goto, TypeOK
    <3>2. n.inv = o.inv /\ n.api = a /\ n.seenAmt = 0
      BY <3>1 DEF NoOp
    <3>3. approved'[j] >= a /\ a \in Nat /\ Provider[j] = "MANUAL"
      BY <2>0, <2>4 DEF SubmitCustom, Approve, MaxOf, TypeOK
    <3>4. n.api <= Confirmed(j)' /\ n.seenAmt <= Confirmed(j)'
      BY <2>1, <3>2, <3>3 DEF Confirmed
    <3> QED
      BY <2>0, <3>2, <3>3, <3>4 DEF Carries, Confirmed
  <2>5. CASE SubmitReason(p) \/ LockUser(p) \/ ReadLedger(p)
    <3>1. n.inv = o.inv /\ n.api = o.api /\ n.seenAmt = o.seenAmt
      <4>1. CASE SubmitReason(p)
        BY <1>0, <4>1 DEF SubmitReason, Goto, TypeOK, Locals
      <4>2. CASE LockUser(p)
        BY <1>0, <4>2 DEF LockUser, Goto, TypeOK, Locals
      <4>3. CASE ReadLedger(p)
        BY <1>0, <4>3 DEF ReadLedger, Goto, TypeOK, Locals
      <4> QED BY <2>5, <4>1, <4>2, <4>3
    <3> QED BY <3>1, CarriesOn
  <2>6. CASE AcquireRedis(p) \/ LockInvoice(p) \/ WriteScreenshot(p)
    <3>1. op'[p] = op[p]
      BY <2>6 DEF AcquireRedis, LockInvoice, WriteScreenshot, Goto, TypeOK
    <3> QED BY <1>2, <3>1
  <2>7. CASE Finish(p)
    <3>1. n = [NoOp EXCEPT !.inv = o.inv]
      BY <2>7 DEF Finish, Goto, TypeOK
    <3> QED BY <1>0, <1>3, <3>1 DEF NoOp
  <2>8. CASE Stop(p)
    <3>1. n = NoOp
      BY <2>8 DEF Stop, Goto, TypeOK
    <3> QED BY <1>3, <1>4, <3>1
  <2> QED
    BY <1>6, <2>2, <2>3, <2>4, <2>5, <2>6, <2>7, <2>8, Zenon DEF Moves, ProviderFails, ClosePrompt,
       RedisRefuses, ReturnApproved, Commit, Abort, ReleaseRedis, WriteExpired, PostCard, WriteRejected
<1>7. ASSUME NEW p \in Procs, (\E j \in Invoices : Starts(p, j)) \/ Moves(p)
      PROVE  \A q \in Procs : Carries(q)'
  BY <1>2, <1>5, <1>6, <1>7, OthersStay
<1>8. CASE Crash
  <2>1. \A q \in Procs : op'[q] = NoOp
    BY <1>8 DEF Crash
  <2> QED BY <1>1, <1>3, <1>4, <2>1 DEF Vouched
<1>9. CASE op' = op
  BY <1>1, <1>2, <1>9 DEF Vouched
<1>10. ASSUME NEW j \in Invoices, World(j) PROVE op' = op
  BY <1>10 DEF World, CreateInvoice, PaymentArrives, ProviderMoves, Age, procVars
<1>11. ASSUME (\E u \in Users : PurchaseSubscription(u) \/ RedisExpires(u)) \/ UNCHANGED vars
       PROVE  op' = op
  BY <1>11 DEF PurchaseSubscription, RedisExpires, vars, procVars
<1> QED
  BY <1>1, <1>7, <1>8, <1>9, <1>10, <1>11 DEF Next, Vouched

\* More money never counts for less, and never for less than itself.
LEMMA EffectiveGrows ==
  ASSUME expected \in [Invoices -> Nat], NEW i \in Invoices,
         NEW a \in Nat, NEW b \in Nat, a <= b
  PROVE  /\ Effective(i, a) \in Nat /\ Effective(i, b) \in Nat
         /\ Effective(i, a) <= Effective(i, b)
         /\ a <= Effective(i, a)
<1>1. expected[i] \in Nat
  OBVIOUS
<1> QED
  BY <1>1 DEF Effective

LEMMA OwedGrows ==
  ASSUME TypeOK, RowsExist, [Next]_vars, NEW i \in Invoices
  PROVE  Owed(i) <= Owed(i)' /\ Owed(i) \in Nat /\ Owed(i)' \in Nat
<1>0. TypeOK' /\ expected[i] \in Nat /\ expected'[i] \in Nat
  <2>1. TypeOK'
    BY NextType
  <2> QED BY <2>1 DEF TypeOK
<1>1. /\ Confirmed(i) <= Confirmed(i)'
      /\ Confirmed(i) \in Nat /\ Confirmed(i)' \in Nat
      /\ expected'[i] # expected[i] => status[i] = "NONE"
  BY ConfirmedGrows
<1>2. Owed(i) \in Nat
  BY <1>0, <1>1 DEF Owed, Effective
<1>3. Owed(i)' \in Nat
  BY <1>0, <1>1 DEF Owed, Effective
<1>4. CASE expected'[i] = expected[i]
  BY <1>0, <1>1, <1>4 DEF Owed, Effective
<1>5. CASE expected'[i] # expected[i]
  <2>1. expected[i] = 0 /\ Confirmed(i) = 0
    BY <1>1, <1>5 DEF RowsExist, Confirmed
  <2>2. Owed(i) = 0
    BY <2>1 DEF Owed, Effective
  <2> QED BY <1>3, <2>2
<1> QED
  BY <1>2, <1>3, <1>4, <1>5

\* A step that is no commit credits nothing and closes nothing.
LEMMA NothingPaid ==
  ASSUME TypeOK, [Next]_vars, \A p \in Procs : ~Commit(p)
  PROVE  /\ UNCHANGED <<amt, deposits, charges>>
         /\ \A i \in Invoices : status'[i] = "PAID" => status[i] = "PAID"
<1>0. \A p \in Procs : op[p].inv \in Invoices
  BY DEF TypeOK, Locals
<1>1. ASSUME NEW j \in Invoices, World(j)
      PROVE  /\ UNCHANGED <<amt, deposits, charges>>
             /\ \A i \in Invoices : status'[i] = "PAID" => status[i] = "PAID"
  BY <1>1 DEF World, CreateInvoice, PaymentArrives, ProviderMoves, Age, dataVars, invoiceVars,
              ledgerVars, TypeOK
<1>2. ASSUME NEW p \in Procs, NEW j \in Invoices, Starts(p, j)
      PROVE  UNCHANGED <<status, amt, deposits, charges>>
  BY <1>2 DEF Starts, StartSync, OpenPrompt, PressApprove, FindOverdue, SendScreenshot,
              dataVars, invoiceVars, ledgerVars
<1>3. ASSUME NEW p \in Procs, WriteExpired(p) \/ WriteScreenshot(p) \/ WriteRejected(p)
      PROVE  /\ UNCHANGED <<amt, deposits, charges>>
             /\ \A i \in Invoices : status'[i] = "PAID" => status[i] = "PAID"
  BY <1>0, <1>3 DEF WriteExpired, WriteScreenshot, WriteRejected, Written, TypeOK, ledgerVars
<1>4. ASSUME NEW p \in Procs, Moves(p), ~WriteExpired(p), ~WriteScreenshot(p), ~WriteRejected(p)
      PROVE  UNCHANGED <<status, amt, deposits, charges>>
  BY <1>4 DEF Moves, ProviderAnswers, ProviderFails, SubmitCustom, SubmitReason, ClosePrompt,
              AcquireRedis, RedisRefuses, ReadInvoice, LockInvoice, LockUser, ReturnApproved,
              ReadLedger, Abort, ReleaseRedis, PostCard, dataVars, invoiceVars, ledgerVars
<1>5. ASSUME \/ \E u \in Users : PurchaseSubscription(u) \/ RedisExpires(u)
             \/ Crash \/ UNCHANGED vars
      PROVE  UNCHANGED <<status, amt, deposits, charges>>
  BY <1>5 DEF PurchaseSubscription, RedisExpires, Crash, vars, dataVars, invoiceVars, ledgerVars
<1> QED
  BY <1>1, <1>2, <1>3, <1>4, <1>5 DEF Next

\* What a commit adds up to: the deposits rise to the sum due, if it is more.
LEMMA CommitSettles ==
  ASSUME TypeOK, LocalsFresh, RowsExist, Vouched, NEW p \in Procs, Commit(p)
  PROVE  LET o == op[p]  i == op[p].inv IN
         /\ deposits'[i] = MaxOf(deposits[i], Due(o))
         /\ Due(o) \in Nat /\ Due(o) <= Owed(i)
         /\ Owed(i)' = Owed(i)
         /\ Activates(o) => deposits'[i] >= expected[i]
<1> DEFINE o == op[p]
           i == op[p].inv
<1>1. /\ o \in Locals /\ i \in Invoices
      /\ Due(o) \in Nat /\ Resolved(o) \in Nat
      /\ o.credited = deposits[i] /\ deposits[i] \in Nat
      /\ expected[i] \in Nat
  BY SettlementTypes DEF Commit, LocalsFresh, TypeOK
<1>2. deposits'[i] = MaxOf(deposits[i], Due(o))
  <2>1. deposits'[i] = deposits[i] + Credit(o)
    BY CommitEffect
  <2> QED BY <1>1, <2>1 DEF Credit, MaxOf
<1>3. Due(o) <= Owed(i)
  <2>1. Resolved(o) \in {o.api, o.seenAmt}
    BY DEF Resolved, MaxOf
  <2>2. Resolved(o) <= Confirmed(i) /\ Confirmed(i) \in Nat
    BY <1>1, <2>1 DEF Vouched, Carries, Confirmed, TypeOK
  <2>3. Effective(i, Resolved(o)) <= Effective(i, Confirmed(i))
    BY <1>1, <2>2, EffectiveGrows DEF TypeOK
  <2> QED BY <2>2, <2>3 DEF Due, Owed
<1>4. Owed(i)' = Owed(i)
  <2>1. UNCHANGED <<expected, provSt, provAmt, approved>> /\ op'[p].inv = i
    <3>1. op'[p] = [NoOp EXCEPT !.inv = i]
      BY DEF Commit, Finish, Goto, TypeOK
    <3> QED BY <3>1 DEF Commit, worldVars, NoOp
  <2> QED BY <2>1 DEF Owed, Confirmed, Effective
<1>5. Activates(o) => deposits'[i] >= expected[i]
  <2>1. Activates(o) => Due(o) >= expected[i]
    BY <1>1 DEF Activates, Target, InvoiceStatus
  <2> QED BY <1>1, <1>2, <2>1 DEF MaxOf
<1> QED
  BY <1>1, <1>2, <1>3, <1>4, <1>5

LEMMA SumsKept ==
  ASSUME TypeOK, LocalsFresh, RowsExist, Vouched, Sums, [Next]_vars
  PROVE  Sums'
<1> USE DEF Sums, NoOvercredit, RecordedIsCredited, PaidMeansFunded, CactusAllOrNothing
<1>0. TypeOK'
  BY NextType
<1>1. ASSUME NEW i \in Invoices,
             amt'[i] = amt[i], deposits'[i] = deposits[i], charges'[i] = charges[i],
             status'[i] = "PAID" => status[i] = "PAID"
      PROVE  /\ deposits'[i] <= Owed(i)'
             /\ amt'[i] > 0 => deposits'[i] >= IF Provider[i] = "CACTUS" THEN amt'[i]
                                              ELSE Effective(i, amt[i])'
             /\ status'[i] = "PAID" \/ charges'[i] > 0 => deposits'[i] >= expected'[i]
             /\ Provider[i] = "CACTUS" => deposits'[i] \in {0, expected'[i]}
  <2>1. deposits[i] <= Owed(i) /\ deposits[i] \in Nat
    BY DEF TypeOK
  <2>2. deposits'[i] <= Owed(i)'
    BY <1>1, <2>1, OwedGrows
  <2>3. CASE expected'[i] = expected[i]
    BY <1>1, <2>2, <2>3 DEF Effective
  <2>4. CASE expected'[i] # expected[i]
    <3>1. /\ status[i] = "NONE" /\ amt[i] = 0 /\ deposits[i] = 0 /\ charges[i] = 0
      BY <2>4, ConfirmedGrows DEF RowsExist
    <3> QED BY <1>1, <2>2, <3>1
  <2> QED BY <2>3, <2>4
<1>2. CASE \A p \in Procs : ~Commit(p)
  <2>1. UNCHANGED <<amt, deposits, charges>>
    BY <1>2, NothingPaid
  <2>2. \A i \in Invoices : status'[i] = "PAID" => status[i] = "PAID"
    BY <1>2, NothingPaid
  <2> QED BY <1>1, <2>1, <2>2
<1>3. ASSUME NEW p \in Procs, Commit(p) PROVE Sums'
  <2>1. PICK j \in Invoices : j = op[p].inv
    BY DEF TypeOK, Locals
  <2>2. ASSUME NEW i \in Invoices, i # j
        PROVE  /\ amt'[i] = amt[i] /\ deposits'[i] = deposits[i] /\ charges'[i] = charges[i]
               /\ status'[i] = status[i]
    BY <1>3, <2>1, <2>2, CommitEffect DEF Commit, TypeOK
  <2> DEFINE o == op[p]
  <2>3. /\ deposits'[j] = MaxOf(deposits[j], Due(o))
        /\ Due(o) \in Nat /\ Due(o) <= Owed(j)
        /\ Activates(o) => deposits'[j] >= expected[j]
        /\ deposits[j] \in Nat /\ expected[j] \in Nat /\ amt[j] \in Nat
        /\ Resolved(o) \in Nat /\ o.api \in Nat
    BY <1>3, <2>1, CommitSettles, SettlementTypes DEF TypeOK
  <2>4. expected' = expected /\ Owed(j)' = Owed(j)
    BY <1>3, <2>1 DEF Commit, worldVars, Owed, Confirmed, Effective
  <2>5. deposits'[j] \in Nat /\ deposits'[j] >= deposits[j] /\ deposits'[j] >= Due(o)
    BY <2>3 DEF MaxOf
  <2>6. deposits'[j] <= Owed(j)'
    BY <2>3, <2>4 DEF MaxOf
  <2>7. amt'[j] > 0 => deposits'[j] >= IF Provider[j] = "CACTUS" THEN amt'[j]
                                       ELSE Effective(j, amt[j])'
    <3>1. CASE amt'[j] = amt[j]
      BY <2>3, <2>4, <2>5, <3>1 DEF Effective
    <3>2. CASE amt'[j] = Resolved(o)
      BY <2>1, <2>3, <2>4, <2>5, <3>2 DEF Due, Effective
    <3>3. amt'[j] \in {amt[j], Resolved(o)}
      BY <1>3, <2>1 DEF Commit, Written, TypeOK
    <3> QED BY <3>1, <3>2, <3>3
  <2>8. status'[j] = "PAID" \/ charges'[j] > 0 => deposits'[j] >= expected'[j]
    <3>1. status'[j] = "PAID" => status[j] = "PAID" \/ Target(o) = "PAID"
      BY <1>3, <2>1 DEF Commit, Written, TypeOK
    <3>2. Target(o) = "PAID" => Due(o) >= expected[j]
      BY <2>1, <2>3 DEF Target, InvoiceStatus
    <3>3. charges'[j] > 0 => charges[j] > 0 \/ Activates(o)
      <4>1. charges'[j] = charges[j] + (IF Activates(o) THEN 1 ELSE 0) /\ charges[j] \in Nat
        BY <1>3, <2>1, CommitEffect DEF TypeOK
      <4> QED BY <4>1
    <3> QED BY <2>3, <2>4, <2>5, <3>1, <3>2, <3>3
  <2>9. Provider[j] = "CACTUS" => deposits'[j] \in {0, expected'[j]}
    <3>1. Provider[j] = "CACTUS" => Due(o) \in {0, expected[j]}
      BY <2>1 DEF Due, Resolved, Vouched, Carries
    <3> QED BY <2>3, <2>4, <3>1 DEF MaxOf
  <2> QED
    BY <1>1, <2>2, <2>6, <2>7, <2>8, <2>9
<1> QED
  BY <1>2, <1>3

LEMMA SumInvInit == Init => SumInv
<1> SUFFICES ASSUME Init PROVE SumInv
  OBVIOUS
<1>1. MoneyInv
  BY MoneyInvInit
<1>2. RowsExist
  BY DEF Init, RowsExist
<1>3. /\ \A i \in Invoices : Confirmed(i) = 0 /\ Owed(i) = 0
      /\ \A p \in Procs : op[p] = NoOp
  BY DEF Init, Confirmed, Owed, Effective
<1>4. Vouched
  <2>1. NoOp.api = 0 /\ NoOp.seenAmt = 0 /\ NoOp.inv \in Invoices
    BY NoOpType DEF NoOp, Locals
  <2> QED BY <1>3, <2>1 DEF Init, Vouched, Carries
<1>5. Sums
  BY <1>3 DEF Init, Sums, NoOvercredit, RecordedIsCredited, PaidMeansFunded, CactusAllOrNothing
<1> QED
  BY <1>1, <1>2, <1>4, <1>5 DEF SumInv

LEMMA SumInvKept == SumInv /\ [Next]_vars => SumInv'
  BY MoneyInvKept, RowsExistKept, VouchedKept, SumsKept DEF SumInv, MoneyInv

THEOREM SumInvariant == Spec => []SumInv
  BY SumInvInit, SumInvKept, PTL DEF Spec

\* Whatever the interleaving of polls, buttons, admins, timeouts and crashes,
\* no invoice is credited beyond what was vouched for, what is recorded on it
\* has reached the balance, PAID means fully deposited, and a CACTUS invoice
\* is credited in full or not at all.
THEOREM SumsAreRight ==
  Spec => [](NoOvercredit /\ RecordedIsCredited /\ PaidMeansFunded /\ CactusAllOrNothing)
<1>1. SumInv => NoOvercredit /\ RecordedIsCredited /\ PaidMeansFunded /\ CactusAllOrNothing
  BY DEF SumInv, Sums
<1> QED
  BY <1>1, SumInvariant, PTL

\* Of these by itself: no interleaving records a payment and loses its deposit.
THEOREM RecordedCredited == Spec => []RecordedIsCredited
<1>1. SumInv => RecordedIsCredited
  BY DEF SumInv, Sums
<1> QED
  BY <1>1, SumInvariant, PTL

\* A PAID invoice, or one whose intent was executed, has its whole price deposited.
THEOREM PaidFunded == Spec => []PaidMeansFunded
<1>1. SumInv => PaidMeansFunded
  BY DEF SumInv, Sums
<1> QED
  BY <1>1, SumInvariant, PTL

\* A CACTUS invoice is credited with its price or with nothing.
THEOREM CactusBinary == Spec => []CactusAllOrNothing
<1>1. SumInv => CactusAllOrNothing
  BY DEF SumInv, Sums
<1> QED
  BY <1>1, SumInvariant, PTL
=============================================================================
