------------------------ MODULE Subscription_proofs ------------------------
(* Proofs about Subscription, for every set of users and tasks, every        *)
(* referral relation, and every price, period, window and bound.            *)
EXTENDS Subscription, TLAPS

USE SubscriptionAssumption

-----------------------------------------------------------------------------
(* Typing.                                                                  *)

LEMMA LocalTypes == NoOp \in Loaded /\ NoSession \in Session
  BY DEF NoOp, Loaded, Kinds, NoSession, Session, NoTime

LEMMA SponsorsAreUsers ==
  ASSUME NEW u \in Users
  PROVE  Sponsors(u) \subseteq Users /\ u \notin Sponsors(u)
  BY DEF Sponsors

LEMMA UnlockType ==
  ASSUME row \in [Users -> Tasks \cup {Bouncer, None}], NEW p, Unlock(p)
  PROVE  /\ row' \in [Users -> Tasks \cup {Bouncer, None}]
         /\ \A u \in Users : row[u] # p => row'[u] = row[u]
  BY DEF Unlock

LEMMA GotoType ==
  ASSUME pc \in [Tasks -> TaskPlaces], op \in [Tasks -> Loaded],
         NEW p \in Tasks, NEW where \in TaskPlaces, NEW o \in Loaded,
         Goto(p, where, o)
  PROVE  /\ pc' \in [Tasks -> TaskPlaces]
         /\ op' \in [Tasks -> Loaded]
         /\ pc'[p] = where /\ op'[p] = o
         /\ \A q \in Tasks : q # p => pc'[q] = pc[q] /\ op'[q] = op[q]
  BY DEF Goto

LEMMA StopType ==
  ASSUME TypeOK, NEW p \in Tasks, Stop(p)
  PROVE  /\ pc' \in [Tasks -> TaskPlaces]
         /\ op' \in [Tasks -> Loaded]
         /\ row' \in [Users -> Tasks \cup {Bouncer, None}]
         /\ pc'[p] = "idle"
         /\ \A q \in Tasks : q # p => pc'[q] = pc[q] /\ op'[q] = op[q]
         /\ \A u \in Users : row[u] # p => row'[u] = row[u]
<1>1. "idle" \in TaskPlaces
  BY DEF TaskPlaces
<1> QED
  BY <1>1, LocalTypes, GotoType, UnlockType DEF Stop, TypeOK

\* Who pays whom: the buyer from the balance read, the sponsor on top.
LEMMA PayEffect ==
  ASSUME TypeOK, NEW u \in Users, NEW bal \in Int, Pay(u, bal)
  PROVE  /\ balance' \in [Users -> Int]
         /\ ledger' \in [Users -> Int]
         /\ withdrawals' \in [Users -> Nat]
         /\ withdrawals'[u] = withdrawals[u] + 1
         /\ balance'[u] = bal - Price /\ ledger'[u] = ledger[u] - Price
         /\ \A v \in Users \ {u} :
               /\ withdrawals'[v] = withdrawals[v]
               /\ \/ /\ v \in Sponsors(u)
                     /\ balance'[v] = balance[v] + Reward
                     /\ ledger'[v] = ledger[v] + Reward
                  \/ /\ balance'[v] = balance[v]
                     /\ ledger'[v] = ledger[v]
<1>1. balance \in [Users -> Int] /\ ledger \in [Users -> Int] /\ withdrawals \in [Users -> Nat]
  BY DEF TypeOK
<1>2. balance' \in [Users -> Int] /\ ledger' \in [Users -> Int] /\ withdrawals' \in [Users -> Nat]
  BY <1>1 DEF Pay
<1>3. balance'[u] = bal - Price /\ ledger'[u] = ledger[u] - Price
  BY <1>1 DEF Pay
<1>4. withdrawals'[u] = withdrawals[u] + 1
  BY <1>1 DEF Pay
<1>5. ASSUME NEW v \in Users \ {u}
      PROVE  /\ withdrawals'[v] = withdrawals[v]
             /\ \/ /\ v \in Sponsors(u)
                   /\ balance'[v] = balance[v] + Reward
                   /\ ledger'[v] = ledger[v] + Reward
                \/ /\ balance'[v] = balance[v]
                   /\ ledger'[v] = ledger[v]
  BY <1>1 DEF Pay
<1> QED
  BY <1>2, <1>3, <1>4, <1>5

LEMMA ExtendedType ==
  ASSUME now \in Nat \ {0}, NEW from \in Nat, NEW time \in Nat
  PROVE  /\ Extended(from, time) \in Nat
         /\ Extended(from, time) >= from + time
         /\ Extended(from, time) >= now + time
         /\ \/ Extended(from, time) = from + time
            \/ Extended(from, time) = now + time
  BY DEF Extended, Later

LEMMA InitType == Init => TypeOK
<1> SUFFICES ASSUME Init PROVE TypeOK
  OBVIOUS
<1>1. pc \in [Tasks -> TaskPlaces] /\ op \in [Tasks -> Loaded] /\ ses \in Session
  BY LocalTypes DEF Init, TaskPlaces
<1>2. bonuses \in [Users -> [BonusKinds -> Nat]]
  BY DEF Init
<1> QED
  BY <1>1, <1>2 DEF Init, TypeOK, NoTime, Places

LEMMA WorldType ==
  ASSUME TypeOK, World
  PROVE  TypeOK'
<1> USE DEF TypeOK, userVars, ledgerVars, taskVars, bounceVars
<1>1. CASE Tick
  BY <1>1 DEF Tick
<1>2. ASSUME NEW u \in Users, Deposit(u) PROVE TypeOK'
  <2>1. balance' \in [Users -> Int] /\ ledger' \in [Users -> Int] /\ deposited' \in [Users -> Nat]
    BY <1>2 DEF Deposit
  <2> QED BY <1>2, <2>1 DEF Deposit
<1>3. ASSUME NEW u \in Users, ToggleAutoRenewal(u) PROVE TypeOK'
  <2>1. auto' \in [Users -> BOOLEAN]
    BY <1>3 DEF ToggleAutoRenewal
  <2> QED BY <1>3, <2>1 DEF ToggleAutoRenewal
<1>4. ASSUME NEW u \in Users, NEW t \in 0 .. AdminTime, AdminSets(u, t) PROVE TypeOK'
  <2>1. end' \in [Users -> Nat]
    BY <1>4 DEF AdminSets, NoTime
  <2> QED BY <1>4, <2>1 DEF AdminSets
<1>5. ASSUME NEW p \in Tasks, NEW u \in Users, StartPurchase(p, u) PROVE TypeOK'
  <2>1. [NoOp EXCEPT !.kind = "buy", !.user = u] \in Loaded /\ "referrer" \in TaskPlaces
    BY LocalTypes DEF Loaded, Kinds, TaskPlaces
  <2>2. row' \in [Users -> Tasks \cup {Bouncer, None}]
    BY <1>5 DEF StartPurchase
  <2> QED BY <1>5, <2>1, <2>2, GotoType DEF StartPurchase
<1>6. ASSUME NEW p \in Tasks, NEW u \in Users, NEW k \in Offered, StartBonus(p, u, k)
      PROVE  TypeOK'
  <2>1. [kind |-> k, user |-> u, end |-> end[u]] \in Loaded /\ "bonus" \in TaskPlaces
    BY DEF Loaded, Kinds, TaskPlaces
  <2> QED BY <1>6, <2>1, GotoType DEF StartBonus
<1>7. ASSUME NEW x \in Sessions, Fails(x) PROVE TypeOK'
  <2>1. failures' \in Nat
    BY <1>7 DEF Fails
  <2>2. CASE x = Bouncer
    BY <1>7, <2>1, <2>2, UnlockType, LocalTypes
       DEF Fails, GivesUp, GiveUp, BounceTo, Places
  <2>3. CASE x \in Tasks
    BY <1>7, <2>1, <2>3, StopType DEF Fails, GivesUp, Abandon
  <2> QED BY <2>2, <2>3 DEF Sessions
<1> QED
  BY <1>1, <1>2, <1>3, <1>4, <1>5, <1>6, <1>7 DEF World

-----------------------------------------------------------------------------
(* The inductive invariant.                                                 *)

\* A task that waits to issue a bonus knows which.
BonusNamed == \A p \in Tasks : pc[p] = "bonus" => op[p].kind \in BonusKinds

Working == {"warn", "renew", "referrer", "expire"}

\* Who holds the row of the user being worked on.
Discipline ==
  /\ \A p \in Tasks : pc[p] = "referrer" => row[op[p].user] = p
  /\ place \in {"warn", "referrer"} => row[ses.user] = Bouncer
  /\ place \in {"renew", "expire"} /\ ~ses.gap => row[ses.user] = Bouncer
  /\ place = "warn" => ~ses.gap
  /\ place = "referrer" => Renewable(ses)
  /\ place \in Working => ses.at <= now

\* Until the session commits, what it loaded is what the table holds.
Fresh ==
  place \in Working /\ ~ses.gap =>
    /\ balance[ses.user] = ses.bal
    /\ auto[ses.user] = ses.auto
    /\ end[ses.user] = ses.end

\* Only the warning of a trial leaves a gap before a renewal.
GapOnTrial ==
  place \in {"renew", "referrer"} /\ ses.gap =>
    trialEnd[ses.user] # NoTime \/ ses.end - ses.at > RenewWindow

BonusShare(u, k) == IF k \in used[u] THEN BonusTime[k] ELSE 0

\* The time a user has paid for or was given, without the bonus k.
Without(u, k) ==
  now + AdminTime + Period * withdrawals[u]
    + (IF k = "trial" THEN BonusShare(u, "community") ELSE BonusShare(u, "trial"))

Earned(u) ==
  now + AdminTime + Period * withdrawals[u]
    + BonusShare(u, "trial") + BonusShare(u, "community")

\* NothingForFree, also of the copies the sessions hold.
Paid ==
  /\ \A u \in Users : end[u] <= Earned(u)
  /\ \A p \in Tasks : pc[p] = "bonus" => op[p].end <= Without(op[p].user, op[p].kind)
  /\ place \in Working => ses.end <= Earned(ses.user)

Books == BooksBalanceOffTrial

TypedInv == TypeOK /\ BonusNamed

IInv == TypedInv /\ Discipline /\ Fresh /\ GapOnTrial /\ Paid /\ Books

-----------------------------------------------------------------------------
(* Typing, continued: the steps of handlers and bouncer.                     *)

LEMMA HandleType ==
  ASSUME TypeOK, BonusNamed, NEW p \in Tasks, Handle(p)
  PROVE  TypeOK'
<1> USE DEF TypeOK, userVars, ledgerVars, taskVars, bounceVars
<1>0. op[p] \in Loaded
  OBVIOUS
<1>1. ASSUME CommitPurchase(p) PROVE TypeOK'
  <2> DEFINE u == op[p].user
  <2>1. u \in Users /\ balance[u] \in Int /\ Pay(u, balance[u])
    BY <1>0, <1>1 DEF CommitPurchase, Loaded
  <2>2. Extended(end[u], Period) \in Nat
    BY <2>1, ExtendedType
  <2>3. end' \in [Users -> Nat]
    BY <1>1, <2>1, <2>2 DEF CommitPurchase
  <2> QED BY <1>1, <2>1, <2>3, PayEffect, StopType DEF CommitPurchase
<1>2. ASSUME IssueBonus(p) PROVE TypeOK'
  <2> DEFINE o == op[p]
  <2>1. o.user \in Users /\ o.end \in Nat /\ o.kind \in Kinds
    BY <1>0 DEF Loaded
  <2>2. o.kind \in BonusKinds
    BY <1>2 DEF IssueBonus, BonusNamed
  <2>3. Extended(o.end, BonusTime[o.kind]) \in Nat /\ now + BonusTime[o.kind] \in Nat
    BY <2>1, <2>2, ExtendedType
  <2>4. end' \in [Users -> Nat] /\ trialEnd' \in [Users -> Nat]
    BY <1>2, <2>1, <2>3 DEF IssueBonus
  <2>5. used' \in [Users -> SUBSET BonusKinds]
    BY <1>2, <2>1, <2>2 DEF IssueBonus
  <2>6. bonuses' \in [Users -> [BonusKinds -> Nat]]
    BY <1>2, <2>1, <2>2 DEF IssueBonus
  <2> QED BY <1>2, <2>4, <2>5, <2>6, StopType DEF IssueBonus
<1> QED
  BY <1>1, <1>2 DEF Handle

LEMMA BounceType ==
  ASSUME TypeOK, Bounce
  PROVE  TypeOK'
<1> USE DEF TypeOK, userVars, ledgerVars, taskVars, BounceTo
<1>0. /\ ses \in Session /\ ses.user \in Users /\ ses.at \in Nat
      /\ ses.end \in Nat /\ ses.bal \in Int
      /\ NoSession \in Session
      /\ [ses EXCEPT !.gap = TRUE] \in Session
  BY LocalTypes DEF Session
<1>1. CASE Scan
  BY <1>0, <1>1 DEF Scan, Places
<1>2. CASE CloseSession
  BY <1>0, <1>2, UnlockType DEF CloseSession, Places
<1>3. ASSUME NEW u \in Users, NextCandidate(u) PROVE TypeOK'
  <2>1. [NoSession EXCEPT !.user = u] \in Session
    BY <1>0 DEF Session
  <2> QED BY <1>3, <2>1 DEF NextCandidate, Places
<1>4. CASE LockCandidate
  <2>1. row' \in [Users -> Tasks \cup {Bouncer, None}]
    BY <1>0, <1>4 DEF LockCandidate
  <2>2. [user |-> ses.user, at |-> now, end |-> end[ses.user], bal |-> balance[ses.user],
         auto |-> auto[ses.user], gap |-> FALSE] \in Session
    BY <1>0 DEF Session
  <2>3. ses' \in Session /\ place' \in Places
    BY <1>0, <1>4, <2>2 DEF LockCandidate, Places
  <2> QED BY <1>4, <2>1, <2>3 DEF LockCandidate
<1>5. CASE Warn
  <2>1. warnedAt' \in [Users -> Nat]
    BY <1>0, <1>5 DEF Warn
  <2> QED BY <1>0, <1>5, <2>1, UnlockType DEF Warn, Places
<1>6. CASE DoNotWarn
  BY <1>6 DEF DoNotWarn, Places
<1>7. CASE StartRenewal
  <2>1. row' \in [Users -> Tasks \cup {Bouncer, None}]
    BY <1>0, <1>7 DEF StartRenewal
  <2> QED BY <1>7, <2>1 DEF StartRenewal, Places
<1>8. CASE Renew
  <2>1. Extended(ses.end, Period) \in Nat
    BY <1>0, ExtendedType
  <2>2. /\ end' \in [Users -> Nat] /\ attemptAt' \in [Users -> Nat]
        /\ warnedAt' \in [Users -> Nat]
    BY <1>0, <1>8, <2>1 DEF Renew, NoTime
  <2> QED BY <1>0, <1>8, <2>2, PayEffect, UnlockType DEF Renew, Places
<1>9. CASE NotifyShortfall
  <2>1. attemptAt' \in [Users -> Nat]
    BY <1>0, <1>9 DEF NotifyShortfall
  <2> QED BY <1>0, <1>9, <2>1, UnlockType DEF NotifyShortfall, Places
<1>10. CASE DoNotRenew
  BY <1>10 DEF DoNotRenew, Places
<1>11. CASE NotExpired
  BY <1>0, <1>11 DEF NotExpired, Places
<1>12. CASE Degrade
  <2>1. end' \in [Users -> Nat] /\ warnedAt' \in [Users -> Nat]
    BY <1>0, <1>12 DEF Degrade, NoTime
  <2> QED BY <1>0, <1>12, <2>1, UnlockType DEF Degrade, Places
<1> QED
  BY <1>1, <1>2, <1>3, <1>4, <1>5, <1>6, <1>7, <1>8, <1>9, <1>10, <1>11, <1>12 DEF Bounce

LEMMA DetectedType ==
  ASSUME TypeOK, NEW x \in Sessions, DeadlockDetected(x)
  PROVE  TypeOK'
<1> USE DEF TypeOK, userVars, ledgerVars, taskVars, bounceVars
<1>1. CASE x = Bouncer
  BY <1>1, UnlockType, LocalTypes DEF DeadlockDetected, GivesUp, GiveUp, BounceTo, Places
<1>2. CASE x \in Tasks
  BY <1>2, StopType DEF DeadlockDetected, GivesUp, Abandon
<1> QED
  BY <1>1, <1>2 DEF Sessions

LEMMA StepType ==
  ASSUME TypedInv, [Next]_vars
  PROVE  TypeOK'
<1>1. CASE World BY <1>1, WorldType DEF TypedInv
<1>2. ASSUME NEW p \in Tasks, Handle(p) PROVE TypeOK'
  BY <1>2, HandleType DEF TypedInv
<1>3. CASE Bounce BY <1>3, BounceType DEF TypedInv
<1>4. ASSUME NEW x \in Sessions, DeadlockDetected(x) PROVE TypeOK'
  BY <1>4, DetectedType DEF TypedInv
<1>5. CASE UNCHANGED vars
  BY <1>5 DEF TypedInv, TypeOK, vars, userVars, ledgerVars, taskVars, bounceVars
<1> QED
  BY <1>1, <1>2, <1>3, <1>4, <1>5 DEF Next

LEMMA StepNamed ==
  ASSUME TypedInv, [Next]_vars
  PROVE  BonusNamed'
<1> USE DEF TypedInv, BonusNamed
<1>0. TypeOK /\ pc \in [Tasks -> TaskPlaces] /\ op \in [Tasks -> Loaded]
  BY DEF TypeOK
<1>1. ASSUME NEW p \in Tasks, Stop(p) PROVE BonusNamed'
  BY <1>0, <1>1, StopType
<1>2. CASE World
  <2>1. ASSUME NEW p \in Tasks, NEW u \in Users, StartPurchase(p, u) PROVE BonusNamed'
    <3>1. [NoOp EXCEPT !.kind = "buy", !.user = u] \in Loaded /\ "referrer" \in TaskPlaces
      BY LocalTypes DEF Loaded, Kinds, TaskPlaces
    <3> QED BY <1>0, <2>1, <3>1, GotoType DEF StartPurchase
  <2>2. ASSUME NEW p \in Tasks, NEW u \in Users, NEW k \in Offered, StartBonus(p, u, k)
        PROVE  BonusNamed'
    <3>1. [kind |-> k, user |-> u, end |-> end[u]] \in Loaded /\ "bonus" \in TaskPlaces
      BY <1>0 DEF TypeOK, Loaded, Kinds, TaskPlaces
    <3> QED BY <1>0, <2>2, <3>1, GotoType DEF StartBonus
  <2>3. ASSUME NEW x \in Sessions, Fails(x) PROVE BonusNamed'
    <3>1. CASE x = Bouncer
      BY <2>3, <3>1 DEF Fails, GivesUp, GiveUp, taskVars
    <3>2. CASE x \in Tasks
      BY <1>1, <2>3, <3>2 DEF Fails, GivesUp, Abandon
    <3> QED BY <3>1, <3>2 DEF Sessions
  <2>4. CASE Tick \/ \E u \in Users : Deposit(u) \/ ToggleAutoRenewal(u)
    BY <2>4 DEF Tick, Deposit, ToggleAutoRenewal, taskVars
  <2>5. CASE \E u \in Users, t \in 0 .. AdminTime : AdminSets(u, t)
    BY <2>5 DEF AdminSets, taskVars
  <2> QED BY <1>2, <2>1, <2>2, <2>3, <2>4, <2>5 DEF World
<1>3. ASSUME NEW p \in Tasks, Handle(p) PROVE BonusNamed'
  BY <1>1, <1>3 DEF Handle, CommitPurchase, IssueBonus
<1>4. CASE Bounce
  BY <1>4 DEF Bounce, Scan, CloseSession, NextCandidate, LockCandidate, Warn, DoNotWarn,
     StartRenewal, Renew, NotifyShortfall, DoNotRenew, NotExpired, Degrade, taskVars
<1>5. ASSUME NEW x \in Sessions, DeadlockDetected(x) PROVE BonusNamed'
  <2>1. CASE x = Bouncer
    BY <1>5, <2>1 DEF DeadlockDetected, GivesUp, GiveUp, taskVars
  <2>2. CASE x \in Tasks
    BY <1>1, <1>5, <2>2 DEF DeadlockDetected, GivesUp, Abandon
  <2> QED BY <2>1, <2>2 DEF Sessions
<1>6. CASE UNCHANGED vars
  BY <1>6 DEF vars, taskVars
<1> QED
  BY <1>2, <1>3, <1>4, <1>5, <1>6 DEF Next

-----------------------------------------------------------------------------
(* Steps of anybody but the bouncer respect the rows the bouncer holds.      *)

Outside ==
  \/ Tick
  \/ \E u \in Users : Deposit(u) \/ ToggleAutoRenewal(u)
  \/ \E u \in Users, t \in 0 .. AdminTime : AdminSets(u, t)
  \/ \E p \in Tasks, u \in Users : StartPurchase(p, u)
  \/ \E p \in Tasks, u \in Users, k \in Offered : StartBonus(p, u, k)
  \/ \E p \in Tasks : Handle(p)
  \/ \E p \in Tasks : Abandon(p) /\ UNCHANGED bounceVars
  \/ UNCHANGED vars

LEMMA WhoSteps ==
  ASSUME [Next]_vars
  PROVE  Outside \/ Bounce \/ GiveUp
<1>1. ASSUME NEW x \in Sessions, GivesUp(x) PROVE Outside \/ GiveUp
  BY <1>1 DEF GivesUp, Sessions, Outside
<1>2. World => Outside \/ GiveUp
  BY <1>1, Zenon DEF World, Fails, Outside
<1>3. (\E x \in Sessions : DeadlockDetected(x)) => Outside \/ GiveUp
  BY <1>1, Zenon DEF DeadlockDetected
<1>4. (\E p \in Tasks : Handle(p)) \/ UNCHANGED vars => Outside
  BY Zenon DEF Outside
<1> QED
  BY <1>2, <1>3, <1>4, Zenon DEF Next

\* What such a step leaves as it is.
Framed ==
  /\ place' = place /\ ses' = ses
  /\ now' >= now
  /\ \A u \in Users : row[u] = Bouncer =>
        /\ row'[u] = Bouncer
        /\ balance'[u] = balance[u] /\ auto'[u] = auto[u] /\ end'[u] = end[u]
  /\ \A u \in Users : trialEnd[u] # NoTime => trialEnd'[u] # NoTime
  /\ \A p \in Tasks : pc'[p] = "referrer" => row'[op'[p].user] = p

LEMMA Frame ==
  ASSUME TypedInv, Discipline, Outside
  PROVE  Framed
<1> USE DEF userVars, ledgerVars, taskVars, bounceVars, Discipline, Framed
<1>0. /\ TypeOK /\ BonusNamed
      /\ now \in Nat /\ pc \in [Tasks -> TaskPlaces] /\ op \in [Tasks -> Loaded]
      /\ row \in [Users -> Tasks \cup {Bouncer, None}]
      /\ balance \in [Users -> Int] /\ auto \in [Users -> BOOLEAN] /\ end \in [Users -> Nat]
      /\ trialEnd \in [Users -> Nat]
  BY DEF TypedInv, TypeOK
<1>1. CASE Tick
  BY <1>0, <1>1 DEF Tick
<1>2. ASSUME NEW u \in Users, Deposit(u) \/ ToggleAutoRenewal(u)
      PROVE  /\ UNCHANGED <<place, ses, now, row, pc, op, trialEnd>>
             /\ \A v \in Users : row[v] = Bouncer =>
                  balance'[v] = balance[v] /\ auto'[v] = auto[v] /\ end'[v] = end[v]
  BY <1>0, <1>2 DEF Deposit, ToggleAutoRenewal
<1>3. ASSUME NEW u \in Users, NEW t \in 0 .. AdminTime, AdminSets(u, t)
      PROVE  /\ UNCHANGED <<place, ses, now, row, pc, op, trialEnd>>
             /\ \A v \in Users : row[v] = Bouncer =>
                  balance'[v] = balance[v] /\ auto'[v] = auto[v] /\ end'[v] = end[v]
  BY <1>0, <1>3 DEF AdminSets
<1>4. ASSUME NEW p \in Tasks, NEW u \in Users, StartPurchase(p, u)
      PROVE  /\ UNCHANGED <<place, ses, now, balance, auto, end, trialEnd>>
             /\ \A v \in Users : row[v] = Bouncer => row'[v] = Bouncer
             /\ \A q \in Tasks : pc'[q] = "referrer" => row'[op'[q].user] = q
  <2>1. [NoOp EXCEPT !.kind = "buy", !.user = u] \in Loaded /\ "referrer" \in TaskPlaces
        /\ [NoOp EXCEPT !.kind = "buy", !.user = u].user = u
    BY LocalTypes DEF Loaded, Kinds, TaskPlaces
  <2>2. /\ op'[p].user = u /\ row'[u] = p
        /\ \A q \in Tasks \ {p} : pc'[q] = pc[q] /\ op'[q] = op[q]
        /\ \A v \in Users \ {u} : row'[v] = row[v]
    <3>1. Goto(p, "referrer", [NoOp EXCEPT !.kind = "buy", !.user = u])
      BY <1>4 DEF StartPurchase
    <3>2. row' = [row EXCEPT ![u] = p]
      BY <1>4 DEF StartPurchase
    <3>3. op'[p] = [NoOp EXCEPT !.kind = "buy", !.user = u]
          /\ \A q \in Tasks \ {p} : pc'[q] = pc[q] /\ op'[q] = op[q]
      BY <1>0, <2>1, <3>1, GotoType
    <3> QED BY <1>0, <2>1, <3>2, <3>3
  <2>3. \A q \in Tasks : op[q].user \in Users
    BY <1>0 DEF Loaded
  <2> QED BY <1>0, <1>4, <2>2, <2>3 DEF StartPurchase
<1>5. ASSUME NEW p \in Tasks, NEW u \in Users, NEW k \in Offered, StartBonus(p, u, k)
      PROVE  /\ UNCHANGED <<place, ses, now, row, balance, auto, end, trialEnd>>
             /\ \A q \in Tasks : pc'[q] = "referrer" => row'[op'[q].user] = q
  <2>1. [kind |-> k, user |-> u, end |-> end[u]] \in Loaded /\ "bonus" \in TaskPlaces
    BY <1>0 DEF Loaded, Kinds, TaskPlaces
  <2> QED BY <1>0, <1>5, <2>1, GotoType DEF StartBonus
<1>6. ASSUME NEW p \in Tasks, Stop(p)
      PROVE  /\ \A v \in Users : row[v] # p => row'[v] = row[v]
             /\ \A q \in Tasks : pc'[q] = "referrer" => row'[op'[q].user] = q
  <2>1. \A q \in Tasks : op[q].user \in Users
    BY <1>0 DEF Loaded
  <2> QED BY <1>0, <1>6, <2>1, StopType
<1>7. ASSUME NEW p \in Tasks, CommitPurchase(p)
      PROVE  /\ UNCHANGED <<place, ses, now, auto, trialEnd>>
             /\ \A v \in Users : row[v] = Bouncer => balance'[v] = balance[v] /\ end'[v] = end[v]
  <2> DEFINE u == op[p].user
  <2>1. u \in Users /\ row[u] = p
    BY <1>0, <1>7 DEF CommitPurchase, Loaded
  <2>2. \A v \in Sponsors(u) : row[v] # Bouncer
    BY <1>7 DEF CommitPurchase, Free
  <2>3. Pay(u, balance[u]) /\ balance[u] \in Int
    BY <1>0, <1>7, <2>1 DEF CommitPurchase
  <2>4. ASSUME NEW v \in Users, row[v] = Bouncer
        PROVE  balance'[v] = balance[v] /\ end'[v] = end[v]
    <3>1. v # u /\ v \notin Sponsors(u)
      BY <2>1, <2>2, <2>4
    <3>2. balance'[v] = balance[v]
      BY <1>0, <2>1, <2>3, <3>1, PayEffect
    <3>3. end'[v] = end[v]
      BY <1>0, <1>7, <3>1 DEF CommitPurchase
    <3> QED BY <3>2, <3>3
  <2> QED BY <1>7, <2>4 DEF CommitPurchase
<1>8. ASSUME NEW p \in Tasks, IssueBonus(p)
      PROVE  /\ UNCHANGED <<place, ses, now, auto, balance>>
             /\ \A v \in Users : row[v] = Bouncer => end'[v] = end[v]
             /\ \A v \in Users : trialEnd[v] # NoTime => trialEnd'[v] # NoTime
  <2> DEFINE o == op[p]
  <2>1. o.user \in Users /\ o.kind \in BonusKinds /\ row[o.user] = None
    BY <1>0, <1>8 DEF IssueBonus, Loaded, BonusNamed
  <2>2. now + BonusTime[o.kind] \in Nat /\ now + BonusTime[o.kind] # 0
    BY <1>0, <2>1
  <2> QED BY <1>0, <1>8, <2>1, <2>2 DEF IssueBonus, NoTime
<1>9. ASSUME NEW p \in Tasks, Handle(p) \/ Abandon(p)
      PROVE  Stop(p)
  BY <1>9 DEF Handle, CommitPurchase, IssueBonus, Abandon
<1>11. CASE UNCHANGED vars
  BY <1>0, <1>11 DEF vars
<1>12. ASSUME NEW p \in Tasks, Handle(p) PROVE Framed
  <2>1. /\ \A v \in Users : row[v] = Bouncer => row'[v] = row[v]
        /\ \A q \in Tasks : pc'[q] = "referrer" => row'[op'[q].user] = q
    BY <1>6, <1>9, <1>12
  <2> QED BY <1>0, <1>7, <1>8, <1>12, <2>1 DEF Handle
<1>17. ASSUME NEW p \in Tasks, Abandon(p), UNCHANGED bounceVars PROVE Framed
  <2>1. /\ \A v \in Users : row[v] = Bouncer => row'[v] = row[v]
        /\ \A q \in Tasks : pc'[q] = "referrer" => row'[op'[q].user] = q
    BY <1>6, <1>9, <1>17
  <2> QED BY <1>0, <1>17, <2>1 DEF Abandon
<1>13. ASSUME NEW u \in Users, Deposit(u) \/ ToggleAutoRenewal(u) PROVE Framed
  BY <1>0, <1>2, <1>13
<1>14. ASSUME NEW u \in Users, NEW t \in 0 .. AdminTime, AdminSets(u, t) PROVE Framed
  BY <1>0, <1>3, <1>14
<1>15. ASSUME NEW p \in Tasks, NEW u \in Users, StartPurchase(p, u) PROVE Framed
  BY <1>0, <1>4, <1>15
<1>16. ASSUME NEW p \in Tasks, NEW u \in Users, NEW k \in Offered, StartBonus(p, u, k)
       PROVE  Framed
  BY <1>0, <1>5, <1>16
<1> HIDE DEF Framed, Discipline, userVars, ledgerVars, taskVars, bounceVars
<1>19. (\E u \in Users : Deposit(u) \/ ToggleAutoRenewal(u)) => Framed
  BY <1>13, Zenon
<1>20. (\E u \in Users, t \in 0 .. AdminTime : AdminSets(u, t)) => Framed
  BY <1>14, Zenon
<1>21. (\E p \in Tasks, u \in Users : StartPurchase(p, u)) => Framed
  BY <1>15, Zenon
<1>22. (\E p \in Tasks, u \in Users, k \in Offered : StartBonus(p, u, k)) => Framed
  BY <1>16, Zenon
<1>23. (\E p \in Tasks : Handle(p)) => Framed
  BY <1>12, Zenon
<1>24. (\E p \in Tasks : Abandon(p) /\ UNCHANGED bounceVars) => Framed
  BY <1>17, Zenon
<1> QED
  BY <1>1, <1>11, <1>19, <1>20, <1>21, <1>22, <1>23, <1>24, Zenon DEF Outside

-----------------------------------------------------------------------------
(* The rows the bouncer holds, and what it loaded under them.                *)

OwnRows ==
  /\ UNCHANGED <<now, pc, op, auto, trialEnd>>
  /\ \A u \in Users : row[u] \notin {Bouncer, None} => row'[u] = row[u]

LEMMA BounceFrame ==
  ASSUME TypedInv, Bounce \/ GiveUp
  PROVE  OwnRows
<1> USE DEF OwnRows, userVars, ledgerVars, taskVars
<1>0. TypeOK /\ row \in [Users -> Tasks \cup {Bouncer, None}] /\ ses.user \in Users
  BY DEF TypedInv, TypeOK, Session
<1>1. Unlock(Bouncer) => \A u \in Users : row[u] \notin {Bouncer, None} => row'[u] = row[u]
  BY <1>0, UnlockType
<1>2. ASSUME Free(Bouncer, ses.user), row' = [row EXCEPT ![ses.user] = Bouncer]
      PROVE  \A u \in Users : row[u] \notin {Bouncer, None} => row'[u] = row[u]
  BY <1>0, <1>2 DEF Free
<1>3. CASE Scan \/ \E u \in Users : NextCandidate(u)
  BY <1>3 DEF Scan, NextCandidate
<1>4. CASE DoNotWarn \/ DoNotRenew \/ NotExpired
  BY <1>4 DEF DoNotWarn, DoNotRenew, NotExpired
<1>5. CASE CloseSession \/ GiveUp
  BY <1>1, <1>5 DEF CloseSession, GiveUp
<1>6. CASE LockCandidate \/ StartRenewal
  BY <1>2, <1>6 DEF LockCandidate, StartRenewal
<1>7. CASE Warn \/ NotifyShortfall
  BY <1>1, <1>7 DEF Warn, NotifyShortfall
<1>8. CASE Renew \/ Degrade
  BY <1>1, <1>8 DEF Renew, Degrade
<1> HIDE DEF OwnRows
<1> QED
  BY <1>3, <1>4, <1>5, <1>6, <1>7, <1>8, Zenon DEF Bounce

\* The part of the invariant about the bouncer's session.
Held ==
  /\ place \in {"warn", "referrer"} => row[ses.user] = Bouncer
  /\ place \in {"renew", "expire"} /\ ~ses.gap => row[ses.user] = Bouncer
  /\ place = "warn" => ~ses.gap
  /\ place = "referrer" => Renewable(ses)
  /\ place \in Working => ses.at <= now
  /\ Fresh
  /\ GapOnTrial

LEMMA AsleepHeld ==
  ASSUME place' \in {"sleep", "next", "lock"}
  PROVE  Held'
  BY DEF Held, Working, Fresh, GapOnTrial

LEMMA BounceHeld ==
  ASSUME TypedInv, Held, Bounce \/ GiveUp
  PROVE  Held'
<1> USE DEF userVars, ledgerVars, taskVars, BounceTo
<1>0. /\ row \in [Users -> Tasks \cup {Bouncer, None}]
      /\ ses \in Session /\ ses.user \in Users /\ ses.at \in Nat /\ ses.end \in Nat
      /\ now \in Nat /\ ses.gap \in BOOLEAN
  BY DEF TypedInv, TypeOK, Session
<1>1. CASE Scan \/ CloseSession \/ GiveUp \/ NotExpired
  BY <1>1, AsleepHeld DEF Scan, CloseSession, GiveUp, NotExpired
<1>2. CASE Renew \/ Degrade \/ \E u \in Users : NextCandidate(u)
  BY <1>2, AsleepHeld DEF Renew, Degrade, NextCandidate
<1>3. CASE LockCandidate
  <2>1. CASE end[ses.user] = NoTime
    BY <1>3, <2>1, AsleepHeld DEF LockCandidate
  <2>2. CASE end[ses.user] # NoTime
    <3>1. /\ place' = "warn" /\ row'[ses.user] = Bouncer
          /\ ses' = [user |-> ses.user, at |-> now, end |-> end[ses.user],
                     bal |-> balance[ses.user], auto |-> auto[ses.user], gap |-> FALSE]
          /\ UNCHANGED <<now, end, balance, auto>>
      BY <1>0, <1>3, <2>2 DEF LockCandidate
    <3>2. /\ ses'.user = ses.user /\ ses'.at = now /\ ses'.end = end[ses.user]
          /\ ses'.bal = balance[ses.user] /\ ses'.auto = auto[ses.user] /\ ~ses'.gap
      BY <3>1
    <3> QED BY <1>0, <3>1, <3>2 DEF Held, Working, Fresh, GapOnTrial
  <2> QED BY <2>1, <2>2
<1>4. CASE Warn
  <2>1. place = "warn" /\ place' = "renew" /\ WarningIsDue(ses) /\ UNCHANGED <<now, trialEnd>>
    BY <1>4 DEF Warn
  <2>2. ses' = [ses EXCEPT !.gap = TRUE]
    BY <1>4 DEF Warn
  <2>3. ses'.gap /\ ses'.user = ses.user /\ ses'.at = ses.at /\ ses'.end = ses.end
    BY <1>0, <2>2 DEF Session
  <2>4. trialEnd[ses.user] # NoTime \/ ses.end - ses.at > RenewWindow
    <3>1. CASE OnTrial(ses)
      BY <3>1 DEF OnTrial
    <3>2. CASE ~OnTrial(ses)
      BY <2>1, <3>2 DEF WarningIsDue, WarningTimes
    <3> QED BY <3>1, <3>2
  <2> QED BY <2>1, <2>3, <2>4 DEF Held, Working, Fresh, GapOnTrial
<1>5. CASE DoNotWarn
  BY <1>5 DEF DoNotWarn, Held, Working, Fresh, GapOnTrial
<1>6. CASE StartRenewal
  <2>1. /\ place = "renew" /\ place' = "referrer" /\ ses' = ses /\ Renewable(ses)
        /\ row'[ses.user] = Bouncer
        /\ UNCHANGED <<now, end, balance, auto, trialEnd>>
    BY <1>0, <1>6 DEF StartRenewal
  <2>2. Renewable(ses')
    BY <2>1
  <2> QED BY <2>1, <2>2 DEF Held, Working, Fresh, GapOnTrial
<1>7. CASE NotifyShortfall
  <2>1. place = "renew" /\ place' = "expire" /\ now' = now /\ ses' = [ses EXCEPT !.gap = TRUE]
    BY <1>7 DEF NotifyShortfall
  <2>2. ses'.gap /\ ses'.at = ses.at
    BY <1>0, <2>1 DEF Session
  <2> QED BY <2>1, <2>2 DEF Held, Working, Fresh, GapOnTrial
<1>8. CASE DoNotRenew
  BY <1>8 DEF DoNotRenew, Held, Working, Fresh, GapOnTrial
<1> QED
  BY <1>1, <1>2, <1>3, <1>4, <1>5, <1>6, <1>7, <1>8 DEF Bounce

LEMMA OutsideHeld ==
  ASSUME TypedInv, TypeOK', Held, Framed
  PROVE  Held'
<1>1. ses.user \in Users /\ ses.at \in Nat /\ now \in Nat /\ now' \in Nat
  BY DEF TypedInv, TypeOK, Session
<1>2. Renewable(ses) => Renewable(ses')
  BY DEF Framed
<1>3. place' = place /\ ses' = ses /\ now' >= now
  BY DEF Framed
<1>4. row[ses.user] = Bouncer =>
        /\ row'[ses.user] = Bouncer
        /\ balance'[ses.user] = balance[ses.user]
        /\ auto'[ses.user] = auto[ses.user] /\ end'[ses.user] = end[ses.user]
  BY <1>1 DEF Framed
<1>5. trialEnd[ses.user] # NoTime => trialEnd'[ses.user] # NoTime
  BY <1>1 DEF Framed
<1>6. place \in Working => ses.at <= now'
  BY <1>1, <1>3 DEF Held
<1>7. Fresh'
  BY <1>3, <1>4 DEF Held, Working, Fresh
<1>8. GapOnTrial'
  BY <1>3, <1>5 DEF Held, GapOnTrial
<1> QED BY <1>2, <1>3, <1>4, <1>6, <1>7, <1>8 DEF Held

LEMMA StepHeld ==
  ASSUME TypedInv, Discipline, Fresh, GapOnTrial, [Next]_vars
  PROVE  Discipline' /\ Fresh' /\ GapOnTrial'
<1>0. TypeOK'
  BY StepType
<1>1. Held
  BY DEF Held, Discipline
<1>2. \A p \in Tasks : pc[p] = "referrer" => row[op[p].user] = p
  BY DEF Discipline
<1>3. Held' /\ \A p \in Tasks : pc'[p] = "referrer" => row'[op'[p].user] = p
  <2>1. CASE Outside
    <3>1. Framed
      BY <2>1, Frame
    <3> QED BY <1>0, <1>1, <3>1, OutsideHeld DEF Framed
  <2>2. CASE Bounce \/ GiveUp
    <3>1. OwnRows
      BY <2>2, BounceFrame
    <3>2. \A p \in Tasks : op[p].user \in Users
      BY DEF TypedInv, TypeOK, Loaded
    <3>3. \A p \in Tasks : p # Bouncer /\ p # None
      OBVIOUS
    <3>4. \A p \in Tasks : pc'[p] = "referrer" => row'[op'[p].user] = p
      BY <1>2, <3>1, <3>2, <3>3 DEF OwnRows
    <3> QED BY <1>1, <2>2, <3>4, BounceHeld
  <2> QED BY <2>1, <2>2, WhoSteps
<1> QED
  BY <1>3 DEF Held, Discipline

-----------------------------------------------------------------------------
(* The balance and the transactions.                                        *)

LEMMA PayBooks ==
  ASSUME TypedInv, Books, NEW u \in Users, NEW bal \in Int, Pay(u, bal),
         trialEnd[u] = NoTime => balance[u] = bal, trialEnd' = trialEnd
  PROVE  Books'
<1> USE DEF Books, BooksBalanceOffTrial
<1>0. TypeOK /\ balance \in [Users -> Int] /\ ledger \in [Users -> Int]
  BY DEF TypedInv, TypeOK
<1>1. ASSUME NEW v \in Users, trialEnd[v] = NoTime PROVE balance'[v] = ledger'[v]
  <2>1. CASE v = u
    BY <1>0, <1>1, <2>1, PayEffect
  <2>2. CASE v # u
    BY <1>0, <1>1, <2>2, PayEffect
  <2> QED BY <2>1, <2>2
<1> QED
  BY <1>1

LEMMA StepBooks ==
  ASSUME TypedInv, Discipline, Fresh, GapOnTrial, Books, [Next]_vars
  PROVE  Books'
<1> USE DEF userVars, ledgerVars, taskVars, bounceVars
<1>0. /\ TypeOK /\ BonusNamed
      /\ balance \in [Users -> Int] /\ ledger \in [Users -> Int] /\ trialEnd \in [Users -> Nat]
      /\ now \in Nat /\ op \in [Tasks -> Loaded]
      /\ ses.user \in Users /\ ses.bal \in Int /\ ses.at \in Nat /\ ses.end \in Nat
      /\ ses.gap \in BOOLEAN
  BY DEF TypedInv, TypeOK, Session
<1>1. UNCHANGED <<balance, ledger, trialEnd>> => Books'
  BY DEF Books, BooksBalanceOffTrial
<1>2. ASSUME NEW u \in Users, Deposit(u) PROVE Books'
  BY <1>0, <1>2 DEF Deposit, Books, BooksBalanceOffTrial
<1>3. ASSUME NEW p \in Tasks, CommitPurchase(p) PROVE Books'
  <2>1. op[p].user \in Users
    BY <1>0 DEF Loaded
  <2>2. Pay(op[p].user, balance[op[p].user]) /\ trialEnd' = trialEnd
    BY <1>3 DEF CommitPurchase
  <2> QED BY <1>0, <2>1, <2>2, PayBooks
<1>4. ASSUME NEW p \in Tasks, IssueBonus(p) PROVE Books'
  <2> DEFINE o == op[p]
  <2>1. o.user \in Users /\ o.kind \in BonusKinds
    BY <1>0, <1>4 DEF IssueBonus, Loaded, BonusNamed
  <2>2. UNCHANGED <<balance, ledger>>
    BY <1>4 DEF IssueBonus
  <2>3. ASSUME NEW v \in Users, trialEnd'[v] = NoTime PROVE trialEnd[v] = NoTime
    <3>1. now + BonusTime[o.kind] # 0
      BY <1>0, <2>1
    <3> QED BY <1>0, <1>4, <2>1, <2>3, <3>1 DEF IssueBonus, NoTime
  <2> QED BY <2>2, <2>3 DEF Books, BooksBalanceOffTrial
<1>5. CASE Renew
  <2>1. place = "referrer" /\ Pay(ses.user, ses.bal) /\ trialEnd' = trialEnd
    BY <1>5 DEF Renew
  <2>2. trialEnd[ses.user] = NoTime => ~ses.gap
    BY <1>0, <2>1 DEF Discipline, GapOnTrial, Renewable
  <2>3. trialEnd[ses.user] = NoTime => balance[ses.user] = ses.bal
    BY <2>1, <2>2 DEF Fresh, Working
  <2> QED BY <1>0, <2>1, <2>3, PayBooks
<1>6. ASSUME NEW x \in Sessions, GivesUp(x) PROVE Books'
  BY <1>1, <1>6 DEF GivesUp, GiveUp, Abandon
<1>7. CASE World
  <2>1. CASE Tick
    BY <1>1, <2>1 DEF Tick
  <2>2. ASSUME NEW u \in Users, ToggleAutoRenewal(u) PROVE Books'
    BY <1>1, <2>2 DEF ToggleAutoRenewal
  <2>3. ASSUME NEW u \in Users, NEW t \in 0 .. AdminTime, AdminSets(u, t) PROVE Books'
    BY <1>1, <2>3 DEF AdminSets
  <2>4. ASSUME NEW p \in Tasks, NEW u \in Users, StartPurchase(p, u) PROVE Books'
    BY <1>1, <2>4 DEF StartPurchase
  <2>5. ASSUME NEW p \in Tasks, NEW u \in Users, NEW k \in Offered, StartBonus(p, u, k)
        PROVE  Books'
    BY <1>1, <2>5 DEF StartBonus
  <2> QED BY <1>2, <1>6, <1>7, <2>1, <2>2, <2>3, <2>4, <2>5 DEF World, Fails
<1>8. CASE Bounce /\ ~Renew
  BY <1>1, <1>8 DEF Bounce, Scan, CloseSession, NextCandidate, LockCandidate, Warn,
     DoNotWarn, StartRenewal, NotifyShortfall, DoNotRenew, NotExpired, Degrade
<1>9. CASE UNCHANGED vars
  BY <1>1, <1>9 DEF vars
<1> QED
  BY <1>3, <1>4, <1>5, <1>6, <1>7, <1>8, <1>9 DEF Next, Handle, DeadlockDetected

-----------------------------------------------------------------------------
(* What users have paid for.                                                *)

Grows ==
  /\ now' >= now
  /\ \A u \in Users : withdrawals'[u] >= withdrawals[u] /\ used[u] \subseteq used'[u]

LEMMA TimesPeriod ==
  ASSUME NEW m \in Nat, NEW n \in Nat, m >= n
  PROVE  /\ Period * m \in Nat
         /\ Period * m >= Period * n
         /\ Period * (n + 1) = Period * n + Period
  OBVIOUS

LEMMA EarnedGrows ==
  ASSUME TypeOK, TypeOK', Grows, NEW u \in Users
  PROVE  /\ Earned(u) \in Nat /\ Earned(u)' \in Nat /\ Earned(u)' >= Earned(u)
         /\ Earned(u) >= now
         /\ \A k \in BonusKinds : /\ Without(u, k) \in Nat /\ Without(u, k)' \in Nat
                                   /\ Without(u, k)' >= Without(u, k)
                                   /\ Without(u, k) >= now
         /\ withdrawals'[u] = withdrawals[u] + 1 => Earned(u)' >= Earned(u) + Period
<1>1. /\ withdrawals[u] \in Nat /\ withdrawals'[u] \in Nat /\ now \in Nat /\ now' \in Nat
      /\ withdrawals'[u] >= withdrawals[u] /\ now' >= now
  BY DEF TypeOK, Grows
<1>2. /\ Period * withdrawals[u] \in Nat /\ Period * withdrawals'[u] \in Nat
      /\ Period * withdrawals'[u] >= Period * withdrawals[u]
      /\ withdrawals'[u] = withdrawals[u] + 1 =>
            Period * withdrawals'[u] = Period * withdrawals[u] + Period
  BY <1>1, TimesPeriod
<1>3. \A k \in BonusKinds : /\ BonusShare(u, k) \in Nat /\ BonusShare(u, k)' \in Nat
                            /\ BonusShare(u, k)' >= BonusShare(u, k)
  BY DEF BonusShare, Grows
<1>4. "trial" \in BonusKinds /\ "community" \in BonusKinds
  BY DEF BonusKinds
<1> DEFINE w == Period * withdrawals[u]
           v == Period * withdrawals'[u]
<1>5. /\ Earned(u) = now + AdminTime + w + BonusShare(u, "trial") + BonusShare(u, "community")
      /\ Earned(u)' = now' + AdminTime + v + BonusShare(u, "trial")' + BonusShare(u, "community")'
  BY DEF Earned
<1>6. ASSUME NEW k \in BonusKinds
      PROVE  \E j \in BonusKinds :
                /\ Without(u, k) = now + AdminTime + w + BonusShare(u, j)
                /\ Without(u, k)' = now' + AdminTime + v + BonusShare(u, j)'
  BY <1>4 DEF Without
<1>7. w \in Nat /\ v \in Nat /\ v >= w /\ (withdrawals'[u] = withdrawals[u] + 1 => v = w + Period)
  BY <1>2
<1> HIDE DEF w, v
<1>8. ASSUME NEW k \in BonusKinds
      PROVE  /\ Without(u, k) \in Nat /\ Without(u, k)' \in Nat
             /\ Without(u, k)' >= Without(u, k) /\ Without(u, k) >= now
  <2>1. PICK j \in BonusKinds :
                /\ Without(u, k) = now + AdminTime + w + BonusShare(u, j)
                /\ Without(u, k)' = now' + AdminTime + v + BonusShare(u, j)'
    BY <1>6
  <2> QED BY <1>1, <1>3, <1>7, <2>1
<1> QED
  BY <1>1, <1>3, <1>4, <1>5, <1>7, <1>8

\* Without one bonus, and with it.
LEMMA EarnedParts ==
  ASSUME TypeOK, NEW u \in Users, NEW k \in BonusKinds
  PROVE  /\ k \notin used[u] => Without(u, k) = Earned(u)
         /\ k \in used[u] => Earned(u) = Without(u, k) + BonusTime[k]
<1>1. withdrawals[u] \in Nat /\ now \in Nat
  BY DEF TypeOK
<1>2. Period * withdrawals[u] \in Nat
  BY <1>1, TimesPeriod
<1>3. \A j \in BonusKinds : BonusShare(u, j) \in Nat
  BY DEF BonusShare
<1>4. /\ k \notin used[u] => BonusShare(u, k) = 0
      /\ k \in used[u] => BonusShare(u, k) = BonusTime[k]
  BY DEF BonusShare
<1>5. "trial" \in BonusKinds /\ "community" \in BonusKinds
  BY DEF BonusKinds
<1>6. CASE k = "trial"
  BY <1>1, <1>2, <1>3, <1>4, <1>5, <1>6 DEF Earned, Without
<1>7. CASE k = "community"
  BY <1>1, <1>2, <1>3, <1>4, <1>5, <1>7 DEF Earned, Without
<1> QED
  BY <1>6, <1>7 DEF BonusKinds

\* The same of the state after a step.
LEMMA EarnedPartsNext ==
  ASSUME TypeOK', NEW u \in Users, NEW k \in BonusKinds
  PROVE  k \in used'[u] => Earned(u)' = Without(u, k)' + BonusTime[k]
<1>1. withdrawals'[u] \in Nat /\ now' \in Nat
  BY DEF TypeOK
<1>2. Period * withdrawals'[u] \in Nat
  BY <1>1, TimesPeriod
<1>3. \A j \in BonusKinds : BonusShare(u, j)' \in Nat
  BY DEF BonusShare
<1>4. k \in used'[u] => BonusShare(u, k)' = BonusTime[k]
  BY DEF BonusShare
<1>5. "trial" \in BonusKinds /\ "community" \in BonusKinds
  BY DEF BonusKinds
<1>6. CASE k = "trial"
  BY <1>1, <1>2, <1>3, <1>4, <1>5, <1>6 DEF Earned, Without
<1>7. CASE k = "community"
  BY <1>1, <1>2, <1>3, <1>4, <1>5, <1>7 DEF Earned, Without
<1> QED
  BY <1>6, <1>7 DEF BonusKinds

\* A step need only answer for the ends and copies it writes.
LEMMA PaidKept ==
  ASSUME TypedInv, TypedInv', Paid, Grows,
         \A u \in Users : end'[u] <= end[u] \/ end'[u] <= Earned(u)',
         \A p \in Tasks : pc'[p] = "bonus" =>
            \/ pc[p] = "bonus" /\ op'[p] = op[p]
            \/ \A u \in Users, k \in BonusKinds :
                  op'[p].user = u /\ op'[p].kind = k => op'[p].end <= Without(u, k)',
         place' \in Working =>
            \/ place \in Working /\ ses'.user = ses.user /\ ses'.end = ses.end
            \/ \A u \in Users : ses'.user = u => ses'.end <= Earned(u)'
  PROVE  Paid'
<1>0. TypeOK /\ TypeOK' /\ end \in [Users -> Nat] /\ end' \in [Users -> Nat]
  BY DEF TypedInv, TypeOK
<1>1. ASSUME NEW u \in Users PROVE end'[u] <= Earned(u)'
  BY <1>0, EarnedGrows DEF Paid
<1>2. ASSUME NEW p \in Tasks, pc'[p] = "bonus"
      PROVE  (op[p].end <= Without(op[p].user, op[p].kind))'
  <2>1. op'[p].user \in Users /\ op'[p].kind \in BonusKinds
    BY <1>2 DEF TypedInv, TypeOK, Loaded, BonusNamed
  <2>2. PICK u \in Users, k \in BonusKinds : op'[p].user = u /\ op'[p].kind = k
    BY <2>1
  <2>3. op'[p].end <= Without(u, k)'
    <3>1. CASE pc[p] = "bonus" /\ op'[p] = op[p]
      <4>1. op[p].end \in Nat
        BY <3>1 DEF TypedInv, TypeOK, Loaded
      <4>2. op[p].end <= Without(u, k)
        BY <2>2, <3>1 DEF Paid
      <4>3. /\ Without(u, k) \in Nat /\ Without(u, k)' \in Nat
            /\ Without(u, k)' >= Without(u, k)
        BY <1>0, EarnedGrows
      <4> QED BY <3>1, <4>1, <4>2, <4>3
    <3>2. CASE op'[p].end <= Without(u, k)'
      BY <3>2
    <3> QED BY <1>2, <2>2, <3>1, <3>2
  <2> QED BY <2>2, <2>3 DEF Without, BonusShare
<1>3. ASSUME place' \in Working PROVE (ses.end <= Earned(ses.user))'
  <2>1. ses.user \in Users /\ ses'.user \in Users /\ ses.end \in Nat
    BY DEF TypedInv, TypeOK, Session
  <2>2. PICK u \in Users : ses'.user = u
    BY <2>1
  <2>3. ses'.end <= Earned(u)'
    <3>1. CASE place \in Working /\ ses'.user = ses.user /\ ses'.end = ses.end
      <4>1. ses.end <= Earned(u)
        BY <2>2, <3>1 DEF Paid
      <4>2. Earned(u) \in Nat /\ Earned(u)' \in Nat /\ Earned(u)' >= Earned(u)
        BY <1>0, EarnedGrows
      <4> QED BY <2>1, <3>1, <4>1, <4>2
    <3>2. CASE ses'.end <= Earned(u)'
      BY <3>2
    <3> QED BY <1>3, <2>2, <3>1, <3>2
  <2> QED BY <2>2, <2>3 DEF Earned, BonusShare
<1>4. (\A p \in Tasks : pc[p] = "bonus" => op[p].end <= Without(op[p].user, op[p].kind))'
  BY <1>2
<1>5. (place \in Working => ses.end <= Earned(ses.user))'
  BY <1>3
<1> QED
  BY <1>1, <1>4, <1>5 DEF Paid

\* A step that touches none of what Paid speaks of but the ends and copies.
Quiet == UNCHANGED <<now, withdrawals, used>>

LEMMA QuietGrows ==
  ASSUME TypeOK, Quiet
  PROVE  Grows
  BY DEF Quiet, Grows, TypeOK

LEMMA WorldPaid ==
  ASSUME TypedInv, TypedInv', Paid, World
  PROVE  Paid'
<1> USE DEF userVars, ledgerVars, taskVars, bounceVars
<1>0. /\ TypeOK /\ TypeOK' /\ now \in Nat /\ end \in [Users -> Nat]
      /\ pc \in [Tasks -> TaskPlaces] /\ op \in [Tasks -> Loaded]
  BY DEF TypedInv, TypeOK
<1>1. CASE Tick
  <2>1. Grows
    BY <1>0, <1>1 DEF Tick, Grows, TypeOK
  <2> QED BY <1>0, <1>1, <2>1, PaidKept DEF Tick
<1>2. ASSUME NEW u \in Users, Deposit(u) \/ ToggleAutoRenewal(u) PROVE Paid'
  <2>1. Quiet /\ UNCHANGED <<end, pc, op, place, ses>>
    BY <1>2 DEF Deposit, ToggleAutoRenewal, Quiet
  <2> QED BY <1>0, <2>1, QuietGrows, PaidKept
<1>3. ASSUME NEW u \in Users, NEW t \in 0 .. AdminTime, AdminSets(u, t) PROVE Paid'
  <2>1. Quiet /\ UNCHANGED <<pc, op, place, ses>>
    BY <1>3 DEF AdminSets, Quiet
  <2>2. Grows
    BY <1>0, <2>1, QuietGrows
  <2>3. ASSUME NEW v \in Users PROVE end'[v] <= end[v] \/ end'[v] <= Earned(v)'
    <3>1. CASE v # u
      BY <1>0, <1>3, <3>1 DEF AdminSets
    <3>2. CASE v = u /\ t = 0
      BY <1>0, <1>3, <3>2 DEF AdminSets, NoTime
    <3>3. CASE v = u /\ t # 0
      <4>1. end'[u] = now + t
        BY <1>0, <1>3, <3>3 DEF AdminSets
      <4>2. withdrawals[u] \in Nat /\ Period * withdrawals[u] \in Nat
        BY <1>0, TimesPeriod DEF TypeOK
      <4>3. BonusShare(u, "trial") \in Nat /\ BonusShare(u, "community") \in Nat
        BY DEF BonusShare, BonusKinds
      <4>4. Earned(u) >= now + AdminTime
        BY <1>0, <4>2, <4>3 DEF Earned
      <4>5. Earned(u)' \in Nat /\ Earned(u) \in Nat /\ Earned(u)' >= Earned(u)
        BY <1>0, <2>2, EarnedGrows
      <4> QED BY <1>0, <3>3, <4>1, <4>4, <4>5
    <3> QED BY <3>1, <3>2, <3>3
  <2> QED BY <2>1, <2>2, <2>3, PaidKept
<1>4. ASSUME NEW p \in Tasks, NEW u \in Users, StartPurchase(p, u) PROVE Paid'
  <2>1. Quiet /\ UNCHANGED <<end, place, ses>>
    BY <1>4 DEF StartPurchase, Quiet
  <2>2. [NoOp EXCEPT !.kind = "buy", !.user = u] \in Loaded /\ "referrer" \in TaskPlaces
    BY LocalTypes DEF Loaded, Kinds, TaskPlaces
  <2>3. \A q \in Tasks : pc'[q] = "bonus" => pc[q] = "bonus" /\ op'[q] = op[q]
    BY <1>0, <1>4, <2>2, GotoType DEF StartPurchase
  <2> QED BY <1>0, <2>1, <2>3, QuietGrows, PaidKept
<1>5. ASSUME NEW p \in Tasks, NEW u \in Users, NEW k \in Offered, StartBonus(p, u, k)
      PROVE  Paid'
  <2>1. Quiet /\ UNCHANGED <<end, place, ses>> /\ k \notin used[u]
    BY <1>5 DEF StartBonus, Quiet
  <2>2. [kind |-> k, user |-> u, end |-> end[u]] \in Loaded /\ "bonus" \in TaskPlaces
    BY <1>0 DEF Loaded, Kinds, TaskPlaces
  <2>3. /\ op'[p] = [kind |-> k, user |-> u, end |-> end[u]]
        /\ \A q \in Tasks \ {p} : pc'[q] = pc[q] /\ op'[q] = op[q]
    BY <1>0, <1>5, <2>2, GotoType DEF StartBonus
  <2>4. Grows
    BY <1>0, <2>1, QuietGrows
  <2>5. op'[p].end <= Without(u, k)'
    <3>1. k \in BonusKinds
      OBVIOUS
    <3>2. end[u] <= Without(u, k)
      BY <1>0, <2>1, <3>1, EarnedParts DEF Paid
    <3>3. Without(u, k) \in Nat /\ Without(u, k)' \in Nat /\ Without(u, k)' >= Without(u, k)
      BY <1>0, <2>4, <3>1, EarnedGrows
    <3> QED BY <1>0, <2>3, <3>2, <3>3
  <2>6. ASSUME NEW q \in Tasks, pc'[q] = "bonus"
        PROVE  \/ pc[q] = "bonus" /\ op'[q] = op[q]
               \/ \A v \in Users, j \in BonusKinds :
                     op'[q].user = v /\ op'[q].kind = j => op'[q].end <= Without(v, j)'
    <3>1. CASE q = p
      <4>1. op'[q].user = u /\ op'[q].kind = k
        BY <2>3, <3>1
      <4> QED BY <2>5, <3>1, <4>1
    <3>2. CASE q # p
      BY <2>3, <2>6, <3>2
    <3> QED BY <3>1, <3>2
  <2> QED BY <1>0, <2>1, <2>4, <2>6, PaidKept
<1>6. ASSUME NEW x \in Sessions, GivesUp(x) PROVE Paid'
  <2>1. CASE x = Bouncer
    <3>1. Quiet /\ UNCHANGED <<end, pc, op>> /\ place' \notin Working
      BY <1>6, <2>1 DEF GivesUp, GiveUp, Quiet, BounceTo, Working
    <3> QED BY <1>0, <3>1, QuietGrows, PaidKept
  <2>2. CASE x \in Tasks
    <3>1. Quiet /\ UNCHANGED <<end, place, ses>> /\ Stop(x)
      BY <1>6, <2>2 DEF GivesUp, Abandon, Quiet
    <3>2. \A q \in Tasks : pc'[q] = "bonus" => pc[q] = "bonus" /\ op'[q] = op[q]
      BY <1>0, <2>2, <3>1, StopType
    <3> QED BY <1>0, <3>1, <3>2, QuietGrows, PaidKept
  <2> QED BY <2>1, <2>2 DEF Sessions
<1> QED
  BY <1>1, <1>2, <1>3, <1>4, <1>5, <1>6 DEF World, Fails

\* A payment prolongs by what it paid for.
LEMMA PayGrows ==
  ASSUME TypeOK, TypeOK', NEW u \in Users, NEW bal \in Int, Pay(u, bal), now' = now,
         used' = used, NEW from \in Nat, from <= Earned(u)
  PROVE  Grows /\ Extended(from, Period) <= Earned(u)'
<1>1. withdrawals \in [Users -> Nat] /\ now \in Nat \ {0} /\ Period \in Nat
  BY DEF TypeOK
<1>2. withdrawals'[u] = withdrawals[u] + 1 /\ \A v \in Users \ {u} : withdrawals'[v] = withdrawals[v]
  BY PayEffect
<1>3. Grows
  BY <1>1, <1>2 DEF Grows
<1>4. /\ Earned(u) \in Nat /\ Earned(u)' \in Nat /\ Earned(u) >= now
      /\ Earned(u)' >= Earned(u) + Period
  BY <1>2, <1>3, EarnedGrows
<1>5. Extended(from, Period) = from + Period \/ Extended(from, Period) = now + Period
  BY <1>1, ExtendedType
<1> QED
  BY <1>1, <1>3, <1>4, <1>5

LEMMA HandlePaid ==
  ASSUME TypedInv, TypedInv', Paid, NEW p \in Tasks, Handle(p)
  PROVE  Paid'
<1> USE DEF bounceVars
<1>0. /\ TypeOK /\ TypeOK' /\ now \in Nat \ {0} /\ end \in [Users -> Nat]
      /\ op[p] \in Loaded /\ op[p].user \in Users /\ op[p].end \in Nat
      /\ balance[op[p].user] \in Int /\ used \in [Users -> SUBSET BonusKinds]
  BY DEF TypedInv, TypeOK, Loaded
<1>1. Stop(p) /\ UNCHANGED <<place, ses>>
  BY DEF Handle, CommitPurchase, IssueBonus
<1>2. \A q \in Tasks : pc'[q] = "bonus" => pc[q] = "bonus" /\ op'[q] = op[q]
  BY <1>0, <1>1, StopType
<1> DEFINE u == op[p].user
<1>3. CASE CommitPurchase(p)
  <2>1. /\ Pay(u, balance[u]) /\ now' = now /\ used' = used
        /\ end' = [end EXCEPT ![u] = Extended(end[u], Period)]
    BY <1>3 DEF CommitPurchase
  <2>2. PICK v \in Users : v = u
    BY <1>0
  <2>3. end[v] <= Earned(v)
    BY DEF Paid
  <2>4. Grows /\ Extended(end[v], Period) <= Earned(v)'
    BY <1>0, <2>1, <2>2, <2>3, PayGrows
  <2>5. ASSUME NEW w \in Users PROVE end'[w] <= end[w] \/ end'[w] <= Earned(w)'
    BY <1>0, <2>1, <2>2, <2>4
  <2> QED BY <1>1, <1>2, <2>4, <2>5, PaidKept
<1>4. CASE IssueBonus(p)
  <2>1. PICK v \in Users, k \in BonusKinds : v = u /\ k = op[p].kind
    BY <1>0, <1>4 DEF IssueBonus, TypedInv, BonusNamed
  <2>2. /\ UNCHANGED <<now, withdrawals>> /\ pc[p] = "bonus"
        /\ used' = [used EXCEPT ![v] = @ \cup {k}]
        /\ end' = [end EXCEPT ![v] = Extended(op[p].end, BonusTime[k])]
    BY <1>4, <2>1 DEF IssueBonus
  <2>3. Grows
    BY <1>0, <2>2 DEF Grows, TypeOK
  <2>4. op[p].end <= Without(v, k)
    BY <2>1, <2>2 DEF Paid
  <2>5. /\ Without(v, k) \in Nat /\ Without(v, k)' \in Nat
        /\ Without(v, k)' >= Without(v, k) /\ Without(v, k) >= now
    BY <1>0, <2>3, EarnedGrows
  <2>6. k \in used'[v] /\ TypeOK'
    BY <1>0, <2>2
  <2>7. k \in used'[v] => Earned(v)' = Without(v, k)' + BonusTime[k]
    BY <2>6, EarnedPartsNext
  <2>8. Earned(v)' = Without(v, k)' + BonusTime[k]
    BY <2>6, <2>7
  <2>9. Extended(op[p].end, BonusTime[k]) <= Earned(v)'
    <3>1. BonusTime[k] \in Nat
      OBVIOUS
    <3>2. \/ Extended(op[p].end, BonusTime[k]) = op[p].end + BonusTime[k]
          \/ Extended(op[p].end, BonusTime[k]) = now + BonusTime[k]
      BY <1>0, <3>1, ExtendedType
    <3> QED BY <1>0, <2>4, <2>5, <2>8, <3>1, <3>2
  <2>10. ASSUME NEW w \in Users PROVE end'[w] <= end[w] \/ end'[w] <= Earned(w)'
    BY <1>0, <2>2, <2>9
  <2> QED BY <1>1, <1>2, <2>3, <2>10, PaidKept
<1> QED
  BY <1>3, <1>4 DEF Handle

LEMMA BouncePaid ==
  ASSUME TypedInv, TypedInv', Paid, Bounce
  PROVE  Paid'
<1> USE DEF userVars, ledgerVars, taskVars, BounceTo
<1>0. /\ TypeOK /\ TypeOK' /\ now \in Nat \ {0} /\ end \in [Users -> Nat]
      /\ ses \in Session /\ ses.user \in Users /\ ses.end \in Nat /\ ses.bal \in Int
  BY DEF TypedInv, TypeOK, Session
<1>1. ASSUME Quiet, UNCHANGED <<end, pc, op>>,
             place' \in Working => place \in Working /\ ses'.user = ses.user /\ ses'.end = ses.end
      PROVE  Paid'
  BY <1>0, <1>1, QuietGrows, PaidKept
<1>2. CASE Scan \/ CloseSession \/ NotExpired \/ \E u \in Users : NextCandidate(u)
  BY <1>1, <1>2 DEF Scan, CloseSession, NotExpired, NextCandidate, Quiet, Working
<1>3. CASE DoNotWarn \/ DoNotRenew \/ StartRenewal
  BY <1>1, <1>3 DEF DoNotWarn, DoNotRenew, StartRenewal, Quiet, Working
<1>4. CASE Warn \/ NotifyShortfall
  <2>1. ses' = [ses EXCEPT !.gap = TRUE]
    BY <1>4 DEF Warn, NotifyShortfall
  <2>2. ses'.user = ses.user /\ ses'.end = ses.end
    BY <1>0, <2>1 DEF Session
  <2> QED BY <1>1, <1>4, <2>2 DEF Warn, NotifyShortfall, Quiet, Working
<1>5. CASE LockCandidate
  <2>1. Quiet /\ UNCHANGED <<end, pc, op>> /\ Grows
    BY <1>0, <1>5, QuietGrows DEF LockCandidate, Quiet
  <2>2. ASSUME place' \in Working, NEW u \in Users, ses'.user = u PROVE ses'.end <= Earned(u)'
    <3>1. ses'.user = ses.user /\ ses'.end = end[ses.user]
      BY <1>0, <1>5, <2>2 DEF LockCandidate, Working
    <3>2. end[u] <= Earned(u)
      BY DEF Paid
    <3>3. Earned(u) \in Nat /\ Earned(u)' \in Nat /\ Earned(u)' >= Earned(u)
      BY <1>0, <2>1, EarnedGrows
    <3> QED BY <1>0, <2>2, <3>1, <3>2, <3>3
  <2> QED BY <1>0, <2>1, <2>2, PaidKept
<1>6. CASE Renew
  <2>1. /\ place = "referrer" /\ place' = "next" /\ Pay(ses.user, ses.bal)
        /\ UNCHANGED <<now, used, pc, op>>
        /\ end' = [end EXCEPT ![ses.user] = Extended(ses.end, Period)]
    BY <1>6 DEF Renew
  <2>2. PICK v \in Users : v = ses.user
    BY <1>0
  <2>3. ses.end <= Earned(v)
    BY <2>1, <2>2 DEF Paid, Working
  <2>4. Grows /\ Extended(ses.end, Period) <= Earned(v)'
    BY <1>0, <2>1, <2>2, <2>3, PayGrows
  <2>5. ASSUME NEW w \in Users PROVE end'[w] <= end[w] \/ end'[w] <= Earned(w)'
    BY <1>0, <2>1, <2>2, <2>4
  <2>6. place' \notin Working
    BY <2>1 DEF Working
  <2> QED BY <2>1, <2>4, <2>5, <2>6, PaidKept
<1>7. CASE Degrade
  <2>1. Quiet /\ UNCHANGED <<pc, op>> /\ place' = "next" /\ Grows
    BY <1>0, <1>7, QuietGrows DEF Degrade, Quiet
  <2>2. ASSUME NEW w \in Users PROVE end'[w] <= end[w]
    BY <1>0, <1>7 DEF Degrade, NoTime
  <2>3. place' \notin Working
    BY <2>1 DEF Working
  <2> QED BY <2>1, <2>2, <2>3, PaidKept
<1> QED
  BY <1>2, <1>3, <1>4, <1>5, <1>6, <1>7 DEF Bounce

LEMMA StepPaid ==
  ASSUME TypedInv, Paid, [Next]_vars
  PROVE  Paid'
<1>0. TypedInv'
  BY StepType, StepNamed DEF TypedInv
<1>1. CASE World
  BY <1>0, <1>1, WorldPaid
<1>2. ASSUME NEW p \in Tasks, Handle(p) PROVE Paid'
  BY <1>0, <1>2, HandlePaid
<1>3. CASE Bounce
  BY <1>0, <1>3, BouncePaid
<1>4. ASSUME NEW x \in Sessions, DeadlockDetected(x) PROVE Paid'
  <2>1. UNCHANGED <<now, withdrawals, used, end>>
    BY <1>4 DEF DeadlockDetected, GivesUp, GiveUp, Abandon, userVars, ledgerVars
  <2>2. \A q \in Tasks : pc'[q] = "bonus" => pc[q] = "bonus" /\ op'[q] = op[q]
    <3>1. CASE x = Bouncer
      BY <1>4, <3>1 DEF DeadlockDetected, GivesUp, GiveUp, taskVars
    <3>2. CASE x \in Tasks
      BY <1>4, <3>2, StopType DEF DeadlockDetected, GivesUp, Abandon, TypedInv
    <3> QED BY <3>1, <3>2 DEF Sessions
  <2>3. place' \in Working => place \in Working /\ ses' = ses
    BY <1>4 DEF DeadlockDetected, GivesUp, GiveUp, BounceTo, Working, bounceVars
  <2>4. Grows /\ TypeOK
    BY <2>1, QuietGrows DEF Quiet, TypedInv
  <2>5. \A u \in Users : end'[u] <= end[u]
    BY <2>1, <2>4 DEF TypeOK
  <2> QED BY <1>0, <2>2, <2>3, <2>4, <2>5, PaidKept
<1>5. CASE UNCHANGED vars
  <2>1. UNCHANGED <<now, withdrawals, used, end, pc, op, place, ses>>
    BY <1>5 DEF vars, userVars, ledgerVars, taskVars, bounceVars
  <2>2. Grows /\ TypeOK
    BY <2>1, QuietGrows DEF Quiet, TypedInv
  <2>3. \A u \in Users : end'[u] <= end[u]
    BY <2>1, <2>2 DEF TypeOK
  <2> QED BY <1>0, <2>1, <2>2, <2>3, PaidKept
<1> QED
  BY <1>1, <1>2, <1>3, <1>4, <1>5 DEF Next

-----------------------------------------------------------------------------
(* The theorems.                                                            *)

LEMMA InitInv == Init => IInv
<1> SUFFICES ASSUME Init PROVE IInv
  OBVIOUS
<1>1. TypeOK
  BY InitType
<1>2. BonusNamed /\ Discipline /\ Fresh /\ GapOnTrial
  BY DEF Init, BonusNamed, Discipline, Fresh, GapOnTrial, Working
<1>3. Books
  BY DEF Init, Books, BooksBalanceOffTrial
<1>4. Paid
  <2>1. ASSUME NEW u \in Users PROVE end[u] <= Earned(u)
    <3>1. end[u] = 0 /\ withdrawals[u] = 0 /\ now = 1 /\ Period * 0 = 0
      BY DEF Init, NoTime
    <3>2. BonusShare(u, "trial") \in Nat /\ BonusShare(u, "community") \in Nat
      BY DEF BonusShare, BonusKinds
    <3> QED BY <3>1, <3>2 DEF Earned
  <2> QED BY <2>1 DEF Init, Paid, Working
<1> QED
  BY <1>1, <1>2, <1>3, <1>4 DEF IInv, TypedInv

LEMMA StepInv == IInv /\ [Next]_vars => IInv'
<1> SUFFICES ASSUME IInv, [Next]_vars PROVE IInv'
  OBVIOUS
<1>1. TypedInv /\ Discipline /\ Fresh /\ GapOnTrial /\ Paid /\ Books
  BY DEF IInv
<1>2. TypedInv'
  BY <1>1, StepType, StepNamed DEF TypedInv
<1>3. Discipline' /\ Fresh' /\ GapOnTrial'
  BY <1>1, StepHeld
<1>4. Paid' /\ Books'
  BY <1>1, StepPaid, StepBooks
<1> QED
  BY <1>2, <1>3, <1>4 DEF IInv

\* What the sessions hold agrees with the rows they lock.
THEOREM SessionInvariant == Spec => []IInv
  BY InitInv, StepInv, PTL DEF Spec

\* The tables and the sessions keep their types.
THEOREM SubscriptionTyped == Spec => []TypeOK
<1>1. IInv => TypeOK
  BY DEF IInv, TypedInv
<1> QED
  BY <1>1, SessionInvariant, PTL

\* Nobody has more time than was bought, plus each bonus once, plus what an
\* administrator gave, whatever stale copies bonus and bouncer write.
THEOREM NoFreeTime == Spec => []NothingForFree
<1>1. IInv => NothingForFree
  <2> SUFFICES ASSUME IInv, NEW u \in Users
      PROVE  end[u] <= now + AdminTime + Period * withdrawals[u]
                  + (IF "trial" \in used[u] THEN BonusTime["trial"] ELSE 0)
                  + (IF "community" \in used[u] THEN BonusTime["community"] ELSE 0)
    BY DEF NothingForFree
  <2>1. end[u] <= Earned(u)
    BY DEF IInv, Paid
  <2> QED BY <2>1 DEF Earned, BonusShare
<1> QED
  BY <1>1, SessionInvariant, PTL

\* Off trial, no interleaving of bouncer, purchase and deposit loses money.
THEOREM BooksOffTrial == Spec => []BooksBalanceOffTrial
<1>1. IInv => BooksBalanceOffTrial
  BY DEF IInv, Books
<1> QED
  BY <1>1, SessionInvariant, PTL

\* Off trial, the bouncer charges only who is due and has auto-renewal on.
THEOREM ChargesAsAsked == Spec => RenewsAsAsked
<1> DEFINE Act == \A u \in Users :
          place = "referrer" /\ ses.user = u /\ withdrawals'[u] > withdrawals[u]
              /\ row[u] = Bouncer /\ trialEnd[u] = NoTime
          => auto[u] /\ end[u] <= now + RenewWindow
<1>1. IInv => Act
  <2> SUFFICES ASSUME IInv, NEW u \in Users, place = "referrer", ses.user = u,
                      trialEnd[u] = NoTime
      PROVE  auto[u] /\ end[u] <= now + RenewWindow
    OBVIOUS
  <2>1. Renewable(ses) /\ ses.at <= now
    BY DEF IInv, Discipline, Working
  <2>2. /\ ses.end \in Nat /\ ses.at \in Nat /\ now \in Nat /\ ses.gap \in BOOLEAN
    BY DEF IInv, TypedInv, TypeOK, Session
  <2>3. ~ses.gap
    BY <2>1, <2>2 DEF IInv, GapOnTrial, Renewable
  <2>4. auto[u] = ses.auto /\ end[u] = ses.end
    BY <2>3 DEF IInv, Fresh, Working
  <2> QED BY <2>1, <2>2, <2>4 DEF Renewable
<1>2. IInv => [Act]_vars
  BY <1>1
<1>3. []IInv => [][Act]_vars
  BY <1>2, PTL
<1> QED
  BY <1>3, SessionInvariant, PTL DEF RenewsAsAsked

\* What may shorten a running subscription, step by step.
LEMMA StepKeeps ==
  ASSUME IInv, Next, NEW u \in Users, end'[u] < end[u], end[u] > now
  PROVE  \/ \E t \in 0 .. AdminTime : AdminSets(u, t)
         \/ \E p \in Tasks : pc[p] = "bonus" /\ op[p].user = u /\ op[p].end # end[u]
         \/ ses.gap /\ ses.user = u /\ ses.end # end[u]
<1> USE DEF userVars
<1>0. /\ TypeOK /\ now \in Nat \ {0} /\ end \in [Users -> Nat] /\ op \in [Tasks -> Loaded]
      /\ ses.user \in Users /\ ses.end \in Nat /\ ses.at \in Nat /\ ses.gap \in BOOLEAN
  BY DEF IInv, TypedInv, TypeOK, Session
<1>1. end' # end
  BY <1>0
<1>2. ASSUME NEW v \in Users, NEW t \in 0 .. AdminTime, AdminSets(v, t) PROVE AdminSets(u, t)
  <2>1. v = u
    BY <1>0, <1>2 DEF AdminSets
  <2> QED BY <1>2, <2>1
<1>3. ASSUME NEW p \in Tasks, CommitPurchase(p) PROVE FALSE
  <2>1. Extended(end[u], Period) \in Nat /\ Extended(end[u], Period) >= end[u] + Period
    BY <1>0, ExtendedType
  <2>2. end' = [end EXCEPT ![op[p].user] = Extended(end[op[p].user], Period)]
    BY <1>3 DEF CommitPurchase
  <2>3. op[p].user = u
    BY <1>0, <2>2
  <2>4. end'[u] = Extended(end[u], Period)
    BY <1>0, <2>2, <2>3
  <2> QED BY <1>0, <2>1, <2>4
<1>4. ASSUME NEW p \in Tasks, IssueBonus(p)
      PROVE  pc[p] = "bonus" /\ op[p].user = u /\ op[p].end # end[u]
  <2>1. /\ pc[p] = "bonus" /\ op[p].kind \in BonusKinds /\ op[p].end \in Nat
        /\ end' = [end EXCEPT ![op[p].user] = Extended(op[p].end, BonusTime[op[p].kind])]
    BY <1>0, <1>4 DEF IssueBonus, IInv, TypedInv, BonusNamed, Loaded
  <2>2. op[p].user = u
    BY <1>0, <2>1
  <2>3. BonusTime[op[p].kind] \in Nat
    BY <2>1
  <2>4. /\ Extended(op[p].end, BonusTime[op[p].kind]) \in Nat
        /\ Extended(op[p].end, BonusTime[op[p].kind]) >= op[p].end + BonusTime[op[p].kind]
    BY <1>0, <2>1, <2>3, ExtendedType
  <2>5. end'[u] = Extended(op[p].end, BonusTime[op[p].kind])
    BY <1>0, <2>1, <2>2
  <2>6. op[p].end # end[u]
    BY <1>0, <2>1, <2>3, <2>4, <2>5
  <2> QED BY <2>1, <2>2, <2>6
<1>5. CASE Renew
  <2>1. place = "referrer" /\ end' = [end EXCEPT ![ses.user] = Extended(ses.end, Period)]
    BY <1>5 DEF Renew
  <2>2. ses.user = u
    BY <1>0, <2>1
  <2>3. /\ Extended(ses.end, Period) \in Nat /\ Extended(ses.end, Period) >= ses.end + Period
        /\ end'[u] = Extended(ses.end, Period)
    BY <1>0, <2>1, <2>2, ExtendedType
  <2>4. ses.end # end[u]
    BY <1>0, <2>3
  <2>5. ses.gap
    BY <1>0, <2>1, <2>2, <2>4 DEF IInv, Fresh, Working
  <2> QED BY <2>2, <2>4, <2>5
<1>6. CASE Degrade
  <2>1. /\ place = "expire" /\ ses.end <= ses.at
        /\ end' = [end EXCEPT ![ses.user] = NoTime]
    BY <1>6 DEF Degrade
  <2>2. ses.user = u
    BY <1>0, <2>1
  <2>3. ses.at <= now
    BY <2>1 DEF IInv, Discipline, Working
  <2>4. ses.end # end[u]
    BY <1>0, <2>1, <2>3
  <2>5. ses.gap
    BY <1>0, <2>1, <2>2, <2>4 DEF IInv, Fresh, Working
  <2> QED BY <2>2, <2>4, <2>5
<1>7. ASSUME NEW x \in Sessions, GivesUp(x) PROVE FALSE
  BY <1>1, <1>7 DEF GivesUp, GiveUp, Abandon
<1>8. CASE World
  <2>1. ~Tick
    BY <1>1 DEF Tick
  <2>2. \A v \in Users : ~(Deposit(v) \/ ToggleAutoRenewal(v))
    BY <1>1 DEF Deposit, ToggleAutoRenewal
  <2>3. \A p \in Tasks, v \in Users : ~StartPurchase(p, v)
    BY <1>1 DEF StartPurchase
  <2>4. \A p \in Tasks, v \in Users, k \in Offered : ~StartBonus(p, v, k)
    BY <1>1 DEF StartBonus
  <2>5. \A x \in Sessions : ~Fails(x)
    BY <1>7 DEF Fails
  <2>6. \E v \in Users, t \in 0 .. AdminTime : AdminSets(v, t)
    BY <1>8, <2>1, <2>2, <2>3, <2>4, <2>5, Zenon DEF World
  <2> QED BY <1>2, <2>6
<1>9. CASE Bounce /\ ~Renew /\ ~Degrade
  BY <1>1, <1>9 DEF Bounce, Scan, CloseSession, NextCandidate, LockCandidate, Warn,
     DoNotWarn, StartRenewal, NotifyShortfall, DoNotRenew, NotExpired
<1>10. CASE \E p \in Tasks : Handle(p)
  BY <1>3, <1>4, <1>10 DEF Handle
<1>11. CASE \E x \in Sessions : DeadlockDetected(x)
  BY <1>7, <1>11 DEF DeadlockDetected
<1> QED
  BY <1>5, <1>6, <1>8, <1>9, <1>10, <1>11 DEF Next

\* A running subscription is shortened by an administrator, or by a session
\* that writes over what it has not seen, and by nothing else.
THEOREM TimeKept == Spec => TimeIsKept
<1> DEFINE Act == \A u \in Users : end'[u] < end[u] /\ end[u] > now =>
          \/ \E t \in 0 .. AdminTime : AdminSets(u, t)
          \/ \E p \in Tasks : pc[p] = "bonus" /\ op[p].user = u /\ op[p].end # end[u]
          \/ ses.gap /\ ses.user = u /\ ses.end # end[u]
<1>1. IInv /\ [Next]_vars => [Act]_vars
  BY StepKeeps
<1>2. []IInv /\ [][Next]_vars => [][Act]_vars
  BY <1>1, PTL
<1> QED
  BY <1>2, SessionInvariant, PTL DEF TimeIsKept, Spec
=============================================================================
