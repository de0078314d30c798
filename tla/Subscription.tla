---------------------------- MODULE Subscription ----------------------------
(***************************************************************************)
(* Who may change users.subscription_end: the bouncer, which warns, renews  *)
(* and degrades (services/workers/bouncer.py), the purchase from the        *)
(* balance (database/crud/billing_service.py), the trial and community      *)
(* bonuses (bot/handlers/commands.py, onboarding.py) and the administrator. *)
(* Deposits are single steps here; Billing says how they come about.        *)
(*                                                                          *)
(* The bouncer walks over all its candidates in one database session: the   *)
(* row of a candidate stays locked until some later candidate commits.  As  *)
(* in Billing, locking a row again does not refresh the loaded object.      *)
(***************************************************************************)
EXTENDS Integers

CONSTANTS
    Users,          \* rows of table users
    Tasks,          \* asyncio tasks that run a handler, one session each
    Bouncer,        \* the task bouncer_worker
    None,           \* nobody
    Referrer,       \* User.referrer_id
    Price,          \* SUB_MONTHLY_PRICE, and the price of the one tariff
    Reward,         \* the referral bonus of one purchase
    Period,         \* time one purchase adds
    Offered,        \* kinds of bonus the configuration offers
    BonusTime,      \* time each kind of bonus adds
    AdminTime,      \* most time an administrator grants
    RenewWindow,    \* AUTO_RENEWAL_WINDOW_MINUTES
    TrialWarning,   \* remaining times at which a trial user is warned
    PaidWarning,    \* remaining times at which a paying user is warned
    ScanWindow,     \* EXPIRY_WARNING_24H_MAX_HOURS
    Cooldown,       \* AUTO_RENEWAL_COOLDOWN_HOURS
    MaxTime,        \* bound: the clock stops here
    MaxMoney,       \* bound: deposits one user makes
    MaxFailures     \* bound: database and network errors

BonusKinds == {"trial", "community"}
NoTime     == 0             \* a NULL timestamp; the clock starts at 1

ASSUME SubscriptionAssumption ==
    /\ Users # {}
    /\ None \notin Users \cup Tasks \cup {Bouncer}
    /\ Bouncer \notin Tasks
    /\ Referrer \in [Users -> Users \cup {None}]
    /\ \A u \in Users : Referrer[u] # u
    /\ Price \in Nat \ {0} /\ Reward \in Nat
    /\ Period \in Nat \ {0} /\ AdminTime \in Nat
    /\ Offered \subseteq BonusKinds
    /\ BonusTime \in [BonusKinds -> Nat \ {0}]
    /\ RenewWindow \in Nat /\ ScanWindow \in Nat /\ Cooldown \in Nat
    /\ TrialWarning \subseteq Nat /\ PaidWarning \subseteq Nat
    /\ \A left \in PaidWarning : left > RenewWindow
    /\ MaxTime \in Nat /\ MaxMoney \in Nat /\ MaxFailures \in Nat

VARIABLES
    now,            \* the clock
    \* table users
    end,            \* subscription_end
    balance,        \* balance
    auto,           \* auto_renewal
    used,           \* is_trial_used and is_community_bonus_used, as a set
    warnedAt,       \* last_expiry_warning_at
    attemptAt,      \* last_renewal_attempt
    \* table transactions, by what is asked of it
    ledger,         \* sum of a user's rows
    deposited,      \* sum of a user's DEPOSIT rows
    withdrawals,    \* number of a user's WITHDRAW rows
    bonuses,        \* number of a user's BONUS rows of each kind
    trialEnd,       \* when the trial of the latest trial row ends
    \* sessions
    row,            \* holder of the row lock on a user
    pc, op,         \* the handlers: where they wait, what they loaded
    place, todo, ses, \* the bouncer: where it waits, candidates, what it loaded
    failures

userVars   == <<end, balance, auto, used, warnedAt, attemptAt>>
ledgerVars == <<ledger, deposited, withdrawals, bonuses, trialEnd>>
taskVars   == <<pc, op>>
bounceVars == <<place, todo, ses>>
vars == <<now, userVars, ledgerVars, row, taskVars, bounceVars, failures>>

-----------------------------------------------------------------------------
Kinds      == {"none", "buy"} \cup BonusKinds
TaskPlaces == {"idle", "bonus", "referrer"}
Places     == {"sleep", "next", "lock", "warn", "renew", "referrer", "expire"}

Loaded == [kind : Kinds, user : Users, end : Nat]
NoOp   == [kind |-> "none", user |-> CHOOSE u \in Users : TRUE, end |-> NoTime]

\* gap: the session committed after it loaded the candidate, so the row was
\* free for a while.
Session == [user : Users, at : Nat, end : Nat, bal : Int, auto : BOOLEAN, gap : BOOLEAN]
NoSession == [user |-> CHOOSE u \in Users : TRUE, at |-> NoTime, end |-> NoTime,
              bal |-> 0, auto |-> FALSE, gap |-> FALSE]

TypeOK ==
    /\ now \in Nat \ {0}
    /\ end \in [Users -> Nat]
    /\ balance \in [Users -> Int]
    /\ auto \in [Users -> BOOLEAN]
    /\ used \in [Users -> SUBSET BonusKinds]
    /\ warnedAt \in [Users -> Nat]
    /\ attemptAt \in [Users -> Nat]
    /\ ledger \in [Users -> Int]
    /\ deposited \in [Users -> Nat]
    /\ withdrawals \in [Users -> Nat]
    /\ bonuses \in [Users -> [BonusKinds -> Nat]]
    /\ trialEnd \in [Users -> Nat]
    /\ row \in [Users -> Tasks \cup {Bouncer, None}]
    /\ pc \in [Tasks -> TaskPlaces]
    /\ op \in [Tasks -> Loaded]
    /\ place \in Places
    /\ todo \subseteq Users
    /\ ses \in Session
    /\ failures \in Nat

Init ==
    /\ now = 1
    /\ end       = [u \in Users |-> NoTime]
    /\ balance   = [u \in Users |-> 0]
    /\ auto      = [u \in Users |-> TRUE]
    /\ used      = [u \in Users |-> {}]
    /\ warnedAt  = [u \in Users |-> NoTime]
    /\ attemptAt = [u \in Users |-> NoTime]
    /\ ledger    = [u \in Users |-> 0]
    /\ deposited = [u \in Users |-> 0]
    /\ withdrawals = [u \in Users |-> 0]
    /\ bonuses   = [u \in Users |-> [k \in BonusKinds |-> 0]]
    /\ trialEnd  = [u \in Users |-> NoTime]
    /\ row       = [u \in Users |-> None]
    /\ pc        = [p \in Tasks |-> "idle"]
    /\ op        = [p \in Tasks |-> NoOp]
    /\ place = "sleep" /\ todo = {} /\ ses = NoSession
    /\ failures  = 0

-----------------------------------------------------------------------------
(* Helpers.                                                                 *)

Later(a, b) == IF a >= b THEN a ELSE b

\* Mutation: the wrong way.
Shortened(from, time) == Later(from, now) - time

\* A running subscription is prolonged, an expired or missing one restarts.
Extended(from, time) == Later(from, now) + time

Unlock(p) == row' = [u \in Users |-> IF row[u] = p THEN None ELSE row[u]]
Free(p, u) == row[u] \in {None, p}

Sponsors(u) == IF Reward > 0 THEN {Referrer[u]} \ {None} ELSE {}

\* u pays bal - Price from a balance read as bal; the sponsor's row is fresh.
Pay(u, bal) ==
    /\ balance' = [v \in Users |-> IF v = u THEN bal - Price
                                   ELSE IF v \in Sponsors(u) THEN balance[v] + Reward
                                   ELSE balance[v]]
    /\ ledger' = [v \in Users |-> IF v = u THEN ledger[v] - Price
                                  ELSE IF v \in Sponsors(u) THEN ledger[v] + Reward
                                  ELSE ledger[v]]
    /\ withdrawals' = [withdrawals EXCEPT ![u] = @ + 1]

-----------------------------------------------------------------------------
(* The world.                                                               *)

Tick ==
    /\ now < MaxTime
    /\ now' = now + 1
    /\ UNCHANGED <<userVars, ledgerVars, row, taskVars, bounceVars, failures>>

Deposit(u) ==
    /\ row[u] = None
    /\ deposited[u] + Price <= MaxMoney
    /\ balance'   = [balance EXCEPT ![u] = @ + Price]
    /\ ledger'    = [ledger EXCEPT ![u] = @ + Price]
    /\ deposited' = [deposited EXCEPT ![u] = @ + Price]
    /\ UNCHANGED <<now, end, auto, used, warnedAt, attemptAt, withdrawals, bonuses,
                   trialEnd, row, taskVars, bounceVars, failures>>

\* The switch in the wallet.
ToggleAutoRenewal(u) ==
    /\ row[u] = None
    /\ auto' = [auto EXCEPT ![u] = ~@]
    /\ UNCHANGED <<now, end, balance, used, warnedAt, attemptAt, ledgerVars, row,
                   taskVars, bounceVars, failures>>

\* update_user_subscription: some days from now, or none at all.
AdminSets(u, t) ==
    /\ row[u] = None
    /\ end' = [end EXCEPT ![u] = IF t = 0 THEN NoTime ELSE now + t]
    /\ UNCHANGED <<now, balance, auto, used, warnedAt, attemptAt, ledgerVars, row,
                   taskVars, bounceVars, failures>>

-----------------------------------------------------------------------------
(* Handlers.                                                                *)

Goto(p, where, o) == pc' = [pc EXCEPT ![p] = where] /\ op' = [op EXCEPT ![p] = o]

Stop(p) == Goto(p, "idle", NoOp) /\ Unlock(p)

\* The purchase loads the buyer with the locking SELECT itself.
StartPurchase(p, u) ==
    /\ pc[p] = "idle"
    /\ row[u] = None
    /\ balance[u] >= Price
    /\ row' = [row EXCEPT ![u] = p]
    /\ Goto(p, "referrer", [NoOp EXCEPT !.kind = "buy", !.user = u])
    /\ UNCHANGED <<now, userVars, ledgerVars, bounceVars, failures>>

\* The referrer's row is locked while the buyer's is; then all is written.
CommitPurchase(p) ==
    LET u == op[p].user IN
    /\ pc[p] = "referrer"
    /\ \A v \in Sponsors(u) : Free(p, v)
    /\ Pay(u, balance[u])
    /\ end' = [end EXCEPT ![u] = Extended(@, Period)]
    /\ Stop(p)
    /\ UNCHANGED <<now, auto, used, warnedAt, attemptAt, deposited, bonuses, trialEnd,
                   bounceVars, failures>>

\* A bonus button loads the user without a lock and looks at the flag.
StartBonus(p, u, k) ==
    /\ pc[p] = "idle"
    /\ k \notin used[u]
    /\ Goto(p, "bonus", [kind |-> k, user |-> u, end |-> end[u]])
    /\ UNCHANGED <<now, userVars, ledgerVars, row, bounceVars, failures>>

\* Mutation: the bonus prolongs what the table holds now.
BonusOnFreshEnd(p) ==
    LET o == op[p]  k == o.kind IN
    /\ pc[p] = "bonus"
    /\ row[o.user] = None
    /\ used' = [used EXCEPT ![o.user] = @ \cup {k}]
    /\ end'  = [end EXCEPT ![o.user] = Extended(@, BonusTime[k])]
    /\ bonuses' = [bonuses EXCEPT ![o.user][k] = @ + 1]
    /\ trialEnd' = [trialEnd EXCEPT ![o.user] =
                       IF k = "trial" THEN now + BonusTime[k] ELSE @]
    /\ Stop(p)
    /\ UNCHANGED <<now, balance, auto, warnedAt, attemptAt, ledger, deposited,
                   withdrawals, bounceVars, failures>>

\* Then it locks the row and looks at the flag again, which is the flag of
\* the object it already holds, as is the end it prolongs.
IssueBonus(p) ==
    LET o == op[p]  k == o.kind IN
    /\ pc[p] = "bonus"
    /\ row[o.user] = None
    /\ used' = [used EXCEPT ![o.user] = @ \cup {k}]
    /\ end'  = [end EXCEPT ![o.user] = Extended(o.end, BonusTime[k])]
    /\ bonuses' = [bonuses EXCEPT ![o.user][k] = @ + 1]
    /\ trialEnd' = [trialEnd EXCEPT ![o.user] =
                       IF k = "trial" THEN now + BonusTime[k] ELSE @]
    /\ Stop(p)
    /\ UNCHANGED <<now, balance, auto, warnedAt, attemptAt, ledger, deposited,
                   withdrawals, bounceVars, failures>>

\* The session ends without a commit.
Abandon(p) ==
    /\ pc[p] # "idle"
    /\ Stop(p)
    /\ UNCHANGED <<now, userVars, ledgerVars, bounceVars>>

-----------------------------------------------------------------------------
(* The bouncer.                                                             *)

BounceTo(where, s) == place' = where /\ ses' = s

Scan ==
    /\ place = "sleep"
    /\ todo' = {u \in Users : end[u] # NoTime /\ end[u] <= now + ScanWindow}
    /\ BounceTo("next", NoSession)
    /\ UNCHANGED <<now, userVars, ledgerVars, row, taskVars, failures>>

NextCandidate(u) ==
    /\ place = "next"
    /\ u \in todo
    /\ todo' = todo \ {u}
    /\ BounceTo("lock", [NoSession EXCEPT !.user = u])
    /\ UNCHANGED <<now, userVars, ledgerVars, row, taskVars, failures>>

\* The candidate's row is locked, and stays so if there is nothing to do.
LockCandidate ==
    LET u == ses.user IN
    /\ place = "lock"
    /\ Free(Bouncer, u)
    /\ row' = [row EXCEPT ![u] = Bouncer]
    /\ IF end[u] = NoTime
       THEN BounceTo("next", NoSession)
       ELSE BounceTo("warn", [user |-> u, at |-> now, end |-> end[u],
                              bal |-> balance[u], auto |-> auto[u], gap |-> FALSE])
    /\ UNCHANGED <<now, userVars, ledgerVars, taskVars, todo, failures>>

\* Mutation: the session outlives the round, and its locks with it.
KeepSession ==
    /\ place = "next"
    /\ todo = {}
    /\ BounceTo("sleep", NoSession)
    /\ UNCHANGED <<now, userVars, ledgerVars, row, taskVars, todo, failures>>

\* Closing the session rolls back and frees every row.
CloseSession ==
    /\ place = "next"
    /\ todo = {}
    /\ Unlock(Bouncer)
    /\ BounceTo("sleep", NoSession)
    /\ UNCHANGED <<now, userVars, ledgerVars, taskVars, todo, failures>>

\* has_active_trial_bonus: the loaded end is the end of the latest trial.
OnTrial(s) ==
    /\ "trial" \in used[s.user]
    /\ trialEnd[s.user] # NoTime
    /\ trialEnd[s.user] = s.end

WarningTimes(s) == IF OnTrial(s) THEN TrialWarning ELSE PaidWarning

\* In the window, and not warned since the window opened.
WarningIsDue(s) ==
    /\ s.end - s.at \in WarningTimes(s)
    /\ \/ warnedAt[s.user] = NoTime
       \/ \A left \in WarningTimes(s) : warnedAt[s.user] < s.end - left

\* The commit after a warning frees every row; the loaded user stays as it is.
Warn ==
    /\ place = "warn"
    /\ WarningIsDue(ses)
    /\ warnedAt' = [warnedAt EXCEPT ![ses.user] = ses.at]
    /\ Unlock(Bouncer)
    /\ BounceTo("renew", [ses EXCEPT !.gap = TRUE])
    /\ UNCHANGED <<now, end, balance, auto, used, attemptAt, ledgerVars, taskVars,
                   todo, failures>>

\* Nothing to say, or Telegram did not deliver it.
DoNotWarn ==
    /\ place = "warn"
    /\ BounceTo("renew", ses)
    /\ UNCHANGED <<now, userVars, ledgerVars, row, taskVars, todo, failures>>

\* Mutation: the user's switch is not looked at.
RenewableUnasked(s) == 0 <= s.end - s.at /\ s.end - s.at <= RenewWindow

Renewable(s) == 0 <= s.end - s.at /\ s.end - s.at <= RenewWindow /\ s.auto

\* The user can pay: the row is locked once more, which refreshes nothing.
StartRenewal ==
    /\ place = "renew"
    /\ Renewable(ses)
    /\ ses.bal >= Price
    /\ Free(Bouncer, ses.user)
    /\ row' = [row EXCEPT ![ses.user] = Bouncer]
    /\ BounceTo("referrer", ses)
    /\ UNCHANGED <<now, userVars, ledgerVars, taskVars, todo, failures>>

\* Mutation: the withdrawal is recorded without its amount.
RenewUnrecorded ==
    LET u == ses.user IN
    /\ place = "referrer"
    /\ \A v \in Sponsors(u) : Free(Bouncer, v)
    /\ balance' = [balance EXCEPT ![u] = ses.bal - Price]
    /\ withdrawals' = [withdrawals EXCEPT ![u] = @ + 1]
    /\ end' = [end EXCEPT ![u] = Extended(ses.end, Period)]
    /\ Unlock(Bouncer)
    /\ BounceTo("next", NoSession)
    /\ UNCHANGED <<now, auto, used, warnedAt, attemptAt, ledger, deposited, bonuses, trialEnd,
                   taskVars, todo, failures>>

Renew ==
    LET u == ses.user IN
    /\ place = "referrer"
    /\ \A v \in Sponsors(u) : Free(Bouncer, v)
    /\ Pay(u, ses.bal)
    /\ end' = [end EXCEPT ![u] = Extended(ses.end, Period)]
    /\ attemptAt' = [attemptAt EXCEPT ![u] = NoTime]
    /\ warnedAt'  = [warnedAt EXCEPT ![u] = NoTime]
    /\ Unlock(Bouncer)
    /\ BounceTo("next", NoSession)
    /\ UNCHANGED <<now, auto, used, deposited, bonuses, trialEnd, taskVars, todo, failures>>

\* The user cannot pay and is told so, at most once per cooldown.
NotifyShortfall ==
    LET u == ses.user IN
    /\ place = "renew"
    /\ Renewable(ses)
    /\ ses.bal < Price
    /\ attemptAt[u] = NoTime \/ ses.at - attemptAt[u] >= Cooldown
    /\ attemptAt' = [attemptAt EXCEPT ![u] = ses.at]
    /\ Unlock(Bouncer)
    /\ BounceTo("expire", [ses EXCEPT !.gap = TRUE])
    /\ UNCHANGED <<now, end, balance, auto, used, warnedAt, ledgerVars, taskVars,
                   todo, failures>>

\* Not wanted, not yet, or told before (or not delivered).
DoNotRenew ==
    /\ place = "renew"
    /\ ~Renewable(ses) \/ ses.bal < Price
    /\ BounceTo("expire", ses)
    /\ UNCHANGED <<now, userVars, ledgerVars, row, taskVars, todo, failures>>

NotExpired ==
    /\ place = "expire"
    /\ ses.end > ses.at
    /\ BounceTo("next", NoSession)
    /\ UNCHANGED <<now, userVars, ledgerVars, row, taskVars, todo, failures>>

\* Mutations: an expiry that is near counts; a renewal that failed is waited for.
DegradeEarly ==
    LET u == ses.user IN
    /\ place = "expire"
    /\ ses.end <= ses.at + RenewWindow
    /\ Free(Bouncer, u)
    /\ end' = [end EXCEPT ![u] = NoTime]
    /\ warnedAt' = [warnedAt EXCEPT ![u] = NoTime]
    /\ Unlock(Bouncer)
    /\ BounceTo("next", NoSession)
    /\ UNCHANGED <<now, balance, auto, used, attemptAt, ledgerVars, taskVars, todo, failures>>
DegradeUnlessAuto ==
    LET u == ses.user IN
    /\ place = "expire"
    /\ ses.end <= ses.at
    /\ Free(Bouncer, u)
    /\ end' = IF ses.auto THEN end ELSE [end EXCEPT ![u] = NoTime]
    /\ warnedAt' = [warnedAt EXCEPT ![u] = NoTime]
    /\ Unlock(Bouncer)
    /\ BounceTo("next", NoSession)
    /\ UNCHANGED <<now, balance, auto, used, attemptAt, ledgerVars, taskVars, todo, failures>>

\* degrade_user_to_free_tier, which commits.
Degrade ==
    LET u == ses.user IN
    /\ place = "expire"
    /\ ses.end <= ses.at
    /\ Free(Bouncer, u)
    /\ end' = [end EXCEPT ![u] = NoTime]
    /\ warnedAt' = [warnedAt EXCEPT ![u] = NoTime]
    /\ Unlock(Bouncer)
    /\ BounceTo("next", NoSession)
    /\ UNCHANGED <<now, balance, auto, used, attemptAt, ledgerVars, taskVars, todo, failures>>

\* One failure ends the round for everybody: the rollback expires the loaded
\* user, and the error handler's own user.id cannot be loaded again.
GiveUp ==
    /\ place # "sleep"
    /\ todo' = {}
    /\ Unlock(Bouncer)
    /\ BounceTo("sleep", NoSession)
    /\ UNCHANGED <<now, userVars, ledgerVars, taskVars>>

-----------------------------------------------------------------------------
(* Failures.  PostgreSQL, too, fails a session: one of a cycle of sessions   *)
(* that wait for each other's rows.                                         *)

Sessions == Tasks \cup {Bouncer}

\* The rows without which a session cannot go on.
Needs(x) ==
    IF x # Bouncer
    THEN IF pc[x] = "bonus" THEN {op[x].user}
         ELSE IF pc[x] = "referrer" THEN Sponsors(op[x].user) ELSE {}
    ELSE IF place = "referrer" THEN Sponsors(ses.user)
         ELSE IF \/ place = "lock"
                 \/ place = "renew" /\ Renewable(ses) /\ ses.bal >= Price
                 \/ place = "expire" /\ ses.end <= ses.at
         THEN {ses.user} ELSE {}

WaitsFor(x, y) == x # y /\ \E u \in Needs(x) : row[u] = y

InCycle(x) ==
    \E S \in SUBSET Sessions :
        /\ x \in S
        /\ \A y \in S : (\E z \in S : WaitsFor(y, z)) /\ (\E z \in S : WaitsFor(z, y))

GivesUp(x) == IF x = Bouncer THEN GiveUp ELSE Abandon(x) /\ UNCHANGED bounceVars

DeadlockDetected(x) == InCycle(x) /\ GivesUp(x) /\ UNCHANGED failures

Fails(x) ==
    /\ failures < MaxFailures
    /\ failures' = failures + 1
    /\ GivesUp(x)

-----------------------------------------------------------------------------
World ==
    \/ Tick
    \/ \E u \in Users : Deposit(u) \/ ToggleAutoRenewal(u)
    \/ \E u \in Users, t \in 0 .. AdminTime : AdminSets(u, t)
    \/ \E p \in Tasks, u \in Users : StartPurchase(p, u)
    \/ \E p \in Tasks, u \in Users, k \in Offered : StartBonus(p, u, k)
    \/ \E x \in Sessions : Fails(x)

Handle(p) == CommitPurchase(p) \/ IssueBonus(p)

Bounce ==
    \/ Scan \/ CloseSession
    \/ \E u \in Users : NextCandidate(u)
    \/ LockCandidate
    \/ Warn \/ DoNotWarn
    \/ StartRenewal \/ Renew \/ NotifyShortfall \/ DoNotRenew
    \/ NotExpired \/ Degrade

Next ==
    \/ World
    \/ \E p \in Tasks : Handle(p)
    \/ Bounce
    \/ \E x \in Sessions : DeadlockDetected(x)

Spec == Init /\ [][Next]_vars

\* asyncio runs every task that can go on; PostgreSQL queues the sessions that
\* wait for a row, so one that waits is served although others take the row
\* again and again; its deadlock detector runs on a timer.  The world owes
\* nothing.
Fairness ==
    /\ SF_vars(Bounce)
    /\ \A p \in Tasks : SF_vars(Handle(p))
    /\ WF_vars(\E x \in Sessions : DeadlockDetected(x))

FairSpec == Spec /\ Fairness

-----------------------------------------------------------------------------
(* Properties.                                                              *)

\* What a user may have at most: the time bought and every bonus once (or
\* what an administrator gave).  Two presses of a bonus button, each with its
\* own stale copy of the user, must not add up.
NothingForFree ==
    \A u \in Users :
        end[u] <= now + AdminTime + Period * withdrawals[u]
                  + (IF "trial" \in used[u] THEN BonusTime["trial"] ELSE 0)
                  + (IF "community" \in used[u] THEN BonusTime["community"] ELSE 0)

\* Nothing but an administrator takes time from a running subscription,
\* except a session that writes over a change it has not seen: a bonus, or
\* the bouncer after the gap between a commit and the next lock.
TimeIsKept ==
    [][\A u \in Users : end'[u] < end[u] /\ end[u] > now =>
          \/ \E t \in 0 .. AdminTime : AdminSets(u, t)
          \/ \E p \in Tasks : pc[p] = "bonus" /\ op[p].user = u /\ op[p].end # end[u]
          \/ ses.gap /\ ses.user = u /\ ses.end # end[u]]_vars

\* The balance of a user who never had a trial is the sum of the user's
\* transactions: only a trial's warning falls into the renewal window.
BooksBalanceOffTrial == \A u \in Users : trialEnd[u] = NoTime => balance[u] = ledger[u]

\* The bouncer charges only a user whose row still says what was loaded, off
\* trial: within the window, and with auto-renewal on.
RenewsAsAsked ==
    [][\A u \in Users :
          place = "referrer" /\ ses.user = u /\ withdrawals'[u] > withdrawals[u]
              /\ row[u] = Bouncer /\ trialEnd[u] = NoTime
          => auto[u] /\ end[u] <= now + RenewWindow]_vars

\* An expired subscription ends: degraded or prolonged.
ExpiredIsSettled ==
    \A u \in Users : end[u] # NoTime /\ end[u] <= now ~> end[u] = NoTime \/ end[u] > now

\* Every handler gets its rows in the end, or fails: the rows the bouncer
\* keeps while it walks on are given back, and cycles are broken.
HandlersReturn == \A p \in Tasks : pc[p] # "idle" ~> pc[p] = "idle"

\* adjust_user_balance, database/crud/billing_service.py: "atomically changes
\* the balance and creates the Transaction".
BooksBalance == \A u \in Users : balance[u] = ledger[u]

\* apply_community_bonus, database/crud/billing_service.py: "once per user".
BonusOnce == \A u \in Users : bonuses[u]["community"] <= 1
=============================================================================
