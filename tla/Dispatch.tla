------------------------------ MODULE Dispatch ------------------------------
(***************************************************************************)
(* The messenger's sending of one prepared batch: send_liquidation_alert   *)
(* runs for every recipient at once under broadcaster_semaphore, and on    *)
(* Telegram's RetryAfter calls itself, inside the `async with` that holds  *)
(* its permit, up to three times.  asyncio.Semaphore serves its waiters in *)
(* the order they came.                                                    *)
(***************************************************************************)
EXTENDS Integers, Sequences, FiniteSets

CONSTANTS
  Alerts,      \* the alerts of the batch, one coroutine each
  Permits,     \* broadcaster_semaphore's value
  MaxRetry     \* retry_count beyond which an attempt is given up

ASSUME DispatchAssumption ==
  IsFiniteSet(Alerts) /\ Permits \in Nat \ {0} /\ MaxRetry \in Nat

VARIABLES
  depth,       \* depth[a]: retry_count of a's innermost call
  at,          \* at[a]: "new", "waits", "sends", "sleeps" or "done"
  free,        \* the permits left
  line         \* the semaphore's waiters

disVars == <<depth, at, free, line>>

DispatchInit ==
  /\ depth = [a \in Alerts |-> 0] /\ at = [a \in Alerts |-> "new"]
  /\ free = Permits /\ line = <<>>

\* gather starts the coroutines, which ask for their first permit in turn.
InTurn == CHOOSE q \in [1 .. Cardinality(Alerts) -> Alerts] :
            \A a \in Alerts : \E i \in DOMAIN q : q[i] = a

Gather ==
  /\ \A a \in Alerts : at[a] = "new"
  /\ at' = [a \in Alerts |-> "waits"] /\ line' = InTurn
  /\ UNCHANGED <<depth, free>>

\* A permit goes to the waiter at the head of the line.
Acquire ==
  /\ line # <<>> /\ free > 0
  /\ at' = [at EXCEPT ![Head(line)] = "sends"]
  /\ line' = Tail(line) /\ free' = free - 1
  /\ UNCHANGED depth

\* Mutation: one permit only is given back.
UnwindOne(a) ==
  /\ at' = [at EXCEPT ![a] = "done"] /\ free' = free + 1
  /\ UNCHANGED <<depth, line>>

\* Every level of a returns and gives its permit back.
Unwind(a) ==
  /\ at' = [at EXCEPT ![a] = "done"] /\ free' = free + depth[a] + 1
  /\ UNCHANGED <<depth, line>>

\* The send succeeds, or raises anything but RetryAfter, which is swallowed.
Finish(a) == at[a] = "sends" /\ Unwind(a)

Flooded(a) ==
  /\ at[a] = "sends" /\ at' = [at EXCEPT ![a] = "sleeps"]
  /\ UNCHANGED <<depth, free, line>>

\* Mutation: no limit to the retries.
AgainAlways(a) ==
  /\ at[a] = "sleeps" /\ depth' = [depth EXCEPT ![a] = @ + 1]
  /\ at' = [at EXCEPT ![a] = "waits"] /\ line' = Append(line, a)
  /\ UNCHANGED free

\* After retry_after seconds the function calls itself, its permit in hand;
\* beyond MaxRetry the nested call returns at once.
Again(a) ==
  /\ at[a] = "sleeps"
  /\ \/ depth[a] = MaxRetry /\ Unwind(a)
     \/ /\ depth[a] < MaxRetry /\ depth' = [depth EXCEPT ![a] = @ + 1]
        /\ at' = [at EXCEPT ![a] = "waits"] /\ line' = Append(line, a)
        /\ UNCHANGED free

\* The batch is over.
Dispatched == (\A a \in Alerts : at[a] = "done") /\ UNCHANGED disVars

\* The event loop resumes something as long as anything is ready: a free
\* permit's waiter, a send that returned or raised, a sleep that ended.
Running == Acquire \/ \E a \in Alerts : Finish(a) \/ Flooded(a) \/ Again(a)
DispatchNext == Gather \/ Running \/ Dispatched
DispatchFairness == WF_disVars(Running)

DispatchSpec == DispatchInit /\ [][DispatchNext]_disVars /\ DispatchFairness

\* The permits a's calls hold, one per level that has one, and those of all.
Holds(a) == IF at[a] \in {"new", "done"} THEN 0
            ELSE IF at[a] = "waits" THEN depth[a] ELSE depth[a] + 1
Held == UNION {{a} \X (1 .. Holds(a)) : a \in Alerts}

\* No permit is lost or invented, however deep the retries nest: what is free
\* and what the calls hold always add up to the semaphore's value.
PermitsKept == free >= 0 /\ free + Cardinality(Held) = Permits

\* A batch always comes back from _dispatch_batches: the semaphore that
\* docs/architecture/interface_layer.md says guarantees delivery during a
\* storm does not itself stop it.  (It does when the batch can hold every
\* permit in retries; it cannot when Permits > MaxRetry * Cardinality(Alerts).)
BatchReturns == (\E a \in Alerts : at[a] = "waits") ~> (\A a \in Alerts : at[a] = "done")
=============================================================================
