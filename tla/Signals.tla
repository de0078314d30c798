------------------------------ MODULE Signals ------------------------------
(***************************************************************************)
(* The path of a liquidation signal of one symbol and side: the analyzer   *)
(* of the brain process publishes it to the raw stream, the chart worker   *)
(* (artist) republishes it to the ready stream, the messenger filters it   *)
(* per user and sends it.                                                  *)
(*                                                                         *)
(* The analyzer runs one task per liquidation event, all interleaving at   *)
(* their Redis calls.  The artist and the messenger are one process each   *)
(* (docker-compose.yml gives them a container_name, so they cannot be      *)
(* scaled) and treat a batch entry by entry; each may die at any step and  *)
(* comes back under its old consumer name or a new one (HOSTNAME of a      *)
(* recreated container).  What an artist draws is in ChartWorker, what     *)
(* the users' thresholds accept in TriggerRules.                           *)
(***************************************************************************)
EXTENDS Integers, Sequences, FiniteSets, RedisStream

CONSTANTS
  Events,      \* liquidation events, each at most one signal
  Targets,     \* the users in the messenger's cache, signals enabled
  Vip,         \* those of them with a subscription (no gate, chart)
  Sums,        \* the five-minute sums events can report
  Names,       \* consumer names a worker can have
  MaxLen,      \* REDIS_STREAM_MAXLEN
  Count,       \* entries per read
  MaxFaults    \* bound: crashes and failed calls in a behaviour

ASSUME SignalsAssumption ==
  /\ Vip \subseteq Targets /\ IsFiniteSet(Targets)
  /\ Sums \subseteq Nat \ {0} /\ Names # {}
  /\ MaxLen \in Nat \ {0} /\ Count \in Nat \ {0} /\ MaxFaults \in Nat

VARIABLES
  raw, ready,  \* the two streams
  task,        \* task[e]: where the analyzer's task of event e is
  sum,         \* sum[e]: the five-minute sum its metrics gave
  brain,       \* csl:brain:history of the symbol: {} or one entry
  art,         \* the artist process
  msg,         \* the messenger process
  seen,        \* seen[t]: csl:msg:history of target t: {} or one entry
  sent,        \* history: the alerts attempted for each target, in order
  handled,     \* history: events some messenger finished processing
  forgot,      \* history: targets whose key failed to be read or set
  faults,      \* how many faults so far
  cut          \* history: the messenger died between its steps

sigVars == <<raw, ready, task, sum, brain, art, msg, seen, sent, handled,
             forgot, faults, cut>>

TargetSeq == CHOOSE q \in [1 .. Cardinality(Targets) -> Targets] :
               \A i, j \in DOMAIN q : q[i] = q[j] => i = j

Fresh(n) == [name |-> n, pc |-> "fetch", batch |-> <<>>, todo |-> <<>>, prep |-> {}]

SignalsInit ==
  /\ raw = EmptyStream /\ ready = EmptyStream
  /\ task = [e \in Events |-> "read"] /\ sum \in [Events -> Sums]
  /\ brain = {} /\ seen = [t \in Targets |-> {}]
  /\ \E n \in Names : art = Fresh(n) /\ msg = Fresh(n)
  /\ sent = [t \in Targets |-> <<>>] /\ handled = {} /\ forgot = {}
  /\ faults = 0 /\ cut = FALSE

Fault == faults < MaxFaults /\ faults' = faults + 1

\* is_signal_spammy against a history key, ALERT_GROWTH_PERCENTAGE = 1.50:
\* suppressed within the cooldown OR while the sum has not grown enough.
Grown(now, last) == 2 * now >= 3 * last
\* Mutation: either condition lifts the suppression.
SpammyBoth(history, now) == \E h \in history : h.hot /\ ~Grown(now, h.sum)

Spammy(history, now) == \E h \in history : h.hot \/ ~Grown(now, h.sum)

---------------------------------------------------------------------------
(* The analyzer: process_liquidation_item after its metrics. *)

\* The history key is awaited; a failed read counts as no history.
ReadBrain(e) ==
  /\ task[e] = "read"
  /\ \E ok \in BOOLEAN :
       /\ IF ok THEN UNCHANGED faults ELSE Fault
       /\ task' = [task EXCEPT ![e] = IF ok /\ Spammy(brain, sum[e])
                                      THEN "done" ELSE "publish"]
  /\ UNCHANGED <<raw, ready, sum, brain, art, msg, seen, sent, handled, forgot, cut>>

PublishRaw(e) ==
  /\ task[e] = "publish"
  /\ \/ /\ \E c \in AddCuts(raw, MaxLen) : raw' = Add(raw, e, c)
        /\ task' = [task EXCEPT ![e] = "remember"]
        /\ UNCHANGED faults
     \/ /\ Fault /\ task' = [task EXCEPT ![e] = "done"]
        /\ UNCHANGED raw
  /\ UNCHANGED <<ready, sum, brain, art, msg, seen, sent, handled, forgot, cut>>

RememberBrain(e) ==
  /\ task[e] = "remember"
  /\ \/ brain' = {[sum |-> sum[e], hot |-> TRUE]} /\ UNCHANGED faults
     \/ Fault /\ UNCHANGED brain
  /\ task' = [task EXCEPT ![e] = "done"]
  /\ UNCHANGED <<raw, ready, sum, art, msg, seen, sent, handled, forgot, cut>>

---------------------------------------------------------------------------
(* The artist: run and _process_signal. *)

\* The rest of the batch after its head was treated or raised.
Rest(w) == [w EXCEPT !.batch = Tail(@), !.todo = <<>>, !.prep = {},
                     !.pc = IF Len(w.batch) > 1 THEN "head" ELSE "fetch"]

Took(w, batch) == [w EXCEPT !.batch = batch,
                            !.pc = IF batch = <<>> THEN "fetch" ELSE "head"]

ArtistFetch ==
  /\ art.pc = "fetch" /\ Readable(raw, art.name)
  /\ \/ /\ \E r \in {ReadGroup(raw, art.name, Count)} :
             raw' = r.stream /\ (\E q \in Ordered(r.got) : art' = Took(art, q))
        /\ UNCHANGED faults
     \/ /\ raw' \in FailedReads(raw, art.name, Count)
        /\ Fault /\ UNCHANGED art
  /\ UNCHANGED <<ready, task, sum, brain, msg, seen, sent, handled, forgot, cut>>

\* Mutation: the raw entry is acknowledged first.
ForwardAcked ==
  /\ art.pc = "head" /\ raw' = Ack(raw, Head(art.batch))
  /\ \/ /\ \E c \in AddCuts(ready, MaxLen) :
             ready' = Add(ready, raw.body[Head(art.batch)], c)
        /\ art' = [art EXCEPT !.pc = "ack"]
        /\ UNCHANGED faults
     \/ /\ Fault /\ art' = Rest(art)
        /\ UNCHANGED ready
  /\ UNCHANGED <<task, sum, brain, msg, seen, sent, handled, forgot, cut>>

\* The chart is resolved and the signal republished; a failed XADD, like any
\* exception, leaves the raw entry pending.
ArtistForward ==
  /\ art.pc = "head"
  /\ \/ /\ \E c \in AddCuts(ready, MaxLen) :
             ready' = Add(ready, raw.body[Head(art.batch)], c)
        /\ art' = [art EXCEPT !.pc = "ack"]
        /\ UNCHANGED faults
     \/ /\ Fault /\ art' = Rest(art)
        /\ UNCHANGED ready
  /\ UNCHANGED <<raw, task, sum, brain, msg, seen, sent, handled, forgot, cut>>

\* A failed XACK is swallowed: the entry stays pending and is read again.
ArtistAck ==
  /\ art.pc = "ack"
  /\ \/ raw' = Ack(raw, Head(art.batch)) /\ UNCHANGED faults
     \/ Fault /\ UNCHANGED raw
  /\ art' = Rest(art)
  /\ UNCHANGED <<ready, task, sum, brain, msg, seen, sent, handled, forgot, cut>>

ArtistCrash ==
  /\ art.pc # "down" /\ Fault
  /\ art' = [Fresh(art.name) EXCEPT !.pc = "down"]
  /\ UNCHANGED <<raw, ready, task, sum, brain, msg, seen, sent, handled, forgot, cut>>

ArtistStart ==
  /\ art.pc = "down"
  /\ \E n \in Names : art' = Fresh(n)
  /\ UNCHANGED <<raw, ready, task, sum, brain, msg, seen, sent, handled, forgot,
                 faults, cut>>

---------------------------------------------------------------------------
(* The messenger: run, _process_signal and _check_triggers_from_dto. *)

Now == ready.body[Head(msg.batch)]      \* the event being processed

MessengerFetch ==
  /\ msg.pc = "fetch" /\ Readable(ready, msg.name)
  /\ \/ /\ \E r \in {ReadGroup(ready, msg.name, Count)} :
             ready' = r.stream /\ (\E q \in Ordered(r.got) : msg' = Took(msg, q))
        /\ UNCHANGED faults
     \/ /\ ready' \in FailedReads(ready, msg.name, Count)
        /\ Fault /\ UNCHANGED msg
  /\ UNCHANGED <<raw, task, sum, brain, art, seen, sent, handled, forgot, cut>>

\* The media is resolved and the targets are snapshot; an exception before
\* the targets are looked at leaves the entry pending.
MessengerBegin ==
  /\ msg.pc = "head"
  /\ \/ msg' = [msg EXCEPT !.pc = "filter", !.todo = TargetSeq] /\ UNCHANGED faults
     \/ Fault /\ msg' = Rest(msg)
  /\ UNCHANGED <<raw, ready, task, sum, brain, art, seen, sent, handled, forgot, cut>>

\* The next target's history is read; a failed read counts as no history.
ReadSeen ==
  /\ msg.pc = "filter" /\ msg.todo # <<>>
  /\ \E ok \in BOOLEAN :
       /\ IF ok THEN UNCHANGED <<faults, forgot>>
                ELSE Fault /\ forgot' = forgot \cup {Head(msg.todo)}
       /\ msg' = IF ok /\ Spammy(seen[Head(msg.todo)], sum[Now])
                 THEN [msg EXCEPT !.todo = Tail(@)]
                 ELSE [msg EXCEPT !.pc = "remember"]
  /\ UNCHANGED <<raw, ready, task, sum, brain, art, seen, sent, handled, cut>>

\* The history is written before anything is sent; a free user's alert is
\* then kept only if the channel gate admits him.
RememberSeen ==
  /\ msg.pc = "remember"
  /\ LET t == Head(msg.todo)
     IN  /\ \/ /\ seen' = [seen EXCEPT ![t] = {[sum |-> sum[Now], hot |-> TRUE, of |-> Now]}]
               /\ UNCHANGED <<faults, forgot>>
            \/ /\ Fault /\ forgot' = forgot \cup {t}
               /\ UNCHANGED seen
         /\ \E admitted \in (IF t \in Vip THEN {TRUE} ELSE BOOLEAN) :
              msg' = [msg EXCEPT !.pc = "filter", !.todo = Tail(@),
                                 !.prep = IF admitted THEN @ \cup {t} ELSE @]
  /\ UNCHANGED <<raw, ready, task, sum, brain, art, sent, handled, cut>>

\* The prepared alerts are sent concurrently, in no order; a send that fails
\* or that the user's blocking refuses is swallowed, so it is attempted once.
Dispatch(t) ==
  /\ msg.pc = "filter" /\ msg.todo = <<>> /\ t \in msg.prep
  /\ sent' = [sent EXCEPT ![t] = Append(@, Now)]
  /\ msg' = [msg EXCEPT !.prep = @ \ {t}]
  /\ UNCHANGED <<raw, ready, task, sum, brain, art, seen, handled, forgot, faults, cut>>

\* Mutation: the signal is over when the last target was looked at.
AckUnsent ==
  /\ msg.pc = "filter" /\ msg.todo = <<>>
  /\ handled' = handled \cup {Now} /\ ready' = Ack(ready, Head(msg.batch)) /\ msg' = Rest(msg)
  /\ UNCHANGED <<raw, task, sum, brain, art, seen, sent, forgot, faults, cut>>

MessengerAck ==
  /\ msg.pc = "filter" /\ msg.todo = <<>> /\ msg.prep = {}
  /\ handled' = handled \cup {Now}
  /\ \/ ready' = Ack(ready, Head(msg.batch)) /\ UNCHANGED faults
     \/ Fault /\ UNCHANGED ready
  /\ msg' = Rest(msg)
  /\ UNCHANGED <<raw, task, sum, brain, art, seen, sent, forgot, cut>>

MessengerCrash ==
  /\ msg.pc # "down" /\ Fault
  /\ msg' = [Fresh(msg.name) EXCEPT !.pc = "down"] /\ cut' = TRUE
  /\ UNCHANGED <<raw, ready, task, sum, brain, art, seen, sent, handled, forgot>>

MessengerStart ==
  /\ msg.pc = "down"
  /\ \E n \in Names : msg' = Fresh(n)
  /\ UNCHANGED <<raw, ready, task, sum, brain, art, seen, sent, handled, forgot,
                 faults, cut>>

---------------------------------------------------------------------------
(* Time: GLOBAL_COOLDOWN_SEC passes, the brain's key ends its 3600 s, an   *)
(* entry ages.                                                             *)

Cool(history) == {[h EXCEPT !.hot = FALSE] : h \in history}

BrainCools ==      \* (of interest while a task has yet to read the key)
  /\ brain # {} /\ \E e \in Events : task[e] = "read"
  /\ brain' \in {Cool(brain)} \cup (IF Cool(brain) = brain THEN {{}} ELSE {})
  /\ UNCHANGED <<raw, ready, task, sum, art, msg, seen, sent, handled, forgot, faults, cut>>

SeenCools(t) ==    \* (losing his key is like failing to read it: forgot)
  /\ seen[t] # Cool(seen[t]) /\ seen' = [seen EXCEPT ![t] = Cool(@)]
  /\ UNCHANGED <<raw, ready, task, sum, brain, art, msg, sent, handled, forgot, faults, cut>>

\* Only entries of another name are worth ageing: a process reads its own
\* again whether they are idle or not.
Ages ==
  /\ \/ /\ \E i \in Pending(raw) : raw.pel[i] # art.name /\ raw' = Age(raw, i)
        /\ UNCHANGED ready
     \/ /\ \E i \in Pending(ready) : ready.pel[i] # msg.name /\ ready' = Age(ready, i)
        /\ UNCHANGED raw
  /\ UNCHANGED <<task, sum, brain, art, msg, seen, sent, handled, forgot, faults, cut>>

\* Both loops poll and find nothing (sleep, then read again).
EmptyPoll ==
  /\ art.pc = "fetch" /\ ~Readable(raw, art.name)
  /\ msg.pc = "fetch" /\ ~Readable(ready, msg.name)
  /\ UNCHANGED sigVars

---------------------------------------------------------------------------
Analyzer  == \E e \in Events : ReadBrain(e) \/ PublishRaw(e) \/ RememberBrain(e)
Artist    == ArtistFetch \/ ArtistForward \/ ArtistAck \/ ArtistStart
Messenger == \/ MessengerFetch \/ MessengerBegin \/ ReadSeen \/ RememberSeen
             \/ \E t \in Targets : Dispatch(t)
             \/ MessengerAck \/ MessengerStart
Clock     == EmptyPoll \/ BrainCools \/ (\E t \in Targets : SeenCools(t)) \/ Ages

SignalsNext == Analyzer \/ Artist \/ Messenger \/ ArtistCrash \/ MessengerCrash \/ Clock

\* The two processes keep running (restart: always, loops without an end)
\* and an unacknowledged entry grows old: as long as one of them can move,
\* something does.  Nothing is assumed of faults except their bound, nor of
\* the analyzer, cooldowns and expiries.
SignalsFairness == WF_sigVars(Artist \/ Messenger \/ Ages)

SignalsSpec == SignalsInit /\ [][SignalsNext]_sigVars /\ SignalsFairness

---------------------------------------------------------------------------
\* The anti-spam promise to one user: as long as his history key was neither
\* lost (nor expired), each alert sent to him reports a sum at least half as
\* large again as every earlier one.  In particular no signal reaches him
\* twice, whatever the analyzer tasks that pass the brain's check together,
\* the ready entries an artist's crash duplicates and the messenger's redeliveries.
AlertsEscalate ==
  \A t \in Targets \ forgot : \A i, j \in DOMAIN sent[t] :
     i < j => Grown(sum[sent[t][j]], sum[sent[t][i]])

\* A subscriber's history key stands for an alert that was sent to him or is
\* about to be, unless the messenger died in between: without a crash no
\* alert is suppressed on account of one that never went out.
HistoryBacked ==
  \A t \in Vip : \A h \in seen[t] :
     \/ cut
     \/ \E i \in DOMAIN sent[t] : sent[t][i] = h.of
     \/ msg.pc \in {"filter", "remember"} /\ t \in msg.prep /\ Now = h.of

---------------------------------------------------------------------------
\* The refinement: the stage of a signal, read off the two streams.
Stage ==
  [e \in Events |->
     IF e \in handled THEN "handled"
     ELSE IF Reachable(raw, e) \/ Reachable(ready, e) THEN "queued"
     ELSE IF Trimmed(raw, e) \/ Trimmed(ready, e) THEN "trimmed"
     ELSE IF \E i \in DOMAIN raw.body : raw.body[i] = e THEN "vanished"
     ELSE "none"]

Feed == INSTANCE SignalFeed WITH stage <- Stage

\* A published signal stays queued in one of the streams until a messenger
\* has gone through its targets, through crashes of either process, failed
\* acknowledgements and entries claimed under a new name; the streams' length
\* bound is the only other way out, and none is queued for ever.
ImplementsFeed == Feed!FeedSpec
=============================================================================
