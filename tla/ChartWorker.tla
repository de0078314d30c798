---------------------------- MODULE ChartWorker ----------------------------
(***************************************************************************)
(* The artist's decision to draw a chart and its upload to the log         *)
(* channel: a token bucket whose last tokens are kept for the gravest      *)
(* alerts, a mute after Telegram's RetryAfter, and the chart of a symbol   *)
(* cached in Redis for a while.  Signals come one at a time (the loop of   *)
(* the worker is sequential), so the per-symbol locks are never contended  *)
(* and are left out.  Only signals that ask for a chart and are younger    *)
(* than CHART_SIGNAL_MAX_AGE_SEC come here; the others pass without one.   *)
(***************************************************************************)
EXTENDS Integers, FiniteSets

CONSTANTS
  Symbols,
  Unit,        \* a token, in refill steps: one Tick refills 1 / Unit of a token
  Capacity,    \* CHART_BUCKET_CAPACITY, in tokens
  Priority,    \* CHART_PRIORITY_THRESHOLD: below it only priority signals draw
  Critical,    \* CHART_CRITICAL_THRESHOLD: below it only cascades draw
  Ttl,         \* CHART_CACHE_TTL_SEC, in ticks
  Floods,      \* retry_after values, in ticks
  MaxSlips     \* bound: failed calls and crashes

ASSUME ChartAssumption ==
  /\ Symbols # {}
  /\ Unit \in Nat \ {0} /\ Capacity \in Nat /\ Priority \in Nat /\ Critical \in Nat
  /\ 1 <= Critical /\ Critical <= Priority /\ Priority <= Capacity
  /\ Ttl \in Nat \ {0} /\ Floods \subseteq Nat /\ MaxSlips \in Nat

VARIABLES
  tokens,      \* _tokens, in refill steps
  mute,        \* ticks until _mute_until
  chart,       \* chart[s]: ticks the cache key of s still lives, 0 without one
  job,         \* the signal being drawn: its symbol, grade and stage
  slips,       \* how many faults so far
  cascades,    \* history: draws granted since the last one to a lesser signal
               \* (counted up to Critical)
  drained,     \* history: a flood emptied the bucket, not yet back above Critical
  since,       \* since[s]: ticks since the last upload for s, at most Ttl
  unsaved      \* history: symbols whose last upload was not recorded

chtVars == <<tokens, mute, chart, job, slips, cascades, drained, since, unsaved>>

Grades == {"cascade", "priority", "plain"}    \* CASCADE; SQUEEZE or a large sum; others
NoJob == [stage |-> "idle", sym |-> CHOOSE s \in Symbols : TRUE, grade |-> "plain"]

ChartInit ==
  /\ tokens = Capacity * Unit /\ mute = 0 /\ job = NoJob /\ slips = 0
  /\ chart = [s \in Symbols |-> 0] /\ since = [s \in Symbols |-> Ttl]
  /\ cascades = 0 /\ drained = FALSE /\ unsaved = {}

Slip == slips < MaxSlips /\ slips' = slips + 1

\* Mutation: below the critical level priority signals still draw.
MayDrawPriority(grade) ==
  /\ mute = 0 /\ tokens >= Unit
  /\ tokens < Priority * Unit => grade \in {"cascade", "priority"}

\* _should_consume_token, the bucket already refilled.
MayDraw(grade) ==
  /\ mute = 0
  /\ tokens >= Unit
  /\ tokens < Critical * Unit => grade = "cascade"
  /\ tokens < Priority * Unit => grade \in {"cascade", "priority"}

\* A signal refused a token goes on without a chart.
Consider(s, grade) ==
  /\ job.stage = "idle" /\ MayDraw(grade)
  /\ tokens' = tokens - Unit
  /\ cascades' = IF grade = "cascade" THEN (IF cascades < Critical THEN cascades + 1 ELSE cascades)
               ELSE 0
  /\ job' = [stage |-> "lookup", sym |-> s, grade |-> grade]
  /\ UNCHANGED <<mute, chart, slips, drained, since, unsaved>>

\* The cache is read (twice, the second time under the symbol's lock); a
\* failed read is a miss.
Lookup ==
  /\ job.stage = "lookup"
  /\ \/ chart[job.sym] > 0 /\ job' = NoJob /\ UNCHANGED slips
     \/ chart[job.sym] = 0 /\ job' = [job EXCEPT !.stage = "send"] /\ UNCHANGED slips
     \/ Slip /\ job' = [job EXCEPT !.stage = "send"]
  /\ unsaved' = IF slips' # slips THEN unsaved \cup {job.sym} ELSE unsaved
  /\ UNCHANGED <<tokens, mute, chart, cascades, drained, since>>

\* Too few candles, or the renderer gives nothing.
NoPicture ==
  /\ job.stage = "send" /\ job' = NoJob
  /\ UNCHANGED <<tokens, mute, chart, slips, cascades, drained, since, unsaved>>

\* _harvest_chart_message_id
Upload ==
  /\ job.stage = "send"
  /\ since' = [since EXCEPT ![job.sym] = 0] /\ unsaved' = unsaved \ {job.sym}
  /\ job' = [job EXCEPT !.stage = "save"]
  /\ UNCHANGED <<tokens, mute, chart, slips, cascades, drained>>

Flood(r) ==
  /\ job.stage = "send"
  /\ tokens' = 0 /\ mute' = r + 2 /\ drained' = TRUE /\ job' = NoJob
  /\ UNCHANGED <<chart, slips, cascades, since, unsaved>>

\* Mutation: the key lives one tick less than the pictures' promised life.
SaveShort ==
  /\ job.stage = "save" /\ job' = NoJob
  /\ chart' = [chart EXCEPT ![job.sym] = Ttl - 1]
  /\ UNCHANGED <<tokens, mute, slips, cascades, drained, since, unsaved>>

\* The cache key is set; a failed SET is swallowed.
Save ==
  /\ job.stage = "save" /\ job' = NoJob
  /\ \/ /\ chart' = [chart EXCEPT ![job.sym] = Ttl] /\ UNCHANGED <<slips, unsaved>>
     \/ /\ Slip /\ unsaved' = unsaved \cup {job.sym} /\ UNCHANGED chart
  /\ UNCHANGED <<tokens, mute, cascades, drained, since>>

\* The bucket and the mute are the process's: a restart forgets both.
ChartCrash ==
  /\ Slip /\ tokens' = Capacity * Unit /\ mute' = 0 /\ job' = NoJob
  /\ cascades' = 0 /\ drained' = FALSE
  /\ unsaved' = IF job.stage = "save" THEN unsaved \cup {job.sym} ELSE unsaved
  /\ UNCHANGED <<chart, since>>

Down(x) == IF x = 0 THEN 0 ELSE x - 1

\* Time: _refill_tokens, the mute, the cache keys' TTL.
Tick ==
  /\ tokens' = IF tokens < Capacity * Unit THEN tokens + 1 ELSE tokens
  /\ mute' = Down(mute) /\ chart' = [s \in Symbols |-> Down(chart[s])]
  /\ since' = [s \in Symbols |-> IF since[s] < Ttl THEN since[s] + 1 ELSE Ttl]
  /\ drained' = (drained /\ tokens' < Critical * Unit)
  /\ cascades' = IF tokens' >= Critical * Unit THEN 0 ELSE cascades
  /\ UNCHANGED <<job, slips, unsaved>>

ChartNext ==
  \/ \E s \in Symbols, g \in Grades : Consider(s, g)
  \/ Lookup \/ NoPicture \/ Upload \/ (\E r \in Floods : Flood(r)) \/ Save
  \/ ChartCrash \/ Tick

ChartSpec == ChartInit /\ [][ChartNext]_chtVars

\* The reserve: an empty bucket refuses a cascade only after a flood, or when
\* the last tokens all went to cascades, whatever lesser signals came before.
ReserveForCascades ==
  tokens < Unit => drained \/ cascades >= Critical - 1

\* The chart of a symbol is uploaded at most once within the cache's life,
\* unless the previous upload's key was lost to a failed call or a crash.
DrawnOncePerTtl ==
  [][\A s \in Symbols : since[s] < Ttl /\ job.stage = "send" /\ job'.stage = "save"
                          /\ job.sym = s => s \in unsaved]_chtVars
=============================================================================
