---------------------------- MODULE Liquidations ----------------------------
(***************************************************************************)
(* The liquidations of one symbol: remembered by LiquidationAggregator     *)
(* when they arrive, saved to the table a little later, read back from it  *)
(* when the process restarts.  The sums behind every alert walk the memory *)
(* from its newest entry and stop at the first old one, so they rest on    *)
(* its order.  Time is kept as ages: Old is any age beyond the last hour.  *)
(* What a pass sums up is kept as the set of liquidations it counts: their *)
(* values, all above MIN_LIQ_VALUE_FILTER, ride along.                     *)
(***************************************************************************)
EXTENDS Integers, Sequences, FiniteSets

CONSTANTS
  MaxHandled,   \* bound: liquidations handled
  Cascade, Squeeze, Top, Hour   \* the windows, in ticks

ASSUME LiquidationsAssumption ==
  /\ MaxHandled \in Nat
  /\ {Cascade, Squeeze, Top, Hour} \subseteq Nat
  /\ Cascade <= Squeeze /\ Squeeze <= Top /\ Top <= Hour

VARIABLES
  handled,     \* how many liquidations have been handled; they are 1 .. handled
  what,        \* what[e]: its side
  memory,      \* the symbol's deque
  age,         \* age[e]: of e's stamp in memory
  stored,      \* stored[e]: age of e's row in the table, NoRow without one
  saving,      \* those whose save_liquidation has not ended
  known        \* history: what this process has loaded or handled

liqVars == <<handled, what, memory, age, stored, saving, known>>

Ids   == 1 .. MaxHandled
Sides == {"LONG", "SHORT"}
Old   == Hour + 1
NoRow == Hour + 2

LiquidationsInit ==
  /\ handled = 0 /\ what = [e \in Ids |-> "LONG"]
  /\ memory = <<>> /\ age = [e \in Ids |-> 0] /\ stored = [e \in Ids |-> NoRow]
  /\ saving = {} /\ known = {}

\* _handle_liquidation, up to its first await: add_event stamps and appends.
Handle(side) ==
  /\ handled < MaxHandled /\ handled' = handled + 1
  /\ what' = [what EXCEPT ![handled'] = side]
  /\ memory' = Append(memory, handled') /\ age' = [age EXCEPT ![handled'] = 0]
  /\ saving' = saving \cup {handled'} /\ known' = known \cup {handled'}
  /\ UNCHANGED stored

\* save_liquidation stamps the row itself; a failure is swallowed.
Save(e) ==
  /\ e \in saving /\ saving' = saving \ {e}
  /\ stored' \in {stored, [stored EXCEPT ![e] = 0]}
  /\ UNCHANGED <<handled, what, memory, age, known>>

\* cleanup_task takes old entries from the front, up to the first young one.
Cleanup ==
  /\ memory # <<>> /\ age[memory[1]] > Hour
  /\ \E n \in DOMAIN memory :
       /\ \A i \in 1 .. n : age[memory[i]] > Hour
       /\ n < Len(memory) => age[memory[n + 1]] <= Hour
       /\ memory' = SubSeq(memory, n + 1, Len(memory))
  /\ UNCHANGED <<handled, what, age, stored, saving, known>>

\* retention_worker: its horizon is beyond the hour.
Retention ==
  /\ \E e \in Ids : stored[e] = Old
  /\ stored' = [e \in Ids |-> IF stored[e] = Old THEN NoRow ELSE stored[e]]
  /\ UNCHANGED <<handled, what, memory, age, saving, known>>

Recent == {e \in Ids : stored[e] <= Hour}

\* The rows as sequences without repetition.
Readings == {q \in [1 .. Cardinality(Recent) -> Recent] :
               \A i, j \in DOMAIN q : i < j => q[i] # q[j]}

\* Mutation: the rows come newest first.
LoadedNewestFirst ==
  {q \in Readings : \A i, j \in DOMAIN q : i < j => stored[q[i]] <= stored[q[j]]}

\* get_recent_liquidations, oldest first and in any order within a tick, and
\* load_historical_data, which appends them one by one.
Loaded ==
  {q \in Readings : \A i, j \in DOMAIN q : i < j => stored[q[i]] >= stored[q[j]]}

\* The process dies and starts again; nothing is handled before the load.
Restart ==
  /\ memory' \in Loaded /\ age' = [e \in Ids |-> IF e \in Recent THEN stored[e] ELSE age[e]]
  /\ known' = Recent /\ saving' = {}
  /\ UNCHANGED <<handled, what, stored>>

Older(a) == IF a < Old THEN a + 1 ELSE a

LiqTick ==
  /\ age' = [e \in Ids |-> IF e \in known THEN Older(age[e]) ELSE age[e]]
  /\ stored' = [e \in Ids |-> Older(stored[e])]
  /\ UNCHANGED <<handled, what, memory, saving, known>>

LiquidationsNext ==
  \/ \E side \in Sides : Handle(side)
  \/ \E e \in Ids : Save(e)
  \/ Cleanup \/ Retention \/ Restart \/ LiqTick

LiquidationsSpec == LiquidationsInit /\ [][LiquidationsNext]_liqVars

-----------------------------------------------------------------------------
Side(i) == what[memory[i]]

\* The entries get_metrics visits for a side, from the end of the deque to
\* the first of that side beyond the hour.
Visited(side) ==
  {i \in DOMAIN memory : /\ Side(i) = side
                         /\ \A j \in i .. Len(memory) : Side(j) = side => age[memory[j]] <= Hour}

\* The entries get_top_liquidations visits: it stops at any old one.
VisitedForTop ==
  {i \in DOMAIN memory : \A j \in i .. Len(memory) : age[memory[j]] <= Top}

Within(S, window) == {i \in S : age[memory[i]] <= window}
Counted(S)        == {memory[i] : i \in S}
Truly(side, window) == {e \in known : what[e] = side /\ age[e] <= window}

\* The one pass over the memory counts exactly the liquidations this process
\* knows of, in every window and for each side, and none of them twice:
\* whatever was cleaned up, reloaded in the order of the table, or handled
\* while an earlier one was being saved.
MetricsExact ==
  /\ \A side \in Sides :
       /\ \A window \in {Cascade, Squeeze, Hour} :
            Counted(Within(Visited(side), window)) = Truly(side, window)
       /\ Counted({i \in VisitedForTop : Side(i) = side}) = Truly(side, Top)
  /\ \A i, j \in DOMAIN memory : memory[i] = memory[j] => i = j
=============================================================================
