---------------------------- MODULE TriggerRules ----------------------------
(***************************************************************************)
(* Which signals are raised and for whom.  The brain filters a liquidation *)
(* with the lowest thresholds of its cached users, publishes one signal    *)
(* with one alert type and one decision to draw a chart; the messenger     *)
(* then evaluates the same signal against each user's own settings.        *)
(* Pure rules: a state is one signal and one population, and nothing moves.*)
(*                                                                         *)
(* A threshold is given as the set of the values that would do: {} for     *)
(* float("inf"), and the least of the set is the threshold.                *)
(***************************************************************************)
EXTENDS Integers, FiniteSets

CONSTANTS
  Amounts,       \* the USD sums of a signal
  Thresholds,    \* the USD thresholds users choose
  MinFilter,     \* MIN_LIQ_VALUE_FILTER
  ChartVolume,   \* CHART_MIN_VOLUME_USD
  Multiplier     \* VOLUME_MULTIPLIER

ASSUME TriggerAssumption ==
  /\ Amounts \subseteq Nat /\ Thresholds \subseteq Nat
  /\ MinFilter \in Nat /\ ChartVolume \in Nat /\ Multiplier \in Nat \ {0}

AlertTypes == {"CASCADE", "OI_PUMP", "SQUEEZE", "VOLUME"}
Filters == {"side", "rsi"}      \* LONG or SHORT only; an RSI outside a band only

VARIABLES
  sig,        \* the signal: its sums, cascade count reached, OI and market cap
  people      \* the brain's and the messenger's cached users

rulVars == <<sig, people>>

Signal == [five : Amounts, hour : Amounts, cascade : Amounts,
           counted : BOOLEAN,        \* cascade_count >= CASCADE_TRIGGER_COUNT
           oi : SUBSET {"brain", "user"},     \* whose open-interest thresholds it reaches
           priced : BOOLEAN,         \* a market capitalisation is known (not is_fallback)
           meets : SUBSET Filters,   \* the users' filters it is within
           capped : SUBSET {"five", "hour", "cascade"}]  \* the sums above the percent thresholds

User == [vol : Thresholds, cas : Thresholds, mode : {"USD", "PERCENT"},
         on : BOOLEAN, types : SUBSET AlertTypes, asks : SUBSET Filters]

---------------------------------------------------------------------------
(* evaluate_trigger_logic *)

Reaches(x, ts) == \E t \in ts : x >= t
Volume(s, ts)  == Reaches(s.five, ts) \/ Reaches(s.hour, {Multiplier * t : t \in ts})
Squeeze(s, ts) == Volume(s, ts) /\ 10 * s.five > 3 * s.hour    \* SQUEEZE_RATIO = 0.3

\* The types a signal qualifies for, of those enabled.
Qualifies(s, vol, cas, oi, enabled) ==
  {k \in enabled :
     \/ k = "CASCADE" /\ s.counted /\ Reaches(s.cascade, cas)
     \/ k = "OI_PUMP" /\ oi \in s.oi
     \/ k = "SQUEEZE" /\ Squeeze(s, vol)
     \/ k = "VOLUME"  /\ Volume(s, vol)}

\* Mutation: open interest first.
RankedByInterest == <<"OI_PUMP", "CASCADE", "SQUEEZE", "VOLUME">>

Ranked == <<"CASCADE", "OI_PUMP", "SQUEEZE", "VOLUME">>

\* The first qualifying type in that order, "none" when there is none.
Evaluate(s, vol, cas, oi, enabled) ==
  LET q == Qualifies(s, vol, cas, oi, enabled)
  IN  IF q = {} THEN "none"
      ELSE Ranked[CHOOSE i \in 1 .. 4 : Ranked[i] \in q /\ \A j \in 1 .. i - 1 : Ranked[j] \notin q]

---------------------------------------------------------------------------
(* The brain: _update_cache_logic's minima, process_liquidation_item. *)

Enabled(us) == {u \in us : u.on}
AtLeast(a, b) == IF a >= b THEN a ELSE b

\* _min_system_threshold and _min_system_cascade.
SystemVolume(us)  == {AtLeast(u.vol, MinFilter) : u \in Enabled(us)}
SystemCascade(us) == {u.cas : u \in Enabled(us)}

\* Mutation: the cascade ignored when the volume is low.
PrefilteredByVolume(s, us) == us = {} \/ ~Reaches(s.five, SystemVolume(us))

\* The early return, before anything but the liquidation sums is looked at.
Prefiltered(s, us) ==
  \/ us = {}
  \/ /\ ~Reaches(s.five, SystemVolume(us))
     /\ ~s.counted \/ ~Reaches(s.cascade, SystemCascade(us))

BrainType(s, us) ==
  IF Prefiltered(s, us) THEN "none"
  ELSE Evaluate(s, SystemVolume(us), SystemCascade(us), "brain", AlertTypes)

\* _should_render_chart, its market ratios left out (they only add charts).
Rendered(s, us) ==
  \/ BrainType(s, us) \in {"CASCADE", "SQUEEZE"}
  \/ s.five >= ChartVolume \/ s.hour >= Multiplier * ChartVolume

---------------------------------------------------------------------------
(* The messenger: _check_triggers_from_dto up to the history. *)

EffectiveMode(s, u) == IF s.priced THEN u.mode ELSE "USD"

\* In PERCENT mode the ratios and floors decide alone: the threshold then
\* passed on is a fraction every sum exceeds, or infinity.
OwnVolume(s, u) ==
  IF EffectiveMode(s, u) = "USD" THEN {u.vol}
  ELSE {0 : x \in s.capped \cap {"five", "hour"}}
OwnCascade(s, u) ==
  IF EffectiveMode(s, u) = "USD" THEN {u.cas} ELSE {0 : x \in s.capped \cap {"cascade"}}

\* A signal outside a filter the user has set is dropped first.
UserType(s, u) ==
  IF u.asks \subseteq s.meets
  THEN Evaluate(s, OwnVolume(s, u), OwnCascade(s, u), "user", u.types) ELSE "none"

---------------------------------------------------------------------------
RulesInit == sig \in Signal /\ people \in SUBSET User
RulesNext == UNCHANGED rulVars
RulesSpec == RulesInit /\ [][RulesNext]_rulVars

\* What makes a user's alert depend on a five-minute or cascade sum alone.
OfSums(s, u) ==
  \/ u.vol >= MinFilter /\ s.five >= u.vol /\ {"VOLUME", "SQUEEZE"} \cap u.types # {}
  \/ "CASCADE" \in u.types /\ s.counted /\ s.cascade >= u.cas

\* The brain's shared prefilter drops nothing a user asked for in dollars: a
\* signal that some enabled user's five-minute or cascade threshold accepts
\* (his floor not below the system's) is published.  It is not so for alerts
\* by the hourly sum, by open interest or in percent of the market cap, which
\* reach their user only when the dollar sums pass.
PrefilterSound ==
  \A u \in Enabled(people) :
     EffectiveMode(sig, u) = "USD" /\ OfSums(sig, u) /\ UserType(sig, u) # "none"
       => BrainType(sig, people) # "none"

\* The chart is decided before anyone's settings are seen, and yet no dollar
\* user receives a CASCADE alert, the type always drawn, without one asked for.
CascadesAreDrawn ==
  \A u \in Enabled(people) :
     EffectiveMode(sig, u) = "USD" /\ UserType(sig, u) = "CASCADE" => Rendered(sig, people)
=============================================================================
