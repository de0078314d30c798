------------------------- MODULE Pipeline_proofs -------------------------
(***************************************************************************)
(* The workers of an alert, each for every value of its constants: the     *)
(* chart worker's bucket and cache, the brain's prefilter, the placeholder *)
(* of a chart in the media channel, the messenger's permits.               *)
(***************************************************************************)
EXTENDS ChartWorker, TriggerRules, MediaResolve, Dispatch,
        FiniteSetTheorems, SequenceTheorems, TLAPS

-----------------------------------------------------------------------------
(* ChartWorker: the bucket's reserve and the life of an uploaded chart.      *)

Stages == {"idle", "lookup", "send", "save"}

ChartTypeOK ==
  /\ tokens \in Nat /\ mute \in Nat /\ slips \in Nat
  /\ cascades \in Nat /\ drained \in BOOLEAN
  /\ chart \in [Symbols -> Nat] /\ since \in [Symbols -> 0 .. Ttl]
  /\ job \in [stage : Stages, sym : Symbols, grade : Grades]
  /\ unsaved \subseteq Symbols

\* The bucket and the cascades drawn since it stood at the critical level
\* make up that level, but for the token a lesser signal may have taken last.
Reserved == ~drained => tokens + cascades * Unit >= (Critical - 1) * Unit

\* An upload is remembered by the cache for as long as it is fresh, unless its
\* key is lost or about to be set.
Remembered ==
  \A s \in Symbols : \/ s \in unsaved
                     \/ job.stage = "save" /\ job.sym = s
                     \/ chart[s] + since[s] >= Ttl

\* Whoever is about to upload has found no fresh chart.
SendsStale == job.stage = "send" => job.sym \in unsaved \/ since[job.sym] = Ttl

CacheInv == Remembered /\ SendsStale

-----------------------------------------------------------------------------
\* A product with the unit is monotonic in its other factor.
LEMMA Monotonic ==
  ASSUME NEW u \in Nat \ {0}, NEW x \in Int, NEW y \in Int, x <= y
  PROVE  x * u <= y * u
  BY SMT

\* A sum is a product more.
LEMMA Distributes ==
  ASSUME NEW u \in Nat, NEW x \in Int
  PROVE  /\ (x + 1) * u = x * u + u
         /\ (x - 1) * u = x * u - u
         /\ x * u \in Int
  BY SMT

\* A larger term keeps a sum above its bound.
LEMMA MoreIsEnough ==
  ASSUME NEW x \in Int, NEW y \in Int, NEW h \in Int, NEW l \in Int, x <= y, x + h >= l
  PROVE  y + h >= l
  BY SMT

LEMMA ChartTypeInit == ASSUME ChartInit PROVE ChartTypeOK
  <1>1. NoJob \in [stage : Stages, sym : Symbols, grade : Grades]
    BY ChartAssumption DEF NoJob, Stages, Grades
  <1>2. Capacity * Unit \in Nat
    BY ChartAssumption
  <1>3. tokens \in Nat /\ mute \in Nat /\ slips \in Nat /\ cascades \in Nat /\ drained \in BOOLEAN
    BY <1>2 DEF ChartInit
  <1>4. chart \in [Symbols -> Nat] /\ since \in [Symbols -> 0 .. Ttl]
    BY ChartAssumption DEF ChartInit
  <1>5. job \in [stage : Stages, sym : Symbols, grade : Grades] /\ unsaved \subseteq Symbols
    BY <1>1 DEF ChartInit
  <1> QED BY <1>3, <1>4, <1>5 DEF ChartTypeOK

LEMMA ChartTypeStep == ASSUME ChartTypeOK, [ChartNext]_chtVars PROVE ChartTypeOK'
  <1> USE DEF ChartTypeOK
  <1>1. /\ NoJob \in [stage : Stages, sym : Symbols, grade : Grades]
        /\ Capacity * Unit \in Nat /\ Unit \in Nat \ {0} /\ Ttl \in Nat \ {0} /\ Critical \in Nat
    BY ChartAssumption DEF NoJob, Stages, Grades
  <1>2. ASSUME NEW s \in Symbols, NEW g \in Grades, Consider(s, g) PROVE ChartTypeOK'
    <2>1. tokens - Unit \in Nat
      BY <1>1, <1>2 DEF Consider, MayDraw
    <2> QED BY <1>1, <1>2, <2>1 DEF Consider, Stages
  <1>3. CASE Lookup
    <2>1. job' \in [stage : Stages, sym : Symbols, grade : Grades]
      BY <1>1, <1>3 DEF Lookup, Stages
    <2>2. slips' \in Nat /\ unsaved' \subseteq Symbols
      BY <1>1, <1>3 DEF Lookup, Slip
    <2> QED BY <1>3, <2>1, <2>2 DEF Lookup
  <1>4. CASE NoPicture
    BY <1>1, <1>4 DEF NoPicture
  <1>5. CASE Upload
    BY <1>1, <1>5 DEF Upload, Stages
  <1>6. ASSUME NEW r \in Floods, Flood(r) PROVE ChartTypeOK'
    BY <1>1, <1>6, ChartAssumption DEF Flood
  <1>7. CASE Save
    BY <1>1, <1>7 DEF Save, Slip
  <1>8. CASE ChartCrash
    <2>1. tokens' \in Nat /\ unsaved' \subseteq Symbols
      BY <1>1, <1>8 DEF ChartCrash
    <2>2. slips' \in Nat
      BY <1>8 DEF ChartCrash, Slip
    <2> QED BY <1>1, <1>8, <2>1, <2>2 DEF ChartCrash
  <1>9. CASE Tick
    <2>1. \A x \in Nat : Down(x) \in Nat
      BY DEF Down
    <2>2. chart' \in [Symbols -> Nat] /\ mute' \in Nat
      BY <1>9, <2>1 DEF Tick
    <2>3. since' \in [Symbols -> 0 .. Ttl]
      BY <1>1, <1>9 DEF Tick
    <2> QED BY <1>1, <1>9, <2>2, <2>3 DEF Tick
  <1>10. CASE UNCHANGED chtVars
    BY <1>10 DEF chtVars
  <1> QED BY <1>2, <1>3, <1>4, <1>5, <1>6, <1>7, <1>8, <1>9, <1>10 DEF ChartNext

-----------------------------------------------------------------------------
LEMMA ReservedInit == ASSUME ChartInit PROVE Reserved
  <1>1. (Critical - 1) * Unit <= Capacity * Unit
    BY Monotonic, ChartAssumption
  <1>2. 0 * Unit = 0
    BY ChartAssumption
  <1>3. (Critical - 1) * Unit \in Int /\ Capacity * Unit \in Int
    BY ChartAssumption
  <1> QED BY <1>1, <1>2, <1>3 DEF ChartInit, Reserved

LEMMA ReservedStep ==
  ASSUME ChartTypeOK, Reserved, [ChartNext]_chtVars
  PROVE  Reserved'
  <1> USE DEF ChartTypeOK
  <1> DEFINE Level == (Critical - 1) * Unit
  <1>1. /\ Unit \in Nat \ {0} /\ Critical \in Nat /\ Capacity \in Nat /\ Priority \in Nat
        /\ 1 <= Critical /\ Critical <= Priority /\ Priority <= Capacity
    BY ChartAssumption
  <1>2. /\ Level \in Int /\ Critical * Unit = Level + Unit
        /\ cascades * Unit \in Int /\ (cascades + 1) * Unit = cascades * Unit + Unit
        /\ 0 * Unit = 0
    BY <1>1, Distributes
  <1>3. Level <= Capacity * Unit /\ Capacity * Unit \in Int
    BY <1>1, Monotonic
  <1>4. ASSUME NEW s \in Symbols, NEW g \in Grades, Consider(s, g) PROVE Reserved'
    <2>1. drained' = drained /\ tokens' = tokens - Unit
      BY <1>4 DEF Consider
    <2>2. CASE g = "cascade" /\ cascades < Critical
      <3>1. cascades' = cascades + 1
        BY <1>4, <2>2 DEF Consider
      <3> QED BY <1>1, <1>2, <2>1, <3>1 DEF Reserved
    <2>3. CASE g = "cascade" /\ ~(cascades < Critical)
      <3>1. cascades' = cascades
        BY <1>4, <2>3 DEF Consider
      <3>2. Critical * Unit <= cascades * Unit
        BY <1>1, <2>3, Monotonic
      <3>3. tokens >= Unit
        BY <1>4 DEF Consider, MayDraw
      <3> QED BY <1>1, <1>2, <2>1, <3>1, <3>2, <3>3 DEF Reserved
    <2>4. CASE g # "cascade"
      <3>1. cascades' = 0
        BY <1>4, <2>4 DEF Consider
      <3>2. ~(tokens < Critical * Unit)
        BY <1>4, <2>4 DEF Consider, MayDraw
      <3> QED BY <1>1, <1>2, <2>1, <3>1, <3>2 DEF Reserved
    <2> QED BY <2>2, <2>3, <2>4
  <1>5. CASE Lookup \/ NoPicture \/ Upload \/ Save \/ UNCHANGED chtVars
    BY <1>5 DEF Lookup, NoPicture, Upload, Save, chtVars, Reserved
  <1>6. ASSUME NEW r \in Floods, Flood(r) PROVE Reserved'
    BY <1>6 DEF Flood, Reserved
  <1>7. CASE ChartCrash
    BY <1>2, <1>3, <1>7 DEF ChartCrash, Reserved
  <1>8. CASE Tick
    <2>0. Level \in Int /\ Critical * Unit = Level + Unit
      BY <1>1, <1>2
    <2>1. tokens' \in Int /\ tokens \in Int /\ tokens <= tokens'
      BY <1>8 DEF Tick
    <2>2. CASE tokens' >= Critical * Unit
      <3>1. cascades' = 0
        BY <1>8, <2>2 DEF Tick
      <3>2. cascades' * Unit = 0
        BY <1>2, <3>1
      <3> HIDE DEF Level
      <3>3. tokens' >= Level
        BY <1>1, <2>0, <2>1, <2>2
      <3> QED BY <2>0, <2>1, <3>2, <3>3 DEF Reserved, Level
    <2>3. CASE ~(tokens' >= Critical * Unit)
      <3>1. cascades' = cascades /\ (~drained' => ~drained)
        BY <1>1, <1>2, <1>8, <2>1, <2>3 DEF Tick
      <3>2. ~drained' => tokens + cascades * Unit >= (Critical - 1) * Unit
        BY <3>1 DEF Reserved
      <3>3. tokens + cascades * Unit >= (Critical - 1) * Unit
              => tokens' + cascades * Unit >= (Critical - 1) * Unit
        BY <1>2, <2>0, <2>1, MoreIsEnough, Zenon
      <3> QED BY <3>1, <3>2, <3>3 DEF Reserved
    <2> QED BY <2>2, <2>3
  <1> QED BY <1>4, <1>5, <1>6, <1>7, <1>8 DEF ChartNext

\* Below one token, all but the last of the reserve went to cascades.
LEMMA ReservedSuffices == ASSUME ChartTypeOK, Reserved PROVE ReserveForCascades
  <1> USE DEF ChartTypeOK
  <1>1. /\ Unit \in Nat \ {0} /\ Critical \in Nat
    BY ChartAssumption
  <1>2. SUFFICES ASSUME tokens < Unit, ~drained, cascades < Critical - 1
                 PROVE  FALSE
    BY <1>1 DEF ReserveForCascades
  <1>3. (cascades + 1) * Unit <= (Critical - 1) * Unit
    BY <1>1, <1>2, Monotonic
  <1>4. (cascades + 1) * Unit = cascades * Unit + Unit /\ cascades * Unit \in Int
    BY <1>1, Distributes
  <1>5. (Critical - 1) * Unit \in Int
    BY <1>1
  <1> QED BY <1>1, <1>2, <1>3, <1>4, <1>5 DEF Reserved

\* An empty bucket refuses a cascade only after a flood, or when its reserve
\* went to cascades, for every capacity, critical level and refill rate.
THEOREM CascadesHaveReserve == ChartSpec => []ReserveForCascades
  <1>1. ChartInit => ChartTypeOK /\ Reserved
    BY ChartTypeInit, ReservedInit
  <1>2. ChartTypeOK /\ Reserved /\ [ChartNext]_chtVars => (ChartTypeOK /\ Reserved)'
    BY ChartTypeStep, ReservedStep
  <1>3. ChartTypeOK /\ Reserved => ReserveForCascades
    BY ReservedSuffices
  <1> QED BY <1>1, <1>2, <1>3, PTL DEF ChartSpec

-----------------------------------------------------------------------------
LEMMA CacheInit == ASSUME ChartInit PROVE CacheInv
  BY ChartAssumption DEF ChartInit, NoJob, CacheInv, Remembered, SendsStale

LEMMA CacheStep ==
  ASSUME ChartTypeOK, CacheInv, [ChartNext]_chtVars
  PROVE  CacheInv'
  <1> USE DEF ChartTypeOK, CacheInv, Remembered, SendsStale
  <1>1. Ttl \in Nat \ {0} /\ NoJob.stage = "idle"
    BY ChartAssumption DEF NoJob
  <1>2. ASSUME NEW s \in Symbols, NEW g \in Grades, Consider(s, g) PROVE CacheInv'
    BY <1>1, <1>2 DEF Consider
  <1>3. CASE Lookup
    <2>1. chart' = chart /\ since' = since /\ unsaved \subseteq unsaved' /\ job.stage = "lookup"
      BY <1>3 DEF Lookup
    <2>2. Remembered'
      BY <2>1
    <2>3. job' # NoJob => job'.sym = job.sym /\ (chart[job.sym] = 0 \/ job.sym \in unsaved')
      BY <1>3 DEF Lookup, Slip
    <2>4. \A s \in Symbols : s \in unsaved \/ chart[s] + since[s] >= Ttl
      BY <2>1
    <2>5. SendsStale'
      BY <1>1, <2>1, <2>3, <2>4
    <2> QED BY <2>2, <2>5
  <1>4. CASE NoPicture
    BY <1>1, <1>4 DEF NoPicture
  <1>5. CASE Upload
    BY <1>1, <1>5 DEF Upload
  <1>6. ASSUME NEW r \in Floods, Flood(r) PROVE CacheInv'
    BY <1>1, <1>6 DEF Flood
  <1>7. CASE Save
    BY <1>1, <1>7 DEF Save
  <1>8. CASE ChartCrash
    BY <1>1, <1>8 DEF ChartCrash
  <1>9. CASE Tick
    <2>1. ASSUME NEW s \in Symbols, chart[s] + since[s] >= Ttl
          PROVE  chart'[s] + since'[s] >= Ttl
      BY <1>1, <1>9, <2>1 DEF Tick, Down
    <2>2. ASSUME NEW s \in Symbols, since[s] = Ttl PROVE since'[s] = Ttl
      BY <1>1, <1>9, <2>2 DEF Tick
    <2>3. job' = job /\ unsaved' = unsaved
      BY <1>9 DEF Tick
    <2> QED BY <2>1, <2>2, <2>3
  <1>10. CASE UNCHANGED chtVars
    BY <1>10 DEF chtVars
  <1> QED BY <1>2, <1>3, <1>4, <1>5, <1>6, <1>7, <1>8, <1>9, <1>10 DEF ChartNext

\* While a chart is fresh no other is uploaded for its symbol, unless its key
\* was lost, for any number of symbols and any life of the cache.
THEOREM ChartsAreReused == ChartSpec => DrawnOncePerTtl
  <1>1. ChartInit => ChartTypeOK /\ CacheInv
    BY ChartTypeInit, CacheInit
  <1>2. ChartTypeOK /\ CacheInv /\ [ChartNext]_chtVars => (ChartTypeOK /\ CacheInv)'
    BY ChartTypeStep, CacheStep
  <1>3. CacheInv /\ [ChartNext]_chtVars =>
          [\A s \in Symbols : since[s] < Ttl /\ job.stage = "send" /\ job'.stage = "save"
                                /\ job.sym = s => s \in unsaved]_chtVars
    BY ChartAssumption DEF CacheInv, SendsStale
  <1> QED BY <1>1, <1>2, <1>3, PTL DEF ChartSpec, DrawnOncePerTtl

-----------------------------------------------------------------------------
(* TriggerRules: the one decision of the brain against everyone's own. *)

\* The ranking covers all alert types, and CASCADE comes first.
LEMMA FirstQualifying ==
  ASSUME NEW s, NEW vol, NEW cas, NEW oi, NEW enabled \in SUBSET AlertTypes
  PROVE  LET q == Qualifies(s, vol, cas, oi, enabled)
             k == Evaluate(s, vol, cas, oi, enabled)
         IN  /\ k # "none" <=> q # {}
             /\ k # "none" => k \in q
             /\ k = "CASCADE" <=> "CASCADE" \in q
  <1> DEFINE q == Qualifies(s, vol, cas, oi, enabled)
             First(i) == Ranked[i] \in q /\ \A j \in 1 .. i - 1 : Ranked[j] \notin q
  <1>1. q \subseteq AlertTypes
    BY DEF Qualifies
  <1>2. /\ Ranked[1] = "CASCADE" /\ Ranked[2] = "OI_PUMP"
        /\ Ranked[3] = "SQUEEZE" /\ Ranked[4] = "VOLUME"
    BY DEF Ranked
  <1>3. CASE q = {}
    BY <1>3 DEF Evaluate
  <1>4. CASE q # {}
    <2>1. \E i \in 1 .. 4 : First(i)
      <3>1. CASE Ranked[1] \in q
        BY <3>1
      <3>2. CASE Ranked[1] \notin q /\ Ranked[2] \in q
        BY <3>2
      <3>3. CASE Ranked[1] \notin q /\ Ranked[2] \notin q /\ Ranked[3] \in q
        BY <3>3
      <3>4. CASE Ranked[1] \notin q /\ Ranked[2] \notin q /\ Ranked[3] \notin q
        <4>1. Ranked[4] \in q
          BY <1>1, <1>2, <1>4, <3>4 DEF AlertTypes
        <4> QED BY <3>4, <4>1
      <3> QED BY <3>1, <3>2, <3>3, <3>4
    <2> DEFINE n == CHOOSE i \in 1 .. 4 : First(i)
    <2>2. n \in 1 .. 4 /\ First(n)
      BY <2>1
    <2>3. Evaluate(s, vol, cas, oi, enabled) = Ranked[n]
      BY <1>4 DEF Evaluate
    <2>4. Ranked[n] \in q /\ Ranked[n] # "none"
      BY <1>1, <2>2 DEF AlertTypes
    <2>5. "CASCADE" \in q => n = 1
      <3> HIDE DEF n, q
      <3> QED BY <1>2, <2>2
    <2>6. Ranked[n] = "CASCADE" <=> "CASCADE" \in q
      BY <1>2, <2>4, <2>5
    <2> QED BY <1>4, <2>3, <2>4, <2>6
  <1> QED BY <1>3, <1>4

\* What reaches a threshold of one user reaches the lowest of the enabled ones.
LEMMA SharedThresholds ==
  ASSUME NEW us, NEW u \in Enabled(us)
  PROVE  /\ us # {}
         /\ AtLeast(u.vol, MinFilter) \in SystemVolume(us)
         /\ u.cas \in SystemCascade(us)
  BY DEF Enabled, SystemVolume, SystemCascade

\* A signal that passes the prefilter is raised, by its volume or its cascade.
LEMMA PassedIsRaised ==
  ASSUME NEW s, NEW us, ~Prefiltered(s, us)
  PROVE  BrainType(s, us) # "none"
  <1> DEFINE q == Qualifies(s, SystemVolume(us), SystemCascade(us), "brain", AlertTypes)
  <1>1. "VOLUME" \in q \/ "CASCADE" \in q
    BY DEF Prefiltered, Qualifies, AlertTypes, Volume
  <1>2. AlertTypes \in SUBSET AlertTypes
    OBVIOUS
  <1>3. Evaluate(s, SystemVolume(us), SystemCascade(us), "brain", AlertTypes) # "none"
    BY <1>1, <1>2, FirstQualifying
  <1> QED BY <1>3 DEF BrainType

\* A dollar user's cascade is the system's.
LEMMA SharedCascade ==
  ASSUME NEW s, NEW us, NEW u \in Enabled(us), s.counted, s.cascade >= u.cas
  PROVE  ~Prefiltered(s, us) /\ BrainType(s, us) = "CASCADE"
  <1>1. Reaches(s.cascade, SystemCascade(us))
    BY SharedThresholds DEF Reaches
  <1>2. ~Prefiltered(s, us)
    BY <1>1, SharedThresholds DEF Prefiltered
  <1>3. "CASCADE" \in Qualifies(s, SystemVolume(us), SystemCascade(us), "brain", AlertTypes)
    BY <1>1 DEF Qualifies, AlertTypes
  <1>4. Evaluate(s, SystemVolume(us), SystemCascade(us), "brain", AlertTypes) = "CASCADE"
    BY <1>3, FirstQualifying, AlertTypes \in SUBSET AlertTypes
  <1> QED BY <1>2, <1>4 DEF BrainType

RulesTypeOK == sig \in Signal /\ people \in SUBSET User

LEMMA PrefilterHolds == ASSUME RulesTypeOK PROVE PrefilterSound
  <1> SUFFICES ASSUME NEW u \in Enabled(people), EffectiveMode(sig, u) = "USD", OfSums(sig, u)
               PROVE  BrainType(sig, people) # "none"
    BY DEF PrefilterSound
  <1>1. CASE u.vol >= MinFilter /\ sig.five >= u.vol
    <2>1. u.vol \in Nat
      BY TriggerAssumption DEF RulesTypeOK, Enabled, User
    <2>2. AtLeast(u.vol, MinFilter) = u.vol
      BY <1>1 DEF AtLeast
    <2>3. Reaches(sig.five, SystemVolume(people))
      BY <1>1, <2>2, SharedThresholds DEF Reaches
    <2>4. ~Prefiltered(sig, people)
      BY <2>3, SharedThresholds DEF Prefiltered
    <2> QED BY <2>4, PassedIsRaised
  <1>2. CASE sig.counted /\ sig.cascade >= u.cas
    BY <1>2, SharedCascade
  <1> QED BY <1>1, <1>2 DEF OfSums

LEMMA CascadesHold == ASSUME RulesTypeOK PROVE CascadesAreDrawn
  <1> SUFFICES ASSUME NEW u \in Enabled(people),
                      EffectiveMode(sig, u) = "USD", UserType(sig, u) = "CASCADE"
               PROVE  Rendered(sig, people)
    BY DEF CascadesAreDrawn
  <1>1. u.types \in SUBSET AlertTypes
    BY DEF RulesTypeOK, Enabled, User
  <1>2. Evaluate(sig, {u.vol}, {u.cas}, "user", u.types) = "CASCADE"
    BY DEF UserType, OwnVolume, OwnCascade
  <1>3. "CASCADE" \in Qualifies(sig, {u.vol}, {u.cas}, "user", u.types)
    BY <1>1, <1>2, FirstQualifying
  <1>4. sig.counted /\ sig.cascade >= u.cas
    BY <1>3 DEF Qualifies, Reaches
  <1> QED BY <1>4, SharedCascade DEF Rendered

\* Nobody's rules move the signal or the population.
LEMMA RulesTyped == RulesSpec => []RulesTypeOK
  <1>1. RulesInit => RulesTypeOK
    BY DEF RulesInit, RulesTypeOK
  <1>2. RulesTypeOK /\ [RulesNext]_rulVars => RulesTypeOK'
    BY DEF RulesTypeOK, RulesNext, rulVars
  <1> QED BY <1>1, <1>2, PTL DEF RulesSpec

\* The prefilter shared by all users loses nobody's dollar alert, for any
\* population, thresholds and signal.
THEOREM FilterLosesNothing == RulesSpec => []PrefilterSound
  BY RulesTyped, PrefilterHolds, PTL

\* Every CASCADE alert a dollar user receives was asked a chart for.
THEOREM CascadesDrawn == RulesSpec => []CascadesAreDrawn
  BY RulesTyped, CascadesHold, PTL

-----------------------------------------------------------------------------
(* MediaResolve: one placeholder in the channel, two processes that may post *)
(* it.                                                                       *)

Steps == {"idle", "check", "lock", "poll", "again", "post", "commit", "left"}

MediaTypeOK ==
  /\ trouble \in Nat
  /\ ens \in [Procs -> [pc : Steps, orig : Int, polls : Int, found : Int]]
  /\ row \in Int /\ key \in Int /\ ram \in Int /\ last \in Nat
  /\ res \in [pc : {"idle", "cached", "lock", "forward", "restore"}, of : Int]

\* p owns the asset lock and may come to post.
Restores(p) == ens[p].pc \in {"again", "post", "commit"}

\* A restoration is under way only in the lock's owner, the messenger's only
\* while its resolve waits for it.
Excluded ==
  /\ \A p \in Procs : Restores(p) => asset = {p}
  /\ res.pc # "restore" => ens["messenger"].pc \in {"idle", "left"}

\* What the channel has is what the row names, until somebody posts: then
\* nothing, and after it the new message alone.
Named ==
  \/ log \cap Anchors \subseteq {row}
  \/ \E p \in Procs : ens[p].pc = "commit" /\ log \cap Anchors \subseteq {ens[p].found}

Cleared == \A p \in Procs : ens[p].pc = "post" => log \cap Anchors = {}
Posted  == \A p \in Procs : ens[p].pc = "commit" => log \cap Anchors \subseteq {ens[p].found}

Orderly == Excluded /\ Named /\ Cleared /\ Posted

MediaInv == MediaTypeOK /\ (trouble = 0 => Orderly)

LEMMA MediaStarts == MediaInit => MediaInv
  <1> SUFFICES ASSUME MediaInit PROVE MediaInv
    OBVIOUS
  <1>1. MediaTypeOK
    BY DEF MediaInit, MediaTypeOK, Idle, None, Steps, Procs
  <1>2. Excluded
    BY DEF MediaInit, Excluded, Restores, Idle, Procs
  <1>3. 1 \in Anchors /\ Chart \notin Anchors
    BY MediaAssumption DEF Anchors, Chart
  <1>4. log \cap Anchors \subseteq {row}
    BY <1>3 DEF MediaInit
  <1>5. Cleared /\ Posted
    BY DEF MediaInit, Cleared, Posted, Idle, Procs
  <1> QED BY <1>1, <1>2, <1>4, <1>5 DEF MediaInv, Orderly, Named

\* What the steps of ensure_placeholder do to the record of one process.
LEMMA EnsureTyped ==
    ASSUME MediaTypeOK, NEW p \in Procs, NEW pc \in Steps, NEW m \in Int
    PROVE  /\ Goes(p, pc) => ens' \in [Procs -> [pc : Steps, orig : Int, polls : Int, found : Int]]
           /\ Leaves(p, m) => ens' \in [Procs -> [pc : Steps, orig : Int, polls : Int, found : Int]]
           /\ Starts(p) \in [Procs -> [pc : Steps, orig : Int, polls : Int, found : Int]]
  BY DEF MediaTypeOK, Goes, Leaves, Starts, Idle, None, Steps

LEMMA MediaTypeKept == ASSUME MediaTypeOK, [MediaNext]_medVars PROVE MediaTypeOK'
  <1> DEFINE Ens == [Procs -> [pc : Steps, orig : Int, polls : Int, found : Int]]
  <1> DEFINE Res == [pc : {"idle", "cached", "lock", "forward", "restore"}, of : Int]
  <1> DEFINE Rest == trouble' \in Nat /\ row' \in Int /\ key' \in Int /\ last' \in Nat
  <1>1. MediaAssumption /\ None \in Int /\ Chart \in Int /\ "brain" \in Procs /\ "messenger" \in Procs
    BY MediaAssumption DEF None, Procs, Chart
  <1>2. ASSUME NEW p \in Procs, Ensuring(p) PROVE ens' \in Ens /\ Rest /\ ram' \in Int /\ res' \in Res
    <2>1. /\ ens[p] \in [pc : Steps, orig : Int, polls : Int, found : Int] /\ row \in Int /\ last \in Nat
          /\ ram' = ram /\ res' = res
      BY <1>2 DEF MediaTypeOK, Ensuring, Check, LockAsset, Poll, CheckAgain, Post, Commit
    <2>2. "lock" \in Steps /\ "poll" \in Steps /\ "again" \in Steps /\ "post" \in Steps
      BY DEF Steps
    <2>3. Rest
      BY <1>1, <1>2, <2>1 DEF MediaTypeOK, Ensuring, Check, LockAsset, Poll, CheckAgain, Post, Commit,
         Seen, Trouble, Raises, Leaves
    <2> SUFFICES ens' \in Ens
      BY <2>1, <2>3 DEF MediaTypeOK
    <2>4. CASE Check(p)
      BY <1>1, <2>1, <2>2, <2>4, EnsureTyped DEF Check
    <2>5. CASE LockAsset(p)
      BY <1>1, <2>1, <2>2, <2>5, EnsureTyped DEF LockAsset
    <2>6. CASE Poll(p)
      <3>1. ens' = [ens EXCEPT ![p].polls = @ + 1] => ens' \in Ens
        BY <2>1 DEF MediaTypeOK
      <3> QED BY <1>1, <2>1, <2>2, <2>6, <3>1, EnsureTyped DEF Poll
    <2>7. CASE CheckAgain(p)
      BY <1>1, <2>1, <2>2, <2>7, EnsureTyped DEF CheckAgain
    <2>8. CASE Post(p)
      <3> DEFINE r == [ens[p] EXCEPT !.pc = "commit", !.found = last + 1]
      <3>1. r \in [pc : Steps, orig : Int, polls : Int, found : Int]
        <4> DEFINE q == [ens[p] EXCEPT !.pc = "commit"]
        <4>1. q \in [pc : Steps, orig : Int, polls : Int, found : Int]
          BY <2>1 DEF Steps
        <4>2. r = [q EXCEPT !.found = last + 1]
          BY <2>1
        <4> HIDE DEF q, r
        <4> QED BY <2>1, <4>1, <4>2
      <3>2. ens' = [ens EXCEPT ![p] = r] => ens' \in Ens
        <4> HIDE DEF r
        <4> QED BY <3>1 DEF MediaTypeOK
      <3>3. ens' = [ens EXCEPT ![p] = r] \/ Leaves(p, None)
        BY <2>8 DEF Post, Raises
      <3> QED BY <1>1, <2>1, <3>2, <3>3, EnsureTyped DEF Steps
    <2>9. CASE Commit(p)
      BY <1>1, <2>1, <2>2, <2>9, EnsureTyped DEF Commit, Raises
    <2> QED BY <1>2, <2>4, <2>5, <2>6, <2>7, <2>8, <2>9 DEF Ensuring
  <1>3. CASE BrainStarts
    BY <1>1, <1>3, EnsureTyped DEF BrainStarts, MediaTypeOK
  <1>4. CASE BrainCrash
    BY <1>1, <1>4 DEF BrainCrash, MediaTypeOK, Trouble, Idle, Steps
  <1>5. CASE Missing
    <2>1. "idle" \in Steps
      BY DEF Steps
    <2>2. ens' \in Ens
      BY <1>1, <1>5, <2>1, EnsureTyped DEF Missing
    <2> QED BY <1>1, <1>5, <2>2 DEF Missing, MediaTypeOK
  <1>6. CASE Restored
    <2>1. ens["messenger"].found \in Int
      BY <1>1 DEF MediaTypeOK
    <2> QED BY <1>1, <1>6, <2>1 DEF Restored, Return, Enter, MediaTypeOK
  <1>7. CASE Cached \/ LockMessage \/ Resolve
    BY <1>1, <1>7 DEF Cached, LockMessage, Resolve, Return, MediaTypeOK, Trouble
  <1>8. ASSUME NEW c \in BOOLEAN, Want(c) PROVE MediaTypeOK'
    <2>1. Wanted(c) \in Int /\ Wanted(FALSE) \in Int
      BY <1>1 DEF Wanted, MediaTypeOK
    <2> QED BY <1>1, <1>8, <2>1 DEF Want, MediaTypeOK
  <1>9. CASE \/ ResolveFlooded \/ Lose \/ Forget \/ Expiring \/ ExpireAsset \/ UNCHANGED medVars
    BY <1>9 DEF ResolveFlooded, Lose, Forget, Expiring, Expire, ExpireAsset, medVars, Enter,
       MediaTypeOK, Trouble
  <1> QED BY <1>2, <1>3, <1>4, <1>5, <1>6, <1>7, <1>8, <1>9 DEF MediaNext, MediaTypeOK, Resolving

\* Nothing makes a fault undone.
LEMMA TroubleGrows ==
    ASSUME MediaTypeOK, [MediaNext]_medVars, trouble' = 0 PROVE trouble = 0
  <1>1. trouble \in Nat
    BY DEF MediaTypeOK
  <1>2. trouble' = trouble \/ trouble' = trouble + 1
    <2>1. ASSUME NEW p \in Procs, Ensuring(p) PROVE UNCHANGED trouble \/ Trouble
      BY <2>1 DEF Ensuring, Check, LockAsset, Poll, CheckAgain, Post, Commit, Seen
    <2>2. ASSUME Resolving \/ ResolveFlooded PROVE UNCHANGED trouble \/ Trouble
      BY <2>2 DEF Resolving, Cached, LockMessage, Resolve, Missing, Restored, ResolveFlooded
    <2>3. ASSUME \/ BrainStarts \/ BrainCrash \/ (\E c \in BOOLEAN : Want(c))
                 \/ Lose \/ Forget \/ Expiring \/ ExpireAsset \/ UNCHANGED medVars
          PROVE  UNCHANGED trouble \/ Trouble
      BY <2>3 DEF BrainStarts, BrainCrash, Want, Lose, Forget, Expiring, Expire, ExpireAsset, medVars
    <2> QED BY <2>1, <2>2, <2>3 DEF MediaNext, Trouble
  <1> QED BY <1>1, <1>2

\* A step that leaves p outside a restoration, the lock not taken from another.
LEMMA LeavingIsOrderly ==
    ASSUME MediaTypeOK, Orderly, NEW p \in Procs, NEW r,
           ens' = [ens EXCEPT ![p] = r], r.pc \in Steps, r.pc \notin {"again", "post", "commit"},
           p = "messenger" => res.pc = "restore" \/ r.pc \in {"idle", "left"},
           ens[p].pc # "commit", asset' = asset \/ asset' = asset \ {p},
           log' = log, row' = row, res' = res
    PROVE  Orderly'
  <1>1. \A q \in Procs : ens'[q] = IF q = p THEN r ELSE ens[q]
    BY DEF MediaTypeOK
  <1>2. Excluded'
    BY <1>1 DEF Orderly, Excluded, Restores, Procs
  <1>3. Named' /\ Cleared' /\ Posted'
    BY <1>1 DEF Orderly, Named, Cleared, Posted
  <1> QED BY <1>2, <1>3 DEF Orderly

\* A restoring process is alone, and what is left in the channel is known.
LEMMA RestorerAlone ==
    ASSUME MediaTypeOK, Orderly, NEW p \in Procs, Restores(p)
    PROVE  /\ asset = {p} /\ \A q \in Procs \ {p} : ~Restores(q)
           /\ p = "messenger" => res.pc = "restore"
           /\ ens[p].pc \in {"again", "post"} => log \cap Anchors \subseteq {row}
  BY DEF Orderly, Excluded, Named, Restores, Procs, MediaTypeOK

LEMMA EnsuringIsOrderly ==
    ASSUME MediaTypeOK, trouble = 0, Orderly, NEW p \in Procs, Ensuring(p), trouble' = 0
    PROVE  Orderly'
  <1>1. /\ ens[p] \in [pc : Steps, orig : Int, polls : Int, found : Int]
        /\ ens \in [Procs -> [pc : Steps, orig : Int, polls : Int, found : Int]]
    BY DEF MediaTypeOK
  <1>2. ens[p].pc \notin {"idle", "left"}
    BY DEF Ensuring, Check, LockAsset, Poll, CheckAgain, Post, Commit
  <1>3. p = "messenger" => res.pc = "restore"
    BY <1>2 DEF Orderly, Excluded
  <1>4. ~Trouble
    BY DEF Trouble
  <1>a. ASSUME NEW m, Leaves(p, m), ens[p].pc # "commit", asset' = asset \/ asset' = asset \ {p},
               log' = log, row' = row, res' = res
        PROVE  Orderly'
    <2> DEFINE r == [Idle(m) EXCEPT !.pc = "left"]
    <2>1. r.pc = "left" /\ ens' = [ens EXCEPT ![p] = r]
      BY <1>a DEF Idle, Leaves
    <2> HIDE DEF r
    <2> QED BY <1>a, <2>1, LeavingIsOrderly DEF Steps
  <1>b. ASSUME NEW pc \in {"lock", "poll"}, Goes(p, pc), ens[p].pc # "commit", asset' = asset,
               log' = log, row' = row, res' = res
        PROVE  Orderly'
    <2> DEFINE r == [ens[p] EXCEPT !.pc = pc]
    <2>1. r.pc = pc /\ ens' = [ens EXCEPT ![p] = r]
      BY <1>1, <1>b DEF Goes
    <2> HIDE DEF r
    <2> QED BY <1>3, <1>b, <2>1, LeavingIsOrderly DEF Steps
  <1>6. CASE Check(p)
    BY <1>6, <1>a, <1>b DEF Check
  <1>7. CASE LockAsset(p)
    <2>1. CASE asset # {}
      BY <1>7, <2>1, <1>b DEF LockAsset
    <2>2. CASE asset = {}
      <3>1. /\ asset' = {p} /\ log' = log /\ row' = row /\ res' = res
            /\ \A q \in Procs : q # p => ens'[q] = ens[q]
            /\ ens'[p].pc = "again" /\ ens[p].pc = "lock"
        BY <1>1, <1>7, <2>2 DEF LockAsset, Goes
      <3>2. \A q \in Procs : ~Restores(q)
        BY <2>2 DEF Orderly, Excluded
      <3>3. Excluded'
        BY <1>3, <3>1, <3>2 DEF Orderly, Excluded, Restores, Procs
      <3>4. Named' /\ Cleared' /\ Posted'
        BY <3>1, <3>2 DEF Orderly, Named, Cleared, Posted, Restores
      <3> QED BY <3>3, <3>4 DEF Orderly
    <2> QED BY <2>1, <2>2
  <1>8. CASE Poll(p)
    <2>1. CASE ens' = [ens EXCEPT ![p].polls = @ + 1]
      <3> DEFINE r == [ens[p] EXCEPT !.polls = @ + 1]
      <3>1. r.pc = ens[p].pc /\ ens' = [ens EXCEPT ![p] = r]
        BY <1>1, <2>1
      <3>2. ens[p].pc = "poll"
        BY <1>8 DEF Poll
      <3> HIDE DEF r
      <3> QED BY <1>3, <1>8, <3>1, <3>2, LeavingIsOrderly DEF Poll, Steps
    <2> QED BY <1>8, <1>a, <2>1 DEF Poll
  <1>9. CASE CheckAgain(p)
    <2>1. CASE \E m : Leaves(p, m)
      BY <1>9, <1>a, <2>1 DEF CheckAgain
    <2>2. CASE Seen(row, FALSE) /\ Goes(p, "post") /\ UNCHANGED <<key, asset>>
      <3>1. row \notin log /\ ens[p].pc = "again" /\ log' = log /\ row' = row /\ res' = res
        BY <1>4, <1>9, <2>2 DEF CheckAgain, Seen, Trouble
      <3>2. \A q \in Procs : ens'[q].pc = IF q = p THEN "post" ELSE ens[q].pc
        BY <1>1, <2>2 DEF Goes
      <3>3. \A q \in Procs : ens'[q].found = ens[q].found
        BY <1>1, <2>2 DEF Goes
      <3>4. asset = {p} /\ (\A q \in Procs \ {p} : ~Restores(q)) /\ log \cap Anchors = {}
        BY <3>1, RestorerAlone DEF Restores
      <3>5. Excluded'
        BY <1>3, <2>2, <3>1, <3>2, <3>4 DEF Orderly, Excluded, Restores, Procs
      <3>6. Named' /\ Cleared' /\ Posted'
        BY <3>1, <3>4 DEF Named, Cleared, Posted
      <3> QED BY <3>5, <3>6 DEF Orderly
    <2> QED BY <1>9, <2>1, <2>2 DEF CheckAgain
  <1>10. CASE Post(p)
    <2>1. CASE Raises(p)
      <3>1. ens[p].pc = "post" /\ row' = row /\ res' = res /\ Leaves(p, None) /\ asset' = asset \ {p}
        BY <1>10, <2>1 DEF Post, Raises
      <3>2. CASE log' = log
        BY <1>a, <3>1, <3>2
      <3>3. CASE ens' = [ens EXCEPT ![p] = [@ EXCEPT !.pc = "commit", !.found = last + 1]]
        BY <1>1, <3>1, <3>3 DEF Leaves, Idle
      <3> QED BY <1>10, <3>2, <3>3 DEF Post
    <2>2. CASE /\ log' = log \cup {last + 1}
               /\ ens' = [ens EXCEPT ![p] = [@ EXCEPT !.pc = "commit", !.found = last + 1]]
               /\ UNCHANGED asset
      <3>1. ens[p].pc = "post" /\ row' = row /\ res' = res
        BY <1>10 DEF Post
      <3>2. /\ \A q \in Procs : q # p => ens'[q] = ens[q]
            /\ ens'[p].pc = "commit" /\ ens'[p].found = last + 1
        BY <1>1, <2>2
      <3>3. asset = {p} /\ (\A q \in Procs \ {p} : ~Restores(q)) /\ log \cap Anchors = {}
        BY <3>1, RestorerAlone DEF Restores, Orderly, Cleared
      <3>4. Excluded'
        BY <1>3, <2>2, <3>1, <3>2, <3>3 DEF Orderly, Excluded, Restores, Procs
      <3>5. (log \cap Anchors)' \subseteq {last + 1}
        BY <2>2, <3>3 DEF Anchors
      <3>6. Named' /\ Cleared' /\ Posted'
        BY <3>2, <3>3, <3>5 DEF Named, Cleared, Posted, Restores
      <3> QED BY <3>4, <3>6 DEF Orderly
    <2> QED BY <1>10, <2>1, <2>2 DEF Post
  <1>11. CASE Commit(p)
    <2>1. /\ row' = ens[p].found /\ Leaves(p, ens[p].found) /\ asset' = asset \ {p}
          /\ ens[p].pc = "commit" /\ log' = log /\ res' = res
      BY <1>4, <1>11 DEF Commit, Trouble
    <2>2. ens'[p].pc = "left" /\ \A q \in Procs : q # p => ens'[q] = ens[q]
      BY <1>1, <2>1 DEF Leaves, Idle
    <2>3. \A q \in Procs \ {p} : ~Restores(q)
      BY <2>1, RestorerAlone DEF Restores
    <2>4. log \cap Anchors \subseteq {ens[p].found}
      BY <2>1 DEF Orderly, Posted
    <2>5. Excluded'
      BY <2>1, <2>2, <2>3 DEF Orderly, Excluded, Restores, Procs
    <2>6. Named' /\ Cleared' /\ Posted'
      BY <2>1, <2>2, <2>3, <2>4 DEF Named, Cleared, Posted, Restores
    <2> QED BY <2>5, <2>6 DEF Orderly
  <1> QED BY <1>6, <1>7, <1>8, <1>9, <1>10, <1>11 DEF Ensuring

\* The steps around the restoration: they start one where none is, or end none.
LEMMA OthersAreOrderly ==
    ASSUME MediaTypeOK, trouble = 0, Orderly, [MediaNext]_medVars, trouble' = 0,
           \A p \in Procs : ~Ensuring(p)
    PROVE  Orderly'
  <1>1. ens \in [Procs -> [pc : Steps, orig : Int, polls : Int, found : Int]]
    BY DEF MediaTypeOK
  <1>2. ~Trouble
    BY DEF Trouble
  <1>3. CASE BrainStarts
    <2> DEFINE r == [pc |-> "check", orig |-> row, polls |-> 0, found |-> None]
    <2>1. r.pc = "check" /\ ens' = [ens EXCEPT !["brain"] = r] /\ "brain" \in Procs
      BY <1>3 DEF BrainStarts, Starts, Procs
    <2>2. ens["brain"].pc # "commit" /\ asset' = asset /\ log' = log /\ row' = row /\ res' = res
      BY <1>3 DEF BrainStarts
    <2> HIDE DEF r
    <2> QED BY <2>1, <2>2, LeavingIsOrderly DEF Steps
  <1>4. CASE Missing
    <2>1. /\ \A q \in Procs : q # "messenger" => ens'[q] = ens[q]
          /\ ens'["messenger"].pc = "check"
          /\ asset' = asset /\ log' = log /\ row' = row /\ res'.pc = "restore" /\ res.pc = "forward"
      BY <1>1, <1>4 DEF Missing, Starts, Procs, MediaTypeOK
    <2>2. ens["messenger"].pc \in {"idle", "left"}
      BY <2>1 DEF Orderly, Excluded
    <2>3. Excluded'
      BY <2>1, <2>2 DEF Orderly, Excluded, Restores, Procs
    <2>4. Named' /\ Cleared' /\ Posted'
      BY <2>1, <2>2 DEF Orderly, Named, Cleared, Posted, Procs
    <2> QED BY <2>3, <2>4 DEF Orderly
  <1>5. CASE ExpireAsset
    <2>1. PICK p \in asset : ens[p].pc \notin {"again", "post", "commit"}
      BY <1>2, <1>5 DEF ExpireAsset
    <2>2. \A q \in Procs : ~Restores(q)
      BY <2>1 DEF Orderly, Excluded, Restores
    <2>3. Excluded'
      BY <1>5, <2>2 DEF ExpireAsset, Orderly, Excluded, Restores
    <2>4. Named' /\ Cleared' /\ Posted'
      BY <1>5 DEF ExpireAsset, Orderly, Named, Cleared, Posted
    <2> QED BY <2>3, <2>4 DEF Orderly
  <1>6. CASE Lose
    <2>1. log' \subseteq log /\ row' = row /\ ens' = ens /\ res' = res /\ asset' = asset
      BY <1>6 DEF Lose
    <2>2. Excluded' /\ Named' /\ Cleared' /\ Posted'
      BY <2>1 DEF Orderly, Excluded, Restores, Named, Cleared, Posted, Anchors
    <2> QED BY <2>2 DEF Orderly
  <1>7. CASE \/ Cached \/ LockMessage \/ Resolve \/ Restored \/ (\E c \in BOOLEAN : Want(c))
             \/ Forget \/ Expiring \/ UNCHANGED medVars
    <2>1. /\ log' = log /\ row' = row /\ ens' = ens /\ asset' = asset
          /\ res'.pc # "restore" /\ res.pc = "restore" => ens["messenger"].pc = "left"
      <3>1. CASE Cached \/ LockMessage \/ Resolve \/ \E c \in BOOLEAN : Want(c)
        BY <3>1 DEF Cached, LockMessage, Resolve, Want
      <3>2. CASE Restored
        BY <3>2 DEF Restored
      <3>3. CASE Forget \/ Expiring \/ UNCHANGED medVars
        BY <3>3 DEF Forget, Expiring, Expire, medVars
      <3> QED BY <1>7, <3>1, <3>2, <3>3
    <2>2. res'.pc = "restore" => res.pc = "restore"
      <3>1. CASE Cached \/ LockMessage \/ Resolve
        BY <3>1 DEF Cached, LockMessage, Resolve, Return, MediaTypeOK
      <3>2. CASE Restored
        <4>1. Enter(ens["messenger"].found) \/ Return
          BY <3>2 DEF Restored
        <4> QED BY <4>1 DEF Return, Enter
      <3>3. CASE \E c \in BOOLEAN : Want(c)
        BY <3>3 DEF Want
      <3>4. CASE Forget \/ Expiring \/ UNCHANGED medVars
        BY <3>4 DEF Forget, Expiring, Expire, medVars
      <3> QED BY <1>7, <3>1, <3>2, <3>3, <3>4
    <2>3. Excluded'
      BY <2>1, <2>2 DEF Orderly, Excluded, Restores
    <2>4. Named' /\ Cleared' /\ Posted'
      BY <2>1 DEF Orderly, Named, Cleared, Posted
    <2> QED BY <2>3, <2>4 DEF Orderly
  <1>8. ~BrainCrash /\ ~ResolveFlooded
    BY <1>2 DEF BrainCrash, ResolveFlooded
  <1> QED BY <1>3, <1>4, <1>5, <1>6, <1>7, <1>8 DEF MediaNext, Resolving

LEMMA MediaSteps == ASSUME MediaInv, [MediaNext]_medVars PROVE MediaInv'
  <1>1. MediaTypeOK'
    BY MediaTypeKept DEF MediaInv
  <1>2. ASSUME trouble' = 0 PROVE Orderly'
    <2>1. trouble = 0 /\ MediaTypeOK /\ Orderly
      BY <1>2, TroubleGrows DEF MediaInv
    <2>2. CASE \E p \in Procs : Ensuring(p)
      BY <1>2, <2>1, <2>2, EnsuringIsOrderly
    <2>3. CASE \A p \in Procs : ~Ensuring(p)
      BY <1>2, <2>1, <2>3, OthersAreOrderly
    <2> QED BY <2>2, <2>3
  <1> QED BY <1>1, <1>2 DEF MediaInv

\* As long as no call failed and no lock expired under its owner, the channel
\* holds at most one placeholder, however many restorations the two processes
\* start and whenever messages of the channel are deleted.
THEOREM OnePlaceholder == MediaSpec => []OneAnchor
  <1>1. MediaInv => OneAnchor
    <2> SUFFICES ASSUME MediaInv, trouble = 0 PROVE Cardinality(log \cap Anchors) <= 1
      BY DEF OneAnchor
    <2>1. PICK m : log \cap Anchors \subseteq {m}
      BY DEF MediaInv, Orderly, Named
    <2>2. IsFiniteSet({m}) /\ Cardinality({m}) = 1
      BY FS_Singleton
    <2>3. Cardinality(log \cap Anchors) <= Cardinality({m})
      BY <2>1, <2>2, FS_Subset
    <2>4. Cardinality(log \cap Anchors) \in Nat
      BY <2>1, <2>2, FS_Subset, FS_CardinalityType
    <2> QED BY <2>2, <2>3, <2>4
  <1> QED BY <1>1, MediaStarts, MediaSteps, PTL DEF MediaSpec

-----------------------------------------------------------------------------
(* Dispatch: the permits and the nested calls that hold them. *)

Phases == {"new", "waits", "sends", "sleeps", "done"}

DispatchTypeOK ==
  /\ depth \in [Alerts -> 0 .. MaxRetry] /\ at \in [Alerts -> Phases]
  /\ free \in Nat /\ line \in Seq(Alerts)

\* Exactly those who wait stand in line, each once.
InLine ==
  /\ \A i \in DOMAIN line : at[line[i]] = "waits"
  /\ \A i, j \in DOMAIN line : line[i] = line[j] => i = j

\* A coroutine that has not begun has not been sent again.
Unstarted == \A a \in Alerts : at[a] = "new" => depth[a] = 0

DispatchInv == DispatchTypeOK /\ InLine /\ Unstarted /\ PermitsKept

\* The permits held, one by one.
LEMMA HeldElements ==
  \A h : h \in Held <=> \E a \in Alerts : \E k \in 1 .. Holds(a) : h = <<a, k>>
  BY DEF Held

LEMMA HeldFinite == ASSUME DispatchTypeOK PROVE IsFiniteSet(Held) /\ Cardinality(Held) \in Nat
  <1> DEFINE All == Alerts \X (1 .. MaxRetry + 1)
  <1>1. IsFiniteSet(1 .. MaxRetry + 1)
    BY FS_Interval, DispatchAssumption
  <1>2. IsFiniteSet(All)
    BY <1>1, FS_Product, DispatchAssumption
  <1>3. \A a \in Alerts : Holds(a) \in 0 .. MaxRetry + 1
    BY DispatchAssumption DEF Holds, DispatchTypeOK
  <1>4. Held \in SUBSET All
    <2>1. \A a \in Alerts : 1 .. Holds(a) \subseteq 1 .. MaxRetry + 1
      BY <1>3, DispatchAssumption
    <2> QED BY <2>1, HeldElements
  <1> QED BY <1>2, <1>4, FS_Subset, FS_CardinalityType

\* Where nobody's share changes, nothing is taken or given back.
LEMMA HeldAlike == ASSUME \A a \in Alerts : Holds(a)' = Holds(a) PROVE Held' = Held
  BY HeldElements DEF Held

LEMMA DispatchStarts == DispatchInit => DispatchInv
  <1> SUFFICES ASSUME DispatchInit PROVE DispatchInv
    OBVIOUS
  <1>1. DispatchTypeOK
    BY DispatchAssumption DEF DispatchInit, DispatchTypeOK, Phases
  <1>2. InLine /\ Unstarted
    BY DEF DispatchInit, InLine, Unstarted
  <1>3. \A a \in Alerts : Holds(a) = 0
    BY DEF DispatchInit, Holds
  <1>4. Held = {}
    BY <1>3, HeldElements
  <1>5. PermitsKept
    BY <1>4, FS_EmptySet, DispatchAssumption DEF DispatchInit, PermitsKept
  <1> QED BY <1>1, <1>2, <1>5 DEF DispatchInv

\* A line of all alerts exists ...
LEMMA EveryoneInTurn ==
  InTurn \in [1 .. Cardinality(Alerts) -> Alerts]
  /\ \A a \in Alerts : \E i \in DOMAIN InTurn : InTurn[i] = a
  <1> DEFINE n == Cardinality(Alerts)
  <1>1. n \in Nat /\ ExistsBijection(1 .. n, Alerts)
    BY FS_CardinalityType, DispatchAssumption
  <1>2. \E x \in [1 .. n -> Alerts] : \A a \in Alerts : \E i \in DOMAIN x : x[i] = a
    BY <1>1 DEF ExistsBijection, Bijection, Surjection
  <1> QED BY <1>2 DEF InTurn

\* ... and has each of them once.
LEMMA LineOfAll ==
  InTurn \in Seq(Alerts) /\ \A i, j \in DOMAIN InTurn : InTurn[i] = InTurn[j] => i = j
  <1> DEFINE n == Cardinality(Alerts)
             q == InTurn
  <1>1. n \in Nat
    BY FS_CardinalityType, DispatchAssumption
  <1>3. q \in [1 .. n -> Alerts] /\ \A a \in Alerts : \E i \in DOMAIN q : q[i] = a
    BY EveryoneInTurn
  <1> HIDE DEF q, n
  <1>4. q \in Surjection(1 .. n, Alerts)
    BY <1>3 DEF Surjection
  <1>5. IsFiniteSet(1 .. n) /\ Cardinality(1 .. n) = n
    BY <1>1, FS_Interval
  <1>6. q \in Injection(1 .. n, Alerts)
    BY <1>4, <1>5, FS_SurjSameCardinalityImpliesInj DEF n
  <1>7. \A i, j \in DOMAIN q : q[i] = q[j] => i = j
    BY <1>3, <1>6 DEF Injection, IsInjective
  <1>8. q \in Seq(Alerts)
    BY <1>1, <1>3
  <1> QED BY <1>7, <1>8 DEF q, n

LEMMA GatherKeeps == ASSUME DispatchInv, Gather PROVE DispatchInv'
  <1> USE DEF DispatchInv
  <1>1. line' \in Seq(Alerts) /\ \A i, j \in DOMAIN line' : line'[i] = line'[j] => i = j
    BY LineOfAll DEF Gather
  <1>2. \A a \in Alerts : at[a] = "new" /\ at'[a] = "waits" /\ depth'[a] = 0
    BY DEF Gather, Unstarted
  <1>3. DispatchTypeOK'
    BY <1>1 DEF Gather, DispatchTypeOK, Phases
  <1>4. InLine' /\ Unstarted'
    BY <1>1, <1>2 DEF InLine, Unstarted
  <1>5. \A a \in Alerts : Holds(a)' = Holds(a)
    BY <1>2 DEF Holds
  <1>6. PermitsKept'
    BY <1>5, HeldAlike DEF PermitsKept, Gather
  <1> QED BY <1>3, <1>4, <1>6

\* A permit taken is one more of its owner's.
LEMMA AcquireKeeps ==
  ASSUME DispatchInv, Acquire, NEW a \in Alerts, a = Head(line)
  PROVE  DispatchInv'
  <1> USE DEF DispatchInv
  <1> DEFINE mine == <<a, depth[a] + 1>>
  <1>1. a = line[1] /\ 1 \in DOMAIN line
    BY DEF Acquire, DispatchTypeOK
  <1>2. at[a] = "waits"
    BY <1>1 DEF InLine
  <1>3. /\ at' = [at EXCEPT ![a] = "sends"] /\ line' = Tail(line)
        /\ free' = free - 1 /\ free > 0 /\ depth' = depth
    BY DEF Acquire
  <1>4. /\ line' \in Seq(Alerts)
        /\ \A i \in DOMAIN line' : i + 1 \in DOMAIN line /\ line'[i] = line[i + 1]
    BY <1>1, <1>3 DEF DispatchTypeOK
  <1>5. DispatchTypeOK'
    BY <1>1, <1>3, <1>4 DEF DispatchTypeOK, Phases
  <1>6. \A i \in DOMAIN line' : at'[line'[i]] = "waits"
    <2> TAKE i \in DOMAIN line'
    <2>1. i + 1 # 1
      BY <1>4 DEF DispatchTypeOK
    <2>2. line[i + 1] # a /\ line[i + 1] \in Alerts
      BY <1>1, <1>4, <2>1 DEF InLine, DispatchTypeOK
    <2> QED BY <1>3, <1>4, <2>2 DEF InLine, DispatchTypeOK
  <1>7. \A i, j \in DOMAIN line' : line'[i] = line'[j] => i = j
    <2> TAKE i, j \in DOMAIN line'
    <2> HAVE line'[i] = line'[j]
    <2>1. i + 1 = j + 1
      BY <1>4 DEF InLine
    <2>2. i \in Int /\ j \in Int
      BY <1>4
    <2> QED BY <2>1, <2>2
  <1>8. InLine' /\ Unstarted'
    BY <1>3, <1>6, <1>7 DEF InLine, Unstarted, DispatchTypeOK
  <1>9. Holds(a) = depth[a] /\ Holds(a)' = depth[a] + 1 /\ depth[a] \in Nat
    <2>1. at'[a] = "sends" /\ depth'[a] = depth[a]
      BY <1>1, <1>3 DEF DispatchTypeOK
    <2>2. depth[a] \in Nat
      BY <1>1, DispatchAssumption DEF DispatchTypeOK
    <2> QED BY <1>2, <2>1, <2>2 DEF Holds
  <1>10. \A b \in Alerts \ {a} : Holds(b)' = Holds(b)
    BY <1>3 DEF Holds, DispatchTypeOK
  <1>11. mine \notin Held
    BY <1>1, <1>9, HeldElements
  <1>12. Held' = Held \cup {mine}
    <2>1. 1 .. depth[a] + 1 = (1 .. depth[a]) \cup {depth[a] + 1}
      BY <1>9
    <2>2. \A h : h \in Held' <=> \E b \in Alerts : \E k \in 1 .. Holds(b)' : h = <<b, k>>
      BY DEF Held
    <2>3. \A h : h \in Held' <=> h \in Held \/ h = mine
      BY <1>1, <1>9, <1>10, <2>1, <2>2, HeldElements
    <2> QED BY <2>3
  <1>13. Cardinality(Held') = Cardinality(Held) + 1
    BY <1>11, <1>12, HeldFinite, FS_AddElement
  <1>14. PermitsKept'
    BY <1>3, <1>13, HeldFinite, DispatchAssumption DEF PermitsKept, DispatchTypeOK
  <1> QED BY <1>5, <1>8, <1>14

\* All the permits of a call come back with it.
LEMMA UnwindKeeps ==
  ASSUME DispatchInv, NEW a \in Alerts, at[a] \in {"sends", "sleeps"}, Unwind(a)
  PROVE  DispatchInv'
  <1> USE DEF DispatchInv
  <1> DEFINE mine == {a} \X (1 .. depth[a] + 1)
  <1>1. /\ at' = [at EXCEPT ![a] = "done"] /\ free' = free + depth[a] + 1
        /\ line' = line /\ depth' = depth
    BY DEF Unwind
  <1>2. depth[a] \in Nat
    BY DispatchAssumption DEF DispatchTypeOK
  <1>3. DispatchTypeOK'
    BY <1>1, <1>2 DEF DispatchTypeOK, Phases
  <1>4. \A i \in DOMAIN line : line[i] # a /\ line[i] \in Alerts
    BY DEF InLine, DispatchTypeOK
  <1>5. InLine' /\ Unstarted'
    BY <1>1, <1>4 DEF InLine, Unstarted, DispatchTypeOK
  <1>6. Holds(a) = depth[a] + 1 /\ Holds(a)' = 0
    BY <1>1 DEF Holds, DispatchTypeOK
  <1>7. \A b \in Alerts \ {a} : Holds(b)' = Holds(b)
    BY <1>1 DEF Holds, DispatchTypeOK
  <1>8. mine \subseteq Held
    BY <1>6, HeldElements
  <1>9. Held' = Held \ mine
    <2>1. \A h : h \in Held' <=> \E b \in Alerts : \E k \in 1 .. Holds(b)' : h = <<b, k>>
      BY DEF Held
    <2>2. \A h : h \in Held' <=> h \in Held /\ h \notin mine
      BY <1>6, <1>7, <2>1, HeldElements
    <2> QED BY <2>2
  <1>10. IsFiniteSet(mine) /\ Cardinality(mine) = depth[a] + 1
    <2>1. IsFiniteSet({a}) /\ Cardinality({a}) = 1
      BY FS_Singleton
    <2>2. IsFiniteSet(1 .. depth[a] + 1) /\ Cardinality(1 .. depth[a] + 1) = depth[a] + 1
      BY <1>2, FS_Interval
    <2>3. Cardinality(mine) = 1 * (depth[a] + 1) /\ IsFiniteSet(mine)
      BY <2>1, <2>2, FS_Product
    <2> QED BY <1>2, <2>3
  <1>11. Cardinality(Held') = Cardinality(Held) - (depth[a] + 1)
    <2>1. Held \cap mine = mine
      BY <1>8
    <2> HIDE DEF mine
    <2>2. Cardinality(Held \ mine) = Cardinality(Held) - Cardinality(Held \cap mine)
      BY HeldFinite, FS_Difference
    <2> QED BY <1>9, <1>10, <2>1, <2>2
  <1>12. PermitsKept'
    BY <1>1, <1>2, <1>11, HeldFinite, DispatchAssumption DEF PermitsKept, DispatchTypeOK
  <1> QED BY <1>3, <1>5, <1>12

\* A flooded call sleeps with its permit in hand.
LEMMA FloodedKeeps == ASSUME DispatchInv, NEW a \in Alerts, Flooded(a) PROVE DispatchInv'
  <1> USE DEF DispatchInv
  <1>1. DispatchTypeOK'
    BY DEF Flooded, DispatchTypeOK, Phases
  <1>2. InLine' /\ Unstarted'
    <2>1. \A i \in DOMAIN line : line[i] # a /\ line[i] \in Alerts
      BY DEF InLine, DispatchTypeOK, Flooded
    <2> QED BY <2>1 DEF Flooded, InLine, Unstarted, DispatchTypeOK
  <1>3. \A b \in Alerts : Holds(b)' = Holds(b)
    BY DEF Flooded, Holds, DispatchTypeOK
  <1>4. PermitsKept'
    BY <1>3, HeldAlike DEF PermitsKept, Flooded
  <1> QED BY <1>1, <1>2, <1>4

\* The nested call waits behind the others, the outer permits kept.
LEMMA RetryKeeps ==
  ASSUME DispatchInv, NEW a \in Alerts, at[a] = "sleeps", depth[a] < MaxRetry,
         depth' = [depth EXCEPT ![a] = @ + 1], at' = [at EXCEPT ![a] = "waits"],
         line' = Append(line, a), free' = free
  PROVE  DispatchInv'
  <1> USE DEF DispatchInv
  <1>1. DispatchTypeOK'
    BY DispatchAssumption DEF DispatchTypeOK, Phases
  <1>2. \A i \in DOMAIN line : line[i] # a /\ line[i] \in Alerts
    BY DEF InLine, DispatchTypeOK
  <1>3. /\ DOMAIN line' = (DOMAIN line) \cup {Len(line) + 1}
        /\ \A i \in DOMAIN line : line'[i] = line[i]
        /\ line'[Len(line) + 1] = a
    BY DEF DispatchTypeOK
  <1>4. InLine' /\ Unstarted'
    <2>1. \A i \in DOMAIN line' : at'[line'[i]] = "waits"
      BY <1>2, <1>3 DEF InLine, DispatchTypeOK
    <2>2. \A i, j \in DOMAIN line' : line'[i] = line'[j] => i = j
      BY <1>2, <1>3 DEF InLine
    <2> QED BY <2>1, <2>2 DEF InLine, Unstarted, DispatchTypeOK
  <1>5. \A b \in Alerts : Holds(b)' = Holds(b)
    BY DispatchAssumption DEF Holds, DispatchTypeOK
  <1>6. PermitsKept'
    BY <1>5, HeldAlike DEF PermitsKept
  <1> QED BY <1>1, <1>4, <1>6

LEMMA DispatchKeeps == DispatchInv /\ [DispatchNext]_disVars => DispatchInv'
  <1> SUFFICES ASSUME DispatchInv, [DispatchNext]_disVars PROVE DispatchInv'
    OBVIOUS
  <1>1. CASE Gather
    BY <1>1, GatherKeeps
  <1>2. CASE Acquire
    <2>1. Head(line) \in Alerts
      BY <1>2 DEF Acquire, DispatchInv, DispatchTypeOK
    <2> QED BY <1>2, <2>1, AcquireKeeps
  <1>3. ASSUME NEW a \in Alerts, Finish(a) PROVE DispatchInv'
    BY <1>3, UnwindKeeps DEF Finish
  <1>4. ASSUME NEW a \in Alerts, Flooded(a) PROVE DispatchInv'
    BY <1>4, FloodedKeeps
  <1>5. ASSUME NEW a \in Alerts, Again(a) PROVE DispatchInv'
    BY <1>5, UnwindKeeps, RetryKeeps DEF Again
  <1>6. CASE UNCHANGED disVars
    <2>1. \A b \in Alerts : Holds(b)' = Holds(b)
      BY <1>6 DEF disVars, Holds
    <2> QED
      BY <1>6, <2>1, HeldAlike
      DEF disVars, DispatchInv, DispatchTypeOK, InLine, Unstarted, PermitsKept
  <1> QED
    BY <1>1, <1>2, <1>3, <1>4, <1>5, <1>6 DEF DispatchNext, Running, Dispatched

\* No permit is lost or invented, for any batch, semaphore and number of
\* retries, whichever sends are flooded.
THEOREM PermitsBalance == DispatchSpec => []PermitsKept
  <1>1. DispatchSpec => []DispatchInv
    BY DispatchStarts, DispatchKeeps, PTL DEF DispatchSpec
  <1>2. DispatchInv => PermitsKept
    BY DEF DispatchInv
  <1> QED BY <1>1, <1>2, PTL

\* Whoever waits stands in the line.
Queued == \A a \in Alerts : at[a] = "waits" => \E i \in DOMAIN line : line[i] = a

\* A batch never waits for itself when every permit cannot be held in retries.
Unstuck ==
  Permits > MaxRetry * Cardinality(Alerts) /\ (\E a \in Alerts : at[a] = "waits")
    => (line # <<>> /\ free > 0) \/ \E a \in Alerts : at[a] \in {"sends", "sleeps"}

LEMMA QueuedKeeps == DispatchInv /\ Queued /\ [DispatchNext]_disVars => Queued'
  <1> SUFFICES ASSUME DispatchInv, Queued, [DispatchNext]_disVars PROVE Queued'
    OBVIOUS
  <1>1. DispatchTypeOK /\ InLine
    BY DEF DispatchInv
  <1>2. CASE Gather
    <2>1. \A a \in Alerts : \E i \in DOMAIN InTurn : InTurn[i] = a
      BY EveryoneInTurn
    <2> QED BY <1>2, <2>1 DEF Gather, Queued
  <1>3. CASE Acquire
    <2> SUFFICES ASSUME NEW a \in Alerts, at'[a] = "waits" PROVE \E i \in DOMAIN line' : line'[i] = a
      BY DEF Queued
    <2>1. /\ line # <<>> /\ line' = Tail(line) /\ line \in Seq(Alerts)
          /\ at[a] = "waits" /\ a # Head(line)
      BY <1>1, <1>3 DEF Acquire, DispatchTypeOK
    <2>2. PICK i \in DOMAIN line : line[i] = a
      BY <2>1 DEF Queued
    <2>3. i # 1
      BY <2>1, <2>2
    <2>4. i - 1 \in DOMAIN Tail(line) /\ Tail(line)[i - 1] = line[i]
      BY <2>1, <2>2, <2>3
    <2> QED BY <2>1, <2>2, <2>4
  <1>4. ASSUME NEW b \in Alerts, Finish(b) \/ Flooded(b) PROVE Queued'
    BY <1>1, <1>4 DEF Finish, Unwind, Flooded, Queued, DispatchTypeOK
  <1>5. ASSUME NEW b \in Alerts, Again(b) PROVE Queued'
    <2>1. CASE Unwind(b)
      BY <1>1, <2>1 DEF Unwind, Queued, DispatchTypeOK
    <2>2. CASE at' = [at EXCEPT ![b] = "waits"] /\ line' = Append(line, b)
      <3>1. /\ DOMAIN line' = (DOMAIN line) \cup {Len(line) + 1}
            /\ \A i \in DOMAIN line : line'[i] = line[i]
            /\ line'[Len(line) + 1] = b
        BY <1>1, <2>2 DEF DispatchTypeOK
      <3>2. \A a \in Alerts \ {b} : at'[a] = at[a]
        BY <1>1, <2>2 DEF DispatchTypeOK
      <3> QED BY <3>1, <3>2 DEF Queued
    <2> QED BY <1>5, <2>1, <2>2 DEF Again
  <1>6. CASE UNCHANGED disVars
    BY <1>6 DEF disVars, Queued
  <1> QED
    BY <1>2, <1>3, <1>4, <1>5, <1>6 DEF DispatchNext, Running, Dispatched

LEMMA UnstuckHolds == DispatchInv /\ Queued => Unstuck
  <1> SUFFICES ASSUME DispatchInv, Queued, Permits > MaxRetry * Cardinality(Alerts),
                      NEW a \in Alerts, at[a] = "waits",
                      \A b \in Alerts : at[b] \notin {"sends", "sleeps"}
               PROVE  line # <<>> /\ free > 0
    BY DEF Unstuck
  <1> DEFINE All == Alerts \X (1 .. MaxRetry)
  <1>1. DispatchTypeOK /\ PermitsKept
    BY DEF DispatchInv
  <1>2. line # <<>>
    BY DEF Queued
  <1>3. \A b \in Alerts : Holds(b) \in 0 .. MaxRetry
    BY <1>1, DispatchAssumption DEF Holds, DispatchTypeOK, Phases
  <1>4. Held \in SUBSET All
    <2>1. \A b \in Alerts : 1 .. Holds(b) \subseteq 1 .. MaxRetry
      BY <1>3, DispatchAssumption
    <2> QED BY <2>1, HeldElements
  <1>5. IsFiniteSet(1 .. MaxRetry) /\ Cardinality(1 .. MaxRetry) = MaxRetry
    BY FS_Interval, DispatchAssumption
  <1>6. IsFiniteSet(All) /\ Cardinality(All) = Cardinality(Alerts) * MaxRetry
    BY <1>5, FS_Product, DispatchAssumption
  <1>7. Cardinality(Held) <= Cardinality(Alerts) * MaxRetry
    BY <1>4, <1>6, FS_Subset
  <1>8. Cardinality(Alerts) \in Nat /\ Cardinality(Held) \in Nat
    BY <1>1, HeldFinite, FS_CardinalityType, DispatchAssumption
  <1>9. Cardinality(Alerts) * MaxRetry = MaxRetry * Cardinality(Alerts)
        /\ MaxRetry * Cardinality(Alerts) \in Nat
    BY <1>8, DispatchAssumption
  <1>10. free > 0
    BY <1>1, <1>7, <1>8, <1>9, DispatchAssumption DEF PermitsKept, DispatchTypeOK
  <1> QED BY <1>2, <1>10

\* With more permits than the batch can hold in retries, somebody of the batch
\* can always go on: the standstill of dispatch_flood needs a batch of at least
\* a third of the semaphore (MaxRetry is 3 in the code).
THEOREM PermitsSuffice == DispatchSpec => []Unstuck
  <1>1. DispatchSpec => []DispatchInv
    BY DispatchStarts, DispatchKeeps, PTL DEF DispatchSpec
  <1>2. DispatchInit => Queued
    BY DEF DispatchInit, Queued
  <1>3. DispatchSpec => []Queued
    BY <1>1, <1>2, QueuedKeeps, PTL DEF DispatchSpec
  <1> QED BY <1>1, <1>3, UnstuckHolds, PTL
=============================================================================
