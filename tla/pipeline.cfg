\* The signal path and its rules, charts, media and dispatch.
SPECIFICATION MCSpec
CONSTANTS
  e1 = e1
  e2 = e2
  v = v
  n1 = n1
  n2 = n2
  Events = {e1, e2}
  Targets = {v}
  Vip = {v}
  Sums = {2, 3}
  Names = {n1, n2}
  MaxLen = 1
  Count = 2
  MaxFaults = 1
  Amounts = {1, 4, 20}
  Thresholds = {2, 6}
  MinFilter = 3
  ChartVolume = 10
  Multiplier = 3
  Symbols = {"s", "t"}
  Unit = 1
  Capacity = 4
  Priority = 4
  Critical = 3
  Ttl = 2
  Floods = {1}
  MaxSlips = 1
  MaxAnchors = 3
  Polls = 1
  MaxTrouble = 1
  Alerts = {"a1", "a2"}
  Permits = 7
  MaxRetry = 3
  Asked <- MCAsked
  GateTtl = 1
  Slow = 1
  MaxRare = 1
INVARIANTS
  AlertsEscalate
  HistoryBacked
  PrefilterSound
  CascadesAreDrawn
  ReserveForCascades
  OneAnchor
  PermitsKept
PROPERTIES
  ImplementsFeed
  DrawnOncePerTtl
  ResolveReturns
  BatchReturns
  LeaversAreStopped
  MembersAreServedHere
