\* The exchange feeds, the liquidations, the supply, the checkout, the users.
SPECIFICATION MCSpec
CONSTANTS
  Chunks <- MCChunks
  Later = {"d", "e"}
  ChunkSize = 2
  Sockets = {1, 2, 3, 4, 5}
  MaxTroubles = 2
  MaxHandled = 3
  Cascade = 0
  Squeeze = 1
  Top = 2
  Hour = 3
  Coins = {"x", "y"}
  AtFirst = {"x"}
  CgIds = {"p", "q"}
  Supplies = {1, 2}
  Chunk = 1
  MaxNews = 2
  MaxFailures = 1
  Presses = {"h1", "h2"}
  Plans = {"m"}
  Price <- MCPrice
  Balances = {0, 1}
  MaxOrders = 2
  MaxUpsets = 2
  Tasks = {"t1"}
  Columns = {"c"}
  MaxNow = 1
  MaxEvents = 2
INVARIANTS
  OneFeedPerSymbol
  MetricsExact
  OneOpenOrder
  ScreenIsPayable
  PaidSettingsEndWithVip
PROPERTIES
  ListingTrackedHere
  SupplySyncedHere
  CachesCatchUp
CHECK_DEADLOCK FALSE
