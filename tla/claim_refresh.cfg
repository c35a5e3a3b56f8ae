\* An action that resolves while the view still waits for its first read.
SPECIFICATION ReadersSpec
CONSTANTS
  alice = alice  bob = bob  carol = carol  dave = dave  self = self
  gold = gold  iron = iron
  Addr = {alice, bob, self}
  Contract = self
  Tokens = {gold}
  AllowedTokens <- None
  PauseAdmin = bob
  I128Max = 20000
  MAX_RELEASERS = 2  MAX_BATCH_SIZE = 2  MAX_SETTLE_OPS = 2
  MAX_CONDITION_REF_LEN = 2
  Requests <- SomeRequests
  Batches <- SomeBatches
  PoolRequests <- SmallPool
  Deposits = {1}
  MaxListLen = 1
  Purse <- ReaderPurse
  ShortTokens <- None
  ClawbackTokens <- None
  Donations <- None
  CanFreeze <- None
  CanBreak <- None
  MaxTime = 1
  MaxEscrows = 2
  MaxEvents = 3
  Filters <- SomeFilters  Limit = 2  MaxFailures = 1  MaxSubscriptions = 2
  MaxRestarts = 1
  Readers = {"view"}
  Viewer = alice  ClockErrors <- SomeErrors  PollIntervals = {0, 1}  MaxReads = 1  MaxActs = 1
INVARIANT ActionRefreshesView
CHECK_DEADLOCK FALSE
