\* A funding round beside a plain escrow in the same token: contributions,
\* claims, releases and the timeout refund, safety and liveness.
SPECIFICATION FairSpec
CONSTANTS
  alice = alice  bob = bob  carol = carol  dave = dave  self = self
  gold = gold  iron = iron
  Addr <- Couple
  Contract = self
  Tokens = {gold, iron}
  AllowedTokens <- GoldOnly
  PauseAdmin = bob
  I128Max = 4
  MAX_RELEASERS = 3  MAX_BATCH_SIZE = 2  MAX_SETTLE_OPS = 2
  MAX_CONDITION_REF_LEN = 2
  Requests <- TimedRequest
  Batches <- None
  PoolRequests <- PoolRequests2
  Deposits = {1, 2}
  MaxListLen = 1
  Purse <- PoolPurse
  ShortTokens <- None
  ClawbackTokens <- None
  Donations = {2}
  CanFreeze <- None
  CanBreak <- None
  MaxTime = 2
  MaxEscrows = 2
INVARIANTS TypeOK PoolExact NoReleaseAfterClaim
PROPERTIES RoundDecided TimeoutSettles FailedRoundDrains
