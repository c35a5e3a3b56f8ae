\* Fees, top-ups, batches and the tokens' misbehaviour over one shared pool.
SPECIFICATION Spec
CONSTANTS
  alice = alice  bob = bob  carol = carol  dave = dave  self = self
  gold = gold  iron = iron
  Addr <- Parties
  Contract = self
  Tokens = {gold, iron}
  AllowedTokens <- None
  PauseAdmin = carol
  I128Max = 20000
  MAX_RELEASERS = 3  MAX_BATCH_SIZE = 2  MAX_SETTLE_OPS = 2
  MAX_CONDITION_REF_LEN = 2
  Requests <- FeeRequest
  Batches <- MoneyBatches
  PoolRequests <- None
  Deposits = {5}
  MaxListLen = 2
  Purse <- MoneyPurse
  ShortTokens <- GoldOnly
  ClawbackTokens <- IronOnly
  Donations <- None
  CanFreeze <- JustCarol
  CanBreak <- None
  MaxTime = 0
  MaxEscrows = 3
INVARIANTS LiabilityExact Solvent
PROPERTIES OutflowIsDebt PayoutsEntitled PromiseKept
