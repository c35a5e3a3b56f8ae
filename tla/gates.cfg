\* One plain escrow at a time under every gate: acceptance, cancel, time lock,
\* timeout refund, hand-over of the payee, rotation, pause, frozen accounts.
SPECIFICATION Spec
CONSTANTS
  alice = alice  bob = bob  carol = carol  dave = dave  self = self
  gold = gold  iron = iron
  Addr <- MoreParties
  Contract = self
  Tokens = {gold, iron}
  AllowedTokens <- GoldOnly
  PauseAdmin = carol
  I128Max = 30000
  MAX_RELEASERS = 3  MAX_BATCH_SIZE = 2  MAX_SETTLE_OPS = 2
  MAX_CONDITION_REF_LEN = 2
  Requests <- GateAndQuorumRequests
  Batches <- None
  PoolRequests <- None
  Deposits = {1}
  MaxListLen = 3
  Purse <- TwoEach
  ShortTokens <- None
  ClawbackTokens <- None
  Donations <- None
  CanFreeze <- JustBob
  CanBreak <- JustBob
  MaxTime = 2
  MaxEscrows = 1
INVARIANTS AcceptanceDecides AlwaysAWayOut
PROPERTIES SettlementAuthorised SettledIsFinal TermsKept PauseStopsDeposits
