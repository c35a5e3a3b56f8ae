\* A batch whose lost answer counts as a failure is taken up again.
SPECIFICATION SdkSpec
CONSTANTS
  alice = alice  bob = bob  carol = carol  dave = dave  self = self
  gold = gold  iron = iron  c1 = c1  c2 = c2
  Addr = {alice, bob, carol, self}
  Contract = self
  Tokens = {gold}
  AllowedTokens <- None
  PauseAdmin = carol
  I128Max = 20000
  MAX_RELEASERS = 3  MAX_BATCH_SIZE = 2  MAX_SETTLE_OPS = 2
  MAX_CONDITION_REF_LEN = 8
  Requests <- None
  Batches <- None
  PoolRequests <- None
  Deposits <- None
  MaxListLen = 1
  Purse <- SdkPurse
  ShortTokens <- None
  ClawbackTokens <- None
  Donations <- None
  CanFreeze <- None
  CanBreak <- None
  MaxTime = 1
  MaxEscrows = 4
  MAX_CONDITION_REF_LENGTH = 8  SdkMaxReleasers = 3  SdkMaxFeeBps = 1000
  CreateInputs <- SomeCreates  QuorumInputs <- SomeQuorums  PoolInputs <- SomePools
  CalledIds = {0}  CallerInputs <- Users  AmountInputs = {0, 1}  ApproverInputs <- SomeApprovers
  MaxTxs = 3
  Parts = {"batch"}
  Callers <- TwoCallers
  Configs <- SomeConfigs
  Rpcs <- SomeRpcs
  MaxCalls = 3  MaxLost = 1
  Jobs <- SomeJobs
  MaxRuns = 2
  LifecycleCalls <- SomeLifecycleCalls
  Settlements <- SomeSettlements
  Sources = {alice}
  PREPARED_AUTH_TTL_LEDGERS = 0  RELAYED_AUTH_TTL_LEDGERS = 0
  MaxDocs = 2
  Own = self  Cosigners = {alice, carol}  MAX_WEIGHT = 3  Policies <- SomePolicies
  OldSignerSets <- SomeOldSigners  MaxSetups = 2  MaxSequence = 2
  Integrators = {alice, bob}  Salts = {1, 2}  MaxDeploys = 2
  MAX_TOKEN_DECIMALS = 3  ReportedDecimals <- SomeDecimals  Texts <- SomeTexts
  RawAmounts = {0, 7, 100, 120, 12345}  MaxTokenReads = 2  MaxDigits = 7
  Networks = {"test", "public", "local"}  NamedNetworks = {"test", "public"}
  SignerOptions <- SomeSigners  Wallets <- SomeWallets  MaxAsks = 2
INVARIANT NoDoubleCreate
CHECK_DEADLOCK FALSE
