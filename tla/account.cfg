\* Two signers, one of whom comes and goes, a short window, signatures submitted late.
SPECIFICATION Spec
CONSTANTS
  k1 = k1  k2 = k2
  Keys <- Pair
  Account = Account  Escrow = Escrow
  MAX_SIGNERS = 2
  MaxTTL = 4
  InitialSigners <- Pair
  InitialThreshold = 1
  InitialCap = 2
  InitialWindow = 2
  Actions <- SomeActions
  Entries <- SomeEntries
  MaxSequence = 3
  MaxNonce = 3
  MaxSignatures = 4
INVARIANTS TypeOK QuorumReachable SlotsBounded
PROPERTIES ChangesApproved OperationsEndorsed
\* The account only answers, and the bound on signatures ends every behaviour.
CHECK_DEADLOCK FALSE
