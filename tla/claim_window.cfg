\* The window grows and the counters are read under new indices.
SPECIFICATION Spec
CONSTANTS
  k1 = k1  k2 = k2
  Keys <- Pair
  Account = Account  Escrow = Escrow
  MAX_SIGNERS = 2
  MaxTTL = 5
  InitialSigners <- Pair
  InitialThreshold = 1
  InitialCap = 1
  InitialWindow = 2
  Actions <- LongerWindow
  Entries <- SomeEntries
  MaxSequence = 4
  MaxNonce = 3
  MaxSignatures = 4
PROPERTY WindowCapKept
CHECK_DEADLOCK FALSE
