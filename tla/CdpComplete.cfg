SPECIFICATION Spec
CONSTANTS
  Cdp = 2
  Assets = 1
  MaxCalls = 3
  MaxTxs = 1
INVARIANT CdpCompleteMeansDeposited
