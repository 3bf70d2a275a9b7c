SPECIFICATION Spec
CONSTANTS
  Cdp = 1
  Assets = 2
  MaxCalls = 2
  MaxTxs = 2
INVARIANT WithdrawnMeansPaid
PROPERTY ConfirmingEnds
