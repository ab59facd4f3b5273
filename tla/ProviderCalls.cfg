SPECIFICATION Spec
CONSTANTS
  c1 = c1
  c2 = c2
  None = None
  Customers <- MCCustomers
  FailedWith <- MCFailedWith
  Rounding <- MCRounding
  ModelAmounts <- MCModelAmounts
  ListLimit = 2
  MaxPayments = 3
  MaxCalls = 2
  MaxCrashes = 1
INVARIANTS
  TypeOK
  KeyHonoured
  EffectsAccounted
  BookedWasMade
  HistoryIsOwn
SYMMETRY Symmetry
CHECK_DEADLOCK FALSE
