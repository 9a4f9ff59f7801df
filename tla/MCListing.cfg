SPECIFICATION Spec
CONSTANTS
  Products <- MCProducts
  Seeded <- MCSeeded
  BrandOf <- MCBrandOf
  PriceOf <- MCPriceOf
  Bands <- MCBands
  Limit = 1
  None = None
  MaxClicks = 2
  MaxChanges = 2
  MaxMoves = 3
  MaxRequests = 1
INVARIANTS TypeOK NoRepeats NothingSkipped
CHECK_DEADLOCK FALSE
