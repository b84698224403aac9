CONSTANTS
  NumSources = 3
  MaxConcurrency = 2
  MaxRetries = 1
  Again = {r1, r2}
  p = p
  q = q
  Payloads = {p, q}
  None = None
  Calls <- AllCalls
  Products <- AllProducts
  Keys <- AllKeys
  Given <- Pages
SPECIFICATION CollectionSpec
INVARIANTS
  RecordsAreTrue
  LineageIsComplete
  ResultIsHonest
PROPERTIES
  ImplementsAtomicBatches
  Ends
CHECK_DEADLOCK FALSE
