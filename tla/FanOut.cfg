SPECIFICATION Spec
CONSTANTS
  d1 = d1
  d2 = d2
  ws = ws
  api = api
  p1 = p1
  p2 = p2
  model = model
  object = object
  all = all
  one = one
  passing = passing
  e1 = e1
  Device = {d1, d2}
  TransportOf <- MCTransportOf
  Api = {api}
  Partition = {p1, p2}
  PartitionOf <- MCPartitionOf
  Scope = {model, object}
  Plain <- MCPlain
  Filtered = {passing}
  FilterScope <- MCFilterScope
  Stale = {}
  Change = {e1}
  Patterns <- MCPatterns
  Passes <- MCPasses
  Subscription <- MCSubscription
  MaxTries = 2
VIEW View
INVARIANTS FanOutIsExact OneMessagePerAttempt
CHECK_DEADLOCK FALSE
