CONSTANTS
  Items = {k1, k2}
  Burst = 2  Period = 4  PerTick = 2  Cap = 8  MaxFailures = 4  MaxRequests = 2
SPECIFICATION Spec
SYMMETRY Symmetry
INVARIANTS DebtBounded Fresh QueueIsDirtyIdle
PROPERTIES ImplementsPendingSet
