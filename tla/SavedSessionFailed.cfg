CONSTANTS
  Terminals = {a, b}
  MaxGen = 2
  Scenarios = {{"restart", "restart fails", "create without kaval"}}
SPECIFICATION Spec
INVARIANT DurableStays
