SPECIFICATION FairSpec
CONSTANTS
  N = 2
  Quantum = 2
  Cycles <- MCCycles
  MaxCalls = 2
  MaxCross = 1
  MaxExits = 2
INVARIANTS NothingInThePast OneGlobalEventAtATime ReturnsInStep
PROPERTIES SimulateReturns
