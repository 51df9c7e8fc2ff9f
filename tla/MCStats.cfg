CONSTANTS
  Group = {"g1"}
  Writer = {"w1", "w2"}
  SharingWriter = {"w1", "w2"}
  CounterOf <- MCCounterOf
  NoCounter = NoCounter
  MaxGenerations = 3
SPECIFICATION StatsSpec
INVARIANT OrphansUnused
CHECK_DEADLOCK FALSE
