SPECIFICATION Spec
CONSTANTS
  Vehicles = {"a", "b"}
  Places = {"p1", "p2"}
  Delays = {0, 60}
  Journeys = {"j1"}
  Indexes <- MixedIndexes
  Wishes <- MixedWishes
  None = None
  ToServer = 1
  ToClient = 2
INVARIANTS FlagTold
