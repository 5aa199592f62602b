SPECIFICATION Spec
CONSTANTS
  a = a
  b = b
  c = c
  Vehicles = {a, b, c}
  InView = {a}
  None = None
  Runs <- MCRuns
  MaxTabs = 2
  ToServer = 1
  ToClient = 1
INVARIANTS TabsCoherent LiveIsOffered
PROPERTIES GoneIsNoticed EndedIsFrozen SelectedStreams
