SPECIFICATION LSpec
CONSTANTS
  Vehicles = {"bus"}
  Trains = {}
  Lines = {}
  Journeys = {"j1"}
  Days = {}
  Places = {"p1"}
  Delays = {0}
  Trips = {}
  TripJourney <- NoTrips
  TripLine <- NoTrips
  None = None
  StaleAfter = 0
  KeepCurve = 1
  Lag = 0
  Skew = 1
  MaxTime = 5
  Messages <- LoopMessages
  Revisions <- CurveRevisions
  SweepEvery = 2
  SnapEvery = 1
  UpkeepEvery = 2
  Behind = 1
  Bad = Bad
  MaxCrash = 1
INVARIANTS SilentGoes OldCurveGoes
