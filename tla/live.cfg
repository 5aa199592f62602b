SPECIFICATION Spec
CONSTANTS
  Vehicles = {"bus", "train"}
  Trains = {"train"}
  Lines = {"l1", "l2"}
  Journeys = {"j1", "j2"}
  Days = {"d1", "d2"}
  Places = {"p1"}
  Delays = {0, 60}
  Trips = {"x1", "x2", "x3"}
  TripJourney <- MCTripJourney
  TripLine <- MCTripLine
  None = None
  StaleAfter = 0
  KeepCurve = 0
  Lag = 1
  Skew = 0
  MaxTime = 2
  Messages <- MCMessages
  Revisions <- MCRevisions
CONSTRAINT OneAtATime
INVARIANTS TypeOK PositionProvenance DelayHonest UpdateTracksHeard
PROPERTIES UpdatesRefine MatchIntegrity
