SPECIFICATION Spec
CONSTANTS
  Nothing = Nothing
  NaN = NaN
  Pending = Pending
  Failed = Failed
  Brands <- MCBrands
  AtStopRadius2 = 1
  FirstJourney = "j1"
  Journeys = {"j1", "j2"}
  Plans <- MCPlans
  Places = {0, 3}
  Delays = {0, 900}
  Speeds <- MCSpeeds
  Nows <- MCNows
  MaxChanges = 2
  MaxPolls = 1
INVARIANTS LiveIsHeard EndedIsFrozen StandingListed CountdownsExact QuietIsTrue
