SPECIFICATION Spec
CONSTANTS
  Subjects = {x, y}
  None = None
  Pending = Pending
  MaxTrip = 2
  MaxFlight = 2
INVARIANTS AnswersFit AsksOnce
PROPERTIES DetailFollows PlanFollows SpinnersEnd
