SPECIFICATION Spec
CONSTANTS
  None = None
  Bad = Bad
  Unparsable = {2}
  MaxFeed = 3
  MaxDay = 2
  MaxCrash = 2
INVARIANTS MetaNeverAhead NeverBackwards StopsCurrent
PROPERTIES EventuallyFresh
