SPECIFICATION Spec
CONSTANTS
  Nothing = Nothing
  NaN = NaN
  Brands <- MCBrands
  AtStopRadius2 = 0
  Operators = {"GVB"}
  WebThemes <- MCThemes
  DarkThemes = {"eclipse", "dark"}
  Vehicles = {"a", "b"}
  Labels = {"x"}
  Places = {0, 1}
  Cameras = {0, 2}
  Calls <- MCCalls
  Now = 37000
  Stops <- MCStops
  Limit = 2
  Home = 0
  Disks <- MCDisks
  MaxActs = 3
CONSTRAINT Chosen
CHECK_DEADLOCK FALSE
INVARIANTS HeardIsWished SettingsSurvive DrawnIsCurrent StopsOfView FollowedIsCentred
