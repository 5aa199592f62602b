SPECIFICATION Spec
CONSTANTS
  Sockets = {"s1", "s2", "s3"}
  Wishes = {"w1", "w2"}
  None = None
  Heartbeat = TRUE
  Longest = 2
  MaxFaults = 3
INVARIANT OpenIsWatched
