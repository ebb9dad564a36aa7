SPECIFICATION Spec
CONSTANTS
  s1 = s1
  s2 = s2
  s3 = s3
  t = t
  Sessions <- ThreeSessions
  Tasks <- OneTask
  Stays = s1
  MaxAlive = 2
  MaxMatch = 2
  MaxCrashes = 2
  MaxFails = 1
INVARIANT NoTaskIsLost
PROPERTIES DueTasksFire SplitHeals
