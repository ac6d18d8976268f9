CONSTANTS
  Watched = {p1, p2}
  Waits = {w1}
  MinDones = {1, 3}
  MayTimeOut = TRUE
  Managers = {m1, m2}
  None = None
  MaxCount = 2
  MinCount <- MCMinCount
  InitDelay = 10
  MaxDelay = 100
  ScaleNum = 3
  ScaleDen = 2
SPECIFICATION ClientSpec
\* Behaviours end when every wait has returned and every manager is gone.
CHECK_DEADLOCK FALSE
INVARIANTS
  TrueMeansEnough
  ServicesFollowCount
  TimersDieInTime
PROPERTIES
  EnoughEndsWait
  CleanupEnds
  FailsLateInBackoff
