SPECIFICATION StickSpec
CONSTANTS
  Axes = {x, y}
  Readings = {1, 2, 5, 8}
  Deadzone = 3
  Tolerance = 1
  RecenterMs = 4
  RampMs = 4
  TimerMod = 16
  ScanMs = {1, 3}
INVARIANT StickTypeOK
PROPERTIES
  RecentersOnlyAtRest
  SpeedKeptInTimer
  RestMeansStill
