SPECIFICATION Spec
CONSTANTS
  s1 = s1
  s2 = s2
  Strategies = {s1, s2}
  Values = {0, 1, 20}
  Held = {0, 1}
  K = 2
  Requests <- MCRequests
  Databases <- MCDatabases
  Unknown = Unknown
  Hour = 3
  MinTwapWindow = 72
  MaxTwapAge = 6
  LastSecond = 83
  MaxDisturbances = 1
INVARIANTS AsIfAtOnce HandlerNeverFallsBack PayloadLastsAnHour
CHECK_DEADLOCK FALSE
