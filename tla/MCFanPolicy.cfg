CONSTANTS
  Psu = {1, 2}
  Sensor = {2, 4}
  Temp <- MCTemp
  Tuning <- MCTuning
  Faults = TRUE
SPECIFICATION Policy
INVARIANTS TypeOK AlarmIsMaximum FansFollow
PROPERTIES CalmBeforeSlower Settled
