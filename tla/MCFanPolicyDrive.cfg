CONSTANTS
  Psu = {1, 2}
  Sensor = {2, 4}
  Temp <- MCTemp
  Tuning <- MCTuning
  Faults = FALSE
SPECIFICATION Policy
INVARIANT DriveWarned
