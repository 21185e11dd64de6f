SPECIFICATION Drivers
CONSTANTS
  Caller = {c1, c2}
  Lights <- MCLights
  Mode = {"GREEN", "RED"}
  Field = {0, 3}
  Garbage <- MCGarbage
  User = {1}
  Fans = {1, 2}
  FanReading = {1, 2}
  Percent = {300}
  Sensors = {1, 2}
  TempReading <- MCTempReading
  Limit <- MCLimit
  Temps = {9}
  EEPROM_SIZE = 6
  ReadLen = 2
  FruSize = 6
  Piu = {4, 5}
  Others = {6}
  FPGA_SIZE = 1
  Errno <- MCErrno
SYMMETRY CallerSymmetry
INVARIANTS DriversTypeOK CacheServes SuccessIsTrue ShowsRecent ReadsInOrder
PROPERTIES OnlyStoresAreLost StoresAsAsked
