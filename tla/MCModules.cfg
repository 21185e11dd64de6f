SPECIFICATION Modules
CONSTANTS
  Proc = {p1, p2}
  NoProc = NoProc
  Pairs = 1
  Page = {0, 2, 4, 12}
  Nib = {0, 1, 2, 3}
  Request <- MCRaw
  Unprivileged = {p1, p2}
  Module = {"aco", "dco", "qsfp28"}
  Handler = {"cfp2_exists", "mcu_version", "piu_temp", "cfp2_read", "eeprom",
             "open", "init", "access", "access_cfp2"}
  Reads = 1
SYMMETRY MCSymmetry
CONSTRAINT UntilStray
CHECK_DEADLOCK FALSE
INVARIANTS ModulesTypeOK AccessHits ShowsInForce SimulatedOutIsSilent UndisturbedAnswer
PROPERTY ChangesAsAsked
