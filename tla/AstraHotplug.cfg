SPECIFICATION FairSpec
CONSTANTS
  Procs = {p, q}
  Serials = {s, t}
  AnySerial = AnySerial
  None = None
  Wants = {s, AnySerial}
  MaxPlugs = 2
  MaxCrashes = 1
  MaxFailures = 1
INVARIANTS
  TypeOK
  NodeOnOwnDevice
PROPERTIES
  MutexReleased
