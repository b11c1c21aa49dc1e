CONSTANTS
  Clients = {driver, host, another}
  Driver = driver
  Sizes = 3
  MaxPorts = 2
SPECIFICATION FairSpec
INVARIANTS
  DeviceIsOwned
  SuccessIsClean
PROPERTIES
  LeaseSpec
  CancelEnds
  AttachEnds
CHECK_DEADLOCK FALSE
