CONSTANTS
  Clients = {driver, host, another}
  Driver = driver
  Sizes = 3
  MaxPorts = 2
SPECIFICATION Spec
INVARIANTS
  OthersUntouched
CHECK_DEADLOCK FALSE
