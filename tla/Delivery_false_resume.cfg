SPECIFICATION Spec
CONSTANTS
  Clients = {"c1"}
  Devices = {"d1"}
  DeviceOf <- OneClient
  MaxEvents = 3
  MaxDevices = 2
  MaxPublished = 4
  MaxPrivate = 0
  MaxDrops = 2
  MaxRestarts = 1
CHECK_DEADLOCK FALSE
INVARIANT CaughtUpIsComplete
