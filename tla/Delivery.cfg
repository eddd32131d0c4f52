SPECIFICATION FairSpec
CONSTANTS
  Clients = {"c1", "c2"}
  Devices = {"d1"}
  DeviceOf <- OneDevice
  MaxEvents = 2
  MaxDevices = 1
  MaxPublished = 2
  MaxPrivate = 1
  MaxDrops = 1
  MaxRestarts = 1
CHECK_DEADLOCK FALSE
INVARIANTS TypeOK OwnCheckpointIsComplete DedupExact
PROPERTY EventuallyInformed
