SPECIFICATION Spec
CONSTANTS
  Devices = {d1, d2, d3}
  Machines = {m1, m2}
  MaxPaired = 2
  Faults = {"store", "push"}
  MaxSecrets = 3
  MaxRestarts = 1
SYMMETRY Symmetry
CHECK_DEADLOCK FALSE
INVARIANTS AdmissionsBounded RevokeStands TrustAgrees
