CONSTANTS
  ana = ana
  bob = bob
  a1 = a1
  a2 = a2
  a3 = a3
  b1 = b1
  Users <- OneUser
  Devices <- ThreeOfOne
  Owner <- OwnerThreeOfOne
  MaxDevices = 2
  Grace = 1
  MaxCalls = 2
  MaxTime = 1
  MaxOps = 2
  MaxFaults = 0
  MaxBusy = 2
SPECIFICATION Spec
SYMMETRY DevicesSymmetry
INVARIANTS TypeOK CallsDoNotOverlap AdmittedDeviceLimit KeyWhileActive
PROPERTIES NoSilentEnd ImplementsLifecycle
CHECK_DEADLOCK FALSE
