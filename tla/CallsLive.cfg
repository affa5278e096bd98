CONSTANTS
  ana = ana
  bob = bob
  a1 = a1
  a2 = a2
  a3 = a3
  b1 = b1
  Users <- AllUsers
  Devices <- OnePlusOne
  Owner <- OwnerOnePlusOne
  MaxDevices = 2
  Grace = 1
  MaxCalls = 2
  MaxTime = 1
  MaxOps = 1
  MaxFaults = 1
  MaxBusy = 2
SPECIFICATION FairSpec
INVARIANT KeyWhileActive
PROPERTIES ImplementsLifecycle EndedKeyShredded Converges
CHECK_DEADLOCK FALSE
