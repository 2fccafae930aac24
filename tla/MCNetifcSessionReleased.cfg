CONSTANTS
  d1 = d1
  d2 = d2
  a1 = a1
  a2 = a2
  a3 = a3
  NoDev = NoDev
  Devices <- MCDevices
  Candidates <- MCCandidates
  Addrs <- MCAddrs
  Wanted <- MCWanted
  MaxMcast <- MCMaxMcast
  HandleCap = 2
  OtherHeld = {}
  Faults = FALSE
  MaxOpens = 3
SPECIFICATION Spec
INVARIANT
  SessionReleased
