CONSTANTS
  Node = {1, 2}
  Job = {j1, j2, j3}
  NoJob = NoJob
  Kinds = {"invite", "redeem", "accept", "lan", "open", "forget", "switch", "group", "trust"}
  MaxBusy = 2
  MaxAddress = 5
  MaxOpen = 1
  MaxFaults = 1
SYMMETRY Jobs
CHECK_DEADLOCK FALSE
SPECIFICATION Spec
INVARIANT AddressesDistinct
INVARIANT InviteSpent
 
