CONSTANTS
  Clients = {c1}
  Remotes = {r0, r1}
  AuthRemote = r0
  Ports = {1, 2}
  AuthPort = 1
  Patient = TRUE
  Faults = TRUE
  MaxBatch = 1
  MaxInbox = 2
SPECIFICATION FairSpec
INVARIANTS AddrsSound NoOrphan
PROPERTIES Answered GoodbyeHeard
