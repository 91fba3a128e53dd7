CONSTANTS
  Clients = {c1}
  Remotes = {r0, r1}
  AuthRemote = r0
  Ports = {1, 2, 3}
  AuthPort = 1
  Patient = TRUE
  Faults = FALSE
  MaxBatch = 2
  MaxInbox = 2
SPECIFICATION Spec
INVARIANTS TypeOK RedirectsLive AddrsSound SessionsMatch NoOrphan
