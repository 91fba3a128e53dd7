CONSTANTS
  Clients = {c1}
  Remotes = {r0, r1}
  AuthRemote = r0
  Ports = {1, 2}
  AuthPort = 1
  Patient = FALSE
  Faults = TRUE
  MaxBatch = 1
  MaxInbox = 1
SPECIFICATION Spec
INVARIANT RedirectsLive
