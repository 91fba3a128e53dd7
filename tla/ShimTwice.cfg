CONSTANTS
  Clients = {c1, c2}
  Remotes = {r0, r1}
  AuthRemote = r0
  Ports = {1, 2, 3}
  AuthPort = 1
  Patient = FALSE
  Faults = FALSE
  MaxBatch = 1
  MaxInbox = 1
SYMMETRY ClientSymmetry
SPECIFICATION Spec
INVARIANT OneShimPerAddress
