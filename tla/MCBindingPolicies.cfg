CONSTANTS
  u = u
  ru1 = ru1
  ru2 = ru2
  rs = rs
  cw = cw
  b1 = b1
  None = None
  RemoteUsers = {ru1, ru2}
  Users = {u}
  UserOf <- MCUserOf
  Branches = {b1}
  RemoteSyncers = {rs}
  ClusterWideRemoteSyncers = {cw}
  Annotations <- MCAnnotations
  UpstreamOf <- MCUpstreamOf
  OwnBindings <- MCOwnBindings
  SecretStates = {"NotFound", "Bound"}
  MaxAttempts = 2
  MaxLag = 2
  MaxChanges = 3
  MaxDisturbances = 1
SPECIFICATION Spec
SYMMETRY RemoteUserSymmetry
INVARIANTS
  TypeOK
  SelfHealing
  Converged
  StatusesCurrent
  FinalizersExact
CHECK_DEADLOCK FALSE
