SPECIFICATION Spec
CONSTANTS
  Tasks = {t1, t2, t3}
  ServiceType = "command"
  Ports = {}
  NoPort = noPort
  MinReplicas = 2
  Targets = {0, 1, 3}
  Issued = {"start", "stop", "scale", "delete", "detail"}
  Disconnects = FALSE
SYMMETRY TaskSymmetry
INVARIANTS TypeOK ReplicaAccounting StoreIsCurrent
CHECK_DEADLOCK FALSE
