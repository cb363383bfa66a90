SPECIFICATION Spec
CONSTANTS
  Tasks = {t1, t2}
  ServiceType = "http"
  Ports = {p1, p2}
  NoPort = noPort
  MinReplicas = 1
  Targets = {0, 2}
  Issued = {"start", "stop", "scale", "delete", "detail", "route"}
  Disconnects = TRUE
INVARIANTS DeletedStaysDead RunningListens
PROPERTY LifecycleSpec
