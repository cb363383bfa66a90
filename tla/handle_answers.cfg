SPECIFICATION FairSpec
CONSTANTS
  Tasks = {t1, t2, t3}
  ServiceType = "http"
  Ports = {p1, p2}
  NoPort = noPort
  MinReplicas = 1
  Targets = {1}
  Issued = {"start", "stop", "delete", "detail"}
  Disconnects = FALSE
INVARIANT NoLeakedPort
PROPERTIES RequestsAnswered StopCompletes
