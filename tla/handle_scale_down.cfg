SPECIFICATION FairSpec
CONSTANTS
  Tasks = {t1}
  ServiceType = "command"
  Ports = {}
  NoPort = noPort
  MinReplicas = 2
  Targets = {1}
  Issued = {"start", "scale", "detail"}
  Disconnects = FALSE
PROPERTY ScaleCompletes
CHECK_DEADLOCK FALSE
