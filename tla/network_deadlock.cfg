SPECIFICATION FairSpec
CONSTANTS
  Tasks = {t1, t2}
  Nets = {n1, n2}
  NetNames = {"default", "backend"}
  DefaultName = "default"
  NoNet = noNet
  Services = {s1, s2}
  Names = {web}
  None = none
  Issued = {"create", "join", "ingress"}
  Faults = {}
PROPERTIES CallsReturn
CHECK_DEADLOCK FALSE
