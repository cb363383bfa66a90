SPECIFICATION FairSpec
CONSTANTS
  Tasks = {t1, t2}
  Nets = {n1, n2}
  NetNames = {"default"}
  DefaultName = "default"
  NoNet = noNet
  Services = {s1}
  Names = {web}
  None = none
  Issued = {"create", "delete", "join", "leave"}
  Faults = {"hangup", "store"}
PROPERTIES CallsReturn
