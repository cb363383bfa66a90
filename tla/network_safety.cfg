SPECIFICATION Spec
CONSTANTS
  Tasks = {t1, t2}
  Nets = {n1, n2}
  NetNames = {"default", "backend"}
  DefaultName = "default"
  NoNet = noNet
  Services = {s1, s2}
  Names = {web, api}
  None = none
  Issued = {"create", "delete", "join", "leave", "ingress", "forget"}
  Faults = {"restart"}
INVARIANTS MapsAgree StoreAgrees NoDanglingNetwork
PROPERTIES IngressIsCurrent
SYMMETRY Symmetry
CHECK_DEADLOCK FALSE
