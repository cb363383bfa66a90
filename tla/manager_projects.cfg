SPECIFICATION Spec
CONSTANTS
  i1 = i1
  i2 = i2
  i3 = i3
  Ids = {i1, i2, i3}
  db = db
  api = api
  Names = {db, api}
  Code = {c1}
  NoCode = noCode
  p = p
  q = q
  Projects = {p, q}
  NoProject = noProject
  back = back
  Networks = {back}
  data = data
  Volumes = {data}
  Mortars <- AllMortars
  NoId = noId
  Issued = {"create", "run", "start", "stop", "delete", "deploy", "teardown"}
  Faults = {"store", "hangup", "restart", "api"}
  MaxRequests = 1
INVARIANTS NamesUnique ProjectsAgree DeployAllOrNothing TornDownIsGone
PROPERTIES DependenciesStartFirst TeardownKeepsDependencies
SYMMETRY Symmetry
CHECK_DEADLOCK FALSE
