SPECIFICATION Spec
CONSTANTS
  i1 = i1
  i2 = i2
  i3 = i3
  Ids = {i1, i2, i3}
  db = db
  api = api
  Names = {db, api}
  Code = {c1}
  NoCode = noCode
  p = p
  q = q
  Projects = {p, q}
  NoProject = noProject
  back = back
  Networks = {back}
  data = data
  Volumes = {data}
  Mortars <- JustApp
  NoId = noId
  Issued = {"create", "run", "deploy"}
  Faults = {"api"}
  MaxRequests = 2
INVARIANT MountedVolumesExist
CHECK_DEADLOCK FALSE
