SPECIFICATION Spec
CONSTANTS
  i1 = i1
  i2 = i2
  i3 = i3
  Ids = {i1, i2, i3}
  db = db
  api = api
  Names = {db, api}
  c1 = c1
  c2 = c2
  Code = {c1, c2}
  NoCode = noCode
  p = p
  q = q
  Projects = {p, q}
  NoProject = noProject
  back = back
  Networks = {back}
  data = data
  Volumes = {data}
  Mortars = {}
  NoId = noId
  Issued = {"run"}
  Faults = {}
  MaxRequests = 2
INVARIANT DigestNamesCode
CHECK_DEADLOCK FALSE
