SPECIFICATION MCSpec
CONSTANTS
  base = base
  manifest1 = manifest1
  manifest2 = manifest2
  Modules <- MCModules
  Refs = {ref}
  Writers = {w1, w2}
  NoModule = noModule
  Torn = torn
  Subscribers = {plain, filtered}
  Filter = {filtered}
  Publishers = {p1, p2}
  BufferSize = 1
  MaxHistory = 1
  MaxEvents = 4
  NoEvent = noEvent
  VolumeIds = {v1, v2, v3}
  VolumeNames = {data, cache}
  Users = {user}
  Callers = {c1, c2}
  NoVolume = noVolume
  Checked = {s1, s2}
  Checkers = {loop, now}
  Loop = loop
  HistoryLength = 2
  MaxFailures = 3
  NoService = noService
  web = web
  db = db
  webName = webName
  dbName = dbName
  Clients = {web, db}
  Outside = {ext}
  NameOfId <- MCNameOfId
  Grants <- MCGrants
  AnyHost = any
  Networks = {net}
  Mortars = {mortar}
  Members <- MCMembers
  Rules <- MCRules
  Loaders = {loader}
  Nobody = nobody
  Scalable = {scaled}
  MinReplicas = 2
  MaxReplicas <- MCMaxReplicas
  MostReplicas = 5
  Nothing = nothing
  a = a
  b = b
  c = c
  vol = vol
  Files <- MCFiles
  out1 = out1
  err1 = err1
  out2 = out2
  Outputs = {out1, err1, out2}
  Kind <- MCKind
  Capacity = 2
  MaxChars = 2
  Daemons = {d1, d2, d3}
  MaxRequests = 1
  NoDaemon = noDaemon
  Digests = {dig1, dig2, dig3}
  Fetchers = {f1, f2}
  MaxModules = 2
  NoDigest = noDigest
  varX = varX
  varY = varY
  other = other
  VariableNames <- MCVariables
  Other = other
  Environments <- MCEnvironments
  Texts <- MCTexts
  app = app
  rt = rt
  appTag = appTag
  rtTag = rtTag
  baseTag = baseTag
  Projects = {app, rt}
  Tags = {appTag, rtTag, baseTag}
  PlainTags = {appTag, rtTag}
  Remote = {remote}
  DefaultTag <- MCDefaultTag
  Ways <- MCWays
  BaseTag = baseTag
  Published <- MCPublished
  RunTasks = {r1, r2}
  NoImage = noImage
INVARIANTS IndexedIsPresent NoGaps VolumeNamesUnique HealthIsRegistered RefusalsHold VerdictsAgree OutputInOrder SocketIsServed PoolBounded ResolvesOnce CodeFollowsConfig
PROPERTIES LoadsFailForAReason MountedStays ScalerStaysInBounds
CHECK_DEADLOCK FALSE
