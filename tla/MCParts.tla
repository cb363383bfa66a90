------------------------------ MODULE MCParts -------------------------------
(***************************************************************************)
(* The parts of the system that share no state with the others, and are    *)
(* small enough to be checked side by side: one run, in which a behaviour  *)
(* is one of one part while the rest stay in their initial states.         *)
(***************************************************************************)
EXTENDS LocalStorage, EventBus, VolumeManager, HealthMonitor, Connection,
        AutoScaler, MortarFile, LogCapture, Daemon, RuntimePool, VariableResolver,
        Images

CONSTANTS
  base, manifest1, manifest2,                   \* blobs
  web, db, webName, dbName,                     \* services of a connection
  a, b, c, vol,                                 \* services and a volume of a file
  out1, err1, out2,                             \* outputs of two instances
  varX, varY, other,                            \* variables, and text between them
  app, rt, appTag, rtTag, baseTag               \* an application, a runtime, tags

VARIABLE part   \* the part that takes steps

allVars == <<part, storageVars, busVars, volumeVars, healthVars, connectionVars,
             scalerVars, fileVars, logVars, daemonVars, poolVars, resolverVars,
             imageVars>>

-----------------------------------------------------------------------------
(* Two modules that share a layer.                                          *)
MCModules == {<<base, manifest1>>, <<base, manifest2>>}

(* Two services of a project: web may connect to everything, db to web; web *)
(* is denied db, or everybody everything but what has to do with db.        *)
MCNameOfId == [s \in Clients |-> IF s = web THEN webName ELSE dbName]
MCGrants == [s \in Clients |-> IF s = web THEN {AnyHost} ELSE {webName}]
MCMembers == [m \in Mortars |-> Clients]
MCRules ==
  { {[from |-> {webName}, to |-> {dbName}, except |-> Nobody]},
    {[from |-> Nobody, to |-> {AnyHost}, except |-> {db}]} }

MCMaxReplicas == [s \in Scalable |-> 3]

(* Every dependency graph on three services; and smaller files that vary in *)
(* what they build from, mount, depend on, call their services and refer to *)
(* in their environments.                                                   *)
FileService(key, name, source, mounts, deps, resolves) ==
  [key |-> key, name |-> name, source |-> source, networks |-> {}, mounts |-> mounts,
   deps |-> deps, resolves |-> resolves]
FileOf(wellFormed, list) ==
  [wellFormed |-> wellFormed, networks |-> {}, volumes |-> {vol}, services |-> list]
MCFiles ==
  {FileOf(TRUE, <<FileService(a, a, "build", {}, x, TRUE),
                  FileService(b, b, "build", {vol}, y, TRUE),
                  FileService(c, c, "build", {}, z, TRUE)>>) : x, y, z \in SUBSET {a, b, c}}
  \cup
  {FileOf(w, <<FileService(a, a, s, {}, x, r), FileService(b, n, "build", m, {}, TRUE)>>) :
     w \in BOOLEAN, r \in BOOLEAN, s \in {"build", "image", "both", "none"}, x \in SUBSET {a, b, c},
     n \in {b, c}, m \in {{}, {vol}, {c}}}

(* An output of each kind of one instance, and one of another.              *)
MCKind == [o \in Outputs |-> IF o = err1 THEN "stderr" ELSE "stdout"]

(* Texts of up to six tokens, a variable that has a value and one that has  *)
(* none; or one that stands for the other; or one that stands for nothing.  *)
MCVariables == {varX, varY}
MCTexts == UNION {[1..n -> MCVariables \cup {other, ":-", "}"}] : n \in 0..6}
MCEnvironments == {[v \in {varX} |-> <<other, other>>],
                   [v \in MCVariables |-> IF v = varX THEN <<varY, "}">> ELSE <<other>>],
                   [v \in MCVariables |-> IF v = varX THEN <<other>> ELSE <<>>]}

(* A runtime, and an application that is built in every way, or was put in a *)
(* registry with its layers by another tool.                                 *)
MCWays == [p \in Projects |->
             IF p = app THEN {"compiled", "composed", "interpreted"} ELSE {"compiled"}]
MCDefaultTag == [p \in Projects |-> IF p = app THEN appTag ELSE rtTag]
MCPublished == {[config |-> app, cut |-> FALSE,
                 layers |-> <<Layer("runtime", rt), Layer("source", app)>>]}

(* Requests are made of a store that holds whatever a build, push and pull   *)
(* can leave under the application's tag and another: the application alone, *)
(* on the runtime, with the runtime and its sources, one that lost those, or *)
(* nothing.                                                                  *)
MCImages == {NoImage, NewModule(app, app, FALSE), OnRuntime(app, rt, "module"),
             OnRuntime(app, rt, "source"), NewModule(app, rt, TRUE)}

SomeFile == CHOOSE f \in Files : TRUE
SomeText == <<>>
SomeEnvironment == CHOOSE env \in Environments : TRUE

-----------------------------------------------------------------------------
MCInit ==
  /\ part \in {"storage", "bus", "volumes", "health", "connection", "scaler",
              "file", "log", "daemon", "pool", "resolver", "images", "runs"}
  /\ StorageInit /\ BusInit /\ VolumesInit /\ HealthInit /\ ConnectionInit /\ ScalerInit
  /\ LogInit /\ DaemonInit /\ PoolInit
  /\ part # "volumes" => ~loads
  /\ IF part = "file" THEN FileInit
     ELSE file = SomeFile /\ FileInit
  /\ IF part = "resolver" THEN ResolverInit
     ELSE text = SomeText /\ variables = SomeEnvironment /\ ResolverInit
  /\ RunsInit
  /\ IF part # "runs" THEN StoredInit
     ELSE /\ local \in {[store EXCEPT ![baseTag] = NewModule(rt, rt, FALSE)] :
                         store \in [Tags -> MCImages]}
          /\ builds \in [Projects -> {"compiled"}] /\ registry \in [Remote -> {NoImage}]
  /\ part # "images" => /\ \A p \in Projects : builds[p] = "compiled"
                        /\ \A ref \in Remote : registry[ref] = NoImage

MCNext ==
  /\ UNCHANGED part
  /\ \/ /\ part = "storage" /\ StorageNext
        /\ UNCHANGED <<busVars, volumeVars, healthVars, connectionVars, scalerVars, fileVars,
                       logVars, daemonVars, poolVars, resolverVars, imageVars>>
     \/ /\ part = "bus" /\ BusNext
        /\ UNCHANGED <<storageVars, volumeVars, healthVars, connectionVars, scalerVars, fileVars,
                       logVars, daemonVars, poolVars, resolverVars, imageVars>>
     \/ /\ part = "volumes" /\ VolumesNext
        /\ UNCHANGED <<storageVars, busVars, healthVars, connectionVars, scalerVars, fileVars,
                       logVars, daemonVars, poolVars, resolverVars, imageVars>>
     \/ /\ part = "health" /\ HealthNext
        /\ UNCHANGED <<storageVars, busVars, volumeVars, connectionVars, scalerVars, fileVars,
                       logVars, daemonVars, poolVars, resolverVars, imageVars>>
     \/ /\ part = "connection" /\ ConnectionNext
        /\ UNCHANGED <<storageVars, busVars, volumeVars, healthVars, scalerVars, fileVars,
                       logVars, daemonVars, poolVars, resolverVars, imageVars>>
     \/ /\ part = "scaler" /\ ScalerNext
        /\ UNCHANGED <<storageVars, busVars, volumeVars, healthVars, connectionVars, fileVars,
                       logVars, daemonVars, poolVars, resolverVars, imageVars>>
     \/ /\ part = "file" /\ FileNext
        /\ UNCHANGED <<storageVars, busVars, volumeVars, healthVars, connectionVars, scalerVars,
                       logVars, daemonVars, poolVars, resolverVars, imageVars>>
     \/ /\ part = "log" /\ LogNext
        /\ UNCHANGED <<storageVars, busVars, volumeVars, healthVars, connectionVars, scalerVars,
                       fileVars, daemonVars, poolVars, resolverVars, imageVars>>
     \/ /\ part = "daemon" /\ DaemonNext
        /\ UNCHANGED <<storageVars, busVars, volumeVars, healthVars, connectionVars, scalerVars,
                       fileVars, logVars, poolVars, resolverVars, imageVars>>
     \/ /\ part = "pool" /\ PoolNext
        /\ UNCHANGED <<storageVars, busVars, volumeVars, healthVars, connectionVars, scalerVars,
                       fileVars, logVars, daemonVars, resolverVars, imageVars>>
     \/ /\ part = "resolver" /\ ResolverNext
        /\ UNCHANGED <<storageVars, busVars, volumeVars, healthVars, connectionVars, scalerVars,
                       fileVars, logVars, daemonVars, poolVars, imageVars>>
     \/ /\ part = "images" /\ StoredNext
        /\ UNCHANGED <<storageVars, busVars, volumeVars, healthVars, connectionVars, scalerVars,
                       fileVars, logVars, daemonVars, poolVars, resolverVars>>
     \/ /\ part = "runs" /\ RunsNext
        /\ UNCHANGED <<storageVars, busVars, volumeVars, healthVars, connectionVars, scalerVars,
                       fileVars, logVars, daemonVars, poolVars, resolverVars>>

MCSpec == MCInit /\ [][MCNext]_allVars
=============================================================================
