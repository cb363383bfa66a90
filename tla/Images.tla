------------------------------- MODULE Images -------------------------------
(***************************************************************************)
(* What happens to the code of a project on its way from its sources to a  *)
(* service: fabricks build, push, pull and run (fabricks/src/commands),    *)
(* the registry client and module type of fabricks-oci, and the daemon's   *)
(* run_module.  Every command takes the local storage as one step here;    *)
(* LocalStorage shows what happens between the writes of one.  The bytes   *)
(* of a layer are named by the project whose code they are.                *)
(***************************************************************************)
EXTENDS Integers, Sequences

CONSTANTS
  Projects,     \* directories with a Fabrickfile, which have different names
  Tags,         \* references in the local storage
  Remote,       \* references in registries
  PlainTags,    \* those without a "/"
  DefaultTag,   \* project -> name:version
  Ways,         \* project -> how its Fabrickfile may have it built
  BaseTag,      \* what [from] of a composed or interpreted project refers to
  Published,    \* images that other tools may have put in a registry
  RunTasks,     \* requests to run a module that the daemon can have at once
  NoImage       \* no image, no service

Code == [type : {"runtime", "module", "source"}, code : Projects]

\* The layers that are no runtime hold the code of one project, and there are some.
IsOf(layers, p) == {l.code : l \in {layers[n] : n \in {k \in DOMAIN layers :
                                                       layers[k].type # "runtime"}}} = {p}

ASSUME ImagesAssumption ==
  /\ PlainTags \subseteq Tags /\ BaseTag \in Tags /\ DefaultTag \in [Projects -> PlainTags]
  /\ Ways \in [Projects -> SUBSET {"compiled", "composed", "interpreted"}]
  /\ Published \subseteq [config : Projects, layers : Seq(Code), cut : {FALSE}]
  /\ \A i \in Published : Len(i.layers) \in 1..2 /\ IsOf(i.layers, i.config)
  /\ NoImage \notin [config : Projects, layers : Seq(Code), cut : BOOLEAN]

VARIABLES
  builds,      \* project -> how its Fabrickfile has it built
  local,       \* tag -> image in the local storage
  registry,    \* remote reference -> image
  asked,       \* tags the daemon has been asked to run
  loaded,      \* request -> the image it has loaded
  written,     \* requests whose files are written, which wait for the manager
  wasmFile,    \* project -> the image <project>.wasm was written from
  appDir,      \* project -> whose sources are in <project>-app
  running      \* project -> the service under its name: the image its
               \* configuration is of, and the one its file was written from

storedVars == <<builds, local, registry>>
runVars == <<asked, loaded, written, wasmFile, appDir, running>>
imageVars == <<storedVars, runVars>>

StoredInit ==
  /\ builds \in [Projects -> {"compiled", "composed", "interpreted"}]
  /\ \A p \in Projects : builds[p] \in Ways[p]
  /\ local = [t \in Tags |-> NoImage]
  /\ registry \in [Remote -> Published \cup {NoImage}]

RunsInit ==
  /\ asked = {} /\ loaded = [t \in RunTasks |-> NoImage] /\ written = {}
  /\ wasmFile = [p \in Projects |-> NoImage] /\ appDir = [p \in Projects |-> {}]
  /\ running = [p \in Projects |-> NoImage]

ImagesInit == StoredInit /\ RunsInit

-----------------------------------------------------------------------------
(* FabricksModule.  "cut" is history: a push or a pull has left out layers. *)

Layer(type, code) == [type |-> type, code |-> code]

\* FabricksModule::new: the user's WASM as the only layer.
NewModule(p, code, cut) ==
  [config |-> p, layers |-> <<Layer("module", code)>>, cut |-> cut]

\* with_runtime_layer, new_interpreted: a runtime, and then the project's own.
OnRuntime(p, r, type) ==
  [config |-> p, layers |-> <<Layer("runtime", r), Layer(type, p)>>, cut |-> FALSE]

Positions(layers, type) == {n \in DOMAIN layers : layers[n].type = type}
HasType(layers, type) == Positions(layers, type) # {}
FirstOf(layers, type) ==
  layers[CHOOSE n \in Positions(layers, type) :
           \A m \in Positions(layers, type) : n <= m].code

\* mutant: the first layer, whatever it is
FirstLayer(layers) == Head(layers).code

\* wasm_bytes: the module layer, or the last one if there is none.
WasmBytes(layers) ==
  IF HasType(layers, "module") THEN FirstOf(layers, "module") ELSE layers[Len(layers)].code

\* load_base_image, load_runtime_image: the runtime layer of what a tag leads
\* to, or its module layer; nothing if it has neither or is not there.
RuntimeUnder(tag) ==
  LET layers == local[tag].layers IN
  IF local[tag] = NoImage THEN {}
  ELSE IF HasType(layers, "runtime") THEN {FirstOf(layers, "runtime")}
  ELSE IF HasType(layers, "module") THEN {FirstOf(layers, "module")} ELSE {}

-----------------------------------------------------------------------------
(* fabricks build: a compiler may fail, and the command with it.            *)

StoreImage(tag, image) ==
  local' = [local EXCEPT ![tag] = image] /\ UNCHANGED <<builds, registry>>

\* A compiled module, with the base image before it if there is one.
BuildCompiled(p, tag) ==
  /\ \/ builds[p] = "compiled" /\ StoreImage(tag, NewModule(p, p, FALSE))
     \/ /\ builds[p] = "composed"
        /\ \E r \in RuntimeUnder(BaseTag) : StoreImage(tag, OnRuntime(p, r, "module"))
  /\ UNCHANGED runVars

\* No compilation: the interpreter that was found and the sources.
BuildInterpreted(p, tag) ==
  /\ builds[p] = "interpreted"
  /\ \E r \in RuntimeUnder(BaseTag) : StoreImage(tag, OnRuntime(p, r, "source"))
  /\ UNCHANGED runVars

-----------------------------------------------------------------------------
(* fabricks push and pull.                                                  *)

\* The client pushes a module with all its layers, and pulls one with all of
\* them; it refuses one without a runtime or module layer.
Publish(ref, module) ==
  /\ registry' = [registry EXCEPT ![ref] = module] /\ UNCHANGED <<builds, local, runVars>>
Pullable(i) == i # NoImage /\ (HasType(i.layers, "module") \/ HasType(i.layers, "runtime"))

\* But load_local_module takes the first layer, and a module of it is pushed, ...
PushImage(tag, ref) ==
  LET i == local[tag] IN
  /\ i # NoImage
  /\ Publish(ref, NewModule(i.config, Head(i.layers).code, i.cut \/ Len(i.layers) > 1))

\* ... and what wasm_bytes returns is stored of what was pulled.  Without
\* --tag it is stored under the name and version of the module.
PullImage(ref, tag) ==
  LET i == registry[ref] IN
  /\ Pullable(i)
  /\ StoreImage(tag, NewModule(i.config, WasmBytes(i.layers), i.cut \/ Len(i.layers) > 1))
  /\ UNCHANGED runVars

-----------------------------------------------------------------------------
(* fabricks run and fabricks service run, and run_module in the daemon.     *)

\* resolve_from_storage finds it.
Cached(tag) == local[tag] # NoImage

Ask(tag) ==
  asked' = asked \cup {tag} /\ UNCHANGED <<loaded, written, wasmFile, appDir, running>>

\* A tag of the local storage; one with a "/" is refused.
RunTag(tag) ==
  /\ tag \in PlainTags /\ Cached(tag)
  /\ Ask(tag) /\ UNCHANGED storedVars

\* build_module: by a compiler, however the project has it built.
BuildModule(p) == NewModule(p, p, FALSE)

\* A path: what is stored under its name and version runs, however old it is;
\* if there is nothing it is built, without a base.
RunPath(p) ==
  /\ Ask(DefaultTag[p])
  /\ IF Cached(DefaultTag[p]) THEN UNCHANGED storedVars
     ELSE StoreImage(DefaultTag[p], BuildModule(p))

\* With a runtime and sources the runtime runs, and the sources are mounted;
\* otherwise the module runs by itself.
Interpreted(layers) == HasType(layers, "runtime") /\ HasType(layers, "source")
WasmOf(layers) ==
  IF Interpreted(layers) THEN FirstOf(layers, "runtime") ELSE WasmBytes(layers)
SourcesOf(layers) ==
  IF Interpreted(layers) THEN {layers[n].code : n \in Positions(layers, "source")} ELSE {}

\* The image is read when the request arrives: it is there or the request fails.
RunLoads(t, tag) ==
  /\ tag \in asked /\ loaded[t] = NoImage
  /\ asked' = asked \ {tag} /\ loaded' = [loaded EXCEPT ![t] = local[tag]]
  /\ UNCHANGED <<storedVars, written, wasmFile, appDir, running>>

\* Its files have the project's name, whatever tag it was asked for by; what
\* is in <project>-app stays there.
RunWrites(t) ==
  LET i == loaded[t] IN
  /\ i # NoImage /\ t \notin written /\ written' = written \cup {t}
  /\ wasmFile' = [wasmFile EXCEPT ![i.config] = i]
  /\ appDir' = [appDir EXCEPT ![i.config] = @ \cup SourcesOf(i.layers)]
  /\ UNCHANGED <<storedVars, asked, loaded, running>>

\* With the manager locked: a network that is not there or a name in use is
\* refused, and create_service reads the file, whoever has written it last.
RunCreates(t) ==
  LET i == loaded[t] p == i.config IN
  /\ t \in written /\ written' = written \ {t}
  /\ loaded' = [loaded EXCEPT ![t] = NoImage]
  /\ \/ running' = running
     \/ /\ running[p] = NoImage
        /\ running' = [running EXCEPT ![p] = [image |-> i, file |-> wasmFile[p]]]
  /\ UNCHANGED <<storedVars, asked, wasmFile, appDir>>

RemoveImageService(p) ==
  /\ running[p] # NoImage /\ running' = [running EXCEPT ![p] = NoImage]
  /\ UNCHANGED <<storedVars, asked, loaded, written, wasmFile, appDir>>

StoredNext ==
  \E tag \in Tags :
    \/ \E p \in Projects : BuildCompiled(p, tag) \/ BuildInterpreted(p, tag)
    \/ \E ref \in Remote : PushImage(tag, ref) \/ PullImage(ref, tag)

RunsNext ==
  \/ \E tag \in Tags : RunTag(tag) \/ \E t \in RunTasks : RunLoads(t, tag)
  \/ \E t \in RunTasks : RunWrites(t) \/ RunCreates(t)
  \/ \E p \in Projects : RunPath(p) \/ RemoveImageService(p)

ImagesNext == StoredNext \/ RunsNext

ImagesSpec == ImagesInit /\ [][ImagesNext]_imageVars

-----------------------------------------------------------------------------
(* Properties.                                                              *)

\* A service whose files another request of its name may have written: what
\* runs is the project's, or an interpreter that the project's sources are
\* mounted for.
Runs(s, p) ==
  \/ WasmOf(s.file.layers) = p
  \/ Interpreted(s.image.layers) /\ p \in appDir[p]

\* Its request mounted nothing, but the file is an interpreter by now.
Bare(s) == Interpreted(s.file.layers) /\ ~Interpreted(s.image.layers)

\* Wherever an image has been built, tagged, pushed, pulled and run, it holds
\* the code of the project its configuration names, and so does the service
\* made from it, unless it had several layers when it was pushed or pulled.
\* Requests of one name that cross exchange their files: a service then runs
\* another image of the same project, which is its code too unless that
\* image lost layers or is an interpreter and the request mounted nothing.
CodeFollowsConfig ==
  /\ \A i \in {local[t] : t \in Tags} \cup {registry[r] : r \in Remote} :
       i # NoImage /\ ~i.cut => IsOf(i.layers, i.config)
  /\ \A p \in Projects :
       LET s == running[p] IN
       s # NoImage => s.file.cut \/ Bare(s) \/ Runs(s, p)

=============================================================================
