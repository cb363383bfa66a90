---------------------------- MODULE ImagesProofs ----------------------------
(***************************************************************************)
(* Proofs about the code of a project: for any number of projects, tags    *)
(* and registries, what carries a project's name holds its code, unless    *)
(* layers were left out on the way; and any number of requests to run them *)
(* may cross.                                                              *)
(***************************************************************************)
EXTENDS Images, TLAPS

Image == {i \in [config : Projects, layers : Seq(Code), cut : BOOLEAN] : Len(i.layers) \in 1..2}
Service == [image : Image, file : Image]

\* The right kind of value in every variable.
ImagesTypeOK ==
  /\ local \in [Tags -> Image \cup {NoImage}]
  /\ registry \in [Remote -> Image \cup {NoImage}]
  /\ asked \subseteq Tags
  /\ loaded \in [RunTasks -> Image \cup {NoImage}]
  /\ written \subseteq RunTasks
  /\ wasmFile \in [Projects -> Image \cup {NoImage}]
  /\ appDir \in [Projects -> SUBSET Projects]
  /\ running \in [Projects -> Service \cup {NoImage}]

\* An image, if it is complete, holds the code it should.
GoodImage(i) == i # NoImage /\ ~i.cut => IsOf(i.layers, i.config)

\* A file of a project was written from an image of it, whose sources, if
\* they are needed, have been put in the project's directory.
Fits(file, p, dir) == /\ file.config = p /\ GoodImage(file)
                      /\ SourcesOf(file.layers) \subseteq dir

\* In the local storage and the registries.
StoredInv == /\ \A t \in Tags : GoodImage(local[t])
             /\ \A r \in Remote : GoodImage(registry[r])

\* In the daemon: the file a request reads may be another's, but there is one.
RunsInv ==
  /\ \A t \in RunTasks : GoodImage(loaded[t])
  /\ \A t \in written : loaded[t] # NoImage /\ wasmFile[loaded[t].config] # NoImage
  /\ \A p \in Projects : wasmFile[p] # NoImage => Fits(wasmFile[p], p, appDir[p])
  /\ \A p \in Projects : running[p] # NoImage => Fits(running[p].file, p, appDir[p])

ImagesInv == ImagesTypeOK /\ StoredInv /\ RunsInv

-----------------------------------------------------------------------------
(* Layers.                                                                  *)

\* A layer holds the code of a project.
LEMMA LayerCode ==
  ASSUME NEW s \in Seq(Code)
  PROVE  \A n \in DOMAIN s : s[n].code \in Projects
<1> TAKE n \in DOMAIN s
<1>1. s[n] \in Code
  OBVIOUS
<1> QED BY <1>1 DEF Code

\* What IsOf says of each layer.
LEMMA IsOfLayers ==
  ASSUME NEW s, NEW p
  PROVE  IsOf(s, p) <=> /\ \E k \in DOMAIN s : s[k].type # "runtime"
                        /\ \A k \in DOMAIN s : s[k].type # "runtime" => s[k].code = p
<1> DEFINE K == {k \in DOMAIN s : s[k].type # "runtime"}
           L == {s[n] : n \in K}
           C == {l.code : l \in L}
<1>1. IsOf(s, p) <=> C = {p}
  BY DEF IsOf
<1>2. \A k \in K : s[k] \in L /\ s[k].code \in C
  OBVIOUS
<1>3. \A x \in C : \E k \in K : x = s[k].code
  OBVIOUS
<1>4. C = {p} <=> K # {} /\ \A k \in K : s[k].code = p
  <2> HIDE DEF K, L, C
  <2>1. ASSUME C = {p} PROVE K # {} /\ \A k \in K : s[k].code = p
    BY <1>2, <1>3, <2>1
  <2>2. ASSUME K # {}, \A k \in K : s[k].code = p PROVE C = {p}
    <3>1. C \subseteq {p}
      BY <1>3, <2>2
    <3>2. p \in C
      BY <1>2, <2>2
    <3> QED BY <3>1, <3>2
  <2> QED BY <2>1, <2>2
<1> QED BY <1>1, <1>4

\* find() finds one of the layers it looks for, if there is one.
LEMMA FirstOfFinds ==
  ASSUME NEW s \in Seq(Code), Len(s) \in 1..2, NEW type, HasType(s, type)
  PROVE  \E n \in DOMAIN s : s[n].type = type /\ FirstOf(s, type) = s[n].code
<1> DEFINE P == Positions(s, type)
<1>1. P \subseteq 1..2 /\ P # {} /\ P \subseteq DOMAIN s /\ \A n \in P : s[n].type = type
  BY DEF Positions, HasType
<1>2. \E n \in P : \A m \in P : n <= m
  <2> HIDE DEF P
  <2>1. CASE 1 \in P
    BY <1>1, <2>1
  <2>2. CASE 1 \notin P
    <3>1. \A m \in P : m = 2
      BY <1>1, <2>2
    <3>2. PICK n \in P : TRUE
      BY <1>1
    <3>3. \A m \in P : n <= m
      BY <3>1, <3>2
    <3> QED BY <3>2, <3>3
  <2> QED BY <2>1, <2>2
<1>3. FirstOf(s, type) = s[CHOOSE n \in P : \A m \in P : n <= m].code
  BY DEF FirstOf
<1>4. (CHOOSE n \in P : \A m \in P : n <= m) \in P
  <2> HIDE DEF P
  <2> QED BY <1>2
<1> HIDE DEF P
<1> QED BY <1>1, <1>3, <1>4

\* What wasm_bytes returns is the code of one of the layers.
LEMMA WasmBytesType ==
  ASSUME NEW s \in Seq(Code), Len(s) \in 1..2
  PROVE  WasmBytes(s) \in Projects
<1>1. CASE HasType(s, "module")
  <2>1. PICK n \in DOMAIN s : FirstOf(s, "module") = s[n].code
    BY <1>1, FirstOfFinds
  <2>2. s[n] \in Code
    OBVIOUS
  <2> QED BY <1>1, <2>1, <2>2 DEF WasmBytes, Code
<1>2. CASE ~HasType(s, "module")
  <2>1. s[Len(s)] \in Code
    OBVIOUS
  <2> QED BY <1>2, <2>1 DEF WasmBytes, Code
<1> QED BY <1>1, <1>2

\* It is the project's own unless an interpreter and sources are needed.
LEMMA WasmBytesIsOwn ==
  ASSUME NEW s \in Seq(Code), Len(s) \in 1..2, NEW p, IsOf(s, p), ~Interpreted(s)
  PROVE  WasmBytes(s) = p
<1>1. \A k \in DOMAIN s : s[k].type # "runtime" => s[k].code = p
  BY IsOfLayers
<1>2. PICK k \in DOMAIN s : s[k].type # "runtime"
  BY IsOfLayers
<1>3. CASE HasType(s, "module")
  <2>1. PICK n \in DOMAIN s : s[n].type = "module" /\ FirstOf(s, "module") = s[n].code
    BY <1>3, FirstOfFinds
  <2> QED BY <1>1, <1>3, <2>1 DEF WasmBytes
<1>4. CASE ~HasType(s, "module")
  <2>0. s[k] \in Code
    OBVIOUS
  <2>1. s[k].type \in {"runtime", "module", "source"}
    BY <2>0 DEF Code
  <2>2. s[k].type = "source"
    BY <1>2, <1>4, <2>1 DEF HasType, Positions
  <2>3. ~HasType(s, "runtime")
    BY <2>2 DEF Interpreted, HasType, Positions
  <2>4. s[Len(s)].type # "runtime"
    BY <2>3 DEF HasType, Positions
  <2> QED BY <1>1, <1>4, <2>4 DEF WasmBytes
<1> QED BY <1>3, <1>4

-----------------------------------------------------------------------------
(* Images and services.                                                     *)

\* A module of one layer.
LEMMA NewModuleIsGood ==
  ASSUME NEW p \in Projects, NEW code \in Projects, NEW cut \in BOOLEAN, ~cut => code = p
  PROVE  NewModule(p, code, cut) \in Image /\ GoodImage(NewModule(p, code, cut))
<1> DEFINE i == NewModule(p, code, cut)
           s == <<Layer("module", code)>>
<1>1. i.config = p /\ i.layers = s /\ i.cut = cut
  BY DEF NewModule
<1>2. s \in Seq(Code) /\ Len(s) = 1 /\ DOMAIN s = {1} /\ s[1] = Layer("module", code)
  BY DEF Layer, Code
<1>3. i \in Image
  BY <1>1, <1>2 DEF Image, NewModule
<1>4. code = p => IsOf(s, p)
  BY <1>2, IsOfLayers DEF Layer
<1> QED BY <1>1, <1>3, <1>4 DEF GoodImage

\* A runtime, and the module or the sources of a project.
LEMMA TwoLayersAreGood ==
  ASSUME NEW p \in Projects, NEW r \in Projects, NEW type \in {"module", "source"}
  PROVE  OnRuntime(p, r, type) \in Image /\ GoodImage(OnRuntime(p, r, type))
<1> DEFINE i == OnRuntime(p, r, type)
           s == <<Layer("runtime", r), Layer(type, p)>>
<1>1. i.config = p /\ i.layers = s /\ i.cut = FALSE
  BY DEF OnRuntime
<1>2. /\ s \in Seq(Code) /\ Len(s) = 2 /\ DOMAIN s = {1, 2}
      /\ s[1] = Layer("runtime", r) /\ s[2] = Layer(type, p)
  BY DEF Layer, Code
<1>3. i \in Image
  BY <1>1, <1>2 DEF Image, OnRuntime
<1>4. IsOf(s, p)
  BY <1>2, IsOfLayers DEF Layer
<1> QED BY <1>1, <1>3, <1>4 DEF GoodImage

\* What a build finds under a tag is the code of some project.
LEMMA RuntimeUnderType ==
  ASSUME ImagesTypeOK, NEW tag \in Tags
  PROVE  RuntimeUnder(tag) \subseteq Projects
<1>1. CASE local[tag] = NoImage
  BY <1>1 DEF RuntimeUnder
<1>2. CASE local[tag] # NoImage
  <2> DEFINE s == local[tag].layers
  <2>1. s \in Seq(Code) /\ Len(s) \in 1..2
    BY <1>2 DEF ImagesTypeOK, Image
  <2>2. \A n \in DOMAIN s : s[n].code \in Projects
    BY <2>1, LayerCode
  <2>3. \A type : HasType(s, type) => FirstOf(s, type) \in Projects
    BY <2>1, <2>2, FirstOfFinds
  <2> QED BY <1>2, <2>3 DEF RuntimeUnder
<1> QED BY <1>1, <1>2

\* A layer that is the only one of a complete image is the project's.
LEMMA SingleLayer ==
  ASSUME NEW i \in Image, i # NoImage, GoodImage(i), ~i.cut, ~(Len(i.layers) > 1)
  PROVE  Head(i.layers).code = i.config /\ WasmBytes(i.layers) = i.config
<1> DEFINE s == i.layers
<1>0. s \in Seq(Code) /\ Len(s) \in 1..2
  BY DEF Image
<1>1. s \in Seq(Code) /\ Len(s) = 1 /\ DOMAIN s = {1}
  <2> HIDE DEF s
  <2>1. Len(s) = 1
    BY <1>0 DEF s
  <2> QED BY <1>0, <2>1
<1>2. IsOf(s, i.config)
  BY DEF GoodImage
<1>3. s[1].type # "runtime" /\ s[1].code = i.config
  BY <1>1, <1>2, IsOfLayers
<1>4. ~Interpreted(s)
  BY <1>1, <1>3 DEF Interpreted, HasType, Positions
<1>5. Head(s) = s[1]
  BY <1>1
<1> QED BY <1>1, <1>2, <1>3, <1>4, <1>5, WasmBytesIsOwn

\* What a service runs whose file fits the project.
LEMMA FitsRuns ==
  ASSUME NEW s \in Service, NEW p \in Projects, Fits(s.file, p, appDir[p]), s.file # NoImage
  PROVE  s.file.cut \/ Bare(s) \/ Runs(s, p)
<1> DEFINE f == s.file.layers
<1>1. f \in Seq(Code) /\ Len(f) \in 1..2
  BY DEF Service, Image
<1> SUFFICES ASSUME ~s.file.cut, ~Bare(s) PROVE Runs(s, p)
  OBVIOUS
<1>2. IsOf(f, p)
  BY DEF Fits, GoodImage
<1>3. CASE ~Interpreted(f)
  <2>1. WasmBytes(f) = p
    BY <1>1, <1>2, <1>3, WasmBytesIsOwn
  <2> QED BY <1>3, <2>1 DEF Runs, WasmOf
<1>4. CASE Interpreted(f)
  <2>1. Interpreted(s.image.layers)
    BY <1>4 DEF Bare
  <2>2. PICK n \in Positions(f, "source") : TRUE
    BY <1>4 DEF Interpreted, HasType
  <2>3. n \in DOMAIN f /\ f[n].type # "runtime"
    BY <2>2 DEF Positions
  <2>4. f[n].code = p
    BY <1>2, <2>3, IsOfLayers
  <2>5. f[n].code \in SourcesOf(f)
    BY <1>4, <2>2 DEF SourcesOf
  <2>6. p \in appDir[p]
    BY <2>4, <2>5 DEF Fits
  <2> QED BY <2>1, <2>6 DEF Runs
<1> QED BY <1>3, <1>4

\* The sources in an image are of projects.
LEMMA SourcesAreOfProjects ==
  ASSUME NEW i \in Image
  PROVE  SourcesOf(i.layers) \subseteq Projects
<1>1. i.layers \in Seq(Code)
  BY DEF Image
<1>2. \A n \in DOMAIN i.layers : i.layers[n].code \in Projects
  BY <1>1, LayerCode
<1> QED BY <1>2 DEF SourcesOf, Positions

-----------------------------------------------------------------------------
(* The invariant.                                                           *)

\* The invariant implies that code follows its configuration.
LEMMA InvGivesCode == ImagesInv => CodeFollowsConfig
<1> SUFFICES ASSUME ImagesInv PROVE CodeFollowsConfig
  OBVIOUS
<1>1. ASSUME NEW i \in {local[t] : t \in Tags} \cup {registry[r] : r \in Remote},
             i # NoImage, ~i.cut
      PROVE  IsOf(i.layers, i.config)
  <2>1. GoodImage(i)
    BY DEF ImagesInv, StoredInv
  <2> QED BY <1>1, <2>1 DEF GoodImage
<1>2. ASSUME NEW p \in Projects, running[p] # NoImage
      PROVE  running[p].file.cut \/ Bare(running[p]) \/ Runs(running[p], p)
  <2>1. running[p] \in Service /\ Fits(running[p].file, p, appDir[p])
    BY <1>2 DEF ImagesInv, ImagesTypeOK, RunsInv
  <2>2. running[p].file # NoImage
    <3>1. running[p].file \in [config : Projects, layers : Seq(Code), cut : BOOLEAN]
      BY <2>1 DEF Service, Image
    <3> QED BY <3>1, ImagesAssumption
  <2> QED BY <2>1, <2>2, FitsRuns
<1> QED BY <1>1, <1>2 DEF CodeFollowsConfig

\* Good images and services at the start.
LEMMA ImagesInvInit == ImagesInit => ImagesInv
<1> SUFFICES ASSUME ImagesInit PROVE ImagesInv
  OBVIOUS
<1>1. ~GoodImage(NoImage) => FALSE
  BY DEF GoodImage
<1>2. \A i \in Published : i \in Image /\ GoodImage(i)
  <2> TAKE i \in Published
  <2>1. /\ i \in [config : Projects, layers : Seq(Code), cut : {FALSE}]
        /\ Len(i.layers) \in 1..2 /\ IsOf(i.layers, i.config)
    BY ImagesAssumption
  <2>2. i \in [config : Projects, layers : Seq(Code), cut : BOOLEAN]
    BY <2>1
  <2> QED BY <2>1, <2>2 DEF Image, GoodImage
<1>3. ImagesTypeOK
  BY <1>2 DEF ImagesInit, StoredInit, RunsInit, ImagesTypeOK
<1>4. StoredInv
  BY <1>1, <1>2 DEF ImagesInit, StoredInit, StoredInv
<1>5. RunsInv
  BY <1>1 DEF ImagesInit, RunsInit, RunsInv
<1> QED BY <1>3, <1>4, <1>5 DEF ImagesInv

\* What the daemon's requests have is not touched by the store.
LEMMA RunsKept ==
  ASSUME RunsInv, UNCHANGED <<loaded, written, wasmFile, appDir, running>>
  PROVE  RunsInv'
BY DEF RunsInv

\* An image that is good may be stored under any tag.
LEMMA StoreKeepsInv ==
  ASSUME ImagesInv, NEW tag \in Tags, NEW image \in Image, GoodImage(image),
         StoreImage(tag, image), asked' \subseteq Tags,
         UNCHANGED <<loaded, written, wasmFile, appDir, running>>
  PROVE  ImagesInv'
<1>1. local' = [local EXCEPT ![tag] = image] /\ UNCHANGED registry
  BY DEF StoreImage
<1>2. ImagesTypeOK'
  BY <1>1 DEF ImagesInv, ImagesTypeOK
<1>3. \A t \in Tags : GoodImage(local'[t])
  BY <1>1 DEF ImagesInv, ImagesTypeOK, StoredInv
<1>4. StoredInv'
  BY <1>1, <1>3 DEF ImagesInv, StoredInv
<1> QED BY <1>2, <1>4, RunsKept DEF ImagesInv

\* Every step keeps it: builds, pushes and pulls make good images, and a
\* service is made of one.
LEMMA ImagesInvNext == ImagesInv /\ [ImagesNext]_imageVars => ImagesInv'
<1> SUFFICES ASSUME ImagesInv, [ImagesNext]_imageVars PROVE ImagesInv'
  OBVIOUS
<1>0. ImagesTypeOK
  BY DEF ImagesInv
<1>1. ASSUME NEW p \in Projects, NEW tag \in Tags, BuildCompiled(p, tag) PROVE ImagesInv'
  <2>1. asked' \subseteq Tags /\ UNCHANGED <<loaded, written, wasmFile, appDir, running>>
    BY <1>0, <1>1 DEF BuildCompiled, runVars, ImagesTypeOK
  <2>2. CASE StoreImage(tag, NewModule(p, p, FALSE))
    BY <2>1, <2>2, NewModuleIsGood, StoreKeepsInv
  <2>3. CASE \E r \in RuntimeUnder(BaseTag) : StoreImage(tag, OnRuntime(p, r, "module"))
    <3>1. PICK r \in RuntimeUnder(BaseTag) : StoreImage(tag, OnRuntime(p, r, "module"))
      BY <2>3
    <3>2. r \in Projects
      BY <1>0, RuntimeUnderType, ImagesAssumption
    <3> QED BY <2>1, <3>1, <3>2, TwoLayersAreGood, StoreKeepsInv
  <2> QED BY <1>1, <2>2, <2>3 DEF BuildCompiled
<1>2. ASSUME NEW p \in Projects, NEW tag \in Tags, BuildInterpreted(p, tag) PROVE ImagesInv'
  <2>1. asked' \subseteq Tags /\ UNCHANGED <<loaded, written, wasmFile, appDir, running>>
    BY <1>0, <1>2 DEF BuildInterpreted, runVars, ImagesTypeOK
  <2>2. PICK r \in RuntimeUnder(BaseTag) : StoreImage(tag, OnRuntime(p, r, "source"))
    BY <1>2 DEF BuildInterpreted
  <2>3. r \in Projects
    BY <1>0, RuntimeUnderType, ImagesAssumption
  <2> QED BY <2>1, <2>2, <2>3, TwoLayersAreGood, StoreKeepsInv
<1>3. ASSUME NEW tag \in Tags, NEW ref \in Remote, PushImage(tag, ref) PROVE ImagesInv'
  <2> DEFINE i == local[tag]
             n == NewModule(i.config, Head(i.layers).code, i.cut \/ Len(i.layers) > 1)
  <2>1. i \in Image /\ i # NoImage /\ GoodImage(i)
    BY <1>0, <1>3 DEF PushImage, ImagesInv, StoredInv, ImagesTypeOK
  <2>2. i.config \in Projects /\ Head(i.layers).code \in Projects /\ i.cut \in BOOLEAN
    <3>1. i.layers \in Seq(Code) /\ Len(i.layers) \in 1..2
      BY <2>1 DEF Image
    <3>2. Head(i.layers) = i.layers[1] /\ i.layers[1] \in Code
      BY <3>1
    <3> QED BY <2>1, <3>2 DEF Image, Code
  <2>3. ~(i.cut \/ Len(i.layers) > 1) => Head(i.layers).code = i.config
    BY <2>1, SingleLayer
  <2>4. n \in Image /\ GoodImage(n)
    <3> HIDE DEF i
    <3>1. (i.cut \/ Len(i.layers) > 1) \in BOOLEAN
      OBVIOUS
    <3> QED BY <2>2, <2>3, <3>1, NewModuleIsGood
  <2>5. /\ registry' = [registry EXCEPT ![ref] = n]
        /\ UNCHANGED <<local, asked, loaded, written, wasmFile, appDir, running>>
    BY <1>3 DEF PushImage, Publish, runVars
  <2> HIDE DEF n
  <2>6. ImagesTypeOK'
    BY <1>0, <2>4, <2>5 DEF ImagesTypeOK
  <2>7. StoredInv'
    BY <1>0, <2>4, <2>5 DEF ImagesInv, StoredInv, ImagesTypeOK
  <2> QED BY <2>5, <2>6, <2>7, RunsKept DEF ImagesInv
<1>4. ASSUME NEW tag \in Tags, NEW ref \in Remote, PullImage(ref, tag) PROVE ImagesInv'
  <2> DEFINE i == registry[ref]
             n == NewModule(i.config, WasmBytes(i.layers), i.cut \/ Len(i.layers) > 1)
  <2>1. i \in Image /\ i # NoImage /\ GoodImage(i)
    BY <1>0, <1>4 DEF PullImage, Pullable, ImagesInv, StoredInv, ImagesTypeOK
  <2>2. i.config \in Projects /\ WasmBytes(i.layers) \in Projects /\ i.cut \in BOOLEAN
    BY <2>1, WasmBytesType DEF Image
  <2>3. ~(i.cut \/ Len(i.layers) > 1) => WasmBytes(i.layers) = i.config
    BY <2>1, SingleLayer
  <2>4. n \in Image /\ GoodImage(n)
    <3> HIDE DEF i
    <3>1. (i.cut \/ Len(i.layers) > 1) \in BOOLEAN
      OBVIOUS
    <3> QED BY <2>2, <2>3, <3>1, NewModuleIsGood
  <2>5. /\ StoreImage(tag, n) /\ asked' \subseteq Tags
        /\ UNCHANGED <<loaded, written, wasmFile, appDir, running>>
    BY <1>0, <1>4 DEF PullImage, runVars, ImagesTypeOK
  <2> HIDE DEF n
  <2> QED BY <2>4, <2>5, StoreKeepsInv
<1>5. ASSUME NEW tag \in Tags, RunTag(tag) PROVE ImagesInv'
  <2>1. /\ asked' \subseteq Tags /\ UNCHANGED <<local, registry>>
        /\ UNCHANGED <<loaded, written, wasmFile, appDir, running>>
    BY <1>0, <1>5 DEF RunTag, Ask, storedVars, ImagesTypeOK
  <2> QED BY <1>0, <2>1, RunsKept DEF ImagesInv, StoredInv, ImagesTypeOK
<1>6. ASSUME NEW p \in Projects, RunPath(p) PROVE ImagesInv'
  <2>1. DefaultTag[p] \in Tags
    BY ImagesAssumption
  <2>2. /\ asked' \subseteq Tags
        /\ UNCHANGED <<loaded, written, wasmFile, appDir, running>>
    BY <1>0, <1>6, <2>1 DEF RunPath, Ask, ImagesTypeOK
  <2>3. CASE UNCHANGED storedVars
    BY <1>0, <2>2, <2>3, RunsKept DEF ImagesInv, StoredInv, ImagesTypeOK, storedVars
  <2>4. CASE StoreImage(DefaultTag[p], BuildModule(p))
    BY <2>1, <2>2, <2>4, NewModuleIsGood, StoreKeepsInv DEF BuildModule
  <2> QED BY <1>6, <2>3, <2>4 DEF RunPath
<1>7. ASSUME NEW t \in RunTasks, NEW tag \in Tags, RunLoads(t, tag) PROVE ImagesInv'
  <2>1. /\ loaded[t] = NoImage /\ asked' = asked \ {tag}
        /\ loaded' = [loaded EXCEPT ![t] = local[tag]]
        /\ UNCHANGED <<local, registry, written, wasmFile, appDir, running>>
    BY <1>7 DEF RunLoads, storedVars
  <2>2. ImagesTypeOK' /\ StoredInv'
    BY <1>0, <2>1 DEF ImagesInv, StoredInv, ImagesTypeOK
  <2>3. t \notin written
    BY <2>1 DEF ImagesInv, RunsInv
  <2>4. RunsInv'
    BY <1>0, <2>1, <2>3 DEF ImagesInv, StoredInv, RunsInv, ImagesTypeOK
  <2> QED BY <2>2, <2>4 DEF ImagesInv
<1>8. ASSUME NEW t \in RunTasks, RunWrites(t) PROVE ImagesInv'
  <2> DEFINE i == loaded[t]
             c == i.config
             sources == SourcesOf(i.layers)
  <2>1. /\ i # NoImage /\ written' = written \cup {t}
        /\ wasmFile' = [wasmFile EXCEPT ![c] = i]
        /\ appDir' = [appDir EXCEPT ![c] = appDir[c] \cup sources]
        /\ UNCHANGED <<local, registry, asked, loaded, running>>
    BY <1>8 DEF RunWrites, storedVars
  <2>2. i \in Image /\ c \in Projects /\ GoodImage(i)
    BY <1>0, <2>1 DEF ImagesInv, RunsInv, ImagesTypeOK, Image
  <2>3. sources \subseteq Projects
    BY <2>2, SourcesAreOfProjects
  <2>4. ImagesTypeOK' /\ StoredInv'
    <3> HIDE DEF i, c, sources
    <3> QED BY <1>0, <2>1, <2>2, <2>3 DEF ImagesInv, StoredInv, ImagesTypeOK
  <2>5. \A p \in Projects : appDir[p] \subseteq appDir'[p]
    <3> HIDE DEF i, c, sources
    <3> QED BY <1>0, <2>1 DEF ImagesTypeOK
  <2>6. \A f, p \in Projects : Fits(f, p, appDir[p]) => Fits(f, p, appDir'[p])
    BY <2>5 DEF Fits
  <2>7. Fits(i, c, appDir'[c])
    <3>1. sources \subseteq appDir'[c]
      <4> HIDE DEF i, c, sources
      <4> QED BY <1>0, <2>1, <2>2 DEF ImagesTypeOK
    <3> QED BY <2>2, <3>1 DEF Fits
  <2>8. \A p \in Projects : wasmFile'[p] # NoImage => Fits(wasmFile'[p], p, appDir'[p])
    <3> TAKE p \in Projects
    <3> HIDE DEF i, c, sources
    <3>1. wasmFile'[p] = IF p = c THEN i ELSE wasmFile[p]
      BY <1>0, <2>1, <2>2 DEF ImagesTypeOK
    <3> QED BY <2>5, <2>7, <3>1 DEF ImagesInv, RunsInv, Fits
  <2>9. \A p \in Projects : running[p] # NoImage => Fits(running[p].file, p, appDir'[p])
    BY <2>5 DEF ImagesInv, RunsInv, Fits
  <2>10. \A u \in written' : loaded[u] # NoImage /\ wasmFile'[loaded[u].config] # NoImage
    <3> TAKE u \in written'
    <3>1. loaded[u] # NoImage
      BY <2>1 DEF ImagesInv, RunsInv
    <3>2. u \in RunTasks /\ loaded[u].config \in Projects
      BY <1>0, <2>1, <3>1 DEF ImagesTypeOK, Image
    <3>3. CASE u = t
      BY <1>0, <2>1, <2>2, <3>1, <3>3 DEF ImagesTypeOK
    <3>4. CASE u # t
      <4>1. wasmFile[loaded[u].config] # NoImage
        BY <2>1, <3>4 DEF ImagesInv, RunsInv
      <4> HIDE DEF i, c, sources
      <4> QED BY <1>0, <2>1, <3>1, <3>2, <4>1 DEF ImagesTypeOK
    <3> QED BY <3>3, <3>4
  <2>11. RunsInv'
    BY <2>1, <2>8, <2>9, <2>10 DEF ImagesInv, RunsInv
  <2> QED BY <2>4, <2>11 DEF ImagesInv
<1>9. ASSUME NEW t \in RunTasks, RunCreates(t) PROVE ImagesInv'
  <2> DEFINE i == loaded[t]
             c == i.config
             s == [image |-> i, file |-> wasmFile[c]]
  <2>1. /\ t \in written /\ written' = written \ {t}
        /\ loaded' = [loaded EXCEPT ![t] = NoImage]
        /\ running' = running \/ running' = [running EXCEPT ![c] = s]
        /\ UNCHANGED <<local, registry, asked, wasmFile, appDir>>
    BY <1>9 DEF RunCreates, storedVars
  <2>2. i \in Image /\ c \in Projects /\ wasmFile[c] # NoImage
    BY <1>0, <2>1 DEF ImagesInv, RunsInv, ImagesTypeOK, Image
  <2>3. wasmFile[c] \in Image /\ Fits(wasmFile[c], c, appDir[c])
    BY <1>0, <2>2 DEF ImagesInv, RunsInv, ImagesTypeOK
  <2>4. s \in Service /\ Fits(s.file, c, appDir[c])
    BY <2>2, <2>3 DEF Service
  <2> HIDE DEF i, c, s
  <2>5. ImagesTypeOK' /\ StoredInv'
    BY <1>0, <2>1, <2>2, <2>4 DEF ImagesInv, StoredInv, ImagesTypeOK
  <2>6. \A u \in RunTasks : loaded'[u] = IF u = t THEN NoImage ELSE loaded[u]
    BY <1>0, <2>1 DEF ImagesTypeOK
  <2>7. \A u \in RunTasks : GoodImage(loaded'[u])
    BY <2>6 DEF ImagesInv, RunsInv, GoodImage
  <2>8. \A u \in written' : loaded'[u] # NoImage /\ wasmFile[loaded'[u].config] # NoImage
    BY <1>0, <2>1, <2>6 DEF ImagesInv, RunsInv, ImagesTypeOK
  <2>9. \A p \in Projects : running'[p] # NoImage => Fits(running'[p].file, p, appDir[p])
    BY <1>0, <2>1, <2>2, <2>4 DEF ImagesInv, RunsInv, ImagesTypeOK
  <2>10. RunsInv'
    BY <2>1, <2>7, <2>8, <2>9 DEF ImagesInv, RunsInv
  <2> QED BY <2>5, <2>10 DEF ImagesInv
<1>10. ASSUME NEW p \in Projects, RemoveImageService(p) PROVE ImagesInv'
  <2>1. /\ running' = [running EXCEPT ![p] = NoImage]
        /\ UNCHANGED <<local, registry, asked, loaded, written, wasmFile, appDir>>
    BY <1>10 DEF RemoveImageService, storedVars
  <2>2. ImagesTypeOK' /\ StoredInv'
    BY <1>0, <2>1 DEF ImagesInv, StoredInv, ImagesTypeOK
  <2>3. RunsInv'
    BY <1>0, <2>1 DEF ImagesInv, RunsInv, ImagesTypeOK
  <2> QED BY <2>2, <2>3 DEF ImagesInv
<1>11. CASE UNCHANGED imageVars
  BY <1>0, <1>11, RunsKept DEF ImagesInv, StoredInv, ImagesTypeOK, imageVars, storedVars, runVars
<1>12. StoredNext => ImagesInv'
  BY <1>1, <1>2, <1>3, <1>4 DEF StoredNext
<1>13. RunsNext => ImagesInv'
  BY <1>5, <1>6, <1>7, <1>8, <1>9, <1>10 DEF RunsNext
<1> QED BY <1>11, <1>12, <1>13 DEF ImagesNext

\* An image that was built, tagged, pushed and pulled in any order holds the
\* code of the project its configuration names, and so does the service made
\* of it, also if other requests of its name have written its files, unless
\* a push or a pull left out layers, or the file is an interpreter and the
\* service's own request mounted nothing.
THEOREM CodeIsOwn == ImagesSpec => []CodeFollowsConfig
BY InvGivesCode, ImagesInvInit, ImagesInvNext, PTL DEF ImagesSpec
=============================================================================
