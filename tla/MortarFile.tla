----------------------------- MODULE MortarFile -----------------------------
(***************************************************************************)
(* A mortar file is judged twice: by `fabricks validate`, which parses it  *)
(* and validates it (fabricks-common: parser.rs, validation.rs), and by    *)
(* the daemon, which deploys it without validating it first and orders its *)
(* services itself (Dependency).  Validation looks at the fields and then  *)
(* searches the dependencies for a cycle, depth first, from the services   *)
(* in any order (they are the keys of a hash map).                         *)
(***************************************************************************)
EXTENDS Dependency

CONSTANT Files   \* mortar files: [wellFormed, networks, volumes, services], the last
                 \* a sequence of [key, name, source, networks, mounts, deps,
                 \* resolves]: whether every variable its environment refers to
                 \* has a value or a default (VariableResolver)

\* The services come from a map, so no two of them have one key.
ASSUME FilesAssumption ==
  \A f \in Files :
    /\ f.wellFormed \in BOOLEAN /\ f.services \in Seq(Range(f.services))
    /\ \A i, j \in DOMAIN f.services : f.services[i].key = f.services[j].key => i = j

VARIABLES
  file,      \* the file
  search,    \* the depth-first search: [pc, visited, path], path a sequence of
             \* [node, todo]
  accepted   \* the verdict so far

fileVars == <<file, search, accepted>>

Keys == {file.services[i].key : i \in DOMAIN file.services}
DepsOf(key) ==
  UNION {file.services[i].deps : i \in {j \in DOMAIN file.services : file.services[j].key = key}}

FileInit ==
  /\ file \in Files /\ accepted = TRUE
  /\ search = [pc |-> "fields", visited |-> {}, path |-> <<>>]

\* validate_service: a service is built or has an image, and names networks,
\* volumes and services of the file.
ServiceValid(service) ==
  /\ service.source \in {"build", "image"}
  /\ service.networks \subseteq file.networks
  /\ service.mounts \subseteq file.volumes
  /\ service.deps \subseteq Keys

\* Versions and names are well-formed and every service is valid.
ValidateFields ==
  /\ search.pc = "fields" /\ search' = [search EXCEPT !.pc = "search"]
  /\ accepted' = (file.wellFormed /\ \A i \in DOMAIN file.services : ServiceValid(file.services[i]))
  /\ UNCHANGED file

Top == search.path[Len(search.path)]
Visit(path, node) ==
  search' = [search EXCEPT !.visited = @ \cup {node},
                           !.path = Append(path, [node |-> node, todo |-> DepsOf(node)])]

\* The path after one neighbour of its last node was dealt with.
Dealt(neighbor) == [search.path EXCEPT ![Len(search.path)].todo = @ \ {neighbor}]

NextRoot ==
  /\ search.pc = "search" /\ search.path = <<>>
  /\ \E root \in Keys \ search.visited : Visit(<<>>, root)
  /\ UNCHANGED <<file, accepted>>

Descend ==
  /\ search.pc = "search" /\ search.path # <<>>
  /\ \E n \in Top.todo \ search.visited : Visit(Dealt(n), n)
  /\ UNCHANGED <<file, accepted>>

\* mutant: every node seen before closes a cycle
AllVisited == search.visited

\* rec_stack.
OnPath == {search.path[i].node : i \in DOMAIN search.path}

\* A neighbour seen before closes a cycle if it is on the path.
SeenBefore ==
  /\ search.pc = "search" /\ search.path # <<>>
  /\ \E n \in Top.todo \cap search.visited :
       IF n \in OnPath THEN accepted' = FALSE /\ search' = [search EXCEPT !.pc = "done"]
       ELSE search' = [search EXCEPT !.path = Dealt(n)] /\ UNCHANGED accepted
  /\ UNCHANGED file

Backtrack ==
  /\ search.pc = "search" /\ search.path # <<>> /\ Top.todo = {}
  /\ search' = [search EXCEPT !.path = Front(@)] /\ UNCHANGED <<file, accepted>>

SearchDone ==
  /\ search.pc = "search" /\ search.path = <<>> /\ Keys \subseteq search.visited
  /\ search' = [search EXCEPT !.pc = "done"] /\ UNCHANGED <<file, accepted>>

FileNext ==
  ValidateFields \/ NextRoot \/ Descend \/ SeenBefore \/ Backtrack \/ SearchDone

FileSpec == FileInit /\ [][FileNext]_fileVars

-----------------------------------------------------------------------------
\* What the daemon makes of the file: its services under their own names,
\* no images, environments that resolve, mounts of the file's volumes, an
\* order to start them in.
Deployable ==
  /\ \A i \in DOMAIN file.services :
       /\ file.services[i].source \in {"build", "both"}
       /\ file.services[i].resolves
       /\ file.services[i].mounts \subseteq file.volumes
  /\ StartupOrders(file.services) # {}

(* Properties.                                                              *)

\* A file that validation accepts can be deployed unless a variable in an
\* environment has neither value nor default, which validation never looks
\* at; and one it refuses for a cycle cannot, whatever order the services
\* are searched in: the two cycle checks of the program agree.  (Files with
\* images, which the daemon does not know yet, or with services under another
\* name than their key, which depends_on then means differently, are set
\* aside.)
VerdictsAgree ==
  (search.pc = "done" /\ \A i \in DOMAIN file.services :
                           /\ file.services[i].source # "image"
                           /\ file.services[i].name = file.services[i].key) =>
    IF accepted THEN Deployable <=> \A i \in DOMAIN file.services : file.services[i].resolves
    ELSE (file.wellFormed /\ \A i \in DOMAIN file.services : ServiceValid(file.services[i])) =>
           StartupOrders(file.services) = {}

=============================================================================
