--------------------------- MODULE VolumeManager ----------------------------
(***************************************************************************)
(* The volume manager of fabricksd, volume/manager.rs.  A volume is in     *)
(* three places: the map, the directory named by its id, and its record in *)
(* the state store; each operation takes the write lock for all its steps, *)
(* but a step may fail and the daemon may be killed between two.  Handlers *)
(* resolve a name, and ensure_volume looks for one, before that lock.      *)
(***************************************************************************)
EXTENDS Naturals, FiniteSets, Functions

CONSTANTS
  VolumeIds,     \* volume ids
  VolumeNames,   \* volume names
  Users,         \* services that mount volumes
  Callers,       \* tasks that call the manager
  NoVolume       \* no volume, no name

VARIABLES
  volumes,   \* the map: id -> [name, mounts]
  dirs,      \* ids whose directory exists
  records,   \* the state store: id -> [name, mounts]
  calls,     \* caller -> [pc, id, name]: a call on its way to the lock
  change,    \* the create or delete that has the lock: [pc, id, name]
  loads      \* whether load_state is called when the daemon starts

volumeVars == <<volumes, dirs, records, calls, change, loads>>

NoCall == [pc |-> "idle", id |-> NoVolume, name |-> NoVolume]
Unlocked == change.pc = "idle"
Volume(name) == [name |-> name, mounts |-> {}]
None == [v \in {} |-> NoVolume]

VolumesInit ==
  /\ volumes = None /\ dirs = {} /\ records = None
  /\ calls = [c \in Callers |-> NoCall] /\ change = NoCall
  /\ loads \in BOOLEAN

Named(name) == {v \in DOMAIN volumes : volumes[v].name = name}

-----------------------------------------------------------------------------
\* ensure_volume looks for the name under the read lock and, if there is
\* none, goes on to create_volume; the handler calls create_volume directly.
EnsureVolume(c, name) ==
  /\ calls[c].pc = "idle" /\ Unlocked
  /\ Named(name) = {}
  /\ calls' = [calls EXCEPT ![c] = [NoCall EXCEPT !.pc = "create", !.name = name]]
  /\ UNCHANGED <<volumes, dirs, records, change, loads>>

\* The delete handler turns an id or a name into an id.
ResolveVolume(c, v) ==
  /\ calls[c].pc = "idle" /\ Unlocked /\ v \in DOMAIN volumes
  /\ calls' = [calls EXCEPT ![c] = [NoCall EXCEPT !.pc = "delete", !.id = v]]
  /\ UNCHANGED <<volumes, dirs, records, change, loads>>

\* mutant: create_volume relies on the look ensure_volume took
NoLook(name) == {}

\* The volumes that already have the name.
Existing(name) == Named(name)

\* create_volume under the lock: the name, then the directory (an error
\* leaves nothing), ...
CreateDir(c) ==
  /\ calls[c].pc = "create" /\ Unlocked
  /\ calls' = [calls EXCEPT ![c] = NoCall]
  /\ \/ UNCHANGED <<dirs, change>>    \* VolumeExists or VolumeCreateFailed
     \/ /\ Existing(calls[c].name) = {}
        /\ \E v \in VolumeIds \ (DOMAIN volumes \cup dirs \cup DOMAIN records) :
             /\ dirs' = dirs \cup {v}
             /\ change' = [pc |-> "persist", id |-> v, name |-> calls[c].name]
  /\ UNCHANGED <<volumes, records, loads>>

\* ... then the record (an error leaves the directory), then the map.
PersistNew ==
  /\ change.pc = "persist"
  /\ \/ /\ records' = [v \in DOMAIN records \cup {change.id} |->
                         IF v = change.id THEN Volume(change.name) ELSE records[v]]
        /\ change' = [change EXCEPT !.pc = "insert"]
     \/ change' = NoCall /\ UNCHANGED records
  /\ UNCHANGED <<volumes, dirs, calls, loads>>

InsertNew ==
  /\ change.pc = "insert" /\ change' = NoCall
  /\ volumes' = [v \in DOMAIN volumes \cup {change.id} |->
                   IF v = change.id THEN Volume(change.name) ELSE volumes[v]]
  /\ UNCHANGED <<dirs, records, calls, loads>>

\* mutant: the mounts are looked at before the lock is taken
NeverMounted(v) == FALSE

IsMounted(v) == volumes[v].mounts # {}

\* delete_volume: the directory, the record, the map, and an error anywhere
\* leaves the rest.
RemoveDir(c) ==
  LET v == calls[c].id IN
  /\ calls[c].pc = "delete" /\ Unlocked
  /\ calls' = [calls EXCEPT ![c] = NoCall]
  /\ \/ UNCHANGED <<dirs, change>>    \* not found, mounted or not removed
     \/ /\ v \in DOMAIN volumes /\ ~IsMounted(v)
        /\ dirs' = dirs \ {v}
        /\ change' = [pc |-> "forget", id |-> v, name |-> NoVolume]
  /\ UNCHANGED <<volumes, records, loads>>

RemoveRecord ==
  /\ change.pc = "forget"
  /\ \/ /\ records' = Restrict(records, DOMAIN records \ {change.id})
        /\ change' = [change EXCEPT !.pc = "remove"]
     \/ change' = NoCall /\ UNCHANGED records
  /\ UNCHANGED <<volumes, dirs, calls, loads>>

RemoveVolume ==
  /\ change.pc = "remove" /\ change' = NoCall
  /\ volumes' = Restrict(volumes, DOMAIN volumes \ {change.id})
  /\ UNCHANGED <<dirs, records, calls, loads>>

\* mount_volume and unmount_volume change the map and then the record; the
\* change stays if the record cannot be written.  (unmount_all_for_service
\* unmounts each volume of a service like this.)
SetMounts(v, mounts) ==
  /\ Unlocked /\ v \in DOMAIN volumes
  /\ volumes' = [volumes EXCEPT ![v].mounts = mounts]
  /\ \/ UNCHANGED records
     \/ records' = [x \in DOMAIN records \cup {v} |->
                      IF x = v THEN volumes'[v] ELSE records[x]]
  /\ UNCHANGED <<dirs, calls, change, loads>>

Mount(v, u) == v \in DOMAIN volumes /\ SetMounts(v, volumes[v].mounts \cup {u})
Unmount(v, u) == v \in DOMAIN volumes /\ SetMounts(v, volumes[v].mounts \ {u})

\* The daemon is killed and starts anew: load_state, if it is called, puts
\* every record back into the map before anything else happens.
KillDaemon ==
  /\ volumes' = IF loads THEN records ELSE None
  /\ calls' = [c \in Callers |-> NoCall] /\ change' = NoCall
  /\ UNCHANGED <<dirs, records, loads>>

VolumesNext ==
  \/ \E c \in Callers :
       \/ \E name \in VolumeNames : EnsureVolume(c, name)
       \/ \E v \in VolumeIds : ResolveVolume(c, v)
       \/ CreateDir(c) \/ RemoveDir(c)
  \/ PersistNew \/ InsertNew \/ RemoveRecord \/ RemoveVolume
  \/ \E v \in VolumeIds, u \in Users : Mount(v, u) \/ Unmount(v, u)
  \/ KillDaemon

VolumesSpec == VolumesInit /\ [][VolumesNext]_volumeVars

-----------------------------------------------------------------------------
(* Properties.                                                              *)

\* The volumes of the map have different names, although ensure_volume looks
\* for a name and creates the volume under two locks, and a daemon killed
\* half-way through a create loads what it left.
VolumeNamesUnique ==
  \A v, w \in DOMAIN volumes : volumes[v].name = volumes[w].name => v = w

\* The directory of a mounted volume is not removed, and the volume not
\* forgotten while the daemon lives, by a delete that resolved its name
\* before the mount.
MountedStays ==
  [][\A v \in DOMAIN volumes :
       volumes[v].mounts # {} =>
         /\ v \in dirs => v \in dirs'
         /\ ~KillDaemon => v \in DOMAIN volumes']_volumeVars

=============================================================================
