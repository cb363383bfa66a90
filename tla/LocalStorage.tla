---------------------------- MODULE LocalStorage ----------------------------
(***************************************************************************)
(* The local OCI storage, fabricks-oci/src/storage.rs: a directory of      *)
(* blobs named by their digests and an index.json that maps references to  *)
(* manifests.  The fabricks commands (build, pull) and the daemon each     *)
(* open it in a process of their own, without any lock, and any of them    *)
(* may be killed.  A module is a sequence of blobs, the last of which is   *)
(* the manifest that names the others.                                     *)
(***************************************************************************)
EXTENDS Naturals, Sequences, FiniteSets, SequencesExt

CONSTANTS
  Modules,       \* modules, each the sequence of its blobs
  Refs,          \* references
  Writers,       \* processes that store a module
  NoModule,      \* no module under a reference, no writer at work
  Torn           \* the content of an index.json that does not parse

ASSUME StorageAssumption == \A m \in Modules : m \in Seq(ToSet(m)) /\ m # <<>>

Blobs == UNION {ToSet(m) : m \in Modules}

VARIABLES
  blobs,       \* blob -> the file under its digest: "absent", "partial", "whole"
  temps,       \* blob -> its temporary file, likewise
  index,       \* reference -> module, or Torn: index.json is truncated or garbled
  storing,     \* writer -> [pc, module, ref, todo, fd, read]
  loading,     \* a load_module call: [pc, module, todo]
  brokenOff    \* history: a writer was killed in the middle of its work

storageVars == <<blobs, temps, index, storing, loading, brokenOff>>

NotStoring == [pc |-> "idle", module |-> NoModule, ref |-> NoModule, todo |-> <<>>,
               fd |-> "none", read |-> Torn]
NotLoading == [pc |-> "idle", module |-> NoModule, todo |-> <<>>]

StorageInit ==
  /\ blobs = [b \in Blobs |-> "absent"] /\ temps = [b \in Blobs |-> "absent"]
  /\ index = [r \in Refs |-> NoModule]
  /\ storing = [w \in Writers |-> NotStoring] /\ loading = NotLoading
  /\ brokenOff = FALSE

Blob(w) == Head(storing[w].todo)
WriterAt(w, pc) == storing[w].pc = pc
WriterGoto(w, pc) == storing' = [storing EXCEPT ![w].pc = pc]
NextBlob(w) ==
  storing' = [storing EXCEPT ![w].pc = "blob", ![w].fd = "none", ![w].todo = Tail(@)]

\* mutant: the manifest is indexed but not stored
LayersOnly(m) == Front(m)

\* The order in which store_module writes the blobs.
StoreOrder(m) == m

StoreModule(w, m, r) ==
  /\ WriterAt(w, "idle")
  /\ storing' = [storing EXCEPT ![w] = [NotStoring EXCEPT
                   !.pc = "blob", !.module = m, !.ref = r, !.todo = StoreOrder(m)]]
  /\ UNCHANGED <<blobs, temps, index, loading, brokenOff>>

\* store_blob: nothing to do if the file is there; otherwise the temporary
\* file, whose name every writer of the blob shares, is created or truncated.
CreateTemp(w) ==
  /\ WriterAt(w, "blob") /\ storing[w].todo # <<>>
  /\ IF blobs[Blob(w)] # "absent" THEN NextBlob(w) /\ UNCHANGED temps
     ELSE /\ temps' = [temps EXCEPT ![Blob(w)] = "partial"]
          /\ storing' = [storing EXCEPT ![w].pc = "write", ![w].fd = "temp"]
  /\ UNCHANGED <<blobs, index, loading, brokenOff>>

\* mutant: the content is written under the temporary name, whoever has
\* moved the file that was opened
WriteByName(w) ==
  /\ WriterAt(w, "write") /\ WriterGoto(w, "rename")
  /\ temps' = IF storing[w].fd = "temp" THEN [temps EXCEPT ![Blob(w)] = "whole"] ELSE temps
  /\ UNCHANGED <<blobs, index, loading, brokenOff>>

\* write_all and sync_all, to the file that was opened, wherever it is now.
WriteTemp(w) ==
  /\ WriterAt(w, "write") /\ WriterGoto(w, "rename")
  /\ temps' = IF storing[w].fd = "temp" THEN [temps EXCEPT ![Blob(w)] = "whole"] ELSE temps
  /\ blobs' = IF storing[w].fd = "blob" THEN [blobs EXCEPT ![Blob(w)] = "whole"] ELSE blobs
  /\ UNCHANGED <<index, loading, brokenOff>>

\* The rename moves whatever is under the temporary name; a writer that
\* still has that file open goes on writing to the blob.  It fails when
\* another writer has moved the file, and the command with it.
RenameTemp(w) ==
  LET moved == Blob(w)
      others == {v \in Writers \ {w} :
                   storing[v].todo # <<>> /\ Blob(v) = moved /\ storing[v].fd = "temp"}
      old == {v \in Writers \ {w} :
                storing[v].todo # <<>> /\ Blob(v) = moved /\ storing[v].fd = "blob"} IN
  /\ WriterAt(w, "rename")
  /\ IF temps[moved] = "absent"
     THEN /\ storing' = [storing EXCEPT ![w] = NotStoring]
          /\ UNCHANGED <<blobs, temps>>
     ELSE /\ blobs' = [blobs EXCEPT ![moved] = temps[moved]]
          /\ temps' = [temps EXCEPT ![moved] = "absent"]
          /\ storing' = [v \in Writers |->
               IF v = w THEN [storing[w] EXCEPT !.pc = "blob", !.fd = "none", !.todo = Tail(@)]
               ELSE IF v \in others THEN [storing[v] EXCEPT !.fd = "blob"]
               ELSE IF v \in old THEN [storing[v] EXCEPT !.fd = "none"] ELSE storing[v]]
  /\ UNCHANGED <<index, loading, brokenOff>>

\* add_to_index reads the index; a torn one does not parse.
ReadIndex(w) ==
  /\ WriterAt(w, "blob") /\ storing[w].todo = <<>>
  /\ storing' = IF index = Torn THEN [storing EXCEPT ![w] = NotStoring]
                ELSE [storing EXCEPT ![w].pc = "truncate", ![w].read = index]
  /\ UNCHANGED <<blobs, temps, index, loading, brokenOff>>

\* fs::write truncates the file and then writes the changed copy.
TruncateIndex(w) ==
  /\ WriterAt(w, "truncate") /\ index' = Torn /\ WriterGoto(w, "index")
  /\ UNCHANGED <<blobs, temps, loading, brokenOff>>

\* Over what another writer has put there since, a shorter text leaves a tail.
WriteIndex(w) ==
  /\ WriterAt(w, "index")
  /\ \/ index' = [storing[w].read EXCEPT ![storing[w].ref] = storing[w].module]
     \/ index # Torn /\ index' = Torn
  /\ storing' = [storing EXCEPT ![w] = NotStoring]
  /\ UNCHANGED <<blobs, temps, loading, brokenOff>>

\* The process is killed, or its disk is full.
Kill(w) ==
  /\ ~WriterAt(w, "idle") /\ storing' = [storing EXCEPT ![w] = NotStoring]
  /\ brokenOff' = TRUE
  /\ UNCHANGED <<blobs, temps, index, loading>>

-----------------------------------------------------------------------------
(* load_module: the index, the manifest, then the blobs it names.           *)

LoadModule(r) ==
  /\ loading.pc = "idle" /\ index # Torn /\ index[r] # NoModule
  /\ loading' = [pc |-> "blobs", module |-> index[r],
                 todo |-> <<Last(index[r])>> \o Front(index[r])]
  /\ UNCHANGED <<blobs, temps, index, storing, brokenOff>>

\* get_blob reads the file and verifies its digest.
Verified(b) == blobs[b] = "whole"

GetBlob ==
  /\ loading.pc = "blobs" /\ loading.todo # <<>>
  /\ loading' = IF Verified(Head(loading.todo)) THEN [loading EXCEPT !.todo = Tail(@)]
                ELSE NotLoading
  /\ UNCHANGED <<blobs, temps, index, storing, brokenOff>>

Loaded ==
  /\ loading.pc = "blobs" /\ loading.todo = <<>> /\ loading' = NotLoading
  /\ UNCHANGED <<blobs, temps, index, storing, brokenOff>>

StorageNext ==
  \/ \E w \in Writers :
       \/ \E m \in Modules, r \in Refs : StoreModule(w, m, r)
       \/ CreateTemp(w) \/ WriteTemp(w) \/ RenameTemp(w)
       \/ ReadIndex(w) \/ TruncateIndex(w) \/ WriteIndex(w) \/ Kill(w)
  \/ \E r \in Refs : LoadModule(r)
  \/ GetBlob \/ Loaded

StorageSpec == StorageInit /\ [][StorageNext]_storageVars

-----------------------------------------------------------------------------
(* Properties.                                                              *)

\* Some process has yet to write the blob, through the file it has open.
BeingWritten(b) ==
  \E w \in Writers : WriterAt(w, "write") /\ storing[w].fd = "blob" /\ Blob(w) = b

\* A load of an indexed module breaks off only while some process is still
\* writing the blob that does not verify, unless a writer was killed before:
\* the file two writers share is complete in the end, whichever of them
\* truncated it and whichever moved it.
LoadsFailForAReason ==
  [][(GetBlob /\ loading' = NotLoading) =>
       brokenOff \/ BeingWritten(Head(loading.todo))]_storageVars

\* A reference in the index leads to a manifest all of whose blobs are there,
\* whoever was killed and whatever two processes did to the index at once.
IndexedIsPresent ==
  index # Torn =>
    \A r \in Refs : index[r] # NoModule => \A b \in ToSet(index[r]) : blobs[b] # "absent"

=============================================================================
