------------------------------ MODULE RawStorage ------------------------------
(***************************************************************************)
(* The card without a mounted owner: every call mounts the filesystem, and *)
(* two things live longer than a call, the clusters of the one upload in   *)
(* progress and those of the file read last.  The host's storage commands, *)
(* the reader's saves of its state and of the library index share them.    *)
(*                                                                         *)
(* Source: SdStorage in sd_filesystem.rs and fat_directory.rs of           *)
(* crates/embedded-sd-storage; storage.rs, storage_access.rs and           *)
(* diag_storage.rs of the firmware.                                        *)
(*                                                                         *)
(* A file is the list of its clusters.  A call holds the lock of the       *)
(* filesystem to its end, so it is one action, cut by failures and resets. *)
(***************************************************************************)
EXTENDS Integers, Sequences, FiniteSets, SequencesExt

CONSTANTS
    Clusters,       \* of the card
    HostFiles,      \* names the host uses
    MaxSize,        \* bound: clusters of a file of the host
    MaxChanges,     \* bound: changes of the reader's state
    MaxUploads,     \* bound: uploads of the host
    MaxRawFaults    \* bound: failures of the card and resets

ASSUME RawAssumption ==
    /\ Clusters \subseteq Nat \ {0} /\ IsFiniteSet(Clusters) /\ IsFiniteSet(HostFiles)
    /\ MaxSize \in Nat /\ MaxChanges \in Nat /\ MaxUploads \in Nat /\ MaxRawFaults \in Nat
    /\ HostFiles \cap {"A", "B", "index", "none"} = {}

VARIABLES
    files,          \* the names in the directory and the clusters of each
    data,           \* what each cluster holds
    active,         \* SdStorage.active_upload
    reading,        \* SdStorage.active_read
    session,        \* FilesystemStorage.upload, and whether its host still lives
    state,          \* the reader's state in RAM: the number of its changes
    loaded,         \* StateSlots: the slot and the generation
    promised,       \* history: the newest state a save or a boot has reported
    misled,         \* history: the last boot could not read the newest slot
    published,      \* history: what the host has committed under each name
    orphan,         \* history: the file of an upload was deleted under it
    changes, uploads, rawFaults

disk == <<files, data>>
rawBounds == <<changes, uploads>>
reader == <<state, loaded, promised, misled, changes>>
host == <<session, published, orphan, uploads>>
rawVars == <<disk, active, reading, session, state, loaded, promised, misled, published,
             orphan, rawBounds, rawFaults>>

StateSlots == {"A", "B"}
Names == HostFiles \cup StateSlots \cup {"index"}
None == "none"
Absent == <<0>>
NoFile == [name |-> None, clusters |-> <<>>]
NoSession == [name |-> None, size |-> 0, written |-> 0, alive |-> FALSE]
Value(by, n, generation) == [by |-> by, n |-> n, generation |-> generation]
Zero == Value("zero", 0, 0)

Exists(name) == files[name] # Absent
Contents(name) == [i \in DOMAIN files[name] |-> data[files[name][i]]]

RawWorks == UNCHANGED rawFaults
RawFails == rawFaults < MaxRawFaults /\ rawFaults' = rawFaults + 1

(***************************************************************************)
(* The FAT filesystem (external): clusters in no file are free, and some   *)
(* of them are taken.                                                      *)
(***************************************************************************)
Used(except) == UNION {Range(files[name]) : name \in {n \in Names \ {except} : Exists(n)}}
FreeFor(name) == SetToSeq(Clusters \ Used(name))
Fits(name, size) == size <= Len(FreeFor(name))

\* create_file, truncate, and size clusters of zeros.
Fresh(name, size) ==
    /\ Fits(name, size)
    /\ files' = [files EXCEPT ![name] = SubSeq(FreeFor(name), 1, size)]
    /\ data' = [c \in Clusters |-> IF c \in Range(files'[name]) THEN Zero ELSE data[c]]

Removed(name) == files' = [files EXCEPT ![name] = Absent] /\ UNCHANGED data

(***************************************************************************)
(* The shared parts of SdStorage.                                          *)
(***************************************************************************)
\* active_read = None
Forgotten == NoFile

\* begin_upload: UploadInProgress
MayBegin == active = NoFile

\* extents.iter().position of an offset, a cluster at a time.
ClusterAt(upload, offset) == upload.clusters[offset + 1]

\* commit_upload: the clusters written are those that will be read.
Committed(upload) == active' = NoFile /\ reading' = upload

(***************************************************************************)
(* The storage commands of the host.                                       *)
(***************************************************************************)
\* store_upload_begin, begin_upload_in_dir.
UploadBegin(name, size) ==
    /\ session = NoSession
    /\ uploads < MaxUploads
    /\ uploads' = uploads + 1
    /\ MayBegin
    /\ reading' = Forgotten
    /\ published' = [published EXCEPT ![name] = <<>>]
    /\ \/ /\ RawWorks
          /\ Fresh(name, size)
          /\ active' = [name |-> name, clusters |-> files'[name]]
          /\ session' = [name |-> name, size |-> size, written |-> 0, alive |-> TRUE]
       \/ \E made \in 0 .. size :
            /\ IF Fits(name, made + 1) THEN RawFails ELSE RawWorks
            /\ Fresh(name, made)
            /\ UNCHANGED <<active, session>>
    /\ UNCHANGED <<reader, orphan>>

\* store_upload_write, write_upload_chunk_in_dir, write_extents: a cluster.
UploadWrite ==
    /\ session.alive
    /\ session.written < session.size
    /\ active.name = session.name
    /\ LET cluster == ClusterAt(active, session.written)
           written == [data EXCEPT ![cluster] = Value("host", session.written, uploads)]
       IN \/ RawWorks /\ data' = written /\ session' = [session EXCEPT !.written = @ + 1]
          \/ RawFails /\ data' \in {data, written} /\ UNCHANGED session
    /\ UNCHANGED <<files, active, reading, reader, published, orphan, uploads>>

\* Mutant: a commit does not ask for all of the file.
CommittableAnyway == TRUE

Committable == session.written = session.size

\* store_upload_commit
UploadCommit ==
    /\ session.alive
    /\ Committable
    /\ Committed(active)
    /\ published' = [published EXCEPT ![session.name] =
                        [i \in 1 .. session.size |-> Value("host", i - 1, uploads)]]
    /\ session' = NoSession
    /\ UNCHANGED <<disk, reader, orphan, uploads, rawFaults>>

\* active_upload.take()
Ended == NoFile

\* store_upload_abort, abort_upload_in_dir: the upload has ended though its
\* file cannot be deleted.
UploadAbort ==
    /\ session.alive
    /\ session' = NoSession
    /\ active' = Ended
    /\ reading' = Forgotten
    /\ \/ RawWorks /\ Removed(session.name)
       \/ RawFails /\ UNCHANGED disk
    /\ UNCHANGED <<reader, published, orphan, uploads>>

\* The host is gone; its session stays.
HostDies ==
    /\ session.alive
    /\ session' = [session EXCEPT !.alive = FALSE]
    /\ UNCHANGED <<disk, active, reading, reader, published, orphan, uploads, rawFaults>>

\* store_delete, whether the file is being uploaded or not.
Delete(name) ==
    /\ Exists(name)
    /\ reading' = Forgotten
    /\ \/ RawWorks /\ Removed(name) /\ published' = [published EXCEPT ![name] = <<>>]
       \/ RawFails /\ UNCHANGED <<disk, published>>
    /\ orphan' = (orphan \/ active.name = name)
    /\ UNCHANGED <<active, session, uploads, reader>>

\* ensure_read_cache
ReadCache(name) == [name |-> name, clusters |-> files[name]]

\* store_read, read_at_in_dir.
Read(name) ==
    /\ Exists(name)
    /\ reading.name # name
    /\ reading' = ReadCache(name)
    /\ RawWorks
    /\ UNCHANGED <<disk, active, host, reader>>

\* with_mounted_file: the reader opens a book.
OpenBook ==
    /\ reading # NoFile
    /\ reading' = Forgotten
    /\ RawWorks
    /\ UNCHANGED <<disk, active, host, reader>>

(***************************************************************************)
(* The library index and the reader's state, one cluster each: begin,      *)
(* write, commit, and the abort of what could not be written.              *)
(***************************************************************************)
\* The ways a file is replaced, with the value it should have.
Replaced(name, value) ==
    /\ Fits(name, 1)
    /\ files' = [files EXCEPT ![name] = <<Head(FreeFor(name))>>]
    /\ data' = [data EXCEPT ![Head(FreeFor(name))] = value]

HalfReplaced(name) ==
    \/ Removed(name)
    \/ \E size \in {0, 1} : Fresh(name, size)

\* LibraryIndexStore::save
SaveIndex ==
    /\ MayBegin
    /\ \/ RawWorks /\ Replaced("index", Value("index", 0, 0))
          /\ reading' = [name |-> "index", clusters |-> files'["index"]]
       \/ RawFails /\ HalfReplaced("index") /\ reading' = Forgotten
    /\ UNCHANGED <<active, host, reader>>

ChangeState ==
    /\ changes < MaxChanges
    /\ changes' = changes + 1
    /\ state' = state + 1
    /\ UNCHANGED <<disk, active, reading, host, loaded, promised, misled, rawFaults>>

\* read_slot and decode.
Valid(slot) == Exists(slot) /\ Len(files[slot]) = 1 /\ Contents(slot)[1].by = "state"

\* select_generation, when the slots of unread give an error: for load they do
\* not exist.
NewestBut(unread) ==
    LET valid == {s \in StateSlots \ unread : Valid(s)}
    IN IF valid = {} THEN None
       ELSE CHOOSE s \in valid :
                \A t \in valid : \/ Contents(t)[1].generation < Contents(s)[1].generation
                                 \/ Contents(t)[1].generation = Contents(s)[1].generation /\ s \in {t, "B"}

Newest == NewestBut({})
StateIn(slot) == IF slot = None THEN Zero ELSE Contents(slot)[1]
Loadable == StateIn(Newest)

\* Mutant: the slot that was loaded last is written again.
TargetSame == IF loaded.slot = None THEN "A" ELSE loaded.slot

\* prepare_save
Target == IF loaded.slot = "A" THEN "B" ELSE "A"

\* StateSlots::save, and the readback that finish_save accepts.
SaveState ==
    /\ MayBegin
    /\ LET value == Value("state", state, loaded.generation + 1)
       IN \/ /\ RawWorks
             /\ Replaced(Target, value)
             /\ reading' = [name |-> Target, clusters |-> files'[Target]]
             /\ loaded' = [slot |-> Target, generation |-> loaded.generation + 1]
             /\ promised' = state
             /\ misled' = (misled /\ Newest' # Target)
          \/ /\ RawFails
             /\ \/ HalfReplaced(Target) /\ reading' = Forgotten
                \/ Replaced(Target, value) /\ reading' = [name |-> Target, clusters |-> files'[Target]]
             /\ UNCHANGED <<loaded, promised, misled>>
    /\ promised = state => loaded.slot = None
    /\ UNCHANGED <<active, host, state, changes>>

\* A reset, and the load of the boot, which cannot read some of the slots.
Boot(unread) ==
    /\ RawFails
    /\ active' = NoFile /\ reading' = NoFile
    /\ session' = NoSession
    /\ LET found == NewestBut(unread)
       IN /\ state' = StateIn(found).n
          /\ promised' = StateIn(found).n
          /\ loaded' = [slot |-> found, generation |-> StateIn(found).generation]
          /\ misled' = (found # Newest)
    /\ UNCHANGED <<disk, published, orphan, rawBounds>>

RawInit ==
    /\ files = [name \in Names |-> Absent]
    /\ data = [c \in Clusters |-> Zero]
    /\ active = NoFile /\ reading = NoFile
    /\ session = NoSession
    /\ state = 0 /\ promised = 0
    /\ loaded = [slot |-> None, generation |-> 0]
    /\ published = [name \in HostFiles |-> <<>>]
    /\ orphan = FALSE /\ misled = FALSE
    /\ changes = 0 /\ uploads = 0 /\ rawFaults = 0

Commands ==
    \/ \E name \in HostFiles, size \in 1 .. MaxSize : UploadBegin(name, size)
    \/ UploadWrite \/ UploadCommit \/ UploadAbort \/ HostDies
    \/ \E name \in HostFiles : Delete(name) \/ Read(name)

Reader ==
    \/ OpenBook \/ SaveIndex \/ ChangeState \/ SaveState
    \/ \E unread \in SUBSET StateSlots : Boot(unread)

RawNext == Commands \/ Reader

RawSpec == RawInit /\ [][RawNext]_rawVars

(***************************************************************************)
(* Types.                                                                  *)
(***************************************************************************)
Datum == [by : {"zero", "host", "index", "state"}, n : Nat, generation : Nat]
Handle == [name : Names, clusters : Seq(Clusters)] \cup {NoFile}

RawTypeOK ==
    /\ files \in [Names -> Seq(Clusters) \cup {Absent}]
    /\ data \in [Clusters -> Datum]
    /\ active \in Handle /\ reading \in Handle
    /\ session \in [name : HostFiles, size : Nat, written : Nat, alive : BOOLEAN] \cup {NoSession}
    /\ state \in Nat /\ promised \in Nat
    /\ loaded \in [slot : StateSlots \cup {None}, generation : Nat]
    /\ published \in [HostFiles -> Seq(Datum)]
    /\ orphan \in BOOLEAN /\ misled \in BOOLEAN
    /\ changes \in Nat /\ uploads \in Nat /\ rawFaults \in Nat

(***************************************************************************)
(* Properties.  They are about a card on which no file was deleted while   *)
(* it was being uploaded: no command refuses that, and the rest of such an *)
(* upload goes into clusters that may be another file's by then.           *)
(***************************************************************************)
\* The clusters kept for reading and for writing are those of the file as it is
\* on the card.
ClustersAreCurrent ==
    ~orphan => /\ reading # NoFile => files[reading.name] = reading.clusters
               /\ active # NoFile => files[active.name] = active.clusters

\* A file that the host has committed holds all the host has sent, until it is
\* uploaded or deleted again, whatever else is written and fails.
CommittedWhole ==
    ~orphan => \A name \in HostFiles : published[name] # <<>> => Contents(name) = published[name]

\* The slots hold, for a boot that reads them, the state that the last save or
\* boot has reported, or a newer one.  Not so from a boot that could not read
\* the newest slot, and went on with an older state or none (StateSlots::load),
\* to the next save whose record is the newest of the card.
StateSurvives == ~orphan /\ ~misled => Loadable.n >= promised

\* An upload that store_upload_begin has begun and not ended has the session
\* that can end it, whatever fails in writing, committing, aborting or deleting,
\* so that it does not keep the reader from saving until the next boot.
UploadHasSession == active # NoFile => session # NoSession /\ session.name = active.name

\* The one upload slot, the session that owns it and the cached clusters stay
\* consistent, and a commit has been all of the upload.
UploadsSound == ClustersAreCurrent /\ CommittedWhole /\ UploadHasSession
================================================================================
