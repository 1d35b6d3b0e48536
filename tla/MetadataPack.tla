---------------------------- MODULE MetadataPack ----------------------------
(***************************************************************************)
(* The runtime metadata pack: the files under data/, how the in-app        *)
(* provisioning replaces them (apk_provision.py) and the process-wide      *)
(* caches through which everything reads them (runtime_metadata.py,        *)
(* discovery.py, catalog.py).                                              *)
(*                                                                         *)
(* A file is its generation: 0 while it does not exist, else the number of *)
(* the provisioning that wrote it.  The eight files are the positions of   *)
(* 1..NFiles in the order of publication; the last is oauth_client.json.   *)
(* (The set-up warms the caches in another order; two positions, the       *)
(* catalogs and the OAuth client, keep both.)                              *)
(* The publication runs in an executor thread: each replacement is a step, *)
(* and the event loop and other executor jobs read in between.             *)
(***************************************************************************)
EXTENDS Integers

CONSTANTS
    NFiles,        \* how many files the pack has
    Requests,      \* provisioning requests: kinds of flow that may be open
    MaxPacks,      \* bound: provisionings that get as far as writing
    MaxFaults      \* bound: file-system faults and crashes

ASSUME PackAssumption == NFiles \in Nat \ {0} /\ MaxPacks \in Nat /\ MaxFaults \in Nat

Files == 1 .. NFiles
OAuth == NFiles
Generations == 0 .. MaxPacks + 1
Uncached == -1

VARIABLES
    disk,       \* file -> generation
    backup,     \* what the running publication found, file by file
    published,  \* the generation of the last publication that succeeded
    next,       \* the generation the next publication writes
    request,    \* request -> where its provisioning is
    written,    \* how many files the running publication has replaced
    restored,   \* how many of them its rollback is past
    cache,      \* file -> generation cached in memory, or Uncached
    damaged,    \* a rollback write failed, or the process died while publishing
    unannounced,  \* files changed and no entry was reloaded for it
    faults      \* bound counter

packVars == <<disk, backup, published, next, request, written, restored, cache, damaged, unannounced, faults>>

PackInit ==
    /\ disk \in {[f \in Files |-> 0], [f \in Files |-> 1]}
    /\ backup = disk /\ published = disk[OAuth] /\ next = 2
    /\ request = [r \in Requests |-> "none"]
    /\ written = 0 /\ restored = 0
    /\ cache = [f \in Files |-> Uncached]
    /\ damaged = FALSE /\ unannounced = FALSE /\ faults = 0

Present == \A f \in Files : disk[f] # 0       \* ensure_runtime_metadata_present
Publishing == {"downloading", "writing", "rolling back"}
Lock == {r \in Requests : request[r] \in Publishing}

(* A form with an APK URL is submitted: it waits for _PROVISION_LOCK. *)
AskFor(r) ==
    /\ request[r] = "none"
    /\ request' = [request EXCEPT ![r] = "waiting"]
    /\ UNCHANGED <<disk, backup, published, next, written, restored, cache, damaged, unannounced, faults>>

TakeLock(r) ==
    /\ request[r] = "waiting" /\ Lock = {}
    /\ request' = [request EXCEPT ![r] = "downloading"]
    /\ UNCHANGED <<disk, backup, published, next, written, restored, cache, damaged, unannounced, faults>>

(* The download, the reconstruction or the validation failed: nothing has
   been written, and the form shows the error. *)
BuildFails(r) ==
    /\ request[r] = "downloading"
    /\ request' = [request EXCEPT ![r] = "none"]
    /\ UNCHANGED <<disk, backup, published, next, written, restored, cache, damaged, unannounced, faults>>

(* The pack is built, valid, serialised and staged beside the old files. *)
Staged(r) ==
    /\ request[r] = "downloading" /\ next <= MaxPacks + 1
    /\ request' = [request EXCEPT ![r] = "writing"]
    /\ next' = next + 1 /\ backup' = disk
    /\ UNCHANGED <<disk, published, written, restored, cache, damaged, unannounced, faults>>

ReplaceFile(r) ==
    /\ request[r] = "writing" /\ written < NFiles
    /\ disk' = [disk EXCEPT ![written + 1] = next - 1]
    /\ written' = written + 1
    /\ UNCHANGED <<backup, published, next, request, restored, cache, damaged, unannounced, faults>>

ReplaceFails(r) ==
    /\ request[r] = "writing" /\ written < NFiles /\ faults < MaxFaults
    /\ request' = [request EXCEPT ![r] = "rolling back"]
    /\ faults' = faults + 1 /\ unannounced' = (unannounced \/ written > 0)
    /\ UNCHANGED <<disk, backup, published, next, written, restored, cache, damaged>>

\* Mutant: a file that had no prior version stays
RollBackOldFile(r) ==
    /\ request[r] = "rolling back" /\ restored < written
    /\ disk' = IF backup[restored + 1] = 0 THEN disk ELSE [disk EXCEPT ![restored + 1] = backup[restored + 1]]
    /\ restored' = restored + 1
    /\ UNCHANGED <<backup, published, next, request, written, cache, damaged, unannounced, faults>>

(* One file goes back to what it was, or is removed if it is new.  A failure
   is logged and the rollback goes on with the next file. *)
RollBackFile(r) ==
    /\ request[r] = "rolling back" /\ restored < written
    /\ \/ disk' = [disk EXCEPT ![restored + 1] = backup[restored + 1]] /\ UNCHANGED <<damaged, faults>>
       \/ faults < MaxFaults /\ faults' = faults + 1 /\ damaged' = TRUE /\ UNCHANGED disk
    /\ restored' = restored + 1
    /\ UNCHANGED <<backup, published, next, request, written, cache, unannounced>>

RolledBack(r) ==
    /\ request[r] = "rolling back" /\ restored = written
    /\ request' = [request EXCEPT ![r] = "none"] /\ written' = 0 /\ restored' = 0
    /\ UNCHANGED <<disk, backup, published, next, cache, damaged, unannounced, faults>>

(* All files are replaced; the flow forgets caches and announces the pack to
   the entries as its kind does. *)
Published(r, forget, announced) ==
    /\ request[r] = "writing" /\ written = NFiles
    /\ request' = [request EXCEPT ![r] = "none"]
    /\ published' = next - 1 /\ written' = 0 /\ damaged' = FALSE
    /\ unannounced' = (~announced /\ \E f \in Files : backup[f] # 0)
    /\ cache' = [f \in Files |-> IF f \in forget THEN Uncached ELSE cache[f]]
    /\ UNCHANGED <<disk, backup, next, restored, faults>>

(* Readers: the cache of file f is filled from the disk when it is empty. *)
Read(f) == cache' = [cache EXCEPT ![f] = IF cache[f] = Uncached THEN disk[f] ELSE cache[f]]
ForgetAll == cache' = [f \in Files |-> Uncached]

(* The process dies: memory is lost, the files stay as they are. *)
PackCrash ==
    /\ faults < MaxFaults
    /\ request' = [r \in Requests |-> "none"]
    /\ ForgetAll
    /\ damaged' = (damaged \/ \E r \in Requests : request[r] \in {"writing", "rolling back"} /\ written > 0)
    /\ written' = 0 /\ restored' = 0 /\ faults' = faults + 1 /\ unannounced' = FALSE
    /\ UNCHANGED <<disk, backup, published, next>>

PackTypeOK ==
    /\ disk \in [Files -> Generations] /\ backup \in [Files -> Generations]
    /\ published \in Generations /\ next \in Generations \cup {MaxPacks + 2}
    /\ request \in [Requests -> {"none", "waiting"} \cup Publishing]
    /\ written \in 0 .. NFiles /\ restored \in 0 .. NFiles
    /\ cache \in [Files -> Generations \cup {Uncached}]
    /\ damaged \in BOOLEAN /\ unannounced \in BOOLEAN /\ faults \in 0 .. MaxFaults

(* Whenever no provisioning is writing, the files are all of one pack: the
   last one published, or none (apk_provision.py 160-195), whatever failed on
   the way.  Two exceptions are the code's: a rollback write that fails too is
   logged and passed over, and a process that dies cannot roll back. *)
PackIsWhole ==
    damaged \/ (\E r \in Requests : request[r] \in {"writing", "rolling back"}) \/ disk = [f \in Files |-> published]
=============================================================================
