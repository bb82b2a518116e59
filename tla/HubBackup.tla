------------------------------ MODULE HubBackup ------------------------------
(***************************************************************************)
(* The data directory of a hub through init, serve, backup and restore:    *)
(* the identity file, the configuration, the database, the blob files, and *)
(* the bucket credentials that are sealed under the identity.  A backup    *)
(* runs as a process of its own while the hub appends and may break off or *)
(* die; a restore writes one archive entry after the other and may stop    *)
(* anywhere.                                                               *)
(*                                                                         *)
(* One namespace; identities are numbered, 0 is none.                      *)
(* Everything a handler does but to write blobs, rows and bucket rows is   *)
(* left to the other modules.                                              *)
(***************************************************************************)
EXTENDS Naturals

CONSTANTS
    Dirs,           \* data directories
    Source,         \* the one that is initialised first and backed up
    Events,
    None,
    Budgets         \* bounds of a behaviour

Budget == [identities : Nat, buckets : Nat, writes : Nat, crashes : Nat, backups : Nat, restores : Nat]

\* A row of crate_buckets, the database, the blob files of a directory and of an
\* archive, the entries of an archive, and the two processes.
Sealed  == {"crate-buckets"} \X Nat
Bucket  == [id : Nat, sealed : Sealed, used : BOOLEAN]
DB      == [rows : SUBSET Events, buckets : SUBSET Bucket]
Files   == [Events -> {"none", "torn", "whole"}]
Copies  == [Events -> {"none", "torn", "whole", "cut"}]
Archive == [db : DB, identity : Nat, config : Dirs \cup {None}, blobs : Copies, mixed : BOOLEAN,
            cut : BOOLEAN, brokeAt : Events \cup {None}]
Listing == [config : BOOLEAN, identity : BOOLEAN, db : BOOLEAN, blobs : SUBSET Events]
Backup  == [pc : {"idle", "list", "stat", "copy"}, rows : SUBSET Events, buckets : SUBSET Bucket,
            todo : SUBSET Events, size : {"none", "torn", "whole"}, mixed : BOOLEAN]
Restore == [pc : {"idle", "entries"}, dir : Dirs \cup {None}, todo : Listing,
            from : Archive \cup {None}, forced : BOOLEAN]

ASSUME BackupAssumption ==
    /\ Source \in Dirs /\ None \notin Dirs \cup DB \cup Events /\ Events \subseteq Nat
    /\ Budgets \subseteq Budget

VARIABLES
    identity,   \* [Dirs -> hub-identity.json]
    config,     \* [Dirs -> the data_dir that config.json names, or None]
    db,         \* [Dirs -> fabric.db: [rows, buckets], or None]
    wal,        \* [Dirs -> a crash left a write-ahead log]
    blobs,      \* [Dirs -> [Events -> "none" | "torn" | "whole"]]
    serving,    \* [Dirs -> identity in the memory of the hub that serves it]
    writing,    \* [Dirs -> events whose blob file is open for writing]
    backup,     \* the backup process
    archive,    \* the file at --output, or None
    restore,    \* the restore process
    status,     \* history: [Dirs -> how the directory came to be]
    short,      \* history: [Dirs -> where the backup it was restored from broke off]
    rewritten,  \* history: events whose blob was written again once stored
    budget      \* what is left of the bounds

backupVars == <<identity, config, db, wal, blobs, serving, writing, backup, archive, restore, status, short, rewritten, budget>>
hubVars == <<identity, config, db, wal, blobs, serving, writing>>

BackupTypeOK ==
    /\ identity \in [Dirs -> Nat] /\ config \in [Dirs -> Dirs \cup {None}]
    /\ db \in [Dirs -> DB \cup {None}] /\ wal \in [Dirs -> BOOLEAN]
    /\ blobs \in [Dirs -> Files]
    /\ serving \in [Dirs -> Nat] /\ writing \in [Dirs -> SUBSET Events]
    /\ backup \in Backup /\ archive \in Archive \cup {None} /\ restore \in Restore
    /\ status \in [Dirs -> {"empty", "init", "partial", "restored", "mixed"}]
    /\ short \in [Dirs -> Events \cup {None}] /\ rewritten \subseteq Events /\ budget \in Budget

EmptyDB == [rows |-> {}, buckets |-> {}]
NoBlobs == [e \in Events |-> "none"]
NoBackup == [pc |-> "idle", rows |-> {}, buckets |-> {}, todo |-> {}, size |-> "none", mixed |-> FALSE]
NothingLeft == [config |-> FALSE, identity |-> FALSE, db |-> FALSE, blobs |-> {}]
NoRestore == [pc |-> "idle", dir |-> None, todo |-> NothingLeft, from |-> None, forced |-> FALSE]
Clean(d) == status[d] \in {"init", "restored"}
Spend(f) == budget[f] > 0 /\ budget' = [budget EXCEPT ![f] = @ - 1]

BackupInit ==
    /\ identity = [d \in Dirs |-> 0] /\ config = [d \in Dirs |-> None]
    /\ db = [d \in Dirs |-> None] /\ wal = [d \in Dirs |-> FALSE]
    /\ blobs = [d \in Dirs |-> NoBlobs]
    /\ serving = [d \in Dirs |-> 0] /\ writing = [d \in Dirs |-> {}]
    /\ backup = NoBackup /\ archive = None /\ restore = NoRestore
    /\ status = [d \in Dirs |-> "empty"] /\ short = [d \in Dirs |-> None] /\ rewritten = {}
    /\ budget \in Budgets

-----------------------------------------------------------------------------
(* The hub.                                                                *)

\* A fresh key; a missing identity file, or one that is not valid, ends serve.
Generate == budget.identities
CanLoad(d) == identity[d] # 0

\* The directory that is served: --data-dir (or, without a config, the working
\* directory), or the one the config names.
DataDir(d, override) == IF override THEN d ELSE config[d]

\* nakli-hub init: a new identity, whether or not the directory has one.
runInit(d) ==
    /\ d = Source
    /\ Spend("identities")
    /\ identity' = [identity EXCEPT ![d] = Generate]
    /\ config' = [config EXCEPT ![d] = d]
    /\ db' = [db EXCEPT ![d] = IF @ = None THEN EmptyDB ELSE @]
    /\ status' = [status EXCEPT ![d] = IF @ = "empty" THEN "init" ELSE "mixed"]
    /\ UNCHANGED <<wal, blobs, serving, writing, backup, archive, restore, short, rewritten>>

\* nakli-hub serve with the config of d.  Nobody starts a hub in a directory
\* that is being restored; a second one finds its port in use.
runServe(d, override) ==
    LET w == DataDir(d, override)
    IN  /\ override \/ config[d] # None
        /\ CanLoad(w)
        /\ serving[w] = 0 /\ restore.dir # w
        /\ serving' = [serving EXCEPT ![w] = identity[w]]
        /\ db' = [db EXCEPT ![w] = IF @ = None THEN EmptyDB ELSE @]
        /\ wal' = [wal EXCEPT ![w] = FALSE]
        /\ UNCHANGED <<identity, config, blobs, writing, backup, archive, restore, status, short, rewritten, budget>>

\* The process ends, killed or at the end of shutdown while handlers run.
Stop(d) ==
    /\ serving[d] # 0
    /\ Spend("crashes")
    /\ serving' = [serving EXCEPT ![d] = 0]
    /\ writing' = [writing EXCEPT ![d] = {}]
    /\ wal' = [wal EXCEPT ![d] = TRUE]
    /\ UNCHANGED <<identity, config, db, blobs, backup, archive, restore, status, short, rewritten>>

\* WriteBlob truncates the file and writes it; handlers of sync/push do so for
\* events that are stored already.
OpenBlob(d, e) ==
    /\ serving[d] # 0 /\ e \notin writing[d]
    /\ Spend("writes")
    /\ rewritten' = IF e \in db[d].rows THEN rewritten \cup {e} ELSE rewritten
    /\ blobs' = [blobs EXCEPT ![d][e] = "torn"]
    /\ writing' = [writing EXCEPT ![d] = @ \cup {e}]
    /\ UNCHANGED <<identity, config, db, wal, serving, backup, archive, restore, status, short>>

WriteBlob(d, e) ==
    /\ e \in writing[d] /\ blobs[d][e] = "torn"
    /\ blobs' = [blobs EXCEPT ![d][e] = "whole"]
    /\ UNCHANGED <<identity, config, db, wal, serving, writing, backup, archive, restore, status, short, rewritten, budget>>

AppendEvent(d, e) ==
    /\ e \in writing[d] /\ blobs[d][e] = "whole"
    /\ db' = [db EXCEPT ![d].rows = @ \cup {e}]
    /\ writing' = [writing EXCEPT ![d] = @ \ {e}]
    /\ UNCHANGED <<identity, config, wal, blobs, serving, backup, archive, restore, status, short, rewritten, budget>>

\* The key of the bucket secrets follows from the root key of an identity; a
\* secret opens under the key it was sealed with and no other.
DeriveBucketCredsKey(id) == <<"crate-buckets", id>>
SealSecret(key, bucket)  == [id |-> bucket, sealed |-> key, used |-> FALSE]
OpenSecret(key, b)       == b.sealed = key

CreateCrateBucket(d, row)    == db' = [db EXCEPT ![d].buckets = @ \cup {row}]
LookupCrateBucket(d, bucket) == {b \in db[d].buckets : b.id = bucket}

\* last_used_at, of which only whether it is set is kept.
TouchCrateBucketLastUsed(d, bucket) ==
    db' = [db EXCEPT ![d].buckets = {IF b.id = bucket THEN [b EXCEPT !.used = TRUE] ELSE b : b \in @}]

\* The bucket id is fresh; the key is that of the identity in memory.
handleCrateBucketRegister(d) ==
    /\ serving[d] # 0
    /\ Spend("buckets")
    /\ CreateCrateBucket(d, SealSecret(DeriveBucketCredsKey(serving[d]), budget.buckets))
    /\ UNCHANGED <<identity, config, wal, blobs, serving, writing, backup, archive, restore, status, short, rewritten>>

loadAndDecrypt(d, bucket) ==
    {b \in LookupCrateBucket(d, bucket) : OpenSecret(DeriveBucketCredsKey(serving[d]), b)}

\* The store behind answers or not, and only success is noted in the row, or
\* not even then.
proxyToUpstream(d, b) == TouchCrateBucketLastUsed(d, b.id) \/ UNCHANGED db

\* Objects and lists: no row is 404, a secret that does not open is 500.
handleCrateObject(d, bucket) ==
    /\ serving[d] # 0
    /\ \E b \in loadAndDecrypt(d, bucket) : proxyToUpstream(d, b)
    /\ UNCHANGED <<identity, config, wal, blobs, serving, writing, backup, archive, restore, status, short, rewritten, budget>>

-----------------------------------------------------------------------------
(* nakli-hub backup, of the source while it serves.                        *)

\* VACUUM INTO: a consistent copy of the database.
vacuumInto ==
    /\ identity[Source] # 0 /\ db[Source] # None
    /\ Spend("backups")
    /\ backup' = [NoBackup EXCEPT !.pc = "list", !.rows = db[Source].rows, !.buckets = db[Source].buckets,
                                  !.mixed = ~Clean(Source)]
    /\ UNCHANGED <<hubVars, archive, restore, status, short, rewritten>>

\* The config names the data directory; one backup runs at a time.
runBackup ==
    /\ backup.pc = "idle" /\ DataDir(Source, FALSE) = Source
    /\ vacuumInto

\* writeArchive truncates the file at --output and writes the config, the
\* identity and the copy of the database; then the blob files are listed.  The
\* archive has no proper end yet.
writeArchive ==
    /\ backup.pc = "list"
    /\ archive' = [db |-> [rows |-> backup.rows, buckets |-> backup.buckets], identity |-> identity[Source],
                   config |-> config[Source], blobs |-> NoBlobs, mixed |-> backup.mixed \/ ~Clean(Source),
                   cut |-> TRUE, brokeAt |-> None]
    /\ backup' = [backup EXCEPT !.pc = "stat", !.todo = {e \in Events : blobs[Source][e] # "none"}]
    /\ UNCHANGED <<hubVars, restore, status, short, rewritten, budget>>

\* Files are archived and extracted in the order of their names.
First(e, files) == e \in files /\ \A f \in files : e <= f

\* writeTarFromPath: the header has the size of one moment ...
StatBlob ==
    /\ backup.pc = "stat"
    /\ \E e \in Events :
          /\ First(e, backup.todo)
          /\ backup' = [backup EXCEPT !.pc = "copy", !.size = blobs[Source][e]]
    /\ UNCHANGED <<hubVars, archive, restore, status, short, rewritten, budget>>

\* The deferred Close calls end the archive; an error of theirs is dropped, and
\* nothing removes the file.
Close(a, cut) == [a EXCEPT !.cut = cut, !.mixed = @ \/ ~Clean(Source)]

\* The copy of e ends the walk with an error: nothing is archived after what is
\* left of e.
BreakOff(e, left) ==
    /\ \E cut \in BOOLEAN : archive' = Close([archive EXCEPT !.blobs[e] = left, !.brokeAt = e], cut)
    /\ backup' = NoBackup

Copied(e, copy) ==
    /\ archive' = [archive EXCEPT !.blobs[e] = copy]
    /\ backup' = [backup EXCEPT !.pc = "stat", !.todo = @ \ {e}]

\* ... and the copy is of the next.  A file that grew is copied to its old size
\* and refused; one that shrank is noticed at the next header, and after the
\* last file only by the deferred Close.  A torn file may have any size.
CopyBlob ==
    /\ backup.pc = "copy"
    /\ \E e \in Events :
          /\ First(e, backup.todo)
          /\ \/ backup.size = blobs[Source][e] /\ Copied(e, backup.size)
             \/ backup.size = "torn" /\ BreakOff(e, "torn")
             \/ blobs[Source][e] = "torn" /\ (IF backup.todo = {e} THEN Copied(e, "cut") ELSE BreakOff(e, "cut"))
    /\ UNCHANGED <<hubVars, restore, status, short, rewritten, budget>>

\* The process dies, or a file cannot be read: before its header, or after it,
\* where only the header of an empty file is a whole entry.
BackupFails ==
    /\ backup.pc # "idle"
    /\ Spend("crashes")
    /\ \/ backup' = NoBackup /\ UNCHANGED archive
       \/ \E e \in Events :
             /\ First(e, backup.todo)
             /\ \/ backup.pc = "stat" /\ BreakOff(e, "none")
                \/ backup.pc = "copy" /\ BreakOff(e, "cut")
                \/ backup.pc = "copy" /\ backup.size = "torn" /\ BreakOff(e, "torn")
    /\ UNCHANGED <<hubVars, restore, status, short, rewritten>>

\* Mutant: the archive leaves the identity out.
EntriesWithoutIdentity(copied) ==
    [config |-> TRUE, identity |-> FALSE, db |-> TRUE, blobs |-> {e \in Events : copied[e] # "none"}]

\* config.json, hub-identity.json, fabric.db and the blobs.
Entries(copied) ==
    [config |-> TRUE, identity |-> TRUE, db |-> TRUE, blobs |-> {e \in Events : copied[e] # "none"}]

\* Reported as written, whatever the Close calls could not write.
BackupDone ==
    /\ backup.pc = "stat" /\ backup.todo = {}
    /\ \E cut \in BOOLEAN : archive' = Close(archive, cut)
    /\ backup' = NoBackup
    /\ UNCHANGED <<hubVars, restore, status, short, rewritten, budget>>

-----------------------------------------------------------------------------
(* nakli-hub restore.                                                      *)

Empty(d) == status[d] = "empty"

\* Extract begins: an empty directory, or --force.  Nobody restores from an
\* archive that is being written.
Extract(d, force) ==
    /\ archive # None /\ backup.pc = "idle"
    /\ force \/ Empty(d)
    /\ restore' = [pc |-> "entries", dir |-> d, todo |-> Entries(archive.blobs), from |-> archive, forced |-> ~Empty(d)]
    /\ status' = [status EXCEPT ![d] = "partial"]
    /\ UNCHANGED <<hubVars, backup, archive, short, rewritten>>

\* One restore runs at a time.
runRestore(d, force) ==
    /\ restore.pc = "idle"
    /\ Spend("restores")
    /\ Extract(d, force)

\* The next entry replaces the file of its name; nothing else is removed.
ExtractConfig(d, a) ==
    /\ restore.todo.config
    /\ config' = [config EXCEPT ![d] = a.config]
    /\ restore' = [restore EXCEPT !.todo.config = FALSE]
    /\ UNCHANGED <<identity, db, blobs>>

ExtractIdentity(d, a) ==
    /\ ~restore.todo.config /\ restore.todo.identity
    /\ identity' = [identity EXCEPT ![d] = a.identity]
    /\ restore' = [restore EXCEPT !.todo.identity = FALSE]
    /\ UNCHANGED <<config, db, blobs>>

\* A write-ahead log that is left in the directory may be replayed over the copy.
ExtractDB(d, a) ==
    /\ ~restore.todo.config /\ ~restore.todo.identity /\ restore.todo.db
    /\ \E rows \in {a.db.rows} \cup (IF wal[d] /\ db[d] # None THEN {a.db.rows \cup db[d].rows} ELSE {}) :
          db' = [db EXCEPT ![d] = [a.db EXCEPT !.rows = rows]]
    /\ restore' = [restore EXCEPT !.todo.db = FALSE]
    /\ UNCHANGED <<config, identity, blobs>>

\* A blob that was cut short ends the archive.
ExtractBlob(d, a, e) ==
    /\ ~restore.todo.config /\ ~restore.todo.identity /\ ~restore.todo.db
    /\ First(e, restore.todo.blobs) /\ a.blobs[e] # "cut"
    /\ blobs' = [blobs EXCEPT ![d][e] = a.blobs[e]]
    /\ restore' = [restore EXCEPT !.todo.blobs = @ \ {e}]
    /\ UNCHANGED <<config, identity, db>>

ExtractEntry ==
    /\ restore.pc = "entries"
    /\ \/ ExtractConfig(restore.dir, restore.from)
       \/ ExtractIdentity(restore.dir, restore.from)
       \/ ExtractDB(restore.dir, restore.from)
       \/ \E e \in Events : ExtractBlob(restore.dir, restore.from, e)
    /\ UNCHANGED <<wal, serving, writing, backup, archive, status, short, rewritten, budget>>

\* The archive ends too early, a write fails, the process dies, or one of the
\* checks at the end fails: what is written stays.
ExtractFails ==
    /\ restore.pc = "entries"
    /\ restore' = NoRestore
    /\ UNCHANGED <<hubVars, backup, archive, status, short, rewritten, budget>>

\* Mutant: an archive that stops anywhere between two entries is complete.
EndsAnywhere(a) == TRUE

ProperEnd(a) == ~a.cut

\* integrity_check and a look at some blobs; the manifest's count of blobs is
\* printed, not compared.
ExtractOK ==
    /\ restore.pc = "entries" /\ restore.todo = NothingLeft /\ ProperEnd(restore.from)
    /\ restore' = NoRestore
    /\ status' = [status EXCEPT ![restore.dir] = IF restore.forced \/ restore.from.mixed THEN "mixed" ELSE "restored"]
    /\ short' = [short EXCEPT ![restore.dir] = restore.from.brokeAt]
    /\ UNCHANGED <<hubVars, backup, archive, rewritten, budget>>

BackupNext ==
    \/ \E d \in Dirs :
          \/ runInit(d) \/ Stop(d) \/ handleCrateBucketRegister(d)
          \/ \E b \in (IF db[d] = None THEN {} ELSE db[d].buckets) : handleCrateObject(d, b.id)
          \/ \E override \in BOOLEAN : runServe(d, override)
          \/ \E e \in Events : OpenBlob(d, e) \/ WriteBlob(d, e) \/ AppendEvent(d, e)
          \/ \E force \in BOOLEAN : runRestore(d, force)
    \/ runBackup \/ writeArchive \/ StatBlob \/ CopyBlob \/ BackupFails \/ BackupDone
    \/ ExtractEntry \/ ExtractFails \/ ExtractOK

BackupSpec == BackupInit /\ [][BackupNext]_backupVars

-----------------------------------------------------------------------------
\* Directories that came to be by one init, or by a restore that reported
\* success into an empty directory.
Sound == {d \in Dirs : Clean(d)}

\* In such a directory every row has its whole blob, however appends ran while
\* the backup was taken - except an event that a peer pushed again, whose file
\* may be torn by a crash or caught half written by the backup, and except the
\* blobs from the one on at which a backup broke off and said so: what it leaves
\* behind restores like any other archive.
RowsHaveBlobs ==
    \A d \in Sound : \A e \in db[d].rows :
        blobs[d][e] = "whole" \/ e \in rewritten \/ (short[d] # None /\ short[d] <= e)

\* In such a directory the bucket credentials open under its identity and under
\* that of the hub that serves it.
SealedSecretsOpen ==
    \A d \in Sound : \A b \in db[d].buckets :
        /\ OpenSecret(DeriveBucketCredsKey(identity[d]), b)
        /\ serving[d] # 0 => OpenSecret(DeriveBucketCredsKey(serving[d]), b)
=============================================================================
