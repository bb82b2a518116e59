--------------------------- MODULE HubBackupProofs ---------------------------
(***************************************************************************)
(* Theorems about HubBackup.                                               *)
(***************************************************************************)
EXTENDS HubBackup, TLAPS

-----------------------------------------------------------------------------
(* Backup and restore: the inductive invariant.                            *)

\* A directory that is served or that came to be in one go has a database, and
\* only a hub that serves has blob files open.
DatabaseThere ==
    \A d \in Dirs :
        /\ serving[d] # 0 \/ Clean(d) => db[d] \in DB
        /\ writing[d] # {} => serving[d] # 0

\* There is nothing in a directory that nothing has been done to.
EmptyIsEmpty ==
    \A d \in Dirs :
        status[d] = "empty" =>
            /\ identity[d] = 0 /\ db[d] = None /\ ~wal[d]
            /\ serving[d] = 0 /\ blobs[d] = NoBlobs

\* A hub serves a clean directory under the identity on its disk.
ServesOwn == \A d \in Dirs : Clean(d) /\ serving[d] # 0 => serving[d] = identity[d]

\* There is no backup before the source was set up, and as long as it is clean
\* it is not made from one.
SourceFirst ==
    /\ status[Source] = "empty" => backup.pc = "idle" /\ archive = None
    /\ status[Source] \in {"empty", "init", "restored"} => short[Source] = None

\* An archive that is being written has no end, and nothing broke off.
BeingWritten ==
    backup.pc \in {"stat", "copy"} => archive \in Archive /\ archive.cut /\ archive.brokeAt = None

Opens(id, b) == OpenSecret(DeriveBucketCredsKey(id), b)

\* While the source stays clean, the rows of the snapshot and of the archive made
\* of it stay rows of the source, and their blobs are listed, or copied whole.
BackupFollows ==
    /\ backup.pc = "list" /\ ~backup.mixed /\ Clean(Source) =>
          /\ backup.rows \subseteq db[Source].rows
          /\ \A b \in backup.buckets : Opens(identity[Source], b)
    /\ backup.pc \in {"stat", "copy"} /\ ~archive.mixed /\ Clean(Source) =>
          /\ archive.db.rows \subseteq db[Source].rows
          /\ \A b \in archive.db.buckets : Opens(archive.identity, b)
          /\ \A e \in archive.db.rows \ rewritten : e \in backup.todo \/ archive.blobs[e] = "whole"

\* What an archive of a clean source, once it has its end, promises of a
\* directory made from it.
Good(a) ==
    /\ \A e \in a.db.rows \ rewritten : a.blobs[e] = "whole" \/ (a.brokeAt # None /\ a.brokeAt <= e)
    /\ \A b \in a.db.buckets : Opens(a.identity, b)

ArchivesGood ==
    /\ archive # None /\ ~archive.mixed /\ ~archive.cut => Good(archive)
    /\ restore.pc = "entries" /\ ~restore.from.mixed /\ ~restore.from.cut => Good(restore.from)

\* A directory that is being restored is not clean; one that was empty is not
\* the source, is not served, and has what the archive had up to the next entry.
RestoreFollows ==
    restore.pc = "entries" =>
        /\ restore.dir \in Dirs /\ restore.from \in Archive
        /\ status[restore.dir] # "empty" /\ ~Clean(restore.dir)
        /\ ~restore.forced =>
              /\ restore.dir # Source /\ ~wal[restore.dir] /\ serving[restore.dir] = 0
              /\ ~restore.todo.identity => identity[restore.dir] = restore.from.identity
              /\ ~restore.todo.db => db[restore.dir] = restore.from.db
              /\ \A e \in Events \ restore.todo.blobs :
                    blobs[restore.dir][e] = restore.from.blobs[e]

BackupIInv ==
    /\ BackupTypeOK
    /\ DatabaseThere
    /\ EmptyIsEmpty
    /\ ServesOwn
    /\ SourceFirst
    /\ BeingWritten
    /\ BackupFollows
    /\ ArchivesGood
    /\ RestoreFollows
    /\ RowsHaveBlobs
    /\ SealedSecretsOpen

-----------------------------------------------------------------------------
(* Types.                                                                  *)

\* A database, a backup, an archive and a restore, field by field.
LEMMA BackupFields ==
    /\ \A x \in DB : x.rows \subseteq Events /\ x.buckets \subseteq Bucket
    /\ \A x \in Backup :
          /\ x.pc \in {"idle", "list", "stat", "copy"} /\ x.rows \subseteq Events /\ x.buckets \subseteq Bucket
          /\ x.todo \subseteq Events /\ x.size \in {"none", "torn", "whole"} /\ x.mixed \in BOOLEAN
    /\ \A x \in Archive :
          /\ x.db \in DB /\ x.identity \in Nat /\ x.config \in Dirs \cup {None} /\ x.blobs \in Copies
          /\ x.mixed \in BOOLEAN /\ x.cut \in BOOLEAN /\ x.brokeAt \in Events \cup {None}
    /\ \A x \in Listing :
          x.config \in BOOLEAN /\ x.identity \in BOOLEAN /\ x.db \in BOOLEAN /\ x.blobs \subseteq Events
    /\ \A x \in Restore :
          /\ x.pc \in {"idle", "entries"} /\ x.dir \in Dirs \cup {None} /\ x.todo \in Listing
          /\ x.from \in Archive \cup {None} /\ x.forced \in BOOLEAN
  BY DEF DB, Backup, Archive, Listing, Restore

\* Nothing yet, or no more.
LEMMA NothingTypes ==
    /\ NoBlobs \in Files /\ NoBlobs \in Copies /\ EmptyDB \in DB
    /\ NothingLeft \in Listing /\ NoRestore \in Restore /\ NoBackup \in Backup
    /\ NoRestore.pc = "idle" /\ NoBackup.pc = "idle" /\ NoRestore.dir = None
    /\ EmptyDB.rows = {} /\ EmptyDB.buckets = {}
<1>1. NoBlobs \in Files /\ NoBlobs \in Copies
  BY DEF NoBlobs, Files, Copies
<1>2. EmptyDB \in DB /\ NothingLeft \in Listing
  BY DEF EmptyDB, DB, NothingLeft, Listing
<1>3. NoRestore \in Restore
  BY <1>2 DEF NoRestore, Restore
<1>4. NoBackup \in Backup
  BY <1>1 DEF NoBackup, Backup
<1> QED
  BY <1>1, <1>2, <1>3, <1>4 DEF NoRestore, NoBackup, EmptyDB

\* What is spent was there.
LEMMA SpendType ==
    ASSUME budget \in Budget, NEW f \in {"identities", "buckets", "writes", "crashes", "backups", "restores"}, Spend(f)
    PROVE  budget' \in Budget /\ budget[f] \in Nat
  BY DEF Spend, Budget

\* A row of crate_buckets is typed; touching it keeps its seal.
LEMMA BucketTypes ==
    /\ \A id \in Nat, b \in Nat : SealSecret(DeriveBucketCredsKey(id), b) \in Bucket
    /\ \A b \in Bucket : [b EXCEPT !.used = TRUE] \in Bucket /\ [b EXCEPT !.used = TRUE].sealed = b.sealed
  BY DEF SealSecret, DeriveBucketCredsKey, Bucket, Sealed

\* A database to which a row or a bucket is added, or whose buckets are touched.
LEMMA DBTypes ==
    ASSUME NEW x \in DB
    PROVE  /\ \A e \in Events : [x EXCEPT !.rows = @ \cup {e}] \in DB
           /\ \A R \in SUBSET Events : [x EXCEPT !.rows = R] \in DB
           /\ \A B \in SUBSET Bucket : [x EXCEPT !.buckets = B] \in DB
  BY DEF DB

\* The directory a hub serves has a database; so has the one it is in.
LEMMA DatabaseOf ==
    ASSUME BackupTypeOK, DatabaseThere, NEW d \in Dirs, serving[d] # 0 \/ writing[d] # {}
    PROVE  db[d] \in DB /\ serving[d] # 0
  BY DEF DatabaseThere

\* Every step of the hub keeps the types.
LEMMA HubTypes ==
    ASSUME BackupTypeOK, DatabaseThere, NEW d \in Dirs,
           \/ runInit(d) \/ Stop(d) \/ handleCrateBucketRegister(d)
           \/ \E b \in (IF db[d] = None THEN {} ELSE db[d].buckets) : handleCrateObject(d, b.id)
           \/ \E override \in BOOLEAN : runServe(d, override)
           \/ \E e \in Events : OpenBlob(d, e) \/ WriteBlob(d, e) \/ AppendEvent(d, e)
    PROVE  BackupTypeOK'
<1> USE BackupAssumption
<1>1. CASE runInit(d)
  <2>1. budget' \in Budget /\ Generate \in Nat
    BY <1>1, SpendType DEF runInit, BackupTypeOK, Generate
  <2> QED
    BY <1>1, <2>1, NothingTypes DEF runInit, BackupTypeOK
<1>2. CASE Stop(d)
  <2>1. budget' \in Budget
    BY <1>2, SpendType DEF Stop, BackupTypeOK
  <2> QED
    BY <1>2, <2>1 DEF Stop, BackupTypeOK
<1>3. CASE handleCrateBucketRegister(d)
  <2> DEFINE row == SealSecret(DeriveBucketCredsKey(serving[d]), budget.buckets)
  <2>1. budget' \in Budget /\ budget.buckets \in Nat /\ serving[d] \in Nat
    BY <1>3, SpendType DEF handleCrateBucketRegister, BackupTypeOK
  <2>2. db[d] \in DB
    BY <1>3, DatabaseOf DEF handleCrateBucketRegister
  <2>3. db[d].buckets \cup {row} \in SUBSET Bucket
    BY <2>1, <2>2, BucketTypes, BackupFields
  <2>4. [db[d] EXCEPT !.buckets = @ \cup {row}] \in DB
    BY <2>2, <2>3, DBTypes
  <2> HIDE DEF row
  <2>5. db' = [db EXCEPT ![d] = [db[d] EXCEPT !.buckets = @ \cup {row}]]
    BY <1>3 DEF handleCrateBucketRegister, CreateCrateBucket, row
  <2>6. db' \in [Dirs -> DB \cup {None}]
    BY <2>4, <2>5 DEF BackupTypeOK
  <2> QED
    BY <1>3, <2>1, <2>6 DEF handleCrateBucketRegister, BackupTypeOK
<1>4. ASSUME NEW id, handleCrateObject(d, id)
      PROVE  BackupTypeOK'
  <2> DEFINE touched == {IF b.id = id THEN [b EXCEPT !.used = TRUE] ELSE b : b \in db[d].buckets}
  <2>1. db[d] \in DB
    BY <1>4, DatabaseOf DEF handleCrateObject
  <2>2. touched \in SUBSET Bucket
    BY <2>1, BucketTypes, BackupFields
  <2>3. [db[d] EXCEPT !.buckets = touched] \in DB
    BY <2>1, <2>2, DBTypes
  <2>4. db' = [db EXCEPT ![d] = [db[d] EXCEPT !.buckets = touched]] \/ db' = db
    BY <1>4 DEF handleCrateObject, proxyToUpstream, TouchCrateBucketLastUsed, loadAndDecrypt, LookupCrateBucket
  <2> HIDE DEF touched
  <2>5. db' \in [Dirs -> DB \cup {None}]
    BY <2>3, <2>4 DEF BackupTypeOK
  <2> QED
    BY <1>4, <2>5 DEF handleCrateObject, BackupTypeOK
<1>5. ASSUME NEW override \in BOOLEAN, runServe(d, override)
      PROVE  BackupTypeOK'
  <2>1. DataDir(d, override) \in Dirs
    BY <1>5 DEF runServe, DataDir, BackupTypeOK
  <2> QED
    BY <1>5, <2>1, NothingTypes DEF runServe, BackupTypeOK
<1>6. ASSUME NEW e \in Events, OpenBlob(d, e)
      PROVE  BackupTypeOK'
  <2>1. budget' \in Budget
    BY <1>6, SpendType DEF OpenBlob, BackupTypeOK
  <2>2. blobs' \in [Dirs -> Files]
    BY <1>6 DEF OpenBlob, BackupTypeOK, Files
  <2> QED
    BY <1>6, <2>1, <2>2 DEF OpenBlob, BackupTypeOK
<1>7. ASSUME NEW e \in Events, WriteBlob(d, e)
      PROVE  BackupTypeOK'
  <2>1. blobs' \in [Dirs -> Files]
    BY <1>7 DEF WriteBlob, BackupTypeOK, Files
  <2> QED
    BY <1>7, <2>1 DEF WriteBlob, BackupTypeOK
<1>8. ASSUME NEW e \in Events, AppendEvent(d, e)
      PROVE  BackupTypeOK'
  <2>1. db[d] \in DB
    BY <1>8, DatabaseOf DEF AppendEvent
  <2>2. [db[d] EXCEPT !.rows = @ \cup {e}] \in DB
    BY <2>1, DBTypes
  <2>3. db' = [db EXCEPT ![d] = [db[d] EXCEPT !.rows = @ \cup {e}]]
    BY <1>8 DEF AppendEvent
  <2>4. db' \in [Dirs -> DB \cup {None}]
    BY <2>2, <2>3 DEF BackupTypeOK
  <2> QED
    BY <1>8, <2>4 DEF AppendEvent, BackupTypeOK
<1> QED
  BY <1>1, <1>2, <1>3, <1>4, <1>5, <1>6, <1>7, <1>8

\* What the copy of a blob and the end of the backup leave of an archive.
LEMMA ArchiveTypes ==
    ASSUME NEW a \in Archive
    PROVE  /\ \A e \in Events, copy \in {"none", "torn", "whole", "cut"} :
                 /\ [a EXCEPT !.blobs[e] = copy] \in Archive
                 /\ [a EXCEPT !.blobs[e] = copy, !.brokeAt = e] \in Archive
           /\ \A cut \in BOOLEAN : Close(a, cut) \in Archive
<1>1. \A e \in Events, copy \in {"none", "torn", "whole", "cut"} : [a.blobs EXCEPT ![e] = copy] \in Copies
  BY BackupFields DEF Copies
<1>2. \A c \in Copies, e \in Events : [a EXCEPT !.blobs = c] \in Archive /\ [a EXCEPT !.blobs = c, !.brokeAt = e] \in Archive
  BY DEF Archive
<1>3. \A e \in Events, copy \in {"none", "torn", "whole", "cut"} :
          /\ [a EXCEPT !.blobs[e] = copy] = [a EXCEPT !.blobs = [a.blobs EXCEPT ![e] = copy]]
          /\ [a EXCEPT !.blobs[e] = copy, !.brokeAt = e] = [a EXCEPT !.blobs = [a.blobs EXCEPT ![e] = copy], !.brokeAt = e]
  OBVIOUS
<1>4. PICK m \in BOOLEAN : m = (a.mixed \/ ~Clean(Source))
  BY DEF Clean
<1>5. \A cut \in BOOLEAN : Close(a, cut) \in Archive
  <2>1. \A cut \in BOOLEAN : Close(a, cut) = [a EXCEPT !.cut = cut, !.mixed = m]
    BY <1>4 DEF Close
  <2>2. \A cut \in BOOLEAN : [a EXCEPT !.cut = cut, !.mixed = m] \in Archive
    BY DEF Archive
  <2> QED
    BY <2>1, <2>2
<1> QED
  BY <1>1, <1>2, <1>3, <1>5

\* Every step of the backup process keeps the types.
LEMMA BackupTypes ==
    ASSUME BackupTypeOK, DatabaseThere, BeingWritten,
           runBackup \/ writeArchive \/ StatBlob \/ CopyBlob \/ BackupFails \/ BackupDone
    PROVE  BackupTypeOK'
<1> USE BackupAssumption
<1>0. SUFFICES backup' \in Backup /\ archive' \in Archive \cup {None} /\ budget' \in Budget
  BY DEF BackupTypeOK, runBackup, vacuumInto, writeArchive, StatBlob, CopyBlob, BackupFails, BackupDone, hubVars
<1>1. backup \in Backup /\ archive \in Archive \cup {None} /\ budget \in Budget /\ blobs[Source] \in Files
  BY DEF BackupTypeOK
<1>2. CASE runBackup
  <2>1. budget' \in Budget
    BY <1>2, SpendType DEF runBackup, vacuumInto, BackupTypeOK
  <2>2. db[Source].rows \subseteq Events /\ db[Source].buckets \subseteq Bucket
    BY <1>2, BackupFields DEF runBackup, vacuumInto, BackupTypeOK
  <2>3. backup' \in Backup
    BY <1>2, <2>2, NothingTypes DEF runBackup, vacuumInto, Backup, Clean
  <2> QED
    BY <1>1, <1>2, <2>1, <2>3 DEF runBackup, vacuumInto
<1>3. CASE writeArchive
  <2>1. backup' \in Backup
    BY <1>1, <1>3 DEF writeArchive, Backup
  <2>2. [rows |-> backup.rows, buckets |-> backup.buckets] \in DB
    BY <1>1, BackupFields DEF DB
  <2>3. identity[Source] \in Nat /\ config[Source] \in Dirs \cup {None} /\ backup.mixed \in BOOLEAN /\ NoBlobs \in Copies
    BY <1>1, BackupFields, NothingTypes DEF BackupTypeOK
  <2>4. archive' \in Archive
    BY <1>3, <2>2, <2>3 DEF writeArchive, Archive, Clean
  <2> QED
    BY <1>1, <1>3, <2>1, <2>4 DEF writeArchive
<1>4. CASE StatBlob
  <2>1. backup' \in Backup
    BY <1>1, <1>4 DEF StatBlob, Backup, Files
  <2> QED
    BY <1>1, <1>4, <2>1 DEF StatBlob
<1>5. \A e \in Events, left \in {"none", "torn", "cut"} :
          backup.pc \in {"stat", "copy"} /\ BreakOff(e, left) => backup' \in Backup /\ archive' \in Archive
  BY ArchiveTypes, NothingTypes DEF BreakOff, BeingWritten
<1>6. \A e \in Events, copy \in {"none", "torn", "whole", "cut"} :
          backup.pc = "copy" /\ Copied(e, copy) => backup' \in Backup /\ archive' \in Archive
  <2>1. \A e \in Events : [backup EXCEPT !.pc = "stat", !.todo = @ \ {e}] \in Backup
    BY <1>1 DEF Backup
  <2>2. backup.pc = "copy" => archive \in Archive
    BY DEF BeingWritten
  <2> QED
    <3>1. SUFFICES ASSUME NEW e \in Events, NEW copy \in {"none", "torn", "whole", "cut"}, backup.pc = "copy", Copied(e, copy)
                   PROVE  backup' \in Backup /\ archive' \in Archive
      OBVIOUS
    <3>2. [archive EXCEPT !.blobs[e] = copy] \in Archive
      BY <2>2, <3>1, ArchiveTypes
    <3> QED
      BY <2>1, <3>1, <3>2 DEF Copied
<1>7. CASE CopyBlob
  <2>1. backup.size \in {"none", "torn", "whole"}
    BY <1>1, BackupFields
  <2> QED
    BY <1>1, <1>5, <1>6, <1>7, <2>1 DEF CopyBlob
<1>8. CASE BackupFails
  <2>1. budget' \in Budget
    BY <1>8, SpendType DEF BackupFails, BackupTypeOK
  <2> QED
    BY <1>1, <1>5, <1>8, <2>1, NothingTypes DEF BackupFails
<1>9. CASE BackupDone
  BY <1>1, <1>9, ArchiveTypes, NothingTypes DEF BackupDone, BeingWritten
<1> QED
  BY <1>2, <1>3, <1>4, <1>7, <1>8, <1>9

\* What Extract writes next has the types of the file it replaces.
LEMMA RestoreTypes ==
    ASSUME BackupTypeOK, RestoreFollows,
           \/ \E d \in Dirs, force \in BOOLEAN : runRestore(d, force)
           \/ ExtractEntry \/ ExtractFails \/ ExtractOK
    PROVE  BackupTypeOK'
<1> USE BackupAssumption
<1>1. CASE \E d \in Dirs, force \in BOOLEAN : runRestore(d, force)
  <2>1. PICK d \in Dirs, force \in BOOLEAN : runRestore(d, force)
    BY <1>1
  <2>2. budget' \in Budget
    BY <2>1, SpendType DEF runRestore, BackupTypeOK
  <2>3. archive \in Archive /\ archive.blobs \in Copies
    BY <2>1, BackupFields DEF runRestore, Extract, BackupTypeOK
  <2>4. Entries(archive.blobs) \in Listing
    BY <2>3 DEF Entries, Listing
  <2>5. restore' \in Restore
    BY <2>1, <2>3, <2>4 DEF runRestore, Extract, Restore, Empty
  <2> QED
    BY <2>1, <2>2, <2>5 DEF runRestore, Extract, BackupTypeOK, hubVars
<1>2. CASE ExtractEntry
  <2> DEFINE d == restore.dir
             a == restore.from
             t == restore.todo
  <2>1. d \in Dirs /\ a \in Archive /\ restore \in Restore /\ t \in Listing
    BY <1>2, BackupFields DEF ExtractEntry, RestoreFollows, BackupTypeOK
  <2>2. \A l \in Listing : [restore EXCEPT !.todo = l] \in Restore
    BY <2>1 DEF Restore
  <2>3. a.identity \in Nat /\ a.config \in Dirs \cup {None} /\ a.db \in DB /\ a.blobs \in Copies
    BY <2>1, BackupFields
  <2>4. CASE ExtractConfig(d, a)
    <3>1. restore' = [restore EXCEPT !.todo = [t EXCEPT !.config = FALSE]]
      BY <2>1, <2>4 DEF ExtractConfig
    <3>2. [t EXCEPT !.config = FALSE] \in Listing
      BY <2>1 DEF Listing
    <3> QED
      BY <1>2, <2>1, <2>2, <2>3, <2>4, <3>1, <3>2 DEF ExtractEntry, ExtractConfig, BackupTypeOK
  <2>5. CASE ExtractIdentity(d, a)
    <3>1. restore' = [restore EXCEPT !.todo = [t EXCEPT !.identity = FALSE]]
      BY <2>1, <2>5 DEF ExtractIdentity
    <3>2. [t EXCEPT !.identity = FALSE] \in Listing
      BY <2>1 DEF Listing
    <3> QED
      BY <1>2, <2>1, <2>2, <2>3, <2>5, <3>1, <3>2 DEF ExtractEntry, ExtractIdentity, BackupTypeOK
  <2>6. CASE ExtractDB(d, a)
    <3>1. restore' = [restore EXCEPT !.todo = [t EXCEPT !.db = FALSE]]
      BY <2>1, <2>6 DEF ExtractDB
    <3>2. [t EXCEPT !.db = FALSE] \in Listing
      BY <2>1 DEF Listing
    <3>a. db[d] \in DB \cup {None} /\ a.db.rows \subseteq Events
      BY <2>1, <2>3, BackupFields DEF BackupTypeOK
    <3>b. db[d] # None => a.db.rows \cup db[d].rows \subseteq Events
      BY <3>a, BackupFields
    <3>3. PICK R \in SUBSET Events : db' = [db EXCEPT ![d] = [a.db EXCEPT !.rows = R]]
      BY <2>6, <3>a, <3>b DEF ExtractDB
    <3>4. [a.db EXCEPT !.rows = R] \in DB
      BY <2>3, DBTypes
    <3> QED
      BY <1>2, <2>1, <2>2, <2>6, <3>1, <3>2, <3>3, <3>4 DEF ExtractEntry, ExtractDB, BackupTypeOK
  <2>7. CASE \E e \in Events : ExtractBlob(d, a, e)
    <3>1. PICK e \in Events : ExtractBlob(d, a, e)
      BY <2>7
    <3>2. restore' = [restore EXCEPT !.todo = [t EXCEPT !.blobs = @ \ {e}]]
      BY <2>1, <3>1 DEF ExtractBlob
    <3>3. [t EXCEPT !.blobs = @ \ {e}] \in Listing
      BY <2>1 DEF Listing
    <3>4. blobs' \in [Dirs -> Files]
      BY <2>1, <2>3, <3>1 DEF ExtractBlob, BackupTypeOK, Files, Copies
    <3> QED
      BY <1>2, <2>1, <2>2, <3>1, <3>2, <3>3, <3>4 DEF ExtractEntry, ExtractBlob, BackupTypeOK
  <2> QED
    BY <1>2, <2>4, <2>5, <2>6, <2>7 DEF ExtractEntry
<1>3. CASE ExtractFails
  BY <1>3, NothingTypes DEF ExtractFails, BackupTypeOK, hubVars
<1>4. CASE ExtractOK
  <2>1. restore.dir \in Dirs /\ restore.from.brokeAt \in Events \cup {None}
    BY <1>4, BackupFields DEF ExtractOK, RestoreFollows
  <2>2. /\ restore' = NoRestore /\ UNCHANGED <<hubVars, backup, archive, rewritten, budget>>
        /\ short' = [short EXCEPT ![restore.dir] = restore.from.brokeAt]
        /\ status' \in [Dirs -> {"empty", "init", "partial", "restored", "mixed"}]
    BY <1>4, <2>1 DEF ExtractOK, BackupTypeOK
  <2>3. short' \in [Dirs -> Events \cup {None}]
    BY <2>1, <2>2 DEF BackupTypeOK
  <2> QED
    BY <2>2, <2>3, NothingTypes DEF BackupTypeOK, hubVars
<1> QED
  BY <1>1, <1>2, <1>3, <1>4

LEMMA BackupStepTypes ==
    ASSUME BackupTypeOK, DatabaseThere, BeingWritten, RestoreFollows, [BackupNext]_backupVars
    PROVE  BackupTypeOK'
<1>1. CASE UNCHANGED backupVars
  BY <1>1 DEF backupVars, BackupTypeOK
<1> QED
  BY <1>1, HubTypes, BackupTypes, RestoreTypes DEF BackupNext

-----------------------------------------------------------------------------
(* The steps of the hub keep the invariant.                                *)

\* A directory under restore that was empty is nobody's: the hub that serves,
\* or is initialised or started, does so elsewhere.
LEMMA Elsewhere ==
    ASSUME BackupIInv, restore.pc = "entries", ~restore.forced
    PROVE  /\ restore.dir \in Dirs /\ restore.dir # Source /\ serving[restore.dir] = 0
           /\ writing[restore.dir] = {}
  BY DEF BackupIInv, RestoreFollows, DatabaseThere

LEMMA InitStep ==
    ASSUME BackupIInv, BackupTypeOK', NEW d \in Dirs, runInit(d)
    PROVE  BackupIInv'
<1> USE BackupAssumption
<1>1. /\ d = Source
      /\ \A x \in Dirs \ {d} : identity'[x] = identity[x] /\ db'[x] = db[x] /\ status'[x] = status[x]
      /\ db'[d] = IF db[d] = None THEN EmptyDB ELSE db[d]
      /\ status'[d] = IF status[d] = "empty" THEN "init" ELSE "mixed"
      /\ UNCHANGED <<wal, blobs, serving, writing, backup, archive, restore, short, rewritten>>
  BY DEF runInit, BackupIInv, BackupTypeOK
<1>2. db'[d] \in DB
  BY <1>1, NothingTypes DEF BackupIInv, BackupTypeOK
<1>3. status[d] = "empty" => db'[d] = EmptyDB /\ serving[d] = 0 /\ backup.pc = "idle"
  BY <1>1 DEF BackupIInv, EmptyIsEmpty, SourceFirst, BeingWritten
<1>4. ~Clean(d)' \/ status[d] = "empty"
  BY <1>1 DEF Clean
<1>5. \A x \in Dirs \ {d} : Clean(x)' = Clean(x)
  BY <1>1 DEF Clean
<1>6. DatabaseThere'
  BY <1>1, <1>2, <1>5 DEF BackupIInv, DatabaseThere
<1>7. EmptyIsEmpty' /\ SourceFirst' /\ BeingWritten'
  BY <1>1 DEF BackupIInv, EmptyIsEmpty, SourceFirst, BeingWritten
<1>8. ServesOwn'
  BY <1>1, <1>3, <1>4, <1>5 DEF BackupIInv, ServesOwn
<1>9. BackupFollows'
  BY <1>1, <1>3, <1>4 DEF BackupFollows
<1>10. ArchivesGood'
  BY <1>1 DEF BackupIInv, ArchivesGood, Good
<1>11. RestoreFollows'
  BY <1>1, <1>5 DEF BackupIInv, RestoreFollows, Clean
<1>12. RowsHaveBlobs'
  BY <1>1, <1>3, <1>4, <1>5, NothingTypes DEF BackupIInv, RowsHaveBlobs, Sound
<1>13. SealedSecretsOpen'
  BY <1>1, <1>3, <1>4, <1>5, NothingTypes DEF BackupIInv, SealedSecretsOpen, Sound
<1> QED
  BY <1>6, <1>7, <1>8, <1>9, <1>10, <1>11, <1>12, <1>13 DEF BackupIInv

LEMMA ServeStep ==
    ASSUME BackupIInv, BackupTypeOK', NEW d \in Dirs, NEW override \in BOOLEAN, runServe(d, override)
    PROVE  BackupIInv'
<1> USE BackupAssumption
<1>0. PICK w \in Dirs :
          /\ identity[w] # 0 /\ restore.dir # w
          /\ serving' = [serving EXCEPT ![w] = identity[w]]
          /\ db' = [db EXCEPT ![w] = IF @ = None THEN EmptyDB ELSE @]
          /\ wal' = [wal EXCEPT ![w] = FALSE]
          /\ UNCHANGED <<identity, config, blobs, writing, backup, archive, restore, status, short, rewritten, budget>>
  BY DEF runServe, DataDir, CanLoad, BackupIInv, BackupTypeOK
<1>1. /\ \A x \in Dirs \ {w} : serving'[x] = serving[x] /\ db'[x] = db[x] /\ wal'[x] = wal[x]
      /\ serving'[w] = identity[w]
      /\ db'[w] = IF db[w] = None THEN EmptyDB ELSE db[w]
  BY <1>0 DEF BackupIInv, BackupTypeOK
<1>2. db'[w] \in DB
  BY <1>1, NothingTypes DEF BackupIInv, BackupTypeOK
<1>3. status[w] # "empty"
  BY <1>0 DEF BackupIInv, EmptyIsEmpty
<1>4. Clean(w) => db'[w] = db[w]
  BY <1>1 DEF BackupIInv, DatabaseThere
<1>5. \A x \in Dirs : Clean(x)' = Clean(x)
  BY <1>0 DEF Clean
<1>6. DatabaseThere'
  BY <1>0, <1>1, <1>2, <1>5 DEF BackupIInv, DatabaseThere
<1>7. EmptyIsEmpty' /\ SourceFirst' /\ BeingWritten'
  BY <1>0, <1>1, <1>3 DEF BackupIInv, EmptyIsEmpty, SourceFirst, BeingWritten
<1>8. ServesOwn'
  BY <1>0, <1>1, <1>5 DEF BackupIInv, ServesOwn
<1>9. BackupFollows'
  BY <1>0, <1>1, <1>4, <1>5 DEF BackupIInv, BackupFollows
<1>10. ArchivesGood'
  BY <1>0 DEF BackupIInv, ArchivesGood, Good
<1>11. RestoreFollows'
  BY <1>0, <1>1, <1>5 DEF BackupIInv, RestoreFollows
<1>12. RowsHaveBlobs'
  BY <1>0, <1>1, <1>4, <1>5 DEF BackupIInv, RowsHaveBlobs, Sound
<1>13. SealedSecretsOpen'
  BY <1>0, <1>1, <1>4, <1>5 DEF BackupIInv, SealedSecretsOpen, Sound
<1> QED
  BY <1>6, <1>7, <1>8, <1>9, <1>10, <1>11, <1>12, <1>13 DEF BackupIInv

LEMMA StopStep ==
    ASSUME BackupIInv, BackupTypeOK', NEW d \in Dirs, Stop(d)
    PROVE  BackupIInv'
<1> USE BackupAssumption
<1>1. /\ serving[d] # 0
      /\ \A x \in Dirs \ {d} : serving'[x] = serving[x] /\ writing'[x] = writing[x] /\ wal'[x] = wal[x]
      /\ serving'[d] = 0 /\ writing'[d] = {}
      /\ UNCHANGED <<identity, config, db, blobs, backup, archive, restore, status, short, rewritten>>
  BY DEF Stop, BackupIInv, BackupTypeOK
<1>2. \A x \in Dirs : Clean(x)' = Clean(x)
  BY <1>1 DEF Clean
<1>3. DatabaseThere' /\ ServesOwn'
  BY <1>1, <1>2 DEF BackupIInv, DatabaseThere, ServesOwn
<1>4. EmptyIsEmpty' /\ SourceFirst' /\ BeingWritten'
  BY <1>1 DEF BackupIInv, EmptyIsEmpty, SourceFirst, BeingWritten
<1>5. BackupFollows' /\ ArchivesGood'
  BY <1>1, <1>2 DEF BackupIInv, BackupFollows, ArchivesGood, Good
<1>6. RestoreFollows'
  BY <1>1, <1>2 DEF BackupIInv, RestoreFollows
<1>7. RowsHaveBlobs'
  BY <1>1, <1>2 DEF BackupIInv, RowsHaveBlobs, Sound
<1>8. SealedSecretsOpen'
  BY <1>1, <1>2 DEF BackupIInv, SealedSecretsOpen, Sound
<1> QED
  BY <1>3, <1>4, <1>5, <1>6, <1>7, <1>8 DEF BackupIInv

\* The rows stay, and every bucket is one that was there, or one that is sealed
\* under the identity of the hub that serves.
LEMMA BucketStep ==
    ASSUME BackupIInv, BackupTypeOK', NEW d \in Dirs, serving[d] # 0,
           UNCHANGED <<identity, config, wal, blobs, serving, writing, backup, archive, restore, status, short, rewritten>>,
           \A x \in Dirs \ {d} : db'[x] = db[x],
           db'[d] \in DB, db'[d].rows = db[d].rows,
           \A b \in db'[d].buckets :
              b.sealed = DeriveBucketCredsKey(serving[d]) \/ \E c \in db[d].buckets : b.sealed = c.sealed
    PROVE  BackupIInv'
<1> USE BackupAssumption
<1>1. \A x \in Dirs : Clean(x)' = Clean(x)
  BY DEF Clean
<1>2. DatabaseThere' /\ ServesOwn'
  BY <1>1 DEF BackupIInv, DatabaseThere, ServesOwn
<1>3. EmptyIsEmpty' /\ SourceFirst' /\ BeingWritten'
  BY DEF BackupIInv, EmptyIsEmpty, SourceFirst, BeingWritten
<1>4. BackupFollows'
  BY <1>1 DEF BackupIInv, BackupFollows
<1>5. ArchivesGood'
  BY DEF BackupIInv, ArchivesGood, Good
<1>6. RestoreFollows'
  BY <1>1 DEF BackupIInv, RestoreFollows
<1>7. RowsHaveBlobs'
  BY <1>1 DEF BackupIInv, RowsHaveBlobs, Sound
<1>8. SealedSecretsOpen'
  BY <1>1 DEF BackupIInv, SealedSecretsOpen, Sound, OpenSecret, ServesOwn
<1> QED
  BY <1>2, <1>3, <1>4, <1>5, <1>6, <1>7, <1>8 DEF BackupIInv

LEMMA RegisterStep ==
    ASSUME BackupIInv, BackupTypeOK', NEW d \in Dirs, handleCrateBucketRegister(d)
    PROVE  BackupIInv'
<1> DEFINE row == SealSecret(DeriveBucketCredsKey(serving[d]), budget.buckets)
<1>1. serving[d] # 0 /\ db[d] \in DB
  BY DatabaseOf DEF handleCrateBucketRegister, BackupIInv
<1>2. row.sealed = DeriveBucketCredsKey(serving[d])
  BY DEF SealSecret
<1>a. budget.buckets \in Nat /\ serving[d] \in Nat
  BY SpendType DEF handleCrateBucketRegister, BackupIInv, BackupTypeOK
<1>b. row \in Bucket
  BY <1>a, BucketTypes
<1> HIDE DEF row
<1>3. db' = [db EXCEPT ![d] = [db[d] EXCEPT !.buckets = @ \cup {row}]]
  BY DEF handleCrateBucketRegister, CreateCrateBucket, row
<1>4. db'[d] = [db[d] EXCEPT !.buckets = @ \cup {row}] /\ \A x \in Dirs \ {d} : db'[x] = db[x]
  BY <1>3 DEF BackupIInv, BackupTypeOK
<1>5. db'[d] \in DB /\ db'[d].rows = db[d].rows /\ db'[d].buckets = db[d].buckets \cup {row}
  BY <1>1, <1>4, <1>b DEF DB
<1> QED
  BY <1>1, <1>2, <1>4, <1>5, BucketStep DEF handleCrateBucketRegister

LEMMA ObjectStep ==
    ASSUME BackupIInv, BackupTypeOK', NEW d \in Dirs, NEW id, handleCrateObject(d, id)
    PROVE  BackupIInv'
<1> DEFINE touched == {IF b.id = id THEN [b EXCEPT !.used = TRUE] ELSE b : b \in db[d].buckets}
<1>1. serving[d] # 0 /\ db[d] \in DB
  BY DatabaseOf DEF handleCrateObject, BackupIInv
<1>2. db[d].buckets \subseteq Bucket
  BY <1>1, BackupFields
<1>3. touched \subseteq Bucket /\ \A b \in touched : \E c \in db[d].buckets : b.sealed = c.sealed
  BY <1>2, BucketTypes
<1>4. db' = [db EXCEPT ![d] = [db[d] EXCEPT !.buckets = touched]] \/ db' = db
  BY DEF handleCrateObject, proxyToUpstream, TouchCrateBucketLastUsed, loadAndDecrypt, LookupCrateBucket
<1> HIDE DEF touched
<1>5. CASE db' = db
  BY <1>1, <1>5, BucketStep DEF handleCrateObject
<1>6. CASE db' = [db EXCEPT ![d] = [db[d] EXCEPT !.buckets = touched]]
  <2>1. db'[d] = [db[d] EXCEPT !.buckets = touched] /\ \A x \in Dirs \ {d} : db'[x] = db[x]
    BY <1>6 DEF BackupIInv, BackupTypeOK
  <2>2. db'[d] \in DB /\ db'[d].rows = db[d].rows /\ db'[d].buckets = touched
    BY <1>1, <1>3, <2>1 DEF DB
  <2> QED
    BY <1>1, <1>3, <2>1, <2>2, BucketStep DEF handleCrateObject
<1> QED
  BY <1>4, <1>5, <1>6

LEMMA OpenStep ==
    ASSUME BackupIInv, BackupTypeOK', NEW d \in Dirs, NEW e \in Events, OpenBlob(d, e)
    PROVE  BackupIInv'
<1> USE BackupAssumption
<1>1. /\ serving[d] # 0
      /\ rewritten \subseteq rewritten' /\ (e \in db[d].rows => e \in rewritten')
      /\ \A x \in Dirs, f \in Events : blobs'[x][f] = IF x = d /\ f = e THEN "torn" ELSE blobs[x][f]
      /\ \A x \in Dirs \ {d} : blobs'[x] = blobs[x] /\ writing'[x] = writing[x]
      /\ UNCHANGED <<identity, config, db, wal, serving, backup, archive, restore, status, short>>
  BY DEF OpenBlob, BackupIInv, BackupTypeOK, Files
<1>2. \A x \in Dirs : Clean(x)' = Clean(x)
  BY <1>1 DEF Clean
<1>3. DatabaseThere' /\ ServesOwn'
  BY <1>1, <1>2 DEF BackupIInv, DatabaseThere, ServesOwn
<1>4. EmptyIsEmpty' /\ SourceFirst' /\ BeingWritten'
  BY <1>1 DEF BackupIInv, EmptyIsEmpty, SourceFirst, BeingWritten
<1>5. BackupFollows'
  BY <1>1, <1>2 DEF BackupIInv, BackupFollows
<1>6. ArchivesGood'
  BY <1>1 DEF BackupIInv, ArchivesGood, Good
<1>7. RestoreFollows'
  BY <1>1, <1>2 DEF BackupIInv, RestoreFollows
<1>8. RowsHaveBlobs'
  <2>1. \A x \in Sound : db[x].rows \subseteq Events
    BY BackupFields DEF BackupIInv, DatabaseThere, Sound
  <2> QED
    BY <1>1, <1>2, <2>1 DEF BackupIInv, RowsHaveBlobs, Sound
<1>9. SealedSecretsOpen'
  BY <1>1, <1>2 DEF BackupIInv, SealedSecretsOpen, Sound
<1> QED
  BY <1>3, <1>4, <1>5, <1>6, <1>7, <1>8, <1>9 DEF BackupIInv

LEMMA WriteStep ==
    ASSUME BackupIInv, BackupTypeOK', NEW d \in Dirs, NEW e \in Events, WriteBlob(d, e)
    PROVE  BackupIInv'
<1> USE BackupAssumption
<1>1. /\ serving[d] # 0
      /\ \A x \in Dirs, f \in Events : blobs'[x][f] = IF x = d /\ f = e THEN "whole" ELSE blobs[x][f]
      /\ \A x \in Dirs \ {d} : blobs'[x] = blobs[x]
      /\ UNCHANGED <<identity, config, db, wal, serving, writing, backup, archive, restore, status, short, rewritten>>
  BY DEF WriteBlob, BackupIInv, BackupTypeOK, DatabaseThere, Files
<1>2. \A x \in Dirs : Clean(x)' = Clean(x)
  BY <1>1 DEF Clean
<1>3. DatabaseThere' /\ ServesOwn'
  BY <1>1, <1>2 DEF BackupIInv, DatabaseThere, ServesOwn
<1>4. EmptyIsEmpty' /\ SourceFirst' /\ BeingWritten'
  BY <1>1 DEF BackupIInv, EmptyIsEmpty, SourceFirst, BeingWritten
<1>5. BackupFollows' /\ ArchivesGood'
  BY <1>1, <1>2 DEF BackupIInv, BackupFollows, ArchivesGood, Good
<1>6. RestoreFollows'
  BY <1>1, <1>2 DEF BackupIInv, RestoreFollows
<1>7. RowsHaveBlobs'
  <2>1. \A x \in Sound : db[x].rows \subseteq Events
    BY BackupFields DEF BackupIInv, DatabaseThere, Sound
  <2> QED
    BY <1>1, <1>2, <2>1 DEF BackupIInv, RowsHaveBlobs, Sound
<1>8. SealedSecretsOpen'
  BY <1>1, <1>2 DEF BackupIInv, SealedSecretsOpen, Sound
<1> QED
  BY <1>3, <1>4, <1>5, <1>6, <1>7, <1>8 DEF BackupIInv

LEMMA AppendStep ==
    ASSUME BackupIInv, BackupTypeOK', NEW d \in Dirs, NEW e \in Events, AppendEvent(d, e)
    PROVE  BackupIInv'
<1> USE BackupAssumption
<1>0. db[d] \in DB /\ serving[d] # 0 /\ blobs[d][e] = "whole"
  BY DatabaseOf DEF AppendEvent, BackupIInv
<1>1. /\ \A x \in Dirs \ {d} : db'[x] = db[x] /\ writing'[x] = writing[x]
      /\ db'[d] = [db[d] EXCEPT !.rows = @ \cup {e}]
      /\ writing'[d] \subseteq writing[d]
      /\ UNCHANGED <<identity, config, wal, blobs, serving, backup, archive, restore, status, short, rewritten>>
  BY DEF AppendEvent, BackupIInv, BackupTypeOK
<1>2. db'[d] \in DB /\ db'[d].rows = db[d].rows \cup {e} /\ db'[d].buckets = db[d].buckets
  BY <1>0, <1>1, DBTypes DEF DB
<1>3. \A x \in Dirs : Clean(x)' = Clean(x)
  BY <1>1 DEF Clean
<1>4. DatabaseThere' /\ ServesOwn'
  BY <1>0, <1>1, <1>2, <1>3 DEF BackupIInv, DatabaseThere, ServesOwn
<1>5. EmptyIsEmpty' /\ SourceFirst' /\ BeingWritten'
  BY <1>0, <1>1 DEF BackupIInv, EmptyIsEmpty, SourceFirst, BeingWritten
<1>6. BackupFollows'
  BY <1>1, <1>2, <1>3 DEF BackupIInv, BackupFollows
<1>7. ArchivesGood'
  BY <1>1 DEF BackupIInv, ArchivesGood, Good
<1>8. RestoreFollows'
  BY <1>0, <1>1, <1>3 DEF BackupIInv, RestoreFollows
<1>9. RowsHaveBlobs'
  BY <1>0, <1>1, <1>2, <1>3 DEF BackupIInv, RowsHaveBlobs, Sound
<1>10. SealedSecretsOpen'
  BY <1>1, <1>2, <1>3 DEF BackupIInv, SealedSecretsOpen, Sound
<1> QED
  BY <1>4, <1>5, <1>6, <1>7, <1>8, <1>9, <1>10 DEF BackupIInv

-----------------------------------------------------------------------------
(* The steps of a backup keep the invariant.                               *)

\* What the backup leaves alone, and what is left to be shown of its step.
LEMMA BackupFrame ==
    ASSUME BackupIInv, BackupTypeOK', UNCHANGED <<hubVars, restore, status, short, rewritten>>,
           status[Source] # "empty",
           BeingWritten', BackupFollows', (archive # None /\ ~archive.mixed /\ ~archive.cut => Good(archive))'
    PROVE  BackupIInv'
<1>1. \A x \in Dirs : Clean(x)' = Clean(x)
  BY DEF Clean
<1>2. DatabaseThere' /\ ServesOwn' /\ EmptyIsEmpty'
  BY <1>1 DEF BackupIInv, DatabaseThere, ServesOwn, EmptyIsEmpty, hubVars
<1>3. SourceFirst'
  BY DEF BackupIInv, SourceFirst
<1>4. ArchivesGood'
  BY DEF BackupIInv, ArchivesGood, Good
<1>5. RestoreFollows'
  BY <1>1 DEF BackupIInv, RestoreFollows, hubVars
<1>6. RowsHaveBlobs' /\ SealedSecretsOpen'
  BY <1>1 DEF BackupIInv, RowsHaveBlobs, SealedSecretsOpen, Sound, hubVars
<1> QED
  BY <1>2, <1>3, <1>4, <1>5, <1>6 DEF BackupIInv

\* The archive stays, and Good says the same of it.
LEMMA ArchiveStays ==
    ASSUME BackupIInv, UNCHANGED <<archive, rewritten>>
    PROVE  (archive # None /\ ~archive.mixed /\ ~archive.cut => Good(archive))'
  BY DEF BackupIInv, ArchivesGood, Good

\* In the clean source every row that was not pushed again has its blob.
LEMMA SourceWhole ==
    ASSUME BackupIInv, Clean(Source)
    PROVE  \A e \in db[Source].rows \ rewritten : blobs[Source][e] = "whole"
  BY BackupAssumption DEF BackupIInv, SourceFirst, RowsHaveBlobs, Sound, Clean

LEMMA BackupBeginsStep ==
    ASSUME BackupIInv, BackupTypeOK', runBackup
    PROVE  BackupIInv'
<1> USE BackupAssumption
<1>1. /\ backup' = [NoBackup EXCEPT !.pc = "list", !.rows = db[Source].rows, !.buckets = db[Source].buckets,
                                    !.mixed = ~Clean(Source)]
      /\ identity[Source] # 0
      /\ UNCHANGED <<hubVars, archive, restore, status, short, rewritten>>
  BY DEF runBackup, vacuumInto
<1>2. /\ backup'.pc = "list" /\ backup'.mixed = ~Clean(Source)
      /\ backup'.rows = db[Source].rows /\ backup'.buckets = db[Source].buckets
  BY <1>1 DEF NoBackup
<1>3. status[Source] # "empty" /\ BeingWritten'
  BY <1>1, <1>2 DEF BackupIInv, EmptyIsEmpty, BeingWritten
<1>4. BackupFollows'
  BY <1>1, <1>2 DEF BackupIInv, BackupFollows, SealedSecretsOpen, Sound, Opens, Clean, hubVars
<1> QED
  BY <1>1, <1>3, <1>4, ArchiveStays, BackupFrame

LEMMA ListStep ==
    ASSUME BackupIInv, BackupTypeOK', writeArchive
    PROVE  BackupIInv'
<1> USE BackupAssumption
<1>1. /\ backup.pc = "list" /\ status[Source] # "empty"
      /\ archive' = [db |-> [rows |-> backup.rows, buckets |-> backup.buckets], identity |-> identity[Source],
                     config |-> config[Source], blobs |-> NoBlobs, mixed |-> backup.mixed \/ ~Clean(Source),
                     cut |-> TRUE, brokeAt |-> None]
      /\ backup' = [backup EXCEPT !.pc = "stat", !.todo = {e \in Events : blobs[Source][e] # "none"}]
      /\ UNCHANGED <<hubVars, restore, status, short, rewritten>>
  BY DEF writeArchive, BackupIInv, SourceFirst
<1>2. /\ backup'.pc = "stat" /\ backup'.todo = {e \in Events : blobs[Source][e] # "none"}
      /\ backup.rows \subseteq Events
  BY <1>1, BackupFields DEF BackupIInv, BackupTypeOK, Backup
<1>3. /\ archive'.db.rows = backup.rows /\ archive'.db.buckets = backup.buckets
      /\ archive'.identity = identity[Source] /\ archive'.mixed = (backup.mixed \/ ~Clean(Source))
      /\ archive'.cut = TRUE /\ archive'.brokeAt = None
  BY <1>1
<1>a. archive' \in Archive
  <2>1. archive' \in Archive \cup {None}
    BY DEF BackupTypeOK
  <2>2. [rows |-> backup.rows, buckets |-> backup.buckets] \in DB
    BY <1>1, BackupFields DEF DB, BackupIInv, BackupTypeOK
  <2>3. identity[Source] \in Nat /\ config[Source] \in Dirs \cup {None} /\ backup.mixed \in BOOLEAN /\ NoBlobs \in Copies
    BY BackupFields, NothingTypes DEF BackupIInv, BackupTypeOK
  <2> QED
    BY <1>1, <2>2, <2>3 DEF Archive, Clean
<1>4. BeingWritten'
  BY <1>3, <1>a DEF BeingWritten
<1>5. BackupFollows'
  <2>1. CASE backup.mixed \/ ~Clean(Source)
    BY <1>2, <1>3, <2>1 DEF BackupFollows
  <2>2. CASE ~backup.mixed /\ Clean(Source)
    <3>1. /\ backup.rows \subseteq db[Source].rows
          /\ \A b \in backup.buckets : Opens(identity[Source], b)
      BY <1>1, <2>2 DEF BackupIInv, BackupFollows
    <3>2. \A e \in backup.rows \ rewritten : e \in backup'.todo
      BY <1>2, <2>2, <3>1, SourceWhole
    <3> QED
      BY <1>1, <1>2, <1>3, <3>1, <3>2 DEF BackupFollows, hubVars, Opens
  <2> QED
    BY <2>1, <2>2
<1> QED
  BY <1>1, <1>3, <1>4, <1>5, BackupFrame

LEMMA StatStep ==
    ASSUME BackupIInv, BackupTypeOK', StatBlob
    PROVE  BackupIInv'
<1>1. /\ backup.pc = "stat" /\ backup'.pc = "copy" /\ backup'.todo = backup.todo /\ status[Source] # "empty"
      /\ UNCHANGED <<hubVars, archive, restore, status, short, rewritten>>
  BY DEF StatBlob, BackupIInv, BackupTypeOK, Backup, SourceFirst
<1>2. BeingWritten'
  BY <1>1 DEF BackupIInv, BeingWritten
<1>3. BackupFollows'
  BY <1>1 DEF BackupIInv, BackupFollows, hubVars, Clean
<1> QED
  BY <1>1, <1>2, <1>3, ArchiveStays, BackupFrame

\* What the Close calls leave is good, whether every blob was copied ...
LEMMA CloseGood ==
    ASSUME BackupIInv, BackupTypeOK', backup.pc \in {"stat", "copy"}, backup' = NoBackup,
           UNCHANGED <<hubVars, restore, status, short, rewritten>>,
           NEW a \in Archive, NEW cut \in BOOLEAN, archive' = Close(a, cut),
           a.db = archive.db, a.identity = archive.identity, a.mixed = archive.mixed,
           ~archive.mixed /\ Clean(Source) =>
              \A e \in archive.db.rows \ rewritten : a.blobs[e] = "whole" \/ (a.brokeAt # None /\ a.brokeAt <= e)
    PROVE  BackupIInv'
<1>1. /\ archive'.db = archive.db /\ archive'.identity = archive.identity /\ archive'.blobs = a.blobs
      /\ archive'.brokeAt = a.brokeAt /\ archive'.mixed = (archive.mixed \/ ~Clean(Source))
  BY DEF Close, Archive
<1>2. status[Source] # "empty" /\ BeingWritten' /\ BackupFollows'
  BY NothingTypes DEF BackupIInv, SourceFirst, BeingWritten, BackupFollows
<1>3. ~archive.mixed /\ Clean(Source) => \A b \in archive.db.buckets : Opens(archive.identity, b)
  BY DEF BackupIInv, BackupFollows
<1>4. (archive # None /\ ~archive.mixed /\ ~archive.cut => Good(archive))'
  BY <1>1, <1>3 DEF Good, Opens
<1> QED
  BY <1>2, <1>4, BackupFrame

\* ... or the copy broke off: the rows whose blobs are not copied come after.
LEMMA BreakOffGood ==
    ASSUME BackupIInv, BackupTypeOK', backup.pc \in {"stat", "copy"}, NEW e \in Events, First(e, backup.todo),
           NEW left \in {"none", "torn", "cut"}, BreakOff(e, left),
           UNCHANGED <<hubVars, restore, status, short, rewritten>>
    PROVE  BackupIInv'
<1> USE BackupAssumption
<1> DEFINE a == [archive EXCEPT !.blobs[e] = left, !.brokeAt = e]
<1>1. archive \in Archive
  BY DEF BackupIInv, BeingWritten
<1>2. a \in Archive
  BY <1>1, ArchiveTypes
<1>3. /\ a.db = archive.db /\ a.identity = archive.identity /\ a.mixed = archive.mixed /\ a.brokeAt = e
      /\ \A f \in Events \ {e} : a.blobs[f] = archive.blobs[f]
  BY <1>1, BackupFields DEF Archive, Copies
<1>4. PICK cut \in BOOLEAN : archive' = Close(a, cut)
  BY DEF BreakOff
<1>5. backup' = NoBackup /\ a.brokeAt # None
  BY <1>3 DEF BreakOff
<1> HIDE DEF a
<1>6. ~archive.mixed /\ Clean(Source) =>
          \A f \in archive.db.rows \ rewritten : a.blobs[f] = "whole" \/ (a.brokeAt # None /\ a.brokeAt <= f)
  <2>1. SUFFICES ASSUME ~archive.mixed, Clean(Source), NEW f \in archive.db.rows \ rewritten
                 PROVE  a.blobs[f] = "whole" \/ (a.brokeAt # None /\ a.brokeAt <= f)
    OBVIOUS
  <2>2. f \in Events /\ (f \in backup.todo \/ archive.blobs[f] = "whole")
    BY <1>1, <2>1, BackupFields DEF BackupIInv, BackupFollows
  <2>3. CASE f \in backup.todo
    BY <1>3, <1>5, <2>3 DEF First
  <2>4. CASE f \notin backup.todo
    BY <1>3, <2>2, <2>4 DEF First
  <2> QED
    BY <2>3, <2>4
<1> QED
  BY <1>2, <1>3, <1>4, <1>5, <1>6, CloseGood

\* A blob of a row that is not pushed again is whole when it is copied.
LEMMA CopiedStep ==
    ASSUME BackupIInv, BackupTypeOK', backup.pc = "copy", NEW e \in Events, NEW copy \in {"none", "torn", "whole", "cut"},
           Copied(e, copy), blobs[Source][e] = "whole" => copy = "whole",
           UNCHANGED <<hubVars, restore, status, short, rewritten>>
    PROVE  BackupIInv'
<1> USE BackupAssumption
<1>1. archive \in Archive /\ archive.cut = TRUE /\ archive.brokeAt = None /\ status[Source] # "empty"
  BY BackupFields DEF BackupIInv, BeingWritten, SourceFirst
<1>2. archive' \in Archive /\ archive' = [archive EXCEPT !.blobs[e] = copy]
  BY <1>1, ArchiveTypes DEF Copied
<1>3. /\ archive'.db = archive.db /\ archive'.identity = archive.identity /\ archive'.mixed = archive.mixed
      /\ archive'.cut = TRUE /\ archive'.brokeAt = None /\ archive'.blobs[e] = copy
      /\ \A f \in Events \ {e} : archive'.blobs[f] = archive.blobs[f]
  BY <1>1, <1>2, BackupFields DEF Archive, Copies
<1>4. backup'.pc = "stat" /\ backup'.todo = backup.todo \ {e}
  BY DEF Copied, BackupIInv, BackupTypeOK, Backup
<1>5. BeingWritten'
  BY <1>2, <1>3 DEF BeingWritten
<1>6. BackupFollows'
  <2>1. SUFFICES ASSUME ~archive.mixed, Clean(Source)
                 PROVE  BackupFollows'
    BY <1>3, <1>4 DEF BackupFollows, Clean
  <2>2. /\ archive.db.rows \subseteq db[Source].rows
        /\ \A b \in archive.db.buckets : Opens(archive.identity, b)
        /\ \A f \in archive.db.rows \ rewritten : f \in backup.todo \/ archive.blobs[f] = "whole"
    BY <2>1 DEF BackupIInv, BackupFollows
  <2>3. archive.db.rows \subseteq Events
    BY <1>1, BackupFields
  <2>4. \A f \in archive.db.rows \ rewritten : f \in backup'.todo \/ archive'.blobs[f] = "whole"
    BY <1>3, <1>4, <2>1, <2>2, <2>3, SourceWhole
  <2> QED
    BY <1>3, <1>4, <2>2, <2>4 DEF BackupFollows, hubVars, Opens
<1> QED
  BY <1>1, <1>3, <1>5, <1>6, BackupFrame

LEMMA CopyStep ==
    ASSUME BackupIInv, BackupTypeOK', CopyBlob
    PROVE  BackupIInv'
<1>1. PICK e \in Events :
          /\ First(e, backup.todo)
          /\ \/ backup.size = blobs[Source][e] /\ Copied(e, backup.size)
             \/ backup.size = "torn" /\ BreakOff(e, "torn")
             \/ blobs[Source][e] = "torn" /\ (IF backup.todo = {e} THEN Copied(e, "cut") ELSE BreakOff(e, "cut"))
  BY DEF CopyBlob
<1>2. /\ backup.pc = "copy" /\ backup.size \in {"none", "torn", "whole"}
      /\ UNCHANGED <<hubVars, restore, status, short, rewritten>>
  BY BackupFields DEF CopyBlob, BackupIInv, BackupTypeOK
<1>3. CASE backup.size = blobs[Source][e] /\ Copied(e, backup.size)
  BY <1>2, <1>3, CopiedStep
<1>4. CASE blobs[Source][e] = "torn" /\ Copied(e, "cut")
  BY <1>2, <1>4, CopiedStep
<1>5. CASE BreakOff(e, "torn") \/ BreakOff(e, "cut")
  BY <1>1, <1>2, <1>5, BreakOffGood
<1> QED
  BY <1>1, <1>3, <1>4, <1>5

\* A backup that dies leaves what it wrote without an end.
LEMMA FailStep ==
    ASSUME BackupIInv, BackupTypeOK', BackupFails
    PROVE  BackupIInv'
<1>1. backup.pc # "idle" /\ status[Source] # "empty" /\ UNCHANGED <<hubVars, restore, status, short, rewritten>>
  BY DEF BackupFails, BackupIInv, SourceFirst
<1>2. CASE backup' = NoBackup /\ UNCHANGED archive
  <2>1. BeingWritten' /\ BackupFollows'
    BY <1>2, NothingTypes DEF BeingWritten, BackupFollows
  <2> QED
    BY <1>1, <1>2, <2>1, ArchiveStays, BackupFrame
<1>3. ASSUME NEW e \in Events, First(e, backup.todo), backup.pc \in {"stat", "copy"},
             BreakOff(e, "none") \/ BreakOff(e, "cut") \/ BreakOff(e, "torn")
      PROVE  BackupIInv'
  BY <1>1, <1>3, BreakOffGood
<1> QED
  BY <1>2, <1>3 DEF BackupFails

LEMMA DoneStep ==
    ASSUME BackupIInv, BackupTypeOK', BackupDone
    PROVE  BackupIInv'
<1>1. /\ backup.pc = "stat" /\ backup.todo = {} /\ backup' = NoBackup
      /\ UNCHANGED <<hubVars, restore, status, short, rewritten>>
  BY DEF BackupDone
<1>2. PICK cut \in BOOLEAN : archive' = Close(archive, cut)
  BY DEF BackupDone
<1>3. archive \in Archive
  BY <1>1 DEF BackupIInv, BeingWritten
<1>4. ~archive.mixed /\ Clean(Source) => \A e \in archive.db.rows \ rewritten : archive.blobs[e] = "whole"
  BY <1>1 DEF BackupIInv, BackupFollows
<1> QED
  BY <1>1, <1>2, <1>3, <1>4, CloseGood

-----------------------------------------------------------------------------
(* The steps of a restore keep the invariant.                              *)

\* The steps of Extract touch the files of one directory, which is not clean.
LEMMA ExtractFrame ==
    ASSUME BackupIInv, BackupTypeOK', NEW d \in Dirs, restore.pc = "entries", restore.dir = d,
           \A x \in Dirs \ {d} : identity'[x] = identity[x] /\ db'[x] = db[x] /\ blobs'[x] = blobs[x],
           db'[d] \in DB \/ db'[d] = db[d],
           UNCHANGED <<wal, serving, writing, backup, archive, status, short, rewritten>>,
           restore'.from = restore.from, RestoreFollows'
    PROVE  BackupIInv'
<1> USE BackupAssumption
<1>1. \A x \in Dirs : Clean(x)' = Clean(x)
  BY DEF Clean
<1>2. ~Clean(d) /\ status[d] # "empty"
  BY DEF BackupIInv, RestoreFollows
<1>3. DatabaseThere' /\ ServesOwn' /\ EmptyIsEmpty'
  BY <1>1, <1>2 DEF BackupIInv, DatabaseThere, ServesOwn, EmptyIsEmpty
<1>4. SourceFirst' /\ BeingWritten' /\ BackupFollows'
  BY <1>1, <1>2 DEF BackupIInv, SourceFirst, BeingWritten, BackupFollows
<1>5. ArchivesGood'
  BY DEF BackupIInv, ArchivesGood, Good
<1>6. RowsHaveBlobs' /\ SealedSecretsOpen'
  BY <1>1, <1>2 DEF BackupIInv, RowsHaveBlobs, SealedSecretsOpen, Sound
<1> QED
  BY <1>3, <1>4, <1>5, <1>6 DEF BackupIInv

\* What is left to extract, one entry less.
LEMMA OneLess ==
    ASSUME BackupTypeOK, restore.pc = "entries", NEW l \in Listing, restore' = [restore EXCEPT !.todo = l]
    PROVE  /\ restore'.pc = "entries" /\ restore'.dir = restore.dir /\ restore'.from = restore.from
           /\ restore'.forced = restore.forced /\ restore'.todo = l /\ restore.todo \in Listing
  BY BackupFields DEF BackupTypeOK, Restore

LEMMA EntryStep ==
    ASSUME BackupIInv, BackupTypeOK', ExtractEntry
    PROVE  BackupIInv'
<1> USE BackupAssumption
<1>0. PICK d \in Dirs, a \in Archive, t \in Listing : restore.dir = d /\ restore.from = a /\ restore.todo = t
  BY BackupFields DEF ExtractEntry, BackupIInv, BackupTypeOK, RestoreFollows
<1>1. /\ restore.pc = "entries" /\ restore.dir = d /\ restore.from = a /\ restore.todo = t
      /\ restore \in Restore /\ status[d] # "empty" /\ ~Clean(d)
      /\ UNCHANGED <<wal, serving, writing, backup, archive, status, short, rewritten>>
  BY <1>0 DEF ExtractEntry, BackupIInv, BackupTypeOK, RestoreFollows
<1>2. ~Clean(d)'
  BY <1>1 DEF Clean
<1>3. BackupTypeOK /\ RestoreFollows
  BY DEF BackupIInv
<1>4. CASE ExtractConfig(d, a)
  <2> DEFINE l == [t EXCEPT !.config = FALSE]
  <2>1. restore' = [restore EXCEPT !.todo = l] /\ UNCHANGED <<identity, db, blobs>>
    BY <1>1, <1>4 DEF ExtractConfig, Restore
  <2>2. l \in Listing /\ l.identity = t.identity /\ l.db = t.db /\ l.blobs = t.blobs
    BY <1>1 DEF Listing
  <2> HIDE DEF l
  <2>3. RestoreFollows'
    BY <1>1, <1>2, <1>3, <2>1, <2>2, OneLess DEF RestoreFollows
  <2> QED
    BY <1>1, <1>3, <2>1, <2>2, <2>3, OneLess, ExtractFrame
<1>5. CASE ExtractIdentity(d, a)
  <2> DEFINE l == [t EXCEPT !.identity = FALSE]
  <2>1. restore' = [restore EXCEPT !.todo = l] /\ identity'[d] = a.identity /\ UNCHANGED <<db, blobs>>
        /\ \A x \in Dirs \ {d} : identity'[x] = identity[x]
    BY <1>1, <1>3, <1>5 DEF ExtractIdentity, Restore, BackupTypeOK
  <2>2. l \in Listing /\ l.db = t.db /\ l.blobs = t.blobs
    BY <1>1 DEF Listing
  <2> HIDE DEF l
  <2>3. RestoreFollows'
    BY <1>1, <1>2, <1>3, <2>1, <2>2, OneLess DEF RestoreFollows
  <2> QED
    BY <1>1, <1>3, <2>1, <2>2, <2>3, OneLess, ExtractFrame
<1>6. CASE ExtractDB(d, a)
  <2> DEFINE l == [t EXCEPT !.db = FALSE]
  <2>1. PICK R : /\ db' = [db EXCEPT ![d] = [a.db EXCEPT !.rows = R]]
                 /\ wal[d] \/ R = a.db.rows
    BY <1>6 DEF ExtractDB
  <2>2. restore' = [restore EXCEPT !.todo = l] /\ ~t.identity /\ UNCHANGED <<identity, blobs>>
    BY <1>1, <1>6 DEF ExtractDB, Restore
  <2>3. l \in Listing /\ l.identity = t.identity /\ l.blobs = t.blobs
    BY <1>1 DEF Listing
  <2>4. db'[d] = [a.db EXCEPT !.rows = R] /\ \A x \in Dirs \ {d} : db'[x] = db[x]
    BY <1>1, <1>3, <2>1 DEF BackupTypeOK
  <2>5. a.db \in DB /\ (R = a.db.rows => db'[d] = a.db)
    BY <1>1, <2>4, BackupFields DEF DB
  <2>6. db'[d] \in DB
    <3>1. db'[d] \in DB \cup {None}
      BY <1>1 DEF BackupTypeOK
    <3>2. db'[d] = [rows |-> R, buckets |-> a.db.buckets]
      BY <2>4, <2>5 DEF DB
    <3>3. PICK R2 \in SUBSET Events : R = R2
      BY <1>1, <1>3, <1>6, <2>4, <2>5, <3>2, BackupFields DEF DB, BackupTypeOK, ExtractDB
    <3> QED
      BY <2>4, <2>5, <3>3, DBTypes
  <2> HIDE DEF l
  <2>7. RestoreFollows'
    BY <1>1, <1>2, <1>3, <2>1, <2>2, <2>3, <2>4, <2>5, OneLess DEF RestoreFollows
  <2> QED
    BY <1>1, <1>3, <2>2, <2>3, <2>4, <2>6, <2>7, OneLess, ExtractFrame
<1>7. ASSUME NEW e \in Events, ExtractBlob(d, a, e)
      PROVE  BackupIInv'
  <2> DEFINE l == [t EXCEPT !.blobs = @ \ {e}]
  <2>1. restore' = [restore EXCEPT !.todo = l] /\ ~t.identity /\ ~t.db /\ UNCHANGED <<identity, db>>
    BY <1>1, <1>7 DEF ExtractBlob, Restore
  <2>2. l \in Listing /\ l.identity = t.identity /\ l.db = t.db /\ l.blobs = t.blobs \ {e}
    BY <1>1 DEF Listing
  <2>3. /\ \A x \in Dirs \ {d} : blobs'[x] = blobs[x]
        /\ \A f \in Events : blobs'[d][f] = IF f = e THEN a.blobs[e] ELSE blobs[d][f]
    BY <1>1, <1>3, <1>7 DEF ExtractBlob, BackupTypeOK, Files
  <2> HIDE DEF l
  <2>4. RestoreFollows'
    BY <1>1, <1>2, <1>3, <2>1, <2>2, <2>3, OneLess DEF RestoreFollows
  <2> QED
    BY <1>1, <1>3, <2>1, <2>2, <2>3, <2>4, OneLess, ExtractFrame
<1> QED
  BY <1>1, <1>4, <1>5, <1>6, <1>7 DEF ExtractEntry

LEMMA RestoreBeginsStep ==
    ASSUME BackupIInv, BackupTypeOK', NEW d \in Dirs, NEW force \in BOOLEAN, runRestore(d, force)
    PROVE  BackupIInv'
<1> USE BackupAssumption
<1>1. /\ archive # None /\ archive \in Archive
      /\ restore' = [pc |-> "entries", dir |-> d, todo |-> Entries(archive.blobs), from |-> archive, forced |-> ~Empty(d)]
      /\ status'[d] = "partial" /\ \A x \in Dirs \ {d} : status'[x] = status[x]
      /\ UNCHANGED <<hubVars, backup, archive, short, rewritten>>
  BY DEF runRestore, Extract, BackupIInv, BackupTypeOK
<1>2. ~Clean(d)' /\ status'[d] # "empty" /\ \A x \in Dirs \ {d} : Clean(x)' = Clean(x)
  BY <1>1 DEF Clean
<1>3. Empty(d) => d # Source /\ ~wal[d] /\ serving[d] = 0 /\ blobs[d] = NoBlobs
  BY <1>1 DEF Empty, BackupIInv, SourceFirst, BeingWritten, EmptyIsEmpty
<1>4. /\ restore'.pc = "entries" /\ restore'.dir = d /\ restore'.from = archive /\ restore'.forced = ~Empty(d)
      /\ restore'.todo.identity = TRUE /\ restore'.todo.db = TRUE
      /\ \A e \in Events \ restore'.todo.blobs : archive.blobs[e] = "none"
  BY <1>1 DEF Entries
<1>5. DatabaseThere' /\ ServesOwn'
  BY <1>1, <1>2 DEF BackupIInv, DatabaseThere, ServesOwn, hubVars
<1>6. EmptyIsEmpty' /\ SourceFirst' /\ BeingWritten'
  BY <1>1, <1>2 DEF BackupIInv, EmptyIsEmpty, SourceFirst, BeingWritten, hubVars
<1>7. BackupFollows'
  BY <1>1, <1>2 DEF BackupIInv, BackupFollows, hubVars
<1>8. ArchivesGood'
  BY <1>1, <1>4 DEF BackupIInv, ArchivesGood, Good
<1>9. RestoreFollows'
  <2>1. UNCHANGED <<wal, serving, blobs>>
    BY <1>1 DEF hubVars
  <2>2. Empty(d) => /\ d # Source /\ ~wal'[d] /\ serving'[d] = 0
                    /\ \A e \in Events \ restore'.todo.blobs : blobs'[d][e] = archive.blobs[e]
    BY <1>3, <1>4, <2>1 DEF NoBlobs
  <2> QED
    BY <1>1, <1>2, <1>4, <2>2 DEF RestoreFollows
<1>10. RowsHaveBlobs' /\ SealedSecretsOpen'
  BY <1>1, <1>2 DEF BackupIInv, RowsHaveBlobs, SealedSecretsOpen, Sound, hubVars
<1> QED
  BY <1>5, <1>6, <1>7, <1>8, <1>9, <1>10 DEF BackupIInv

\* A restore that ends leaves the directory partial, or makes it mixed, or
\* clean when every entry of a good archive went into a directory of its own.
LEMMA RestoreEndsStep ==
    ASSUME BackupIInv, BackupTypeOK', ExtractFails \/ ExtractOK
    PROVE  BackupIInv'
<1> USE BackupAssumption
<1>0. PICK d \in Dirs, a \in Archive : restore.dir = d /\ restore.from = a
  BY DEF ExtractFails, ExtractOK, BackupIInv, RestoreFollows
<1>1. /\ restore.pc = "entries" /\ restore.dir = d /\ restore.from = a
      /\ status[d] # "empty" /\ ~Clean(d)
      /\ restore'.pc = "idle"
      /\ \A x \in Dirs \ {d} : short'[x] = short[x]
      /\ UNCHANGED <<hubVars, backup, archive, rewritten>>
      /\ \A x \in Dirs \ {d} : status'[x] = status[x]
  BY <1>0, NothingTypes DEF ExtractFails, ExtractOK, BackupIInv, BackupTypeOK, RestoreFollows, hubVars
<1>2. /\ status'[d] # "empty"
      /\ Clean(d)' => /\ ~restore.forced /\ ~a.mixed /\ ~a.cut /\ restore.todo = NothingLeft
                       /\ short'[d] = a.brokeAt
      /\ ~restore.forced => d # Source
      /\ restore.forced => ~Clean(d)'
  BY <1>1 DEF ExtractFails, ExtractOK, ProperEnd, BackupIInv, BackupTypeOK, RestoreFollows, Clean
<1>3. \A x \in Dirs \ {d} : Clean(x)' = Clean(x)
  BY <1>1 DEF Clean
<1>4. Clean(d)' => /\ d # Source /\ serving[d] = 0 /\ identity[d] = a.identity /\ db[d] = a.db
                   /\ \A e \in Events : blobs[d][e] = a.blobs[e]
                   /\ Good(a) /\ a.db \in DB /\ a.db.rows \subseteq Events
  <2> HAVE Clean(d)'
  <2>1. ~restore.todo.identity /\ ~restore.todo.db /\ restore.todo.blobs = {}
    BY <1>2 DEF NothingLeft
  <2>2. Good(a) /\ a.db \in DB /\ a.db.rows \subseteq Events
    BY <1>1, <1>2, BackupFields DEF BackupIInv, ArchivesGood
  <2>3. d # Source /\ serving[d] = 0 /\ identity[d] = a.identity /\ db[d] = a.db
    BY <1>1, <1>2, <2>1 DEF BackupIInv, RestoreFollows
  <2>4. \A e \in Events : blobs[d][e] = a.blobs[e]
    BY <1>1, <1>2, <2>1 DEF BackupIInv, RestoreFollows
  <2> QED
    BY <2>2, <2>3, <2>4
<1>5. DatabaseThere' /\ ServesOwn'
  BY <1>1, <1>3, <1>4 DEF BackupIInv, DatabaseThere, ServesOwn, hubVars
<1>6. EmptyIsEmpty' /\ SourceFirst' /\ BeingWritten'
  <2>1. EmptyIsEmpty' /\ BeingWritten'
    BY <1>1, <1>2 DEF BackupIInv, EmptyIsEmpty, BeingWritten, hubVars
  <2>2. SourceFirst /\ UNCHANGED <<backup, archive>> /\ \A x \in Dirs \ {d} : status'[x] = status[x] /\ short'[x] = short[x]
    BY <1>1 DEF BackupIInv
  <2>3. CASE d = Source
    <3>1. status'[d] # "empty" /\ status'[d] # "init" /\ status'[d] # "restored"
      BY <1>2, <2>3 DEF Clean
    <3> QED
      BY <2>1, <2>3, <3>1 DEF SourceFirst
  <2>4. CASE d # Source
    BY <2>1, <2>2, <2>4 DEF SourceFirst
  <2> QED
    BY <2>1, <2>3, <2>4
<1>7. BackupFollows'
  BY <1>1, <1>3, <1>4 DEF BackupIInv, BackupFollows, hubVars
<1>8. ArchivesGood' /\ RestoreFollows'
  BY <1>1 DEF BackupIInv, ArchivesGood, RestoreFollows, Good
<1>9. RowsHaveBlobs'
  <2>1. \A x \in Dirs \ {d} : Clean(x)' => \A e \in db'[x].rows :
            blobs'[x][e] = "whole" \/ e \in rewritten' \/ (short'[x] # None /\ short'[x] <= e)
    BY <1>1, <1>3 DEF BackupIInv, RowsHaveBlobs, Sound, hubVars
  <2>2. Clean(d)' => \A e \in db'[d].rows :
            blobs'[d][e] = "whole" \/ e \in rewritten' \/ (short'[d] # None /\ short'[d] <= e)
    BY <1>1, <1>2, <1>4 DEF Good, hubVars
  <2> QED
    BY <2>1, <2>2 DEF RowsHaveBlobs, Sound
<1>10. SealedSecretsOpen'
  BY <1>1, <1>3, <1>4 DEF BackupIInv, SealedSecretsOpen, Sound, Good, Opens, hubVars
<1> QED
  BY <1>5, <1>6, <1>7, <1>8, <1>9, <1>10 DEF BackupIInv

-----------------------------------------------------------------------------
(* The theorems.                                                           *)

LEMMA BackupStart ==
    ASSUME BackupInit
    PROVE  BackupIInv
<1> USE BackupAssumption
<1>1. BackupTypeOK
  BY NothingTypes DEF BackupInit, BackupTypeOK
<1>2. \A d \in Dirs : ~Clean(d)
  BY DEF BackupInit, Clean
<1>3. backup.pc = "idle" /\ restore.pc = "idle" /\ archive = None
  BY NothingTypes DEF BackupInit
<1>4. DatabaseThere /\ EmptyIsEmpty /\ ServesOwn
  BY <1>2 DEF BackupInit, DatabaseThere, EmptyIsEmpty, ServesOwn
<1>5. SourceFirst /\ BeingWritten /\ BackupFollows /\ ArchivesGood /\ RestoreFollows
  BY <1>3 DEF BackupInit, SourceFirst, BeingWritten, BackupFollows, ArchivesGood, RestoreFollows
<1>6. RowsHaveBlobs /\ SealedSecretsOpen
  BY <1>2 DEF RowsHaveBlobs, SealedSecretsOpen, Sound
<1> QED
  BY <1>1, <1>4, <1>5, <1>6 DEF BackupIInv

LEMMA BackupStutter ==
    ASSUME BackupIInv, UNCHANGED backupVars
    PROVE  BackupIInv'
<1>1. \A d \in Dirs : Clean(d)' = Clean(d)
  BY DEF backupVars, Clean
<1>2. BackupTypeOK' /\ DatabaseThere' /\ EmptyIsEmpty' /\ ServesOwn' /\ SourceFirst' /\ BeingWritten'
  BY <1>1 DEF backupVars, BackupIInv, BackupTypeOK, DatabaseThere, EmptyIsEmpty, ServesOwn, SourceFirst, BeingWritten
<1>3. BackupFollows' /\ ArchivesGood' /\ RestoreFollows'
  BY <1>1, BackupAssumption DEF backupVars, BackupIInv, BackupFollows, ArchivesGood, Good, RestoreFollows
<1>4. RowsHaveBlobs' /\ SealedSecretsOpen'
  BY <1>1 DEF backupVars, BackupIInv, RowsHaveBlobs, SealedSecretsOpen, Sound
<1> QED
  BY <1>2, <1>3, <1>4 DEF BackupIInv

LEMMA BackupStep ==
    ASSUME BackupIInv, [BackupNext]_backupVars
    PROVE  BackupIInv'
<1>1. BackupTypeOK'
  BY BackupStepTypes DEF BackupIInv
<1>2. CASE UNCHANGED backupVars
  BY <1>2, BackupStutter
<1>3. ASSUME NEW d \in Dirs,
             \/ runInit(d) \/ Stop(d) \/ handleCrateBucketRegister(d)
             \/ \E b \in (IF db[d] = None THEN {} ELSE db[d].buckets) : handleCrateObject(d, b.id)
             \/ \E override \in BOOLEAN : runServe(d, override)
             \/ \E e \in Events : OpenBlob(d, e) \/ WriteBlob(d, e) \/ AppendEvent(d, e)
             \/ \E force \in BOOLEAN : runRestore(d, force)
      PROVE  BackupIInv'
  BY <1>1, <1>3, InitStep, StopStep, RegisterStep, ObjectStep, ServeStep, OpenStep, WriteStep, AppendStep, RestoreBeginsStep
<1>4. CASE runBackup \/ writeArchive \/ StatBlob \/ CopyBlob \/ BackupFails \/ BackupDone
  BY <1>1, <1>4, BackupBeginsStep, ListStep, StatStep, CopyStep, FailStep, DoneStep
<1>5. CASE ExtractEntry \/ ExtractFails \/ ExtractOK
  BY <1>1, <1>5, EntryStep, RestoreEndsStep
<1> QED
  BY <1>2, <1>3, <1>4, <1>5 DEF BackupNext

\* The inductive invariant holds in every state of every behaviour.
THEOREM BackupInvariance == BackupSpec => []BackupIInv
<1> QED
  BY BackupStart, BackupStep, PTL DEF BackupSpec

\* The files, the database and the processes that read them have their types.
THEOREM BackupTypeCorrect == BackupSpec => []BackupTypeOK
<1>1. BackupIInv => BackupTypeOK
  BY DEF BackupIInv
<1> QED
  BY <1>1, BackupInvariance, PTL

\* In a directory that came to be by one init, or by one restore that reported
\* success into an empty directory, every row of fabric.db has its whole blob,
\* whatever was appended, pushed or stopped while the backup was taken - unless
\* a peer pushed the event again.
THEOREM RestoredRowsHaveBlobs == BackupSpec => []RowsHaveBlobs
<1>1. BackupIInv => RowsHaveBlobs
  BY DEF BackupIInv
<1> QED
  BY <1>1, BackupInvariance, PTL

\* In such a directory the bucket credentials open under the identity on its
\* disk and under that of the hub that serves it.
THEOREM RestoredSecretsOpen == BackupSpec => []SealedSecretsOpen
<1>1. BackupIInv => SealedSecretsOpen
  BY DEF BackupIInv
<1> QED
  BY <1>1, BackupInvariance, PTL

=============================================================================
