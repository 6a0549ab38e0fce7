------------------------------- MODULE Backups -------------------------------
(***************************************************************************)
(* A backup of the data directory while the store writes to it             *)
(* (Hosting/Backup.cs): asked of the server, which flushes what it holds   *)
(* in memory first, or made by the `wolflog` command beside the server.    *)
(* Either lists a folder, then copies what it listed, file by file, and    *)
(* goes on to the next one; meanwhile the store flushes, merges the files  *)
(* of a folder, and retention removes some.  What a merge or retention     *)
(* removes stays on disk for two minutes.                                  *)
(*                                                                         *)
(* This is the store as its files show it: SignalStore.tla has its steps,  *)
(* its failures and its recovery.  A lot is a group of rows that are       *)
(* received together; a file is the lots in it and its rank.               *)
(***************************************************************************)
EXTENDS Naturals, FiniteSets, FiniteSetsExt

CONSTANTS
    Folders,     \* the hours of the store, each a folder
    Lots,        \* what is received
    Delay,       \* minutes between the removal of a file and its deletion (2)
    MaxFiles,    \* bound: files written
    MaxEnds,     \* bound: ends of the server
    Null         \* no merge

VARIABLES
    memory,      \* the lots in the hot tables
    disk,        \* the files
    folders,     \* the folders that exist
    shown,       \* the files of the snapshot
    doomed,      \* the files to delete, and since when
    merge,       \* the files being merged, and the one written
    backup,      \* the backup: who makes it, its step, what it has listed, copied, and has to visit
    ends, written, received,
    \* history
    owed,        \* what the backup must hold: the lots there were when it began
    age,         \* the minutes since it began
    troubled     \* the server stopped, or ended, meanwhile

backupVars == <<memory, disk, folders, shown, doomed, merge, backup, ends, written, received, owed, age, troubled>>

File == [folder : Folders, lots : SUBSET Lots, rank : 1..MaxFiles]
NoBackup == [by |-> "nobody", step |-> "none", visit |-> {}, listed |-> {}, copied |-> {}]

TypeOK ==
    /\ memory \subseteq received /\ received \subseteq Lots /\ folders \subseteq Folders
    /\ disk \subseteq File /\ shown \subseteq disk
    /\ \A d \in doomed : d.file \in File /\ d.since \in 0..Delay
    /\ merge # Null => (merge.sources \subseteq File /\ merge.written \in {Null} \cup File)
    /\ backup.by \in {"nobody", "server", "command"} /\ backup.step \in {"none", "flush", "list", "copy", "done", "failed"}
    /\ backup.visit \subseteq Folders /\ backup.listed \subseteq File /\ backup.copied \subseteq File
    /\ ends \in 0..MaxEnds /\ written \in 0..MaxFiles
    /\ owed \subseteq Lots /\ age \in 0..Delay /\ troubled \in BOOLEAN

Init ==
    /\ memory = {} /\ disk = {} /\ folders = {} /\ shown = {} /\ doomed = {}
    /\ merge = Null /\ backup = NoBackup
    /\ ends = 0 /\ written = 0 /\ received = {}
    /\ owed = {} /\ age = 0 /\ troubled = FALSE

LotsOf(files) == UNION {f.lots : f \in files}
New(folder, lots) == [folder |-> folder, lots |-> lots, rank |-> written + 1]
Under(folder) == {f \in disk : f.folder = folder}
Doom(files) == doomed' = doomed \cup [file : files, since : {0}]

-----------------------------------------------------------------------------
\* The store.

Receive(lot) ==
    /\ lot \notin received
    /\ received' = received \cup {lot} /\ memory' = memory \cup {lot}
    /\ UNCHANGED <<disk, folders, shown, doomed, merge, backup, ends, written, owed, age, troubled>>

\* A flush: the hot table becomes a file, which takes its name once it is whole.
Flushed(folder) ==
    IF memory = {} THEN UNCHANGED <<memory, disk, folders, shown, written>>
    ELSE /\ written < MaxFiles
         /\ disk' = disk \cup {New(folder, memory)}
         /\ shown' = shown \cup {New(folder, memory)}
         /\ folders' = folders \cup {folder}
         /\ memory' = {} /\ written' = written + 1

Flush(folder) ==
    /\ memory # {} /\ Flushed(folder)
    /\ UNCHANGED <<doomed, merge, backup, ends, received, owed, age, troubled>>

MergePick(folder) ==
    LET sources == {f \in shown : f.folder = folder}
    IN  /\ merge = Null /\ Cardinality(sources) > 1
        /\ merge' = [sources |-> sources, written |-> Null]
        /\ UNCHANGED <<memory, disk, folders, shown, doomed, backup, ends, written, received, owed, age, troubled>>

\* The sources are read whether or not retention has removed them meanwhile, until they are deleted.
MergeWrite ==
    /\ merge # Null /\ merge.written = Null /\ written < MaxFiles
    /\ IF merge.sources \subseteq disk
       THEN LET folder == (CHOOSE f \in merge.sources : TRUE).folder
                merged == New(folder, LotsOf(merge.sources))
            IN  /\ disk' = disk \cup {merged}
                /\ merge' = [merge EXCEPT !.written = merged]
                /\ written' = written + 1
       ELSE merge' = Null /\ UNCHANGED <<disk, written>>
    /\ UNCHANGED <<memory, folders, shown, doomed, backup, ends, received, owed, age, troubled>>

MergeSwap ==
    /\ merge # Null /\ merge.written # Null
    /\ shown' = (shown \ merge.sources) \cup {merge.written}
    /\ Doom(merge.sources)
    /\ merge' = Null
    /\ UNCHANGED <<memory, disk, folders, backup, ends, written, received, owed, age, troubled>>

\* Retention by age or by size; what it removes is owed to nobody.
Retain(file) ==
    /\ file \in shown
    /\ shown' = shown \ {file}
    /\ Doom({file})
    /\ owed' = owed \ file.lots
    /\ UNCHANGED <<memory, disk, folders, merge, backup, ends, written, received, age, troubled>>

\* Mutant: a file is deleted as soon as it has left the snapshot.
Due_atOnce(d) == d \in doomed

\* A deferred deletion is due.
Due(d) == d.since = Delay

\* Files are deleted, and the folders that are left empty.
Deleted(files) ==
    LET left == disk \ files
        emptied == {f.folder : f \in files} \ {f.folder : f \in left}
    IN  disk' = left /\ folders' = folders \ emptied

RunDeferred(d) ==
    /\ d \in doomed /\ Due(d)
    /\ Deleted({d.file})
    /\ doomed' = doomed \ {d}
    /\ UNCHANGED <<memory, shown, merge, backup, ends, written, received, owed, age, troubled>>

\* The server ends, and starts again; the backup it was writing is cut off.
EndOfServer ==
    /\ ends < MaxEnds
    /\ ends' = ends + 1
    /\ doomed' = {} /\ merge' = Null
    /\ troubled' = (troubled \/ backup.by = "command")
    /\ backup' = IF backup.by = "server" /\ backup.step \notin {"done", "failed"} THEN NoBackup ELSE backup

\* A stop flushes the memory, then runs every deferred job, whenever it is due.
Stop(folder) ==
    /\ EndOfServer
    /\ merge = Null
    /\ written + (IF memory = {} THEN 0 ELSE 1) <= MaxFiles
    /\ LET last == IF memory = {} THEN {} ELSE {New(folder, memory)}
           left == (disk \cup last) \ {d.file : d \in doomed}
       IN  /\ disk' = left /\ folders' = {f.folder : f \in left}
           /\ shown' = left
    /\ written' = written + (IF memory = {} THEN 0 ELSE 1) /\ memory' = {}
    /\ UNCHANGED <<received, owed, age>>

\* After a crash the WAL gives the memory back, and every file that is left is a segment again.
Crash ==
    /\ EndOfServer
    /\ shown' = disk
    /\ UNCHANGED <<memory, disk, folders, written, received, owed, age>>

\* A minute.
Minute ==
    LET older(n) == Min({n + 1, Delay})
    IN  /\ backup.step \in {"flush", "list", "copy"} \/ \E d \in doomed : d.since < Delay
        /\ doomed' = {[d EXCEPT !.since = older(d.since)] : d \in doomed}
        /\ age' = IF backup.step \in {"flush", "list", "copy"} THEN older(age) ELSE age
        /\ UNCHANGED <<memory, disk, folders, shown, merge, backup, ends, written, received, owed, troubled>>

-----------------------------------------------------------------------------
\* The backup.

\* GET /admin/backup: the memory of the store is flushed first.
Ask ==
    /\ backup = NoBackup
    /\ backup' = [NoBackup EXCEPT !.by = "server", !.step = "flush"]
    /\ owed' = memory \cup LotsOf(shown) /\ age' = 0 /\ troubled' = FALSE
    /\ UNCHANGED <<memory, disk, folders, shown, doomed, merge, ends, written, received>>

FlushFirst(folder) ==
    /\ backup.step = "flush"
    /\ Flushed(folder)
    /\ backup' = [backup EXCEPT !.step = "list", !.visit = folders']
    /\ UNCHANGED <<doomed, merge, ends, received, owed, age, troubled>>

\* `wolflog backup`.
Command ==
    /\ backup = NoBackup
    /\ backup' = [NoBackup EXCEPT !.by = "command", !.step = "list", !.visit = folders]
    /\ owed' = LotsOf(shown) /\ age' = 0 /\ troubled' = FALSE
    /\ UNCHANGED <<memory, disk, folders, shown, doomed, merge, ends, written, received>>

List(folder) ==
    /\ backup.step = "list" /\ folder \in backup.visit
    /\ backup' = [backup EXCEPT !.step = "copy", !.visit = @ \ {folder}, !.listed = Under(folder)]
    /\ UNCHANGED <<memory, disk, folders, shown, doomed, merge, ends, written, received, owed, age, troubled>>

\* A file that is not there any more is passed over; a folder that is not there ends the backup.
Copy(file) ==
    /\ backup.step = "copy" /\ file \in backup.listed
    /\ backup' = IF file.folder \notin folders THEN [backup EXCEPT !.step = "failed"]
                 ELSE [backup EXCEPT !.listed = @ \ {file}, !.copied = IF file \in disk THEN @ \cup {file} ELSE @]
    /\ UNCHANGED <<memory, disk, folders, shown, doomed, merge, ends, written, received, owed, age, troubled>>

NextFolder ==
    /\ backup.step = "copy" /\ backup.listed = {}
    /\ backup' = [backup EXCEPT !.step = "list"]
    /\ UNCHANGED <<memory, disk, folders, shown, doomed, merge, ends, written, received, owed, age, troubled>>

Close ==
    /\ backup.step = "list" /\ backup.visit = {}
    /\ backup' = [backup EXCEPT !.step = "done"]
    /\ UNCHANGED <<memory, disk, folders, shown, doomed, merge, ends, written, received, owed, age, troubled>>

\* One backup: what follows it is left out.
Next ==
    /\ backup.step \notin {"done", "failed"}
    /\ \/ MergeWrite \/ MergeSwap \/ Crash \/ Minute \/ Ask \/ Command \/ NextFolder \/ Close
       \/ \E lot \in Lots : Receive(lot)
       \/ \E folder \in Folders :
               Flush(folder) \/ MergePick(folder) \/ Stop(folder) \/ FlushFirst(folder) \/ List(folder)
       \/ \E file \in shown : Retain(file)
       \/ \E d \in doomed : RunDeferred(d)
       \/ \E file \in backup.listed : Copy(file)

Spec == Init /\ [][Next]_backupVars

-----------------------------------------------------------------------------
\* MonitoringEndpoints.cs:395, "data in memory included": an archive that is complete holds
\* everything that was stored when the backup began, in memory too if the server made it, apart
\* from what retention removed, whatever is flushed, merged and deleted meanwhile.  A backup is to
\* take less than the delay of the deletions, and the command is to run without a stop of the
\* server meanwhile, which deletes at once: the sources of a merge that were listed may otherwise
\* be gone before they are copied, and the merged file was not there to be listed.
ArchiveComplete ==
    (backup.step = "done" /\ age < Delay /\ ~troubled) => owed \subseteq LotsOf(backup.copied)

=============================================================================
