----------------------------- MODULE DataFiles -----------------------------
(* The data directory (db/reset.py, db/restore.py, db/upgrade.py, db/backup.py): *)
(* the names in it and what each holds, and what a power cut would bring back. The *)
(* file system is a journalling one: names made, renamed or removed since the    *)
(* directory was last flushed may be undone from some point on, in order.        *)
EXTENDS Naturals

CONSTANTS Archive,     \* the archive the app starts with
          Fresh,       \* what a first boot makes
          Uploads,     \* the uploads of the restore page; each brings an archive of its own
          NoFile, Torn \* no such name; a file that is only partly written
VARIABLES files,  \* what a process sees
          disk    \* what a power cut would leave

Names == {"db", "wal", "backup", "copying", "reset", "resetting"} \cup Uploads

Archives == {Archive, Fresh} \cup Uploads
Databases(rows) == [of : Archives, level : {"older", "current"}, rows : 0..rows, writes : BOOLEAN]
Logs(rows) == [of : Archives, rows : 0..rows]

Here(name) == files[name] # NoFile

\* A name is made, replaced or renamed; the disk has followed so far, or not yet.
Change(changed) == files' = changed /\ disk' \in {disk, changed}

Without(gone) == [name \in Names |-> IF name \in gone THEN NoFile ELSE files[name]]

\* Several names go, in an order nobody relies on.
Unlink(names) ==
  /\ files' = Without(names)
  /\ disk' \in {disk} \cup {Without(gone) : gone \in SUBSET {name \in names : Here(name)}}

\* `_fsync(data_dir, directory=True)`
Flush == disk' = files /\ UNCHANGED files

\* A file is written where it is, flushed before the next step (SQLite's transactions, the copy's fsync).
Put(dir, name, content) == [dir EXCEPT ![name] = IF @ = NoFile THEN NoFile ELSE content]
Rewrite(name, content) == files' = Put(files, name, content) /\ disk' = Put(disk, name, content)

\* What opening the database reads: the file, and the log of the commits that are not in it yet.
Reads(dir) == IF dir["wal"] = NoFile THEN dir["db"] ELSE [dir["db"] EXCEPT !.rows = dir["wal"].rows]

\* The last close folds the log into the file, flushed, and removes the log.
Fold ==
  /\ Here("wal")
  /\ files' = [files EXCEPT !["db"] = Reads(files), !["wal"] = NoFile]
  /\ disk' \in {files', Put(Put(disk, "db", Reads(files)), "wal", files["wal"])}

\* A commit goes to the log. The header of a new log is flushed, and with it the directory it was made in.
AppendToLog(content) ==
  /\ files' = [files EXCEPT !["wal"] = content]
  /\ disk' = files' \/ (Here("wal") /\ disk' = disk)

\* The log is not flushed at every commit (`PRAGMA synchronous = NORMAL`): a power cut may take what is only in it.
PowerIsCut == /\ files' \in {disk, [disk EXCEPT !["wal"] = NoFile]}
              /\ disk' = files'

Possible == {files, disk}
=============================================================================
