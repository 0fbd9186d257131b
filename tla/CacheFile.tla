------------------------------ MODULE CacheFile ------------------------------
(***************************************************************************)
(* The SQLite cache file of app/data_loader.py under several worker        *)
(* processes that share a data directory: each starts with load_data, may  *)
(* find the file good, else downloads and writes a new one in _save_to_db, *)
(* and all of them write it at the same temporary path.                    *)
(*                                                                         *)
(* Files are inodes behind two names.  A file is "empty" when connect has  *)
(* made it, has a "schema" after the CREATE TABLE statements, which commit *)
(* one by one, and is "complete" after the commit of its rows and          *)
(* metadata.  An open file outlives its name.                              *)
(***************************************************************************)
EXTENDS Integers, FiniteSets

CONSTANTS Workers,  \* the worker processes
          Inodes,   \* file identities, reused once nothing refers to them
          NoFile,   \* a name without a file, a worker without an open file
          TTL,      \* settings.db_cache_ttl_days
          MaxNow    \* bound on the days that pass

ASSUME InodesAssumption == IsFiniteSet(Workers) /\ NoFile \notin Inodes
ASSUME DaysAssumption == TTL \in Nat /\ MaxNow \in Nat

VARIABLES
  pc,     \* per worker: "down", a step of load_data, or "serving"
  checked, \* per worker: the day it checked the cache, and the file's day then
  path,   \* per worker: where its rows come from
  rows,   \* per worker: the day of the file its rows come from, or of its download
  date,   \* per worker: _data_loaded_at
  ests,   \* per worker: the day of the file its estimates come from, if from one
  names,  \* per worker: the day of the file its names come from, if from one
  handle, \* per worker: the file its connection has open
  file,   \* per inode: its stage and the day of its created_at
  db,     \* the inode at _db_path()
  tmp,    \* the inode at the temporary path
  now,    \* the day
  \* History, read by no guard:
  alone,   \* the workers whose save no save of another worker overlapped
  overlap  \* some saves did overlap

memory == <<checked, path, rows, date, ests, names>>
history == <<alone, overlap>>
vars == <<pc, memory, handle, file, db, tmp, now, history>>

Stages == {"empty", "schema", "complete"}
Steps == {"down", "checking", "loading", "dating", "estimating", "naming", "downloading",
          "unlinking", "connecting", "creating", "inserting", "replacing", "serving"}
Paths == {"none", "fast", "download", "stale"}

Complete(i) == i # NoFile /\ file[i].stage = "complete"

(* What a query for the rows or the metadata of a file finds, if anything. *)
NoDay == -1
DayOf(i) == IF Complete(i) THEN file[i].day ELSE NoDay

(* The same, or nothing on an error of SQLite. *)
Read(i) == {DayOf(i), NoDay}

(* Mutant: the age of the cache is not looked at. *)
M_DbIsValid(i) == Complete(i)

(* _db_is_valid: without metadata, which the last commit brings, the NUTS   *)
(* version does not match or the query fails.                               *)
DbIsValid(i) == Complete(i) /\ now - file[i].day <= TTL

Unchecked == [on |-> 0, day |-> NoDay]

Init == /\ pc = [w \in Workers |-> "down"]
        /\ checked = [w \in Workers |-> Unchecked]
        /\ path = [w \in Workers |-> "none"]
        /\ rows = [w \in Workers |-> NoDay]
        /\ date = [w \in Workers |-> NoDay]
        /\ ests = [w \in Workers |-> NoDay]
        /\ names = [w \in Workers |-> NoDay]
        /\ handle = [w \in Workers |-> NoFile]
        /\ file = [i \in Inodes |-> [stage |-> "empty", day |-> 0]]
        /\ db = NoFile /\ tmp = NoFile
        /\ now = 0
        /\ alone = {} /\ overlap = FALSE

Goto(w, step) == pc' = [pc EXCEPT ![w] = step]
NoDisk == UNCHANGED <<handle, file, db, tmp, now, history>>

Start(w) == /\ pc[w] = "down"
            /\ Goto(w, "checking")
            /\ UNCHANGED memory /\ NoDisk

(* _db_is_valid.  It and every read below opens the file of its moment. *)
Check(w) == /\ pc[w] = "checking"
            /\ checked' = [checked EXCEPT ![w] = [on |-> now, day |-> DayOf(db)]]
            /\ Goto(w, IF DbIsValid(db) THEN "loading" ELSE "downloading")
            /\ UNCHANGED <<path, rows, date, ests, names>> /\ NoDisk

(* The fast path; no rows or an error of SQLite lead to a download. *)
LoadFromDb(w) ==
  /\ pc[w] = "loading"
  /\ \/ /\ Complete(db)
        /\ rows' = [rows EXCEPT ![w] = DayOf(db)]
        /\ path' = [path EXCEPT ![w] = "fast"]
        /\ Goto(w, "dating")
     \/ Goto(w, "downloading") /\ UNCHANGED <<rows, path>>
  /\ UNCHANGED <<checked, date, ests, names>> /\ NoDisk

(* Mutant: the date the check has seen is reported. *)
M_ReadCreatedAt(w) == /\ pc[w] = "dating"
                      /\ date' = [date EXCEPT ![w] = checked[w].day]
                      /\ Goto(w, "estimating")
                      /\ UNCHANGED <<checked, path, rows, ests, names>> /\ NoDisk

(* _read_db_created_at, after either of the loads from the cache. *)
ReadCreatedAt(w) == /\ pc[w] = "dating"
                    /\ \E day \in Read(db) : date' = [date EXCEPT ![w] = day]
                    /\ Goto(w, "estimating")
                    /\ UNCHANGED <<checked, path, rows, ests, names>> /\ NoDisk

(* The estimates of the cache, unless the CSV can be read.  After a         *)
(* download, too, and the save follows then.                                *)
LoadEstimates(w) ==
  /\ pc[w] = "estimating"
  /\ \E day \in Read(db) : ests' = [ests EXCEPT ![w] = day]
  /\ Goto(w, IF path[w] = "download" THEN "unlinking" ELSE "naming")
  /\ UNCHANGED <<checked, path, rows, date, names>> /\ NoDisk

(* The names of the cache. *)
LoadNames(w) == /\ pc[w] = "naming"
                /\ \E day \in Read(db) : names' = [names EXCEPT ![w] = day]
                /\ Goto(w, "serving")
                /\ UNCHANGED <<checked, path, rows, date, ests>> /\ NoDisk

(* Something was downloaded; the names may have been, too. *)
DownloadOk(w) == /\ pc[w] = "downloading"
                 /\ path' = [path EXCEPT ![w] = "download"]
                 /\ rows' = [rows EXCEPT ![w] = now]
                 /\ date' = [date EXCEPT ![w] = now]
                 /\ Goto(w, "estimating")
                 /\ UNCHANGED <<checked, ests, names>> /\ NoDisk

(* Nothing was: the rows of whatever file there is, or none. *)
DownloadFails(w) ==
  /\ pc[w] = "downloading"
  /\ IF db = NoFile
     THEN Goto(w, "serving") /\ UNCHANGED <<path, rows>>
     ELSE /\ Goto(w, "dating")
          /\ path' = [path EXCEPT ![w] = "stale"]
          /\ \E day \in Read(db) : rows' = [rows EXCEPT ![w] = day]
  /\ UNCHANGED <<checked, date, ests, names>> /\ NoDisk

-----------------------------------------------------------------------------
(* _save_to_db.                                                            *)

Memory == UNCHANGED <<memory, now>>

Saving(w) == pc[w] \in {"connecting", "creating", "inserting", "replacing"}

(* Mutant: a temporary file that is there is written on. *)
M_Unlink(w) == /\ pc[w] = "unlinking"
               /\ Goto(w, "connecting")
               /\ alone' = IF \E v \in Workers : Saving(v) THEN {} ELSE {w}
               /\ overlap' = (overlap \/ \E v \in Workers : Saving(v))
               /\ UNCHANGED <<handle, file, db, tmp>> /\ Memory

Unlink(w) == /\ pc[w] = "unlinking"
             /\ tmp' = NoFile
             /\ Goto(w, "connecting")
             /\ alone' = IF \E v \in Workers : Saving(v) THEN {} ELSE {w}
             /\ overlap' = (overlap \/ \E v \in Workers : Saving(v))
             /\ UNCHANGED <<handle, file, db>> /\ Memory

InUse == {db, tmp} \cup {handle[w] : w \in Workers}

(* Mutant: the cache is written in place. *)
M_Connect(w) == /\ pc[w] = "connecting"
                /\ \E i \in IF db = NoFile THEN Inodes \ InUse ELSE {db} :
                     /\ db' = i /\ tmp' = i
                     /\ handle' = [handle EXCEPT ![w] = i]
                     /\ file' = [file EXCEPT ![i] = [stage |-> "empty", day |-> 0]]
                /\ Goto(w, "creating")
                /\ UNCHANGED history /\ Memory

(* connect opens the file at the temporary path, or makes an empty one. *)
Connect(w) ==
  /\ pc[w] = "connecting"
  /\ \/ /\ tmp # NoFile
        /\ handle' = [handle EXCEPT ![w] = tmp]
        /\ UNCHANGED <<file, tmp>>
     \/ /\ tmp = NoFile
        /\ \E i \in Inodes \ InUse :
             /\ tmp' = i
             /\ handle' = [handle EXCEPT ![w] = i]
             /\ file' = [file EXCEPT ![i] = [stage |-> "empty", day |-> 0]]
  /\ Goto(w, "creating")
  /\ UNCHANGED <<db, history>> /\ Memory

(* Mutant: CREATE TABLE IF NOT EXISTS. *)
M_CreateTables(w) == /\ pc[w] = "creating"
                     /\ file' = [file EXCEPT ![handle[w]].stage =
                          IF @ = "empty" THEN "schema" ELSE @]
                     /\ Goto(w, "inserting")
                     /\ UNCHANGED <<handle, db, tmp, history>> /\ Memory

(* The tables must not be there. *)
CreateTables(w) == /\ pc[w] = "creating"
                   /\ file[handle[w]].stage = "empty"
                   /\ file' = [file EXCEPT ![handle[w]] = [stage |-> "schema", day |-> @.day]]
                   /\ Goto(w, "inserting")
                   /\ UNCHANGED <<handle, db, tmp, history>> /\ Memory

(* Mutant: the connection is left open. *)
M_Commit(w) == /\ pc[w] = "inserting"
               /\ file' = [file EXCEPT ![handle[w]] = [stage |-> "complete", day |-> now]]
               /\ Goto(w, "replacing")
               /\ UNCHANGED <<handle, db, tmp, history>> /\ Memory

(* Rows, names and metadata in one transaction; the connection is closed. *)
Commit(w) == /\ pc[w] = "inserting"
             /\ file' = [file EXCEPT ![handle[w]] = [stage |-> "complete", day |-> now]]
             /\ handle' = [handle EXCEPT ![w] = NoFile]
             /\ Goto(w, "replacing")
             /\ UNCHANGED <<db, tmp, history>> /\ Memory

(* The file of the moment at the temporary path becomes the cache. *)
Replace(w) == /\ pc[w] = "replacing" /\ tmp # NoFile
              /\ db' = tmp /\ tmp' = NoFile
              /\ Goto(w, "serving")
              /\ UNCHANGED <<handle, file, history>> /\ Memory

(* No file can be opened, a table that exists, a write to a file that lost  *)
(* its name, a full disk, a temporary path without a file: what is at that  *)
(* path is removed.                                                         *)
SaveFails(w) == /\ Saving(w)
                /\ tmp' = NoFile
                /\ handle' = [handle EXCEPT ![w] = NoFile]
                /\ Goto(w, "serving")
                /\ UNCHANGED <<file, db, history>> /\ Memory

-----------------------------------------------------------------------------
(* The process dies; the files stay as they are. *)
Kill(w) == /\ pc[w] # "down"
           /\ Goto(w, "down")
           /\ checked' = [checked EXCEPT ![w] = Unchecked]
           /\ path' = [path EXCEPT ![w] = "none"]
           /\ rows' = [rows EXCEPT ![w] = NoDay]
           /\ date' = [date EXCEPT ![w] = NoDay]
           /\ ests' = [ests EXCEPT ![w] = NoDay]
           /\ names' = [names EXCEPT ![w] = NoDay]
           /\ handle' = [handle EXCEPT ![w] = NoFile]
           /\ UNCHANGED <<file, db, tmp, now, history>>

NextDay == /\ now < MaxNow
           /\ now' = now + 1
           /\ UNCHANGED <<pc, memory, handle, file, db, tmp, history>>

Next == \/ \E w \in Workers :
             \/ Start(w) \/ Check(w) \/ LoadFromDb(w) \/ ReadCreatedAt(w)
             \/ LoadEstimates(w) \/ LoadNames(w) \/ DownloadOk(w) \/ DownloadFails(w)
             \/ Unlink(w) \/ Connect(w) \/ CreateTables(w) \/ Commit(w) \/ Replace(w)
             \/ SaveFails(w) \/ Kill(w)
        \/ NextDay

Spec == Init /\ [][Next]_vars
-----------------------------------------------------------------------------
Days == 0..MaxNow \cup {NoDay}
TypeOK == /\ pc \in [Workers -> Steps]
          /\ checked \in [Workers -> [on : 0..MaxNow, day : Days]]
          /\ path \in [Workers -> Paths]
          /\ rows \in [Workers -> Days] /\ date \in [Workers -> Days]
          /\ ests \in [Workers -> Days] /\ names \in [Workers -> Days]
          /\ handle \in [Workers -> Inodes \cup {NoFile}]
          /\ file \in [Inodes -> [stage : Stages, day : 0..MaxNow]]
          /\ {db, tmp} \subseteq Inodes \cup {NoFile}
          /\ now \in 0..MaxNow
          /\ alone \subseteq Workers /\ overlap \in BOOLEAN
          /\ \A w \in Workers : (handle[w] = NoFile) <=> pc[w] \notin {"creating", "inserting"}

(* However the saves of several workers interleave, a file is filled by one *)
(* of them: of two that opened the same file, the second to create its      *)
(* tables gives up.                                                         *)
OneWriter == \A v, w \in Workers :
  v # w /\ pc[v] = "inserting" /\ pc[w] = "inserting" => handle[v] # handle[w]

(* A worker on the fast path serves rows, also when the file was replaced   *)
(* between the check and the load; as long as saves do not overlap, by a    *)
(* newer one: the rows are within the TTL of the check (data_loader.py:866).*)
FastPathIsRecent == \A w \in Workers : path[w] = "fast" =>
  /\ rows[w] # NoDay
  /\ ~overlap => checked[w].on - rows[w] <= TTL

(* The days of what a worker has read of the cache, in the order of its     *)
(* opens; rows and date of a download are its own.                          *)
Reads(w) ==
  IF path[w] = "download" THEN <<checked[w].day, ests[w]>>
                          ELSE <<checked[w].day, rows[w], date[w], ests[w], names[w]>>

(* Validity, rows, date, estimates and names are read in opens of their     *)
(* own, each of which may fail, and another worker may replace the file     *)
(* between any two of them.  As long as saves do not overlap, what is read  *)
(* later is never older: last_updated is not before the rows it is about,   *)
(* estimates and names not before either, and the estimates that a download *)
(* saves are not older than the cache it found expired (data_loader.py:864- *)
(* 873, 938-955).                                                           *)
LaterIsNewer == \A w \in Workers : ~overlap =>
  \A j \in DOMAIN Reads(w), i \in 1..5 :
    i < j /\ Reads(w)[j] # NoDay => Reads(w)[i] <= Reads(w)[j]

(* Saves that do not overlap, with kills anywhere between and within them,  *)
(* never replace a complete cache by a file that is not: only the rename of *)
(* a worker that saved beside another one does.                             *)
LoneSaveIsAtomic ==
  [][Complete(db) /\ ~Complete(db)' => \E w \in Workers \ alone : pc[w] = "replacing"]_vars

(* A worker that saves alone is not stopped by what a killed one left at    *)
(* the temporary path: the file it creates its tables in is new.            *)
NeverBlocked == \A w \in alone : pc[w] = "creating" => file[handle[w]].stage = "empty"

(* "Written atomically" (README.md:554): a complete cache is only ever      *)
(* replaced by a complete one.                                              *)
WrittenAtomically == [][Complete(db) => Complete(db)']_vars
=============================================================================
