--------------------------- MODULE CacheFileProofs ---------------------------
(***************************************************************************)
(* Proofs about CacheFile, for every number of workers, inodes and days.   *)
(*                                                                         *)
(* What makes a save safe is that it is alone (AloneOK): between the       *)
(* unlink and the rename nobody else has the temporary path.  As long as   *)
(* no two saves overlapped every save is (OverlapOK), the cache is never   *)
(* replaced by an older one, and whoever reads it twice reads no older     *)
(* data the second time (WorkerOK).                                        *)
(***************************************************************************)
EXTENDS CacheFile, FiniteSetTheorems, TLAPS

FilesOK == /\ \A i \in Inodes : file[i].day <= now
           /\ \A w \in Workers : pc[w] = "inserting" => file[handle[w]].stage # "empty"

NotBefore(a, b) == b # NoDay => a <= b

(* LaterIsNewer of one worker, spelt out. *)
InOrder(w) ==
  /\ NotBefore(checked[w].day, ests[w])
  /\ path[w] # "download" =>
       /\ NotBefore(checked[w].day, rows[w]) /\ NotBefore(checked[w].day, date[w])
       /\ NotBefore(checked[w].day, names[w])
       /\ NotBefore(rows[w], date[w]) /\ NotBefore(rows[w], ests[w]) /\ NotBefore(rows[w], names[w])
       /\ NotBefore(date[w], ests[w]) /\ NotBefore(date[w], names[w])
       /\ NotBefore(ests[w], names[w])

AloneOK ==
  /\ \A v, w \in alone : v = w
  /\ \A w \in alone :
       /\ Saving(w) => \A v \in Workers \ {w} : ~Saving(v)
       /\ pc[w] = "connecting" => tmp = NoFile
       /\ pc[w] \in {"creating", "inserting"} => handle[w] = tmp
       /\ pc[w] = "creating" => file[handle[w]].stage = "empty"
       /\ pc[w] = "replacing" => Complete(tmp) /\ DayOf(db) <= DayOf(tmp)

OverlapOK == ~overlap => \A w \in Workers : Saving(w) => w \in alone

(* What is still to be read; and what was read is not newer than the cache  *)
(* is, so that whatever is read next is not older.                          *)
WorkerOK(w) ==
  /\ pc[w] \in {"down", "checking", "loading", "downloading"}
       => path[w] = "none" /\ rows[w] = NoDay /\ date[w] = NoDay
  /\ pc[w] \in {"down", "checking", "loading", "downloading", "dating", "estimating"}
       => ests[w] = NoDay
  /\ pc[w] = "dating" => date[w] = NoDay
  /\ pc[w] \in {"dating", "naming"} => path[w] # "download"
  /\ names[w] # NoDay => pc[w] = "serving"
  /\ path[w] = "fast" => rows[w] # NoDay
  /\ ~overlap =>
       /\ checked[w].day <= DayOf(db) /\ ests[w] <= DayOf(db) /\ names[w] <= DayOf(db)
       /\ path[w] # "download" => rows[w] <= DayOf(db) /\ date[w] <= DayOf(db)
       /\ pc[w] = "loading" => DayOf(db) # NoDay /\ checked[w].on - DayOf(db) <= TTL
       /\ path[w] = "fast" => checked[w].on - rows[w] <= TTL
       /\ InOrder(w)

Inv == TypeOK /\ FilesOK /\ OneWriter /\ AloneOK /\ OverlapOK /\ \A w \in Workers : WorkerOK(w)

-----------------------------------------------------------------------------
LEMMA DaysOrdered == /\ \A day \in Days : day \in Int /\ NoDay <= day
                     /\ NoDay \in Days /\ 0..MaxNow \subseteq Days /\ TTL \in Int
BY DaysAssumption DEF Days, NoDay

LEMMA DayType == ASSUME TypeOK, NEW i \in Inodes \cup {NoFile} PROVE DayOf(i) \in Days
BY DEF TypeOK, DayOf, Complete, Days

LEMMA InitInv == Init => Inv
<1> SUFFICES ASSUME Init PROVE Inv
  OBVIOUS
<1> USE DEF Init
<1>1. TypeOK
  <2>1. 0 \in 0..MaxNow /\ NoDay \in Days
    BY DaysAssumption DEF Days
  <2> QED BY <2>1 DEF TypeOK, Unchecked, Steps, Paths, Stages
<1>2. FilesOK /\ OneWriter
  BY DaysAssumption DEF FilesOK, OneWriter
<1>3. AloneOK /\ OverlapOK
  BY DEF AloneOK, OverlapOK, Saving
<1>4. ASSUME NEW w \in Workers PROVE WorkerOK(w)
  <2>1. DayOf(db) = NoDay /\ NoDay \in Int
    BY DEF DayOf, Complete, NoDay
  <2> QED BY <2>1 DEF WorkerOK, InOrder, NotBefore, Unchecked
<1> QED BY <1>1, <1>2, <1>3, <1>4 DEF Inv

(* A worker whose memory is left alone is safe as long as the cache does    *)
(* not get older, where it is or further on in a save.                      *)
LEMMA OthersOK ==
  ASSUME TypeOK, TypeOK', NEW v \in Workers, WorkerOK(v),
         \/ pc'[v] = pc[v]
         \/ /\ pc[v] = "unlinking" \/ Saving(v)
            /\ pc'[v] \in {"connecting", "creating", "inserting", "replacing", "serving"},
         checked'[v] = checked[v], path'[v] = path[v], rows'[v] = rows[v],
         date'[v] = date[v], ests'[v] = ests[v], names'[v] = names[v],
         overlap => overlap',
         ~overlap' => DayOf(db) <= DayOf(db)'
  PROVE  WorkerOK(v)'
<1>1. DayOf(db) \in Days /\ DayOf(db)' \in Days
  <2>1. db \in Inodes \cup {NoFile} /\ db' \in Inodes \cup {NoFile}
    BY DEF TypeOK
  <2>2. DayOf(db) \in Days
    BY <2>1, DayType
  <2>3. DayOf(db)' \in Days
    BY <2>1 DEF TypeOK, DayOf, Complete, Days
  <2> QED BY <2>2, <2>3
<1>2. /\ checked[v].on \in 0..MaxNow /\ checked[v].day \in Days
      /\ rows[v] \in Days /\ date[v] \in Days /\ ests[v] \in Days /\ names[v] \in Days
  BY DEF TypeOK
<1>3. /\ DayOf(db) \in Int /\ DayOf(db)' \in Int /\ NoDay \in Int /\ NoDay <= DayOf(db)
      /\ checked[v].on \in Int /\ checked[v].day \in Int
      /\ rows[v] \in Int /\ date[v] \in Int /\ ests[v] \in Int /\ names[v] \in Int /\ TTL \in Int
  BY <1>1, <1>2, DaysOrdered
<1>4. InOrder(v)' <=> InOrder(v)
  BY DEF InOrder, NotBefore
<1> QED BY <1>3, <1>4 DEF WorkerOK, Saving

-----------------------------------------------------------------------------
(* The steps that touch no file.                                           *)

(* What they leave to show. *)
LEMMA ReadingInv ==
  ASSUME Inv, NEW w \in Workers, NoDisk, NEW step, pc' = [pc EXCEPT ![w] = step],
         ~Saving(w), step \in Steps \ {"connecting", "creating", "inserting", "replacing"},
         TypeOK', WorkerOK(w)',
         \A v \in Workers \ {w} : /\ checked'[v] = checked[v] /\ path'[v] = path[v]
                                  /\ rows'[v] = rows[v] /\ date'[v] = date[v]
                                  /\ ests'[v] = ests[v] /\ names'[v] = names[v]
  PROVE  Inv'
<1> USE DEF Inv, NoDisk, history
<1>1. pc \in [Workers -> Steps] /\ \A v \in Workers : Saving(v)' <=> Saving(v)
  BY DEF TypeOK, Saving
<1>2. FilesOK' /\ OneWriter'
  BY <1>1 DEF FilesOK, OneWriter
<1>3. AloneOK'
  BY <1>1 DEF AloneOK, TypeOK, Complete, DayOf
<1>4. OverlapOK'
  BY <1>1 DEF OverlapOK
<1>5. ASSUME NEW v \in Workers PROVE WorkerOK(v)'
  <2>1. DayOf(db)' = DayOf(db) /\ DayOf(db) \in Int
    BY DayType, DaysAssumption DEF DayOf, Complete, TypeOK, Days, NoDay
  <2> QED BY <1>1, <2>1, OthersOK
<1> QED BY <1>2, <1>3, <1>4, <1>5

(* Types, as far as a step of one worker that touches no file assigns them. *)
LEMMA ReadingTypes ==
  ASSUME TypeOK, NEW w \in Workers, NoDisk,
         pc[w] \notin {"creating", "inserting"},
         NEW step \in Steps \ {"creating", "inserting"}, pc' = [pc EXCEPT ![w] = step],
         checked' \in [Workers -> [on : 0..MaxNow, day : Days]],
         path' \in [Workers -> Paths],
         rows' \in [Workers -> Days], date' \in [Workers -> Days],
         ests' \in [Workers -> Days], names' \in [Workers -> Days]
  PROVE  TypeOK'
BY DEF TypeOK, NoDisk, history, Days, NoDay

(* What a read of the cache returns. *)
LEMMA ReadType ==
  ASSUME TypeOK, NoDisk
  PROVE  /\ DayOf(db) \in Days /\ DayOf(db) \in Int /\ NoDay <= DayOf(db) /\ DayOf(db)' = DayOf(db)
         /\ \A day \in Read(db) : day \in Days /\ day \in Int /\ day \in {DayOf(db), NoDay}
<1>1. DayOf(db) \in Days
  BY DayType DEF TypeOK
<1>2. DayOf(db)' = DayOf(db)
  BY DEF DayOf, Complete, NoDisk
<1> QED BY <1>1, <1>2, DaysOrdered DEF Read

(* The memory of a worker, as numbers. *)
LEMMA MemoryType ==
  ASSUME TypeOK, NEW w \in Workers
  PROVE  /\ checked[w].on \in Int /\ checked[w].day \in Int /\ path[w] \in Paths
         /\ rows[w] \in Int /\ date[w] \in Int /\ ests[w] \in Int /\ names[w] \in Int
         /\ TTL \in Int /\ NoDay \in Int
BY DaysOrdered DEF TypeOK

LEMMA StartInv == ASSUME Inv, NEW w \in Workers, Start(w) PROVE Inv'
<1> USE DEF Start, Goto, memory
<1>1. TypeOK'
  BY ReadingTypes DEF Inv, TypeOK, Steps
<1>2. WorkerOK(w)'
  BY DEF Inv, TypeOK, WorkerOK, InOrder, NoDisk, history, DayOf, Complete
<1> QED BY <1>1, <1>2, ReadingInv DEF Inv, Saving, Steps

LEMMA CheckInv == ASSUME Inv, NEW w \in Workers, Check(w) PROVE Inv'
<1> USE DEF Check, Goto, memory
<1>1. DayOf(db) \in Days /\ now \in 0..MaxNow
  BY ReadType DEF Inv, TypeOK
<1>2. TypeOK'
  BY <1>1, ReadingTypes DEF Inv, TypeOK, Steps
<1>3. WorkerOK(w)'
  <2>1. DbIsValid(db) => DayOf(db) # NoDay /\ now - DayOf(db) <= TTL
    BY DaysOrdered DEF DbIsValid, DayOf, Complete, Inv, TypeOK, NoDay
  <2>2. /\ pc[w] = "checking" /\ path[w] = "none" /\ rows[w] = NoDay /\ date[w] = NoDay
        /\ ests[w] = NoDay /\ names[w] = NoDay
    BY DEF Inv, WorkerOK
  <2>3. /\ pc'[w] = IF DbIsValid(db) THEN "loading" ELSE "downloading"
        /\ checked'[w] = [on |-> now, day |-> DayOf(db)]
        /\ path'[w] = "none" /\ rows'[w] = NoDay /\ date'[w] = NoDay
        /\ ests'[w] = NoDay /\ names'[w] = NoDay
    BY <2>2 DEF Inv, TypeOK
  <2>4. InOrder(w)'
    BY <2>3 DEF InOrder, NotBefore
  <2> QED BY <2>1, <2>3, <2>4, ReadType DEF Inv, WorkerOK
<1> QED BY <1>2, <1>3, ReadingInv DEF Inv, TypeOK, Saving, Steps

LEMMA LoadFromDbInv == ASSUME Inv, NEW w \in Workers, LoadFromDb(w) PROVE Inv'
<1> USE DEF LoadFromDb, Goto, memory
<1>1. DayOf(db) \in Days /\ DayOf(db)' = DayOf(db)
  BY ReadType DEF Inv
<1>2. TypeOK'
  <2>1. PICK step \in {"dating", "downloading"} : pc' = [pc EXCEPT ![w] = step]
    OBVIOUS
  <2>2. rows' \in [Workers -> Days]
    BY <1>1 DEF Inv, TypeOK
  <2>3. path' = path \/ path' = [path EXCEPT ![w] = "fast"]
    OBVIOUS
  <2>4. path' \in [Workers -> Paths]
    BY <2>3 DEF Inv, TypeOK, Paths
  <2>5. UNCHANGED <<checked, date, ests, names>> /\ NoDisk /\ pc[w] = "loading"
    OBVIOUS
  <2> HIDE DEF LoadFromDb, Goto, memory
  <2> QED BY <2>1, <2>2, <2>4, <2>5, ReadingTypes DEF Inv, TypeOK, Steps
<1>3. WorkerOK(w)'
  <2>1. Complete(db) => DayOf(db) # NoDay
    BY DEF DayOf, Complete, Inv, TypeOK, NoDay
  <2>2. /\ pc[w] = "loading" /\ path[w] = "none" /\ rows[w] = NoDay /\ date[w] = NoDay
        /\ ests[w] = NoDay /\ names[w] = NoDay
    BY DEF Inv, WorkerOK
  <2>3. UNCHANGED <<checked, date, ests, names, overlap>>
    BY DEF NoDisk, history
  <2>4. CASE /\ rows' = [rows EXCEPT ![w] = DayOf(db)] /\ path' = [path EXCEPT ![w] = "fast"]
             /\ pc' = [pc EXCEPT ![w] = "dating"] /\ Complete(db)
    <3>1. rows'[w] = DayOf(db) /\ path'[w] = "fast" /\ pc'[w] = "dating"
      BY <2>4 DEF Inv, TypeOK
    <3>2. ~overlap => InOrder(w)'
      BY <2>2, <2>3, <3>1 DEF InOrder, NotBefore, Inv, WorkerOK
    <3> QED BY <2>1, <2>2, <2>3, <2>4, <3>1, <3>2, ReadType, MemoryType DEF Inv, WorkerOK
  <2>5. CASE pc' = [pc EXCEPT ![w] = "downloading"] /\ UNCHANGED <<rows, path>>
    <3>1. InOrder(w)' <=> InOrder(w)
      BY <2>3, <2>5 DEF InOrder, NotBefore
    <3>2. pc'[w] = "downloading"
      BY <2>5 DEF Inv, TypeOK
    <3> QED BY <2>2, <2>3, <2>5, <3>1, <3>2, ReadType DEF Inv, WorkerOK
  <2> QED BY <2>4, <2>5
<1> QED BY <1>2, <1>3, ReadingInv DEF Inv, TypeOK, Saving, Steps

LEMMA ReadCreatedAtInv == ASSUME Inv, NEW w \in Workers, ReadCreatedAt(w) PROVE Inv'
<1> USE DEF ReadCreatedAt, Goto, memory
<1>1. PICK day \in Read(db) : date' = [date EXCEPT ![w] = day]
  OBVIOUS
<1>2. TypeOK'
  BY <1>1, ReadType, ReadingTypes DEF Inv, TypeOK, Steps
<1>3. WorkerOK(w)'
  <2>1. /\ pc[w] = "dating" /\ pc'[w] = "estimating" /\ date'[w] = day /\ date[w] = NoDay
        /\ ests[w] = NoDay /\ names[w] = NoDay /\ path[w] # "download"
        /\ UNCHANGED <<checked, path, rows, ests, names, overlap>>
    BY <1>1 DEF Inv, TypeOK, WorkerOK, NoDisk, history
  <2>2. ~overlap => InOrder(w)'
    BY <2>1, ReadType DEF InOrder, NotBefore, Inv, WorkerOK
  <2> QED BY <2>1, <2>2, ReadType, MemoryType DEF Inv, WorkerOK
<1> QED BY <1>2, <1>3, ReadingInv DEF Inv, TypeOK, Saving, Steps

LEMMA LoadEstimatesInv == ASSUME Inv, NEW w \in Workers, LoadEstimates(w) PROVE Inv'
<1> USE DEF LoadEstimates, Goto, memory
<1>1. PICK day \in Read(db) : ests' = [ests EXCEPT ![w] = day]
  OBVIOUS
<1>2. PICK step \in {"unlinking", "naming"} :
        pc' = [pc EXCEPT ![w] = step] /\ (step = "unlinking" <=> path[w] = "download")
  OBVIOUS
<1>3. TypeOK'
  <2>1. ests' \in [Workers -> Days]
    BY <1>1, ReadType DEF Inv, TypeOK
  <2>2. UNCHANGED <<checked, path, rows, date, names>> /\ NoDisk /\ pc[w] = "estimating"
    OBVIOUS
  <2> HIDE DEF LoadEstimates, Goto, memory
  <2> QED BY <1>2, <2>1, <2>2, ReadingTypes DEF Inv, TypeOK, Steps
<1>4. WorkerOK(w)'
  <2>1. /\ pc[w] = "estimating" /\ pc'[w] = step /\ ests'[w] = day
        /\ ests[w] = NoDay /\ names[w] = NoDay
        /\ UNCHANGED <<checked, path, rows, date, names, overlap>>
    BY <1>1, <1>2 DEF Inv, TypeOK, WorkerOK, NoDisk, history
  <2>2. ~overlap => InOrder(w)'
    BY <2>1, ReadType DEF InOrder, NotBefore, Inv, WorkerOK
  <2> QED BY <1>2, <2>1, <2>2, ReadType, MemoryType DEF Inv, WorkerOK
<1> QED BY <1>2, <1>3, <1>4, ReadingInv DEF Inv, TypeOK, Saving, Steps

LEMMA LoadNamesInv == ASSUME Inv, NEW w \in Workers, LoadNames(w) PROVE Inv'
<1> USE DEF LoadNames, Goto, memory
<1>1. PICK day \in Read(db) : names' = [names EXCEPT ![w] = day]
  OBVIOUS
<1>2. TypeOK'
  BY <1>1, ReadType, ReadingTypes DEF Inv, TypeOK, Steps
<1>3. WorkerOK(w)'
  <2>1. /\ pc[w] = "naming" /\ pc'[w] = "serving" /\ names'[w] = day
        /\ names[w] = NoDay /\ path[w] # "download"
        /\ UNCHANGED <<checked, path, rows, date, ests, overlap>>
    BY <1>1 DEF Inv, TypeOK, WorkerOK, NoDisk, history
  <2>2. ~overlap => InOrder(w)'
    BY <2>1, ReadType DEF InOrder, NotBefore, Inv, WorkerOK
  <2> QED BY <2>1, <2>2, ReadType, MemoryType DEF Inv, WorkerOK
<1> QED BY <1>2, <1>3, ReadingInv DEF Inv, TypeOK, Saving, Steps

LEMMA DownloadOkInv == ASSUME Inv, NEW w \in Workers, DownloadOk(w) PROVE Inv'
<1> USE DEF DownloadOk, Goto, memory
<1>1. now \in Days
  BY DaysOrdered DEF Inv, TypeOK
<1>2. TypeOK'
  BY <1>1, ReadingTypes DEF Inv, TypeOK, Steps, Paths
<1>3. WorkerOK(w)'
  <2>1. /\ pc[w] = "downloading" /\ pc'[w] = "estimating" /\ path'[w] = "download"
        /\ ests[w] = NoDay /\ names[w] = NoDay
        /\ UNCHANGED <<checked, ests, names, overlap>>
    BY DEF Inv, TypeOK, WorkerOK, NoDisk, history
  <2>2. InOrder(w)'
    BY <2>1 DEF InOrder, NotBefore
  <2> QED BY <2>1, <2>2, ReadType DEF Inv, WorkerOK
<1> QED BY <1>2, <1>3, ReadingInv DEF Inv, TypeOK, Saving, Steps

LEMMA DownloadFailsInv == ASSUME Inv, NEW w \in Workers, DownloadFails(w) PROVE Inv'
<1> USE DEF DownloadFails, Goto, memory
<1>1. /\ pc[w] = "downloading" /\ path[w] = "none" /\ rows[w] = NoDay /\ date[w] = NoDay
      /\ ests[w] = NoDay /\ names[w] = NoDay /\ UNCHANGED <<checked, date, ests, names, overlap>>
  BY DEF Inv, WorkerOK, NoDisk, history
<1>2. CASE pc' = [pc EXCEPT ![w] = "serving"] /\ UNCHANGED <<path, rows>>
  <2>1. TypeOK'
    BY <1>2, ReadingTypes DEF Inv, TypeOK, Steps
  <2>2. InOrder(w)' <=> InOrder(w)
    BY <1>1, <1>2 DEF InOrder, NotBefore
  <2>3. WorkerOK(w)'
    BY <1>1, <1>2, <2>2, ReadType DEF Inv, TypeOK, WorkerOK
  <2> QED BY <1>2, <2>1, <2>3, ReadingInv DEF Inv, TypeOK, Saving, Steps
<1>3. CASE /\ pc' = [pc EXCEPT ![w] = "dating"] /\ path' = [path EXCEPT ![w] = "stale"]
           /\ \E day \in Read(db) : rows' = [rows EXCEPT ![w] = day]
  <2>1. PICK day \in Read(db) : rows' = [rows EXCEPT ![w] = day]
    BY <1>3
  <2>2. TypeOK'
    BY <1>3, <2>1, ReadType, ReadingTypes DEF Inv, TypeOK, Steps, Paths
  <2>3. rows'[w] = day /\ path'[w] = "stale" /\ pc'[w] = "dating"
    BY <1>3, <2>1 DEF Inv, TypeOK
  <2>4. ~overlap => InOrder(w)'
    BY <1>1, <2>3, ReadType DEF InOrder, NotBefore, Inv, WorkerOK
  <2>5. WorkerOK(w)'
    BY <1>1, <2>3, <2>4, ReadType, MemoryType DEF Inv, WorkerOK
  <2> QED BY <1>3, <2>1, <2>2, <2>5, ReadingInv DEF Inv, TypeOK, Saving, Steps
<1> QED BY <1>2, <1>3

-----------------------------------------------------------------------------
(* The steps of a save.                                                    *)

(* Who saves beside a save that is alone is not alone itself. *)
LEMMA NotBoth ==
  ASSUME TypeOK, AloneOK, NEW w \in Workers, Saving(w), NEW v \in alone, v # w
  PROVE  ~Saving(v)
BY DEF AloneOK, TypeOK

(* What the steps of a save leave to show of the workers' memories. *)
LEMMA SavingInv ==
  ASSUME Inv, TypeOK', NEW w \in Workers, UNCHANGED <<memory, now>>,
         pc[w] = "unlinking" \/ Saving(w), NEW step \in Steps, pc' = [pc EXCEPT ![w] = step],
         step \in {"connecting", "creating", "inserting", "replacing", "serving"},
         overlap => overlap', ~overlap' => DayOf(db) <= DayOf(db)'
  PROVE  \A v \in Workers : WorkerOK(v)'
<1> USE DEF Inv, memory
<1> QED BY OthersOK DEF TypeOK

LEMMA UnlinkInv == ASSUME Inv, NEW w \in Workers, Unlink(w) PROVE Inv'
<1> USE DEF Inv, Unlink, Memory, memory, Goto
<1>0. ~Saving(w) /\ Saving(w)' /\ \A v \in Workers \ {w} : Saving(v)' <=> Saving(v)
  BY DEF Saving, TypeOK
<1>1. TypeOK'
  BY DEF TypeOK, Steps
<1>2. FilesOK' /\ OneWriter'
  BY DEF FilesOK, OneWriter, TypeOK
<1>3. AloneOK'
  BY <1>0 DEF AloneOK, TypeOK
<1>4. OverlapOK'
  BY <1>0 DEF OverlapOK
<1>5. \A v \in Workers : WorkerOK(v)'
  <2>1. DayOf(db)' = DayOf(db) /\ DayOf(db) \in Int
    BY DayType, DaysOrdered DEF DayOf, Complete, TypeOK
  <2>2. DayOf(db) <= DayOf(db)'
    BY <2>1
  <2>3. UNCHANGED <<memory, now>> /\ pc' = [pc EXCEPT ![w] = "connecting"] /\ (overlap => overlap')
    OBVIOUS
  <2> HIDE DEF Unlink, Memory, memory, Goto
  <2> QED BY <1>1, <2>2, <2>3, SavingInv DEF Steps, Unlink
<1> QED BY <1>1, <1>2, <1>3, <1>4, <1>5

LEMMA ConnectInv == ASSUME Inv, NEW w \in Workers, Connect(w) PROVE Inv'
<1> USE DEF Inv, Connect, Memory, memory, Goto, history
<1>0. Saving(w) /\ \A v \in Workers : Saving(v)' <=> Saving(v)
  BY DEF Saving, TypeOK
<1>1. /\ handle' = [handle EXCEPT ![w] = tmp'] /\ tmp' \in Inodes
      /\ \/ tmp # NoFile /\ UNCHANGED <<file, tmp>>
         \/ tmp = NoFile /\ tmp' \notin InUse
              /\ file' = [file EXCEPT ![tmp'] = [stage |-> "empty", day |-> 0]]
  BY DEF TypeOK
<1>2. TypeOK'
  <2>1. tmp' \in Inodes => tmp' # NoFile /\ [stage |-> "empty", day |-> 0] \in [stage : Stages, day : 0..MaxNow]
    BY DaysAssumption, InodesAssumption DEF Stages
  <2>2. file' \in [Inodes -> [stage : Stages, day : 0..MaxNow]]
    BY <1>1, <2>1 DEF TypeOK
  <2>3. \A v \in Workers : (handle'[v] = NoFile) <=> pc'[v] \notin {"creating", "inserting"}
    BY <1>1, <2>1 DEF TypeOK
  <2>4. handle' \in [Workers -> Inodes \cup {NoFile}] /\ pc' \in [Workers -> Steps]
    BY <1>1 DEF TypeOK, Steps
  <2> QED BY <1>1, <2>2, <2>3, <2>4 DEF TypeOK
<1>3. FilesOK'
  <2>1. ASSUME NEW i \in Inodes PROVE file'[i].day <= now'
    <3>1. file'[i] = file[i] \/ file'[i].day = 0
      BY <1>1 DEF TypeOK
    <3>2. now' = now /\ now \in Nat /\ file[i].day <= now
      BY DEF FilesOK, TypeOK
    <3> HIDE DEF Connect, Memory, memory, Goto, history, Inv
    <3> QED BY <3>1, <3>2
  <2>2. ASSUME NEW v \in Workers, pc'[v] = "inserting" PROVE file'[handle'[v]].stage # "empty"
    <3>1. v # w /\ pc[v] = "inserting" /\ handle'[v] = handle[v]
      BY <1>1, <2>2 DEF TypeOK
    <3>2. handle[v] \in InUse /\ handle[v] \in Inodes
      BY <3>1 DEF InUse, TypeOK
    <3>3. file'[handle[v]] = file[handle[v]]
      BY <1>1, <3>2 DEF TypeOK
    <3> QED BY <3>1, <3>3 DEF FilesOK
  <2> HIDE DEF Connect, Memory, memory, Goto, history
  <2> QED BY <2>1, <2>2 DEF FilesOK
<1>4. OneWriter'
  BY <1>1 DEF OneWriter, TypeOK
<1>5. AloneOK'
  <2>1. \A v \in alone : v # w => ~Saving(v)'
    BY <1>0, NotBoth DEF TypeOK
  <2>2. w \in alone => handle'[w] = tmp' /\ file'[handle'[w]].stage = "empty"
    BY <1>1 DEF AloneOK, TypeOK
  <2>3. pc'[w] = "creating"
    BY DEF TypeOK
  <2> QED BY <1>0, <2>1, <2>2, <2>3 DEF AloneOK, Saving
<1>6. OverlapOK'
  BY <1>0 DEF OverlapOK
<1>7. \A v \in Workers : WorkerOK(v)'
  <2>1. DayOf(db)' = DayOf(db) /\ DayOf(db) \in Int
    BY <1>1, DayType, DaysOrdered DEF DayOf, Complete, TypeOK, InUse
  <2>2. DayOf(db) <= DayOf(db)'
    BY <2>1
  <2>3. UNCHANGED <<memory, now>> /\ pc' = [pc EXCEPT ![w] = "creating"] /\ (overlap => overlap')
    OBVIOUS
  <2> HIDE DEF Connect, Memory, memory, Goto, history
  <2> QED BY <1>0, <1>2, <2>2, <2>3, SavingInv DEF Steps
<1> QED BY <1>2, <1>3, <1>4, <1>5, <1>6, <1>7

LEMMA CreateTablesInv == ASSUME Inv, NEW w \in Workers, CreateTables(w) PROVE Inv'
<1> USE DEF Inv, CreateTables, Memory, memory, Goto, history
<1>0. Saving(w) /\ \A v \in Workers : Saving(v)' <=> Saving(v)
  BY DEF Saving, TypeOK
<1>1. handle[w] \in Inodes /\ file[handle[w]] \in [stage : Stages, day : 0..MaxNow]
  BY DEF TypeOK
<1>2. TypeOK'
  BY <1>1 DEF TypeOK, Steps, Stages
<1>3. FilesOK'
  BY <1>1 DEF FilesOK, TypeOK
<1>4. OneWriter'
  BY <1>1 DEF OneWriter, FilesOK, TypeOK
<1>5. AloneOK'
  <2>1. \A v \in alone : v # w => ~Saving(v)'
    BY <1>0, NotBoth DEF TypeOK
  <2>2. pc'[w] = "inserting"
    BY DEF TypeOK
  <2> QED BY <1>0, <2>1, <2>2 DEF AloneOK, Saving
<1>6. OverlapOK'
  BY <1>0 DEF OverlapOK
<1>7. \A v \in Workers : WorkerOK(v)'
  <2>1. DayOf(db)' = DayOf(db) /\ DayOf(db) \in Int
    BY <1>1, DayType, DaysOrdered DEF DayOf, Complete, TypeOK
  <2>2. DayOf(db) <= DayOf(db)'
    BY <2>1
  <2>3. UNCHANGED <<memory, now>> /\ pc' = [pc EXCEPT ![w] = "inserting"] /\ (overlap => overlap')
    OBVIOUS
  <2> HIDE DEF CreateTables, Memory, memory, Goto, history
  <2> QED BY <1>0, <1>2, <2>2, <2>3, SavingInv DEF Steps
<1> QED BY <1>2, <1>3, <1>4, <1>5, <1>6, <1>7

LEMMA CommitInv == ASSUME Inv, NEW w \in Workers, Commit(w) PROVE Inv'
<1> USE DEF Inv, Commit, Memory, memory, Goto, history
<1>0. Saving(w) /\ \A v \in Workers : Saving(v)' <=> Saving(v)
  BY DEF Saving, TypeOK
<1>1. handle[w] \in Inodes /\ handle[w] # NoFile /\ now \in Nat
  BY InodesAssumption DEF TypeOK
<1>2. TypeOK'
  BY <1>1 DEF TypeOK, Steps, Stages
<1>3. FilesOK'
  BY <1>1 DEF FilesOK, TypeOK
<1>4. OneWriter'
  BY <1>1 DEF OneWriter, TypeOK
<1>5. DayOf(db) \in Int /\ DayOf(db)' \in Int /\ DayOf(db) <= DayOf(db)' /\ DayOf(db)' <= now
  BY <1>1 DEF DayOf, Complete, TypeOK, FilesOK, NoDay
<1>6. AloneOK'
  <2>1. \A v \in alone : v # w => ~Saving(v)'
    BY <1>0, NotBoth DEF TypeOK
  <2>2. pc'[w] = "replacing"
    BY DEF TypeOK
  <2>3. w \in alone => Complete(tmp)' /\ DayOf(tmp)' = now
    BY <1>1 DEF AloneOK, Complete, DayOf, TypeOK
  <2> QED BY <1>0, <1>5, <2>1, <2>2, <2>3 DEF AloneOK, Saving
<1>7. OverlapOK'
  BY <1>0 DEF OverlapOK
<1>8. \A v \in Workers : WorkerOK(v)'
  BY <1>0, <1>2, <1>5, SavingInv DEF Steps
<1> QED BY <1>2, <1>3, <1>4, <1>6, <1>7, <1>8

(* A file that is put in place by a lone save is complete and not older. *)
LEMMA ReplaceInv == ASSUME Inv, NEW w \in Workers, Replace(w) PROVE Inv'
<1> USE DEF Inv, Replace, Memory, memory, Goto, history
<1>0. Saving(w) /\ ~Saving(w)' /\ \A v \in Workers \ {w} : Saving(v)' <=> Saving(v)
  BY DEF Saving, TypeOK
<1>1. TypeOK'
  BY DEF TypeOK, Steps
<1>2. FilesOK' /\ OneWriter'
  BY DEF FilesOK, OneWriter, TypeOK
<1>3. AloneOK'
  <2>1. \A v \in alone : ~Saving(v)'
    BY <1>0, NotBoth DEF TypeOK
  <2> QED BY <2>1 DEF AloneOK, Saving
<1>4. OverlapOK'
  BY <1>0 DEF OverlapOK
<1>5. ~overlap => DayOf(db) <= DayOf(db)'
  BY <1>0 DEF OverlapOK, AloneOK, DayOf, Complete
<1>6. \A v \in Workers : WorkerOK(v)'
  BY <1>0, <1>1, <1>5, SavingInv DEF Steps
<1> QED BY <1>1, <1>2, <1>3, <1>4, <1>6

LEMMA SaveFailsInv == ASSUME Inv, NEW w \in Workers, SaveFails(w) PROVE Inv'
<1> USE DEF Inv, SaveFails, Memory, memory, Goto, history
<1>0. Saving(w) /\ ~Saving(w)' /\ \A v \in Workers \ {w} : Saving(v)' <=> Saving(v)
  BY DEF Saving, TypeOK
<1>1. TypeOK'
  BY DEF TypeOK, Steps
<1>2. FilesOK' /\ OneWriter'
  BY DEF FilesOK, OneWriter, TypeOK
<1>3. AloneOK'
  <2>1. \A v \in alone : ~Saving(v)'
    BY <1>0, NotBoth DEF TypeOK
  <2> QED BY <2>1 DEF AloneOK, Saving
<1>4. OverlapOK'
  BY <1>0 DEF OverlapOK
<1>5. \A v \in Workers : WorkerOK(v)'
  <2>1. DayOf(db)' = DayOf(db) /\ DayOf(db) \in Int
    BY DayType, DaysOrdered DEF DayOf, Complete, TypeOK
  <2>2. DayOf(db) <= DayOf(db)'
    BY <2>1
  <2>3. UNCHANGED <<memory, now>> /\ pc' = [pc EXCEPT ![w] = "serving"] /\ (overlap => overlap')
    OBVIOUS
  <2> HIDE DEF SaveFails, Memory, memory, Goto, history
  <2> QED BY <1>0, <1>1, <2>2, <2>3, SavingInv DEF Steps
<1> QED BY <1>1, <1>2, <1>3, <1>4, <1>5

-----------------------------------------------------------------------------
(* A kill and a new day.                                                   *)

LEMMA KillInv == ASSUME Inv, NEW w \in Workers, Kill(w) PROVE Inv'
<1> USE DEF Inv, Kill, Goto, history
<1>0. ~Saving(w)' /\ \A v \in Workers \ {w} : Saving(v)' <=> Saving(v)
  BY DEF Saving, TypeOK
<1>1. TypeOK'
  <2>1. 0 \in 0..MaxNow /\ NoDay \in Days
    BY DaysAssumption DEF Days
  <2> QED BY <2>1 DEF TypeOK, Steps, Paths, Unchecked, Days
<1>2. FilesOK' /\ OneWriter'
  BY DEF FilesOK, OneWriter, TypeOK
<1>3. AloneOK'
  BY <1>0 DEF AloneOK, Saving, TypeOK, Complete, DayOf
<1>4. OverlapOK'
  BY <1>0 DEF OverlapOK
<1>5. ASSUME NEW v \in Workers \ {w} PROVE WorkerOK(v)'
  <2>1. DayOf(db)' = DayOf(db) /\ DayOf(db) \in Int
    BY DayType, DaysOrdered DEF DayOf, Complete, TypeOK
  <2>2. DayOf(db) <= DayOf(db)'
    BY <2>1
  <2>3. /\ pc'[v] = pc[v] /\ checked'[v] = checked[v] /\ path'[v] = path[v]
        /\ rows'[v] = rows[v] /\ date'[v] = date[v]
        /\ ests'[v] = ests[v] /\ names'[v] = names[v]
    BY DEF TypeOK
  <2> QED BY <1>1, <2>2, <2>3, OthersOK
<1>6. WorkerOK(w)'
  <2>1. DayOf(db)' = DayOf(db) /\ DayOf(db) \in Int /\ NoDay <= DayOf(db)
    BY DayType, DaysOrdered DEF DayOf, Complete, TypeOK
  <2>2. /\ pc'[w] = "down" /\ checked'[w] = Unchecked /\ path'[w] = "none" /\ rows'[w] = NoDay
        /\ date'[w] = NoDay /\ ests'[w] = NoDay /\ names'[w] = NoDay
    BY DEF TypeOK
  <2>3. InOrder(w)' /\ checked'[w].day = NoDay
    BY <2>2 DEF InOrder, NotBefore, Unchecked
  <2> QED BY <2>1, <2>2, <2>3 DEF WorkerOK
<1> QED BY <1>1, <1>2, <1>3, <1>4, <1>5, <1>6

LEMMA NextDayInv == ASSUME Inv, NextDay PROVE Inv'
<1> USE DEF Inv, NextDay, memory, history
<1>1. TypeOK'
  BY DaysAssumption DEF TypeOK, Days
<1>2. FilesOK' /\ OneWriter' /\ OverlapOK'
  BY DEF FilesOK, OneWriter, OverlapOK, TypeOK, Saving
<1>3. AloneOK'
  BY DEF AloneOK, Saving, Complete, DayOf
<1>4. \A v \in Workers : WorkerOK(v)'
  <2>1. DayOf(db)' = DayOf(db) /\ DayOf(db) \in Int
    BY DayType, DaysOrdered DEF DayOf, Complete, TypeOK
  <2> QED BY <1>1, <2>1, OthersOK DEF TypeOK
<1> QED BY <1>1, <1>2, <1>3, <1>4

LEMMA StepInv == Inv /\ [Next]_vars => Inv'
<1> SUFFICES ASSUME Inv, [Next]_vars PROVE Inv'
  OBVIOUS
<1>1. CASE Next
  BY <1>1, StartInv, CheckInv, LoadFromDbInv, ReadCreatedAtInv, LoadEstimatesInv, LoadNamesInv, DownloadOkInv,
     DownloadFailsInv, UnlinkInv, ConnectInv, CreateTablesInv, CommitInv, ReplaceInv, SaveFailsInv,
     KillInv, NextDayInv DEF Next
<1>2. CASE UNCHANGED vars
  BY <1>2 DEF vars, memory, history, Inv, TypeOK, FilesOK, OneWriter, AloneOK, OverlapOK, WorkerOK, InOrder,
     Saving, DayOf, Complete, Days
<1> QED BY <1>1, <1>2

LEMMA AlwaysInv == Spec => []Inv
BY InitInv, StepInv, PTL DEF Spec

-----------------------------------------------------------------------------
(* The type invariant (data_loader.py _save_to_db, load_data). *)
THEOREM TypeCorrect == Spec => []TypeOK
BY AlwaysInv, PTL DEF Inv

(* Any number of workers may save at once: a file has one writer           *)
(* (data_loader.py _save_to_db).                                            *)
THEOREM FileHasOneWriter == Spec => []OneWriter
BY AlwaysInv, PTL DEF Inv

(* Whatever is replaced between check and load, the fast path serves rows, *)
(* recent ones unless saves overlapped (data_loader.py load_data).          *)
THEOREM FastPath == Spec => []FastPathIsRecent
<1>1. Inv => FastPathIsRecent
  BY DEF Inv, WorkerOK, FastPathIsRecent
<1> QED BY <1>1, AlwaysInv, PTL

(* Validity, rows, date, estimates and names that a start reads of the     *)
(* cache one after the other get no older, unless saves overlapped         *)
(* (data_loader.py load_data).                                              *)
THEOREM ReadsInOrder == Spec => []LaterIsNewer
<1>1. Inv => LaterIsNewer
  <2> SUFFICES ASSUME Inv, NEW w \in Workers, ~overlap,
                      NEW j \in DOMAIN Reads(w), NEW i \in 1..5, i < j, Reads(w)[j] # NoDay
               PROVE  Reads(w)[i] <= Reads(w)[j]
    BY DEF LaterIsNewer
  <2>1. InOrder(w)
    BY DEF Inv, WorkerOK
  <2>2. CASE path[w] = "download"
    <3>1. Reads(w) = <<checked[w].day, ests[w]>>
      BY <2>2 DEF Reads
    <3>2. i = 1 /\ j = 2
      BY <3>1
    <3> QED BY <2>1, <3>1, <3>2 DEF InOrder, NotBefore
  <2>3. CASE path[w] # "download"
    <3>1. Reads(w) = <<checked[w].day, rows[w], date[w], ests[w], names[w]>>
      BY <2>3 DEF Reads
    <3>2. j \in 1..5
      BY <3>1
    <3>3. \/ i = 1 /\ j \in {2, 3, 4, 5}
          \/ i = 2 /\ j \in {3, 4, 5}
          \/ i = 3 /\ j \in {4, 5}
          \/ i = 4 /\ j = 5
      BY <3>2
    <3> HIDE DEF Reads
    <3> QED BY <2>1, <2>3, <3>1, <3>3 DEF InOrder, NotBefore
  <2> QED BY <2>2, <2>3
<1> QED BY <1>1, AlwaysInv, PTL

(* No kill leaves behind what stops a later save (data_loader.py            *)
(* _save_to_db, the unlink).                                                *)
THEOREM NoLeftovers == Spec => []NeverBlocked
<1>1. Inv => NeverBlocked
  BY DEF Inv, AloneOK, NeverBlocked
<1> QED BY <1>1, AlwaysInv, PTL

(* A save that no other overlapped replaces a complete cache by a complete *)
(* one, whoever is killed when (data_loader.py _save_to_db).                *)
THEOREM LoneSaves == Spec => LoneSaveIsAtomic
<1>1. Inv /\ [Next]_vars =>
        [Complete(db) /\ ~Complete(db)' => \E w \in Workers \ alone : pc[w] = "replacing"]_vars
  <2> SUFFICES ASSUME Inv, Next, Complete(db), ~Complete(db)'
               PROVE  \E w \in Workers \ alone : pc[w] = "replacing"
    OBVIOUS
  <2>1. ASSUME UNCHANGED <<db, file>> PROVE FALSE
    BY <2>1 DEF Complete
  <2>2. ASSUME NEW w \in Workers, Connect(w) PROVE FALSE
    BY <2>2 DEF Connect, Complete, InUse, Inv, TypeOK
  <2>3. ASSUME NEW w \in Workers, CreateTables(w) PROVE FALSE
    BY <2>3 DEF CreateTables, Complete, Inv, TypeOK
  <2>4. ASSUME NEW w \in Workers, Commit(w) PROVE FALSE
    BY <2>4 DEF Commit, Complete, Inv, TypeOK
  <2>5. ASSUME NEW w \in Workers, Replace(w) PROVE w \notin alone /\ pc[w] = "replacing"
    BY <2>5 DEF Replace, Complete, Inv, AloneOK
  <2> QED
    BY <2>1, <2>2, <2>3, <2>4, <2>5 DEF Next, NoDisk, Start, Check, LoadFromDb, ReadCreatedAt,
       LoadEstimates, LoadNames, DownloadOk, DownloadFails, Unlink, SaveFails, Kill, NextDay
<1> QED BY <1>1, AlwaysInv, PTL DEF Spec, LoneSaveIsAtomic
=============================================================================
