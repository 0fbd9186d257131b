------------------------------ MODULE LoadData ------------------------------
(***************************************************************************)
(* The start-up of one worker (load_data in app/data_loader.py) over the   *)
(* life of its data directory: restarts, kills in the middle of a load,    *)
(* days passing, upstream files that cannot be had, a start-up deadline,   *)
(* and a configuration that changes between two starts.                    *)
(*                                                                         *)
(* A country stands for all of its postal codes: its row in the lookup     *)
(* table says where the codes come from and when they were downloaded.  A  *)
(* country has one ZIP file name, which the directory listing and the      *)
(* guessed URLs share; an extra source, when configured, overwrites one    *)
(* country.  Of the estimates one is followed: that of a code which TERCET *)
(* lacks and the extra source has.  _save_to_db is one step here; CacheFile *)
(* opens it, and has the names of the regions.                             *)
(***************************************************************************)
EXTENDS Integers

CONSTANTS Countries,     \* settings.countries
          ExtraCountry,  \* the country the extra source has rows for
          TTL,           \* settings.db_cache_ttl_days
          NoRow, NoDb,   \* no row for a country, no database file
          NoZip,         \* no cached ZIP, or a cached file that is not one
          MaxNow         \* bound on the days that pass

ASSUME CountriesAssumption == ExtraCountry \in Countries /\ "own" \notin Countries
ASSUME DaysAssumption == TTL \in Nat /\ MaxNow \in Nat

VARIABLES
  pc,        \* "down", a stage of load_data, or "serving"
  lookup,    \* _lookup, per country
  estimates, \* _estimates: where the estimate comes from
  stale,     \* _data_stale
  loadedAt,  \* _data_loaded_at
  late,      \* time.monotonic() > deadline
  timedOut,  \* timed_out
  todo,      \* the countries the current download loop has left
  loaded,    \* loaded_countries
  db,        \* the SQLite cache file
  zips,      \* the cached ZIP files: whose content, and the day of the download
  now,       \* the day
  extra,     \* settings.extra_source_urls: no URL, one with a file name of its
             \* own, or that of a mirror of the country's TERCET file
  \* History, read by no guard:
  crossed    \* estimates were imported since the start under way read its own

vars == <<pc, lookup, estimates, stale, loadedAt, late, timedOut, todo,
          loaded, db, zips, now, extra, crossed>>
memory == <<lookup, estimates, stale, loadedAt>>
local == <<late, timedOut, todo, loaded>>
disk == <<db, zips>>
environment == <<now, extra>>

Files == Countries \cup {"own"}
Extras == {"none", "own", "mirror"}
Estimates == {"none", "csv", "imported"}
Row == [src : {"tercet", "own", "mirror"}, at : Nat]
Table == [Countries -> Row \cup {NoRow}]
EmptyTable == [cc \in Countries |-> NoRow]
Covered(t) == {cc \in Countries : t[cc] # NoRow}
Database == [rows : Table, created : Nat, extra : Extras,
             estimates : Estimates]
ASSUME AbsentAssumption == /\ NoRow \notin Row /\ NoDb \notin Database
                           /\ NoZip \notin Row
Loading == {"listing", "discovered", "guessing", "extras", "finish", "saving"}

Init == /\ pc = "down"
        /\ lookup = EmptyTable /\ estimates = "none"
        /\ stale = FALSE /\ loadedAt = 0
        /\ late = FALSE /\ timedOut = FALSE /\ todo = {} /\ loaded = {}
        /\ db = NoDb /\ zips = [f \in Files |-> NoZip]
        /\ now = 0 /\ extra \in Extras
        /\ crossed = FALSE

-----------------------------------------------------------------------------
(* Mutant: the hash of the extra sources is not compared. *)
M_DbIsValid == db # NoDb /\ now - db.created <= TTL

(* _db_is_valid: without rows there is no metadata either. *)
DbIsValid == /\ db # NoDb /\ db.rows # EmptyTable
             /\ now - db.created <= TTL
             /\ db.extra = extra

(* Mutant: the database is only asked on the fast path. *)
M_Estimate(csv) == CASE csv       -> "csv"
                     [] DbIsValid -> db.estimates
                     [] OTHER     -> "none"

(* The estimate loaded: from the CSV if it can be read, else from what the  *)
(* database holds.                                                          *)
Estimate(csv) == CASE csv       -> "csv"
                   [] db # NoDb -> db.estimates
                   [] OTHER     -> "none"

(* Does the table answer the code that TERCET lacks? *)
HasExact(t) == t[ExtraCountry] # NoRow /\ t[ExtraCountry].src # "tercet"

(* Loading the estimates beside table t, with the CSV as it is found, and   *)
(* _revalidate_estimates.                                                   *)
LoadEstimates(t) == \E csv \in BOOLEAN :
  estimates' = IF HasExact(t) THEN "none" ELSE Estimate(csv)

(* The start, up to the end of the fast path.  The globals are cleared. *)
Begin == /\ pc = "down"
         /\ stale' = FALSE
         /\ IF DbIsValid
            THEN /\ pc' = "serving"
                 /\ lookup' = db.rows
                 /\ loadedAt' = db.created
                 /\ LoadEstimates(db.rows)
            ELSE /\ pc' = "listing"
                 /\ UNCHANGED <<lookup, loadedAt, estimates>>
         /\ UNCHANGED <<local, disk, environment, crossed>>

(* Mutant: the names without a country code are not skipped. *)
M_Discover == /\ pc = "listing"
              /\ pc' = "discovered"
              /\ todo' \in SUBSET Files
              /\ UNCHANGED <<memory, late, timedOut, loaded, disk, environment, crossed>>

(* Strategy 1: the listing names some of the files, or none if it fails. *)
Discover == /\ pc = "listing"
            /\ pc' = "discovered"
            /\ todo' \in SUBSET Countries
            /\ UNCHANGED <<memory, late, timedOut, loaded, disk, environment, crossed>>

(* Mutant: the age of a cached ZIP is not looked at. *)
M_Cached(f) == zips[f] # NoZip

(* A cached ZIP is used for TTL days; an older or a corrupt one is deleted  *)
(* before the download, so that a corrupt one is as good as none.           *)
Cached(f) == zips[f] # NoZip /\ now - zips[f].at <= TTL

(* Content is had for a URL of source src with file name f: what is cached  *)
(* under that name, whoever it came from, or what is downloaded, which may  *)
(* fail to be cached.                                                       *)
Obtain(f, src, content) ==
  \/ Cached(f) /\ content = zips[f] /\ zips' = zips
  \/ /\ ~Cached(f) /\ content = [src |-> src, at |-> now]
     /\ \E z \in {content, NoZip} : zips' = [zips EXCEPT ![f] = z]

(* 404, an HTTP error, two transport errors, or not a ZIP. *)
Miss(f) == ~Cached(f) /\ zips' = [zips EXCEPT ![f] = NoZip]

(* What files of day 0 to now may hold. *)
Contents == [src : {"tercet", "own", "mirror"}, at : 0..now]

(* One file of the loop in progress: first-write-wins. *)
Download(cc) ==
  /\ pc \in {"discovered", "guessing"} /\ cc \in todo /\ ~late
  /\ todo' = todo \ {cc}
  /\ \/ /\ \E row \in Contents :
             /\ Obtain(cc, "tercet", row)
             /\ lookup' = [lookup EXCEPT ![cc] = IF @ = NoRow THEN row ELSE @]
        /\ loaded' = loaded \cup {cc}
     \/ Miss(cc) /\ UNCHANGED <<lookup, loaded>>
  /\ UNCHANGED <<pc, estimates, stale, loadedAt, late, timedOut, db,
                 environment, crossed>>

(* The deadline passes between the check of the loop and the one in        *)
(* _download_and_parse_zip: the file is skipped, timed_out is not set.     *)
SkipInside(cc) ==
  /\ pc \in {"discovered", "guessing"} /\ cc \in todo /\ ~late
  /\ late' = TRUE
  /\ todo' = todo \ {cc}
  /\ UNCHANGED <<pc, memory, timedOut, loaded, disk, environment, crossed>>

(* The check of the loop: the later stages are all skipped. *)
TimeOut == /\ pc \in {"discovered", "guessing"} /\ todo # {} /\ late
           /\ timedOut' = TRUE
           /\ pc' = "finish"
           /\ todo' = {}
           /\ UNCHANGED <<memory, late, loaded, disk, environment, crossed>>

(* Strategy 2 follows for the countries that have no data yet, then the     *)
(* extra sources.                                                           *)
EndLoop == /\ todo = {}
           /\ \/ pc = "discovered" /\ pc' = "guessing" /\ todo' = Countries \ loaded
              \/ pc = "guessing" /\ pc' = "extras" /\ UNCHANGED todo
           /\ UNCHANGED <<memory, late, timedOut, loaded, disk, environment, crossed>>

(* The name under which the file of the extra source is cached. *)
ExtraFile == IF extra = "mirror" THEN ExtraCountry ELSE "own"

(* _load_extra_sources: last-write-wins; skipped when the deadline passed. *)
LoadExtra == /\ pc = "extras"
             /\ pc' = "finish"
             /\ \/ /\ extra # "none" /\ ~late
                   /\ \E row \in Contents :
                        /\ Obtain(ExtraFile, extra, row)
                        /\ lookup' = [lookup EXCEPT ![ExtraCountry] = row]
                \/ extra # "none" /\ ~late /\ Miss(ExtraFile) /\ UNCHANGED lookup
                \/ (extra = "none" \/ late) /\ UNCHANGED <<zips, lookup>>
             /\ UNCHANGED <<estimates, stale, loadedAt, local, db, environment, crossed>>

(* Mutant: an empty table is taken for a success when the start was in time. *)
M_FinishFresh ==
  /\ pc = "finish" /\ (lookup # EmptyTable \/ ~late)
  /\ pc' = "saving"
  /\ loadedAt' = now
  /\ LoadEstimates(lookup)
  /\ UNCHANGED <<lookup, stale, local, disk, environment, crossed>>

(* Something was downloaded. *)
FinishFresh ==
  /\ pc = "finish" /\ lookup # EmptyTable
  /\ pc' = "saving"
  /\ loadedAt' = now
  /\ LoadEstimates(lookup)
  /\ UNCHANGED <<lookup, stale, local, disk, environment, crossed>>

(* It is saved with the estimates in memory, as a valid cache even when it  *)
(* is partial.  Saving may fail, and leaves the old file then.              *)
Save ==
  /\ pc = "saving"
  /\ pc' = "serving"
  /\ db' \in {db, [rows |-> lookup, created |-> now, extra |-> extra,
                   estimates |-> estimates]}
  /\ stale' = timedOut
  /\ late' = FALSE /\ loaded' = {} /\ crossed' = FALSE
  /\ UNCHANGED <<lookup, estimates, loadedAt, timedOut, todo, zips, environment>>

(* Mutant: only a timeout makes the data stale. *)
M_FinishStale ==
  /\ pc = "finish" /\ lookup = EmptyTable /\ db # NoDb
  /\ pc' = "serving"
  /\ lookup' = db.rows
  /\ loadedAt' = db.created
  /\ LoadEstimates(db.rows)
  /\ stale' = timedOut
  /\ late' = FALSE /\ loaded' = {}
  /\ UNCHANGED <<timedOut, todo, disk, environment, crossed>>

(* Nothing was: the database, expired or of another configuration. *)
FinishStale ==
  /\ pc = "finish" /\ lookup = EmptyTable /\ db # NoDb
  /\ pc' = "serving"
  /\ lookup' = db.rows
  /\ loadedAt' = db.created
  /\ LoadEstimates(db.rows)
  /\ stale' = TRUE
  /\ late' = FALSE /\ loaded' = {}
  /\ UNCHANGED <<timedOut, todo, disk, environment, crossed>>

(* Nothing was, and there is no database: the worker serves no data. *)
FinishEmpty == /\ pc = "finish" /\ lookup = EmptyTable /\ db = NoDb
               /\ pc' = "serving"
               /\ late' = FALSE /\ loaded' = {}
               /\ UNCHANGED <<memory, timedOut, todo, disk, environment, crossed>>

(* The deadline passes; after the extra sources nothing looks at it. *)
Deadline == /\ pc \in {"listing", "discovered", "guessing", "extras"} /\ ~late
            /\ late' = TRUE
            /\ UNCHANGED <<pc, memory, timedOut, todo, loaded, disk, environment, crossed>>
-----------------------------------------------------------------------------
(* The process ends, with everything it had in memory. *)
Forget == /\ pc' = "down"
          /\ lookup' = EmptyTable /\ estimates' = "none"
          /\ stale' = FALSE /\ loadedAt' = 0
          /\ late' = FALSE /\ timedOut' = FALSE /\ todo' = {} /\ loaded' = {}
          /\ crossed' = FALSE

Stop == pc = "serving" /\ Forget /\ UNCHANGED <<disk, environment>>

(* A row of the CSV is too short: AttributeError ends load_data, and with   *)
(* it the process, before anything is saved.  (On the fast path it ends     *)
(* where it began.)                                                         *)
CsvRaises == /\ pc = "finish" /\ (lookup # EmptyTable \/ db # NoDb)
             /\ Forget
             /\ UNCHANGED <<disk, environment>>

(* The files the stage under way may be writing to the ZIP cache. *)
InWriting == IF pc = "extras" /\ extra # "none" THEN {ExtraFile} ELSE todo

(* A kill during the load may cut the writing of a ZIP short: the old one   *)
(* is gone, what there is of the new one is corrupt.                        *)
Kill == /\ pc \in Loading
        /\ Forget
        /\ \/ UNCHANGED zips
           \/ \E f \in InWriting :
                ~late /\ ~Cached(f) /\ zips' = [zips EXCEPT ![f] = NoZip]
        /\ UNCHANGED <<db, environment>>

(* scripts/import_estimates.py, at any time: the estimates of the database  *)
(* are replaced, in one that has nothing else if there was none.  A missing *)
(* CSV or one without a valid row leaves everything as it is.               *)
Import == /\ db' = IF db = NoDb
                   THEN [rows |-> EmptyTable, created |-> 0, extra |-> "none",
                         estimates |-> "imported"]
                   ELSE [db EXCEPT !.estimates = "imported"]
          /\ crossed' = (pc = "saving")
          /\ UNCHANGED <<pc, memory, local, zips, environment>>

(* Days pass while a worker serves too, but it looks at no clock then: they *)
(* are counted when it is down.                                             *)
NextDay == /\ pc = "down" /\ now < MaxNow
           /\ now' = now + 1
           /\ UNCHANGED <<pc, memory, local, disk, extra, crossed>>

(* Another environment before the next start. *)
Reconfigure == /\ pc = "down"
               /\ extra' \in Extras \ {extra}
               /\ UNCHANGED <<pc, memory, local, disk, now, crossed>>

Next == \/ Begin \/ Discover \/ TimeOut \/ EndLoop \/ LoadExtra
        \/ \E cc \in Countries : Download(cc) \/ SkipInside(cc)
        \/ FinishFresh \/ Save \/ FinishStale \/ FinishEmpty
        \/ Deadline \/ Stop \/ CsvRaises \/ Kill \/ Import \/ NextDay \/ Reconfigure

Spec == Init /\ [][Next]_vars
-----------------------------------------------------------------------------
TypeOK == /\ pc \in Loading \cup {"down", "serving"}
          /\ lookup \in Table
          /\ estimates \in Estimates
          /\ stale \in BOOLEAN
          /\ loadedAt \in Nat
          /\ late \in BOOLEAN /\ timedOut \in BOOLEAN
          /\ todo \subseteq Countries /\ loaded \subseteq Countries
          /\ db \in Database \cup {NoDb}
          /\ zips \in [Files -> Row \cup {NoZip}]
          /\ now \in Nat /\ extra \in Extras
          /\ crossed \in BOOLEAN

Serving == pc = "serving"

(* A worker with a database of rows in its data directory never serves an   *)
(* empty table, whatever failed and also when it found one that the import  *)
(* script had made (README.md:556, data_loader.py:947-956).                 *)
NeverEmptyWithCache == Serving /\ db # NoDb => db.rows = EmptyTable \/ lookup # EmptyTable

(* What is not reported stale was built under the current configuration:    *)
(* rows of an extra source with a file name of its own are gone once it was *)
(* removed (data_loader.py:421-427).  Not so those of a mirror: under a     *)
(* TERCET file's name its ZIP stays in the cache and is parsed as TERCET.   *)
FreshMeansConfigured ==
  Serving /\ ~stale => \A cc \in Covered(lookup) : lookup[cc].src = "own" => extra = "own"

(* What is not reported stale was downloaded at most two TTLs before the    *)
(* start: one in the ZIP cache, one more in the database built from it.     *)
FreshIsTwoTTLs ==
  Serving /\ ~stale => \A cc \in Covered(lookup) : now - lookup[cc].at <= 2 * TTL

(* last_updated is never before the data it is about, nor more than one TTL *)
(* after it (a table built from cached ZIPs), and a start that could not    *)
(* refresh an expired cache does not claim a date within the TTL.           *)
LastUpdatedIsHonest ==
  Serving /\ lookup # EmptyTable =>
    /\ \A cc \in Covered(lookup) : loadedAt - lookup[cc].at \in 0..TTL
    /\ now - loadedAt > TTL => stale
    /\ stale /\ ~timedOut => now - loadedAt > TTL \/ db.extra # extra

(* No step of a start loses an estimate the database carries: it stays,     *)
(* also an imported one through a rebuild, or gives way to the CSV that was *)
(* read, or to the exact row saved along with it.  Only an import that      *)
(* falls between reading the estimates and the save of the same start is    *)
(* overwritten (data_loader.py:513-537, 938-943, import_estimates.py:94-101). *)
EstimatesSurvive ==
  [][(db # NoDb /\ db.estimates # "none" /\ pc' # pc /\ ~crossed)
       => db'.estimates \in {db.estimates, "csv"} \/ HasExact(db'.rows)]_vars

(***************************************************************************)
(* What the documents say and the code does not do.                        *)
(***************************************************************************)
(* "If the refresh fails, the service falls back to the previous data and   *)
(* sets data_stale: true" (README.md:314): a start that ends not stale has  *)
(* data for every country its cache had.                                    *)
FailedRefreshIsReported ==
  [][~Serving /\ Serving' /\ ~stale' /\ db # NoDb
       => Covered(db.rows) \subseteq Covered(lookup')]_vars
=============================================================================
