---------------------------- MODULE LoadDataProofs ----------------------------
(***************************************************************************)
(* Proofs about LoadData, for every set of countries, every TTL and every  *)
(* number of days.                                                         *)
(*                                                                         *)
(* A table that was built on some day has rows of the ZIP cache, which are *)
(* at most a TTL old then, and no own rows of the extra source unless that *)
(* was configured (Built): they are never cached under the name of a       *)
(* country's file (ZipsOK).  That holds of the lookup table throughout a   *)
(* load and of the rows of the database for the day it was created; a      *)
(* start that serves the database unreported adds its second TTL.          *)
(***************************************************************************)
EXTENDS LoadData, TLAPS

(* The table t was built on the given day, under the given configuration. *)
Built(t, day, ext) ==
  \A cc \in Covered(t) : /\ t[cc].at <= day /\ day - t[cc].at <= TTL
                         /\ t[cc].src = "own" => ext = "own"

(* The cached files z are of no later day and under their own names. *)
ZipsOK(z, day) ==
  /\ z \in [Files -> Row \cup {NoZip}]
  /\ \A f \in Files : z[f] \in Row => z[f].at <= day /\ (z[f].src = "own" => f = "own")

DiskOK == /\ ZipsOK(zips, now)
          /\ db # NoDb => db.created <= now /\ Built(db.rows, db.created, db.extra)

DownOK == pc = "down" => lookup = EmptyTable /\ ~stale /\ ~timedOut /\ todo = {}

(* A load begins because the database is not valid, and no import makes it so. *)
LoadingOK == pc \in Loading => ~stale /\ ~DbIsValid /\ Built(lookup, now, extra)

SavingOK ==
  /\ pc = "saving" => /\ lookup # EmptyTable /\ loadedAt = now
                      /\ db # NoDb /\ db.estimates # "none" /\ ~crossed
                           => estimates \in {db.estimates, "csv"} \/ HasExact(lookup)
  /\ crossed => pc = "saving"

ServingOK == Serving => /\ stale => db # NoDb \/ timedOut
                        /\ NeverEmptyWithCache /\ FreshMeansConfigured
                        /\ FreshIsTwoTTLs /\ LastUpdatedIsHonest

Inv == TypeOK /\ DiskOK /\ DownOK /\ LoadingOK /\ SavingOK /\ ServingOK

-----------------------------------------------------------------------------
(* What is absent is no day, no row and no database. *)
LEMMA Present == /\ \A r \in Row : r # NoRow /\ r.src \in {"tercet", "own", "mirror"} /\ r.at \in Nat
                 /\ \A d \in Database : /\ d # NoDb
                                        /\ d.rows \in Table /\ d.created \in Nat
                                        /\ d.extra \in Extras /\ d.estimates \in Estimates
                 /\ NoZip \notin Row
                 /\ TTL \in Int /\ 0 <= TTL
BY AbsentAssumption, DaysAssumption DEF Row, Database

LEMMA EmptyIsBuilt == /\ EmptyTable \in Table
                      /\ \A day, ext : Built(EmptyTable, day, ext)
BY DEF EmptyTable, Table, Built, Covered

(* A table with a row covers a country. *)
LEMMA EmptyOrCovered ==
  ASSUME NEW t \in Table PROVE t = EmptyTable <=> Covered(t) = {}
BY DEF EmptyTable, Table, Covered

LEMMA InitInv == Init => Inv
<1> SUFFICES ASSUME Init PROVE Inv
  OBVIOUS
<1> USE DEF Init
<1>1. TypeOK
  BY EmptyIsBuilt DEF TypeOK, Loading, Estimates
<1>2. DiskOK
  BY Present DEF DiskOK, ZipsOK
<1> QED BY <1>1, <1>2 DEF Inv, DownOK, LoadingOK, SavingOK, ServingOK, Loading, Serving

(* What a row that is had for a file is like. *)
LEMMA ObtainOK ==
  ASSUME TypeOK, DiskOK, NEW f \in Files, NEW src \in {"tercet", "own", "mirror"},
         src = "own" => f = "own", NEW row \in Contents, Obtain(f, src, row)
  PROVE  /\ row \in Row /\ row.at <= now /\ now - row.at <= TTL
         /\ row.src = "own" => f = "own"
         /\ ZipsOK(zips', now)
<1>1. now \in Nat /\ zips \in [Files -> Row \cup {NoZip}] /\ row \in Row
  BY DEF TypeOK, Contents, Row
<1>2. CASE Cached(f) /\ row = zips[f] /\ zips' = zips
  BY <1>1, <1>2, Present DEF Cached, DiskOK, ZipsOK
<1>3. CASE row = [src |-> src, at |-> now] /\ \E z \in {row, NoZip} : zips' = [zips EXCEPT ![f] = z]
  <2>1. row.at = now /\ row.src = src
    BY <1>3
  <2>2. PICK z \in {row, NoZip} : zips' = [zips EXCEPT ![f] = z]
    BY <1>3
  <2>3. z \in Row \cup {NoZip} /\ (z \in Row => z = row)
    BY <1>1, Present
  <2>4. zips' \in [Files -> Row \cup {NoZip}]
    BY <1>1, <2>2, <2>3
  <2>5. ASSUME NEW g \in Files, zips'[g] \in Row
        PROVE  zips'[g].at <= now /\ (zips'[g].src = "own" => g = "own")
    <3>1. CASE g = f
      BY <1>1, <2>1, <2>2, <2>3, <2>5, <3>1
    <3>2. CASE g # f
      BY <1>1, <2>2, <2>5, <3>2 DEF DiskOK, ZipsOK
    <3> QED BY <3>1, <3>2
  <2> QED BY <1>1, <2>1, <2>4, <2>5, Present DEF ZipsOK
<1> QED BY <1>2, <1>3 DEF Obtain

(* A file that is deleted or torn. *)
LEMMA ZipLost ==
  ASSUME TypeOK, DiskOK, NEW f \in Files, zips' = [zips EXCEPT ![f] = NoZip]
  PROVE  ZipsOK(zips', now)
BY Present DEF DiskOK, ZipsOK, TypeOK

(* A table stays built when a row that may be had is put into it. *)
LEMMA RowAdded ==
  ASSUME NEW t \in Table, NEW day, NEW ext, Built(t, day, ext),
         NEW cc \in Countries, NEW row \in Row, row.at <= day, day - row.at <= TTL,
         row.src = "own" => ext = "own"
  PROVE  [t EXCEPT ![cc] = row] \in Table /\ Built([t EXCEPT ![cc] = row], day, ext)
BY DEF Table, Built, Covered

-----------------------------------------------------------------------------
(* The stages of a load.                                                   *)

LEMMA LoadingInv ==
  ASSUME Inv, TypeOK', pc \in Loading \ {"saving"}, pc' \in Loading \ {"saving"},
         UNCHANGED <<stale, db, now, extra, crossed>>, ZipsOK(zips', now),
         Built(lookup', now, extra)
  PROVE  Inv'
<1> USE DEF Inv, Loading
<1>1. DiskOK' /\ DownOK' /\ ServingOK'
  BY DEF DiskOK, DownOK, ServingOK, Serving, Built, Covered
<1>2. LoadingOK'
  BY DEF LoadingOK, DbIsValid, Built, Covered
<1>3. SavingOK'
  BY DEF SavingOK
<1> QED BY <1>1, <1>2, <1>3

(* The stages that download nothing. *)
LEMMA QuietInv ==
  ASSUME Inv, Discover \/ TimeOut \/ EndLoop \/ Deadline
         \/ \E cc \in Countries : SkipInside(cc)
  PROVE  Inv'
<1> USE DEF Discover, TimeOut, EndLoop, Deadline, SkipInside,
            memory, local, disk, environment
<1>1. TypeOK'
  BY DEF Inv, TypeOK, Loading
<1>2. /\ pc \in Loading \ {"saving"} /\ pc' \in Loading \ {"saving"}
      /\ UNCHANGED <<lookup, stale, zips, db, now, extra, crossed>>
  BY DEF Loading
<1>3. ZipsOK(zips', now)
  BY <1>2 DEF Inv, DiskOK
<1>4. Built(lookup', now, extra)
  BY <1>2 DEF Inv, LoadingOK
<1> HIDE DEF Discover, TimeOut, EndLoop, Deadline, SkipInside
<1> QED BY <1>1, <1>2, <1>3, <1>4, LoadingInv

LEMMA DownloadInv == ASSUME Inv, NEW cc \in Countries, Download(cc) PROVE Inv'
<1> USE DEF Download, local, environment
<1>1. /\ pc \in Loading \ {"saving"} /\ pc' \in Loading \ {"saving"}
      /\ UNCHANGED <<stale, db, now, extra, crossed>> /\ cc \in Files /\ cc # "own"
  BY CountriesAssumption DEF Loading, Files
<1>2. ZipsOK(zips', now) /\ lookup' \in Table /\ Built(lookup', now, extra)
  <2>1. lookup \in Table /\ Built(lookup, now, extra) /\ TypeOK /\ DiskOK
    BY <1>1 DEF Inv, TypeOK, LoadingOK
  <2>2. CASE Miss(cc) /\ UNCHANGED lookup
    BY <1>1, <2>1, <2>2, ZipLost DEF Miss
  <2>3. CASE \E row \in Contents :
               /\ Obtain(cc, "tercet", row)
               /\ lookup' = [lookup EXCEPT ![cc] = IF @ = NoRow THEN row ELSE @]
    <3>1. PICK row \in Contents :
               /\ Obtain(cc, "tercet", row)
               /\ lookup' = [lookup EXCEPT ![cc] = IF @ = NoRow THEN row ELSE @]
      BY <2>3
    <3>2. /\ row \in Row /\ row.at <= now /\ now - row.at <= TTL /\ row.src # "own"
          /\ ZipsOK(zips', now)
      BY <1>1, <2>1, <3>1, ObtainOK
    <3>3. lookup' = lookup \/ lookup' = [lookup EXCEPT ![cc] = row]
      BY <2>1, <3>1 DEF Table
    <3> QED BY <2>1, <3>2, <3>3, RowAdded
  <2> QED BY <2>2, <2>3
<1>3. TypeOK'
  BY <1>2 DEF Inv, TypeOK, Loading, ZipsOK
<1> HIDE DEF Download
<1> QED BY <1>1, <1>2, <1>3, LoadingInv

LEMMA LoadExtraInv == ASSUME Inv, LoadExtra PROVE Inv'
<1> USE DEF LoadExtra, local, environment
<1>1. /\ pc \in Loading \ {"saving"} /\ pc' \in Loading \ {"saving"}
      /\ UNCHANGED <<stale, db, now, extra, crossed>> /\ ExtraFile \in Files
      /\ extra = "own" => ExtraFile = "own"
      /\ extra # "own" => ExtraFile # "own" \/ extra = "none"
  BY CountriesAssumption DEF Loading, Files, ExtraFile, Extras, Inv, TypeOK
<1>2. ZipsOK(zips', now) /\ lookup' \in Table /\ Built(lookup', now, extra)
  <2>1. lookup \in Table /\ Built(lookup, now, extra) /\ TypeOK /\ DiskOK /\ ZipsOK(zips, now)
    BY <1>1 DEF Inv, TypeOK, LoadingOK, DiskOK
  <2>2. CASE UNCHANGED <<zips, lookup>>
    BY <2>1, <2>2
  <2>3. CASE Miss(ExtraFile) /\ UNCHANGED lookup
    BY <1>1, <2>1, <2>3, ZipLost DEF Miss
  <2>4. CASE /\ extra # "none"
             /\ \E row \in Contents :
                  /\ Obtain(ExtraFile, extra, row)
                  /\ lookup' = [lookup EXCEPT ![ExtraCountry] = row]
    <3>1. PICK row \in Contents :
               /\ Obtain(ExtraFile, extra, row)
               /\ lookup' = [lookup EXCEPT ![ExtraCountry] = row]
      BY <2>4
    <3>2. extra \in {"tercet", "own", "mirror"}
      BY <2>1, <2>4 DEF TypeOK, Extras
    <3>3. /\ row \in Row /\ row.at <= now /\ now - row.at <= TTL
          /\ row.src = "own" => ExtraFile = "own"
          /\ ZipsOK(zips', now)
      BY <1>1, <2>1, <3>1, <3>2, ObtainOK
    <3>4. row.src = "own" => extra = "own"
      BY <1>1, <2>4, <3>3
    <3> QED BY <2>1, <3>1, <3>3, <3>4, RowAdded, CountriesAssumption
  <2> QED BY <2>2, <2>3, <2>4
<1>3. TypeOK'
  BY <1>2 DEF Inv, TypeOK, Loading, ZipsOK
<1> HIDE DEF LoadExtra
<1> QED BY <1>1, <1>2, <1>3, LoadingInv

-----------------------------------------------------------------------------
(* What becomes of a start: from the database, from a load, or empty.      *)

(* The rows of the database, of the age it reports. *)
LEMMA DatabaseOK ==
  ASSUME TypeOK, DiskOK, db # NoDb
  PROVE  /\ db.rows \in Table /\ db.created \in Nat /\ now \in Nat /\ db.created <= now
         /\ db.extra \in Extras /\ db.estimates \in Estimates
         /\ Built(db.rows, db.created, db.extra)
         /\ \A cc \in Covered(db.rows) : db.rows[cc].at \in Nat
<1>1. db \in Database
  BY DEF TypeOK
<1> QED BY <1>1, Present DEF DiskOK, TypeOK, Covered, Table

(* An estimate that is loaded comes from the CSV or the database, unless    *)
(* the table has the exact row.                                             *)
LEMMA EstimatesLoaded ==
  ASSUME TypeOK, NEW t, LoadEstimates(t)
  PROVE  /\ estimates' \in Estimates
         /\ db # NoDb => estimates' \in {db.estimates, "csv"} \/ HasExact(t)
<1>1. db # NoDb => db.estimates \in Estimates
  BY Present DEF TypeOK
<1> QED BY <1>1 DEF LoadEstimates, Estimate, Estimates

LEMMA BeginInv == ASSUME Inv, Begin PROVE Inv'
<1> USE DEF Inv, Begin, local, disk, environment
<1>1. CASE ~DbIsValid
  <2>1. TypeOK' /\ lookup = EmptyTable /\ ~stale'
    BY <1>1 DEF TypeOK, DownOK, Loading
  <2>2. DiskOK' /\ DownOK' /\ SavingOK' /\ ServingOK'
    BY <1>1 DEF DiskOK, Built, Covered, DownOK, SavingOK, ServingOK, Serving
  <2>3. LoadingOK'
    <3>1. Built(lookup, now, extra)
      BY <2>1, EmptyIsBuilt
    <3> QED BY <1>1, <2>1, <3>1 DEF LoadingOK, DbIsValid, Built, Covered
  <2> QED BY <2>1, <2>2, <2>3
<1>2. CASE DbIsValid
  <2>1. /\ pc' = "serving" /\ lookup' = db.rows /\ loadedAt' = db.created
        /\ LoadEstimates(db.rows) /\ ~stale'
        /\ db # NoDb /\ db.rows # EmptyTable /\ now - db.created <= TTL /\ db.extra = extra
    BY <1>2 DEF DbIsValid
  <2>2. TypeOK'
    BY <2>1, DatabaseOK, EstimatesLoaded DEF TypeOK
  <2>3. DiskOK' /\ DownOK' /\ LoadingOK'
    BY <2>1 DEF DiskOK, Built, Covered, DownOK, LoadingOK, Loading
  <2>4. SavingOK'
    BY <2>1 DEF SavingOK
  <2>5. NeverEmptyWithCache'
    BY <2>1 DEF NeverEmptyWithCache
  <2>6. FreshMeansConfigured'
    BY <2>1, DatabaseOK DEF FreshMeansConfigured, Built, Covered
  <2>7. FreshIsTwoTTLs'
    BY <2>1, DatabaseOK, Present DEF FreshIsTwoTTLs, Built, Covered
  <2>8. LastUpdatedIsHonest'
    BY <2>1, DatabaseOK, Present DEF LastUpdatedIsHonest, Built, Covered
  <2> QED BY <2>1, <2>2, <2>3, <2>4, <2>5, <2>6, <2>7, <2>8 DEF ServingOK
<1> QED BY <1>1, <1>2

LEMMA FinishFreshInv == ASSUME Inv, FinishFresh PROVE Inv'
<1> USE DEF Inv, FinishFresh, local, disk, environment
<1>1. TypeOK'
  BY EstimatesLoaded DEF TypeOK, Loading
<1>2. DiskOK' /\ DownOK' /\ ServingOK'
  BY DEF DiskOK, Built, Covered, DownOK, ServingOK, Serving
<1>3. LoadingOK'
  BY DEF LoadingOK, Loading, DbIsValid, Built, Covered
<1>4. SavingOK'
  <2>1. db # NoDb => estimates' \in {db.estimates, "csv"} \/ HasExact(lookup)
    BY EstimatesLoaded
  <2> QED BY <2>1 DEF SavingOK, HasExact
<1> QED BY <1>1, <1>2, <1>3, <1>4

LEMMA SaveInv == ASSUME Inv, Save PROVE Inv'
<1> USE DEF Inv, Save, environment
<1> DEFINE new == [rows |-> lookup, created |-> now, extra |-> extra,
                   estimates |-> estimates]
<1>1. /\ pc = "saving" /\ pc' = "serving" /\ pc \in Loading /\ loadedAt = now /\ now \in Nat
      /\ lookup # EmptyTable /\ lookup \in Table /\ Built(lookup, now, extra)
  BY DEF LoadingOK, SavingOK, Loading, TypeOK
<1>2. /\ new \in Database /\ new # NoDb /\ new.rows = lookup /\ new.created = now
      /\ new.extra = extra
  BY Present DEF Database, TypeOK
<1>3. TypeOK'
  BY <1>2 DEF TypeOK
<1>4. db' = db \/ db' = new
  OBVIOUS
<1> HIDE DEF new
<1>5. DiskOK'
  BY <1>1, <1>2, <1>4 DEF DiskOK, Built, Covered
<1>6. DownOK' /\ LoadingOK' /\ SavingOK'
  BY <1>1 DEF DownOK, LoadingOK, SavingOK, Loading
<1>7. NeverEmptyWithCache'
  BY <1>1 DEF NeverEmptyWithCache
<1>8. FreshMeansConfigured'
  BY <1>1 DEF FreshMeansConfigured, Built, Covered
<1>9. \A cc \in Covered(lookup) : lookup[cc].at \in Nat
  BY <1>1, Present DEF Covered, Table
<1>10. FreshIsTwoTTLs'
  BY <1>1, <1>9, Present DEF FreshIsTwoTTLs, Built, Covered
<1>11. LastUpdatedIsHonest'
  BY <1>1, <1>9, Present DEF LastUpdatedIsHonest, Built, Covered
<1> QED BY <1>3, <1>5, <1>6, <1>7, <1>8, <1>10, <1>11 DEF ServingOK

LEMMA FinishStaleInv == ASSUME Inv, FinishStale PROVE Inv'
<1> USE DEF Inv, FinishStale, disk, environment
<1>1. TypeOK'
  BY DatabaseOK, EstimatesLoaded DEF TypeOK
<1>2. DiskOK' /\ DownOK' /\ LoadingOK' /\ SavingOK'
  BY DEF DiskOK, Built, Covered, DownOK, LoadingOK, SavingOK, Loading
<1>3. NeverEmptyWithCache' /\ FreshMeansConfigured' /\ FreshIsTwoTTLs'
  BY DEF NeverEmptyWithCache, FreshMeansConfigured, FreshIsTwoTTLs
<1>4. LastUpdatedIsHonest'
  <2>1. ~DbIsValid
    BY DEF LoadingOK, Loading
  <2> QED BY <2>1, DatabaseOK, Present DEF LastUpdatedIsHonest, DbIsValid, Built, Covered
<1> QED BY <1>1, <1>2, <1>3, <1>4 DEF ServingOK

LEMMA FinishEmptyInv == ASSUME Inv, FinishEmpty PROVE Inv'
<1> USE DEF Inv, FinishEmpty, memory, disk, environment
<1>1. TypeOK'
  BY DEF TypeOK
<1>2. DiskOK' /\ DownOK' /\ LoadingOK' /\ SavingOK' /\ ~stale'
  BY DEF DiskOK, Built, Covered, DownOK, LoadingOK, SavingOK, Loading
<1>3. Covered(lookup) = {}
  BY EmptyOrCovered, EmptyIsBuilt
<1>4. ServingOK'
  BY <1>2, <1>3 DEF ServingOK, NeverEmptyWithCache, FreshMeansConfigured, FreshIsTwoTTLs,
                    LastUpdatedIsHonest, Covered
<1> QED BY <1>1, <1>2, <1>4

-----------------------------------------------------------------------------
(* The end of a process, the script, and what happens around a start.      *)

LEMMA ForgetInv ==
  ASSUME Inv, Forget, UNCHANGED <<db, now, extra>>, ZipsOK(zips', now)
  PROVE  Inv'
<1> USE DEF Inv, Forget
<1>1. TypeOK'
  BY EmptyIsBuilt DEF TypeOK, Estimates, ZipsOK
<1>2. DiskOK'
  BY DEF DiskOK, Built, Covered
<1>3. DownOK' /\ LoadingOK' /\ SavingOK' /\ ServingOK'
  BY DEF DownOK, LoadingOK, Loading, SavingOK, ServingOK, Serving
<1> QED BY <1>1, <1>2, <1>3

LEMMA StopInv == ASSUME Inv, Stop \/ CsvRaises PROVE Inv'
<1>1. zips' = zips /\ UNCHANGED <<db, now, extra>> /\ Forget
  BY DEF Stop, CsvRaises, disk, environment
<1> QED BY <1>1, ForgetInv DEF Inv, DiskOK

LEMMA KillInv == ASSUME Inv, Kill PROVE Inv'
<1>1. UNCHANGED <<db, now, extra>> /\ Forget
  BY DEF Kill, environment
<1>2. InWriting \subseteq Files
  BY CountriesAssumption DEF InWriting, ExtraFile, Files, Inv, TypeOK
<1>3. zips' = zips \/ \E f \in Files : zips' = [zips EXCEPT ![f] = NoZip]
  BY <1>2 DEF Kill
<1>4. ZipsOK(zips', now)
  BY <1>3, ZipLost DEF Inv, DiskOK
<1> QED BY <1>1, <1>4, ForgetInv

(* An import makes no cache valid and changes no row. *)
LEMMA ImportInv == ASSUME Inv, Import PROVE Inv'
<1> USE DEF Inv, Import, memory, local, environment
<1>1. /\ db' \in Database /\ db' # NoDb
      /\ IF db = NoDb THEN db'.rows = EmptyTable /\ db'.created = 0
                      ELSE db'.rows = db.rows /\ db'.created = db.created /\ db'.extra = db.extra
      /\ db'.estimates = "imported"
  <2>1. CASE db = NoDb
    <3> DEFINE new == [rows |-> EmptyTable, created |-> 0, extra |-> "none",
                       estimates |-> "imported"]
    <3>1. new \in Database /\ new.rows = EmptyTable /\ new.created = 0 /\ new.estimates = "imported"
      BY EmptyIsBuilt DEF Database, Estimates, Extras
    <3>2. db' = new
      BY <2>1
    <3> HIDE DEF new
    <3> QED BY <2>1, <3>1, <3>2, Present
  <2>2. CASE db # NoDb
    BY <2>2, Present DEF Database, Estimates, Extras, TypeOK
  <2> QED BY <2>1, <2>2
<1>2. db # NoDb => db \in Database
  BY DEF TypeOK
<1> HIDE DEF Import
<1>3. /\ UNCHANGED <<pc, memory, local, zips, environment>>
      /\ crossed' = (pc = "saving")
  BY DEF Import
<1>4. TypeOK'
  BY <1>1, <1>3 DEF TypeOK
<1>5. DiskOK'
  <2>1. ZipsOK(zips, now)' /\ now' = now /\ now \in Nat
    BY <1>3 DEF DiskOK, ZipsOK, TypeOK
  <2>2. CASE db = NoDb
    BY <1>1, <2>1, <2>2, EmptyIsBuilt DEF DiskOK, Built, Covered
  <2>3. CASE db # NoDb
    BY <1>1, <2>1, <2>3 DEF DiskOK, Built, Covered
  <2> QED BY <2>2, <2>3
<1>6. DownOK'
  BY <1>3 DEF DownOK
<1>7. LoadingOK'
  BY <1>1, <1>3 DEF LoadingOK, DbIsValid, Built, Covered
<1>8. SavingOK'
  BY <1>3 DEF SavingOK
<1>9. ServingOK'
  BY <1>1, <1>3 DEF ServingOK, Serving, NeverEmptyWithCache, FreshMeansConfigured,
                    FreshIsTwoTTLs, LastUpdatedIsHonest, Covered
<1> QED BY <1>4, <1>5, <1>6, <1>7, <1>8, <1>9

LEMMA NextDayInv == ASSUME Inv, NextDay PROVE Inv'
<1> USE DEF Inv, NextDay, memory, local, disk
<1>1. TypeOK'
  BY DEF TypeOK
<1>2. DiskOK'
  <2>1. db # NoDb => db.created \in Nat
    BY Present DEF TypeOK
  <2>2. \A r \in Row : r.at \in Nat
    BY Present
  <2> QED BY <2>1, <2>2, DaysAssumption DEF DiskOK, ZipsOK, Built, Covered, TypeOK
<1> QED BY <1>1, <1>2 DEF DownOK, LoadingOK, Loading, SavingOK, ServingOK, Serving

LEMMA ReconfigureInv == ASSUME Inv, Reconfigure PROVE Inv'
<1> USE DEF Inv, Reconfigure, memory, local, disk
<1>1. TypeOK'
  BY DEF TypeOK
<1>2. DiskOK'
  BY DEF DiskOK, Built, Covered
<1> QED BY <1>1, <1>2 DEF DownOK, LoadingOK, Loading, SavingOK, ServingOK, Serving

LEMMA StutterInv == ASSUME Inv, UNCHANGED vars PROVE Inv'
BY DEF vars, Inv, TypeOK, DiskOK, DownOK, LoadingOK, SavingOK, ServingOK, Serving, DbIsValid,
       NeverEmptyWithCache, FreshMeansConfigured, FreshIsTwoTTLs, LastUpdatedIsHonest,
       Built, Covered

LEMMA NextInv == Inv /\ [Next]_vars => Inv'
<1> SUFFICES ASSUME Inv, [Next]_vars PROVE Inv'
  OBVIOUS
<1> QED BY BeginInv, QuietInv, DownloadInv, LoadExtraInv, FinishFreshInv, SaveInv,
           FinishStaleInv, FinishEmptyInv, StopInv, KillInv, ImportInv, NextDayInv,
           ReconfigureInv, StutterInv DEF Next

LEMMA SpecInv == Spec => []Inv
BY InitInv, NextInv, PTL DEF Spec

-----------------------------------------------------------------------------
(* The types, and that the loop over the listing only asks for countries    *)
(* (data_loader.py:886-892).                                                *)
THEOREM TypeCorrect == Spec => []TypeOK
<1>1. Inv => TypeOK
  BY DEF Inv
<1> QED BY <1>1, SpecInv, PTL

(* A worker with a database of rows never serves an empty table            *)
(* (data_loader.py:946-956).                                                *)
THEOREM CacheIsServed == Spec => []NeverEmptyWithCache
<1>1. Inv => NeverEmptyWithCache
  BY DEF Inv, ServingOK, NeverEmptyWithCache
<1> QED BY <1>1, SpecInv, PTL

(* Rows of a source that is configured no more, and whose file has a name   *)
(* of its own, are only served as stale (_db_is_valid compares the hash of  *)
(* the sources, data_loader.py:423-424).                                    *)
THEOREM FreshIsConfigured == Spec => []FreshMeansConfigured
<1>1. Inv => FreshMeansConfigured
  BY DEF Inv, ServingOK, FreshMeansConfigured
<1> QED BY <1>1, SpecInv, PTL

(* What is served as fresh is at most two TTLs old, for every TTL. *)
THEOREM FreshIsRecent == Spec => []FreshIsTwoTTLs
<1>1. Inv => FreshIsTwoTTLs
  BY DEF Inv, ServingOK, FreshIsTwoTTLs
<1> QED BY <1>1, SpecInv, PTL

(* last_updated is never before the rows served and at most one TTL after   *)
(* them, and what is older than a TTL by that date is reported stale.       *)
THEOREM HonestAge == Spec => []LastUpdatedIsHonest
<1>1. Inv => LastUpdatedIsHonest
  BY DEF Inv, ServingOK, LastUpdatedIsHonest
<1> QED BY <1>1, SpecInv, PTL

(* An estimate of the database stays, or gives way to the CSV or to an      *)
(* exact row saved with it, unless it was imported between the reads and    *)
(* the save of one start.                                                   *)
THEOREM EstimatesAreKept == Spec => EstimatesSurvive
<1>1. ASSUME Inv, Next, db # NoDb, db.estimates # "none", pc' # pc, ~crossed
      PROVE  db'.estimates \in {db.estimates, "csv"} \/ HasExact(db'.rows)
  <2>1. CASE Save
    <3>1. estimates \in {db.estimates, "csv"} \/ HasExact(lookup)
      BY <1>1, <2>1 DEF Inv, SavingOK, Save
    <3> QED BY <1>1, <2>1, <3>1 DEF Save
  <2>2. CASE ~Save
    <3>1. db' = db
      BY <1>1, <2>2 DEF Next, Begin, Discover, TimeOut, EndLoop, LoadExtra, Download,
           SkipInside, FinishFresh, FinishStale, FinishEmpty, Deadline, Stop, CsvRaises, Kill, Import,
           NextDay, Reconfigure, disk
    <3> QED BY <1>1, <3>1
  <2> QED BY <2>1, <2>2
<1>2. Inv /\ [Next]_vars
        => [db # NoDb /\ db.estimates # "none" /\ pc' # pc /\ ~crossed
              => db'.estimates \in {db.estimates, "csv"} \/ HasExact(db'.rows)]_vars
  BY <1>1
<1> QED BY <1>2, SpecInv, PTL DEF Spec, EstimatesSurvive
=============================================================================
