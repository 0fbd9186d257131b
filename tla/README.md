# PostalCode2NUTS in TLA+

This directory holds a formal model of the service in `src/app` (and of the
command lines in `src/scripts/tokens.py` and `src/scripts/import_estimates.py`): TLA+ modules, the TLC configurations
that model-check them, and theorems checked by the TLA+ proof system. Paths and
line numbers below are those of the repository.

1. [Inventory](#1-inventory)
2. [Modules](#2-modules)
3. [Runs](#3-runs)
4. [Fairness](#4-fairness)
5. [Proofs](#5-proofs)
6. [Disagreements between code and documents](#6-disagreements-between-code-and-documents)
7. [Not modelled](#7-not-modelled)
8. [Plan](#8-plan)
9. [Running it](#9-running-it)

## 1. Inventory

The service is one FastAPI application, run by uvicorn with one or more worker
*processes* on one data directory (`Dockerfile`, `PC2NUTS_WORKERS`). A worker has
one event loop (coroutines interleave at `await`), a pool of threads (synchronous
handlers such as `/lookup`, and what goes through `asyncio.to_thread`), and its own
copy of every module-level variable. Workers share files on disk and the remote
token database, and nothing else.

| Component | Source | State | Operations |
|---|---|---|---|
| Estimates refresh | `app/estimates_refresh.py`, its callers in `app/main.py` | `_estimates`, `_last_hash`, `_last_etag`, `_last_modified`, `_stale`, `_refresh_lock` | one attempt (`refresh_estimates_once`), called by the lifespan, the periodic task and `POST /admin/refresh-estimates`; the swap of the table |
| Start-up data loading | `load_data` and what it calls in `app/data_loader.py` | `_lookup`, `_estimates`, `_nuts_names`, `_data_stale`, `_data_loaded_at`; cached ZIPs and the SQLite file | fast path, discovery, downloads with a deadline, guessed URLs, extra sources, names, save, stale fallback |
| SQLite cache file | `_save_to_db`, `_db_is_valid`, `_load_from_db`, `_read_db_created_at`, the loads of estimates and names | two file names and the files behind them | unlink, connect, create, commit, rename; validate, load |
| Lookup | `lookup`, `_build_prefix_index`, `_build_country_fallback` and helpers; `/lookup` | `_lookup`, `_estimates`, `_prefix_index`, `_single_nuts3`, `_country_fallback` | insertion of rows, building of the tables, the five tiers |
| Trusted tokens | `app/auth.py`, `app/token_db.py`, `scripts/tokens.py`, the task in `app/main.py` | remote table `trusted_tokens`; per worker `_db_tokens`, `_token_db_stale` | init, add, revoke, list; refresh; the middleware's decision |
| Postal code extraction | `app/postal_patterns.py`, `.json` | none (compiled patterns) | preprocess, match, normalise, key transform |
| Rate limiting | `app/limiter.py`, decorators in `app/main.py`, the validator in `app/config.py`, the context variable of `app/auth.py` | counters of slowapi, shared or in memory; `_request_var` | count, fall back, exempt the trusted |
| Service | `app/main.py` | the lifespan's tasks | start (load, tokens, estimates, serve), stop, `/health` |
| Estimates import | `scripts/import_estimates.py` | table `estimates` of the SQLite file | replace |
| Configuration | `app/config.py`, `settings.json` | read once at import | – |
| Response models, info pages | `app/models.py`, `app/main.py` | – | serialisation |
| Memory diagnostics | `/admin/memory` | – | reads sizes |
| Offline scripts, tests | `scripts/`, `tests/` | – | developers' tools |

### How they interact

* The **lifespan** (`main.py:83`) runs `load_data`, then a first token refresh, then
  the bootstrap refresh of the estimates, and only then lets requests in. Two
  tasks run from then on.
* **Loading** fills the tables **lookup** reads. The estimates table is filled
  again by the **refresh**, while lookups run in threads without a lock.
* **Loading** of several workers meets in the **cache file**: all write the same
  temporary path. One worker's start reads what another's wrote, or its own of an
  earlier life.
* The **middleware** reads a token set a thread of the same worker replaces, which
  lags the registry the **command line** changes; its verdict exempts a request
  from **rate limiting**.

### Which behaviours are hard

* *Estimates refresh.* Several attempts await their fetches at once; a 304 is an
  answer without a body and must speak of the body the table was made of; a bad
  body must leave table, digest and validator alike untouched; the swap is seen by
  threads step by step; the task must survive everything and converge.
* *Loading.* Some of the files fail, others do not; two caches with the same TTL
  feed one another; the deadline is looked at in several places; the configuration
  changes between two starts; a kill in the middle leaves files behind.
* *Cache file.* Create, fill and rename of two processes interleave on one path;
  the file that was validated need not be the file that is loaded.
* *Lookup.* Every level has its own vote, cap and rounding, yet an answer must be
  one coherent statement; the order of insertion decides ties; a query falls
  through tiers that each cover only some countries.
* *Codes.* Three repairs of mangled input feed one another, then a pattern per country
  and a key transform; loading writes its keys without any of them, and both must meet.
* *Rate limiting.* The counter is shared until its storage fails, then there is one per
  worker, and each finds out by itself; the verdict on a request reaches the limiter
  through a variable.
* *Tokens.* Revocation is remote and asynchronous, commands lose their answers and
  are repeated, and the empty set means "no check".

### What correctness means

* *Estimates refresh*: one attempt at a time; the table, the digest and the
  validator always speak of one body; a caller told of success is served something
  at least as new as its call; never back to an older version; each attempt ends;
  the table converges to what the upstream settles on.
* *Loading*: never empty with a cache; what is not reported stale is recent and of
  the current configuration; the reported date is honest; estimates survive.
* *Cache file*: replaced atomically, one writer per file, never blocked by leftovers; a
  start that reads it in several opens gets rows, date, estimates and names in order.
* *Codes*: every documented spelling of a code finds its row, and no other text is
  answered with certainty by a row it does not name.
* *Rate limiting*: the published limit holds over all workers, degrades to a known
  bound, exempts exactly the trusted and refuses nobody early.
* *Lookup*: confidences ordered, confident answers nested, the vote is that of the
  nearest known codes, no gap in a country of one region.
* *Tokens*: at most one refresh behind, every verdict right as of it, revoked for
  good, every change effective in the end.

`PROJECT.json` lists under `hazards` each line of the code where one of these can go
wrong, with the properties that would notice.

## 2. Modules

### EstimatesTable – the promise

What the refresh promises the lookups, without fetches, locks or threads: `table` is the
bundled one or the whole one of a published body (`log`, `shown`). It may be withdrawn
(`Withdraw`: a `gap` in which there is no table), moves to that of a published body no
older than the current one (`Adopt`), or back to the bundled one by a restart.

### EstimatesRefresh – the refresh

One module for `estimates_refresh.py`, its three callers and the upstream server.

| TLA+ | Code |
|---|---|
| `pc[c]` | the place of caller `c` in `refresh_estimates_once`: waiting for the lock, awaiting the fetch, in the two steps of the swap |
| `queue` | `_refresh_lock`: holder first, then the waiters, first come first served as in `asyncio.Lock` |
| `prev`, `sentTag`, `resp` | `previous_count`, the conditional headers sent, the response |
| `estimates`, `lastHash`, `lastTag`, `stale` | `_estimates`, `_last_hash`, `_last_etag` with `_last_modified`, `_stale` |
| `phase` | where the lifespan is: bootstrap, serving, stopping |
| `log` | the bodies the upstream has published |
| `Call`, `Fetch` | the call up to the lock; from the lock to the request on the wire |
| `AnswerOk`, `AnswerNotModified`, `AnswerError` | the response or the failure of `fetch_remote_csv` |
| `Unchanged`, `Failed`, `Rejected`, `Crashed` | the exits of the attempt: 304 or same digest; HTTP or parse error; the floor; an exception the handler does not list |
| `SwapClear`, `SwapUpdate`, `SwapDelete`, `SwapEnd` | `clear()`, `update()`, one `del` of `_revalidate_estimates`, and the assignments after it |
| `Shutdown`, `Restart` | the end of the lifespan (the task is cancelled at its await) and the next process |

A coroutine that swaps does not yield, so no other caller moves meanwhile
(`EventLoopFree`), but every step is a state: that is what a thread running a
lookup can see. A body is a model value; `Rows` gives the table it
parses to, `Malformed` and `ShortRow` the two ways a parse fails. `ETag` and
`Last-Modified` are one validator that names the body it came with – the server is
assumed to send validators that tell its bodies apart, and any answer may come
without one. The digest is the body: collisions of SHA-256 are left out. `clear()` and
`update()` are one step each, as the interpreter's lock makes them for a plain dict.
History variables (`shown`, `before`, `asked`, `attempt`) are read by no guard.

### LoadData – the start of a worker

`load_data` as a sequence of stages (`pc`), with what lives on disk between two
starts (`db`, `zips`), the day (`now`) and the configuration (`extra`: no extra source,
one with a file name of its own, or a mirror of a country's TERCET file). A
country stands for all of its codes; its row says which source it came from and
when that was downloaded. The ZIP cache goes by file names, as the code's does
(`ExtraFile`): a mirror and TERCET have one entry. Of the estimates one is followed,
of a code that TERCET lacks and an extra source has.

| TLA+ | Code |
|---|---|
| `Begin` | `load_data` up to the end of the fast path: `_db_is_valid`, `_load_from_db`, the estimates |
| `LoadEstimates` | the estimates, of the CSV or of the database, and `_revalidate_estimates` |
| `Discover` | the directory listing, which names some files or none |
| `Download`, `Obtain`, `Miss`, `Cached` | `_download_and_parse_zip` in either loop: cached ZIP within its TTL, a download, a failure |
| `SkipInside`, `TimeOut` | the two checks of the deadline, of the helper and of the loop |
| `EndLoop` | from the listed to the guessed URLs, and on to the extra sources |
| `LoadExtra` | `_load_extra_sources` |
| `FinishFresh`, `FinishStale`, `FinishEmpty` | the three ends: something downloaded, expired cache, nothing |
| `Save` | `_save_to_db` and the report of a timeout |
| `Import` | `scripts/import_estimates.py`, between any two steps of a start |
| `CsvRaises` | a short row of the CSV: `AttributeError` ends `load_data` |
| `Deadline`, `Kill`, `Stop`, `NextDay`, `Reconfigure` | the environment |

`_save_to_db` is one step here; CacheFile opens it, and has the region names. An
estimate comes from the CSV or was imported. An import into a directory without a database makes one without
rows and metadata (`EmptyTable`), which no start takes for valid, yet which is there for
the stale fallback. The history variable `crossed` says that an import fell between the
reads and the save of one start.

### CacheFile – one file, several processes

The same start seen from the file system, for several workers: names (`db`, `tmp`),
inodes with a stage (`empty`, `schema`, `complete`) and a day, and the file each
connection has open. `Unlink`, `Connect`, `CreateTables`, `Commit`, `Replace` and
`SaveFails` are the steps of `_save_to_db`; `Check`, `LoadFromDb`, `DownloadFails`,
`ReadCreatedAt`, `LoadEstimates` and `LoadNames` the places that read the file, each of
which opens the name anew, may find another file behind it, and may fail (`Read`). After a
download the estimates still come from the old file, and the save follows. What a worker
has in memory is the day of the file it comes from: `rows`, `date` (`_data_loaded_at`),
`ests`, `names`; `path` is the way the rows came. A worker
may be killed anywhere; its open file may outlive its name. History variables:
`alone` holds the workers whose save no other save overlapped, `overlap` says that
some saves did, `checked` what the check of a worker has seen.

### Lookup – the five tiers

The tables of one worker and the answer to a query. Rows are inserted one by one,
in every order (first-write-wins for TERCET, last-write-wins for an extra source,
in the place of the first insertion, as a Python dict does); `Serve` builds the
index and the country tables; `Ask` answers any query. A code is a sequence of
characters, a NUTS3 code a sequence whose prefixes are its NUTS1 and NUTS2 codes, a
confidence a number of hundredths with Python's rounding. The lists the tables keep
are functions from positions of rows to regions (`Nuts3Of`): what a vote is taken of is
then a set of rows, in the order of the table. `Winner` breaks ties as
`Counter.most_common` does. The properties compare the answers with definitions
that know no index (`SharedMost`, `Nearest`, `NearestVote`).

### PostalPatterns – from what is typed to a row

What a client types and the row it means, from the raw text to the first tier. A text
is a sequence of characters; a regular expression is the set of its shapes, sequences of
character classes, one for each choice of what it leaves optional (`Matches`), with the
country prefixes and their separators apart (`Rests`). All 35 patterns are there.

| TLA+ | Code |
|---|---|
| `POSTAL_PATTERNS` | `postal_patterns.json`: prefixes, shapes, `expected_digits`, `tercet_map` |
| `DropThousands`, `DropFloat`, `RestoreZero`, `Preprocess` | the three repairs of `_preprocess`, in their order |
| `ExtractPostalCode`, `ApplyTercetMap` | `extract_postal_code`, `_apply_tercet_map` |
| `Kept`, `NormalizePostalCode`, `NormalizeCountry` | what a filter keeps of a text; the same in `data_loader.py` |
| `LoadFile` | the keys `_parse_csv_content` writes for the file of a country |
| `Lookup` | the handler of `/lookup` and `lookup` down to the exact match |
| `AskFor`, `AskAny` | a client that means a code, in one of its `Spellings`; a client that types anything in `Typed` |

The constants are the alphabet (`Chars`), the codes of each country (`Postcodes`), how its
file writes them (`FileForm`) and what may be typed (`Typed`). Three assumptions are about
the data: texts are made of the alphabet (`TypedAssumption`), a code in its plain form fits
its country's pattern (`CodesAssumption`), and a file writes its codes in one of their
spellings or as the transform keys them, so that each row has the key the transform makes
of its code (`Row`, `RowForm`), and Greece's file is one of EL (`FilesAssumption`).
The last is what `tercet_map` is there for (`postal_patterns.py:6-10`); a file
in another form has rows no exact match finds (see 6).

`Spellings` are the formats the examples of the patterns and the head of
`postal_patterns.py` list: with or without the prefix, with the separator inside, as the
file writes it, in lower case, with blanks around, and what a spreadsheet makes of it
(a lost zero, dotted thousands, a float). `Lookup` (the module) starts where this one
ends: its queries are extracted codes.

### RateLimit – the limit and who is exempt

| TLA+ | Code |
|---|---|
| `storage`, `running`, `MayStart` | `rate_limit_storage_uri`, `workers`, the validator of the settings |
| `Arrive`, `Leave` | `AuthMiddleware.dispatch` up to `call_next` and after it |
| `requestVar`, `Context` | `_request_var`, and that each request has a context of its own |
| `IsTrustedRequest`, `Exempt` | `is_trusted_request` as `exempt_when` |
| `Hit` | one hit: the counter is raised, then compared, so refused requests are counted too |
| `HitShared`, `HitLocal` | a hit on the shared counter, or on the worker's own in memory (`in_memory_fallback_enabled`) |
| `dead` | the worker holds the storage for dead; it may go on counting alone after the storage is back, until its backoff has passed |
| `Outage`, `Recover`, `RestartWorker`, `NextWindow`, `RefreshTokens` | the environment; a storage or a worker that restarts loses its counters |

The counting is slowapi's and modelled as external, from the options `limiter.py`
gives it. History variables: `admitted` (counted requests let through in the window),
`losses`, `outage`.

### TokenBypass – tokens

| TLA+ | Code |
|---|---|
| `rows`, `said` | the table `trusted_tokens`; what the command printed |
| `schema`, `InitSchema` | whether the table exists; `tokens init` |
| `Add`, `AddMalformed`, `Revoke`, `List`, `CommandFails` | `tokens add`, also with a value it refuses, `tokens revoke`, also of an id no row has, `tokens list`; each may lose its answer after the statement ran |
| `cache`, `stale` | `_db_tokens`, `_token_db_stale` |
| `Ask`, `ListOk`, `ListFails`, `Install`, `ClearStale` | `refresh_db_tokens` in its thread: the statement, its result, the two assignments one by one |
| `Start`, `Stop` | the lifespan: the first refresh ends, with whatever result, before requests are served |
| `Arrive`, `Decide`, `Answered` | `AuthMiddleware.dispatch`: the test for an empty set and the lookup of the token are two reads, a refresh may come between |

### MC modules

`MCEstimatesRefresh`, `MCLoadData`, `MCCacheFile`, `MCLookup`, `MCPostalPatterns`,
`MCRateLimit` and `MCTokenBypass` extend their module and define values a configuration cannot write (tables, codes, spellings,
symmetry sets). They replace no definition.

## 3. Runs

| Run | Question | Bounds |
|---|---|---|
| `refresh_all` | Do concurrent attempts, bad bodies, failing answers and restarts keep table, digest and validator consistent, and the promises to callers? What do lookups see of a swap (EstimatesTable)? Does every attempt end, and the table converge? | 5 keys (two with an exact match), 7 bodies (one malformed, one with a short row), one admin request beside task and bootstrap, 2 publications |
| `refresh_flag` | violation, see 6 | the same |
| `refresh_truncation` | violation, see 6 | the same |
| `load_safety` | Over starts, kills, days, failures, imports and reconfigurations: is what is served what it is said to be? | 2 countries, one overwritten by the extra source or its mirror; TTL of one day, 3 days |
| `load_partial` | violation, see 6 | 2 days |
| `cache_safety` | Do workers that write one path, and are killed anywhere, fill each file alone, serve whole tables from the fast path, and, when their saves do not overlap, replace the cache atomically and read it in order? | 2 workers, 3 inodes, TTL 0, 2 days |
| `cache_torn` | violation, see 6 | the same |
| `lookup_safety` | Are answers coherent and the index right, for all small tables and orders of insertion? | the country EL, asked for as EL and GR, and a pinned one; 4 codes of 2–3 characters, 9 queries of 1–3, 4 regions, 3 rows and one of an extra source, 2 estimates, one of which contradicts itself |
| `codes_safety` | For every country, is every documented spelling of a code found, and nothing answered that was not meant? | 35 countries and one without a pattern; all codes over the digits 0 and 8 but the one of zeros only, and some Irish and Maltese ones; every spelling of them, and every spelling with a character left out or `0`, `.` or `-` put in |
| `limit_safety` | Does the limit hold over all workers, with what loss in an outage, and is the exemption each request's own? | 2 workers, 2 requests in flight, 2 tokens, limit 2, counters up to 3, 2 lost counters per window |
| `token_safety` | Is a set at most one refresh behind, every verdict right as of it, and does every change reach a worker that stays up? | 1 worker, 1 request, 2 values (one also in the environment), 2 rows |
| `token_last` | violation, see 6 | the same, no token in the environment |

What the runs with several properties show, property by property:

* `refresh_all`. `OneAttemptAtATime`: the lock does what the comment at
  `estimates_refresh.py:36` says. `TableIsLastBody`: outside a swap the table is the
  revalidated table of the digest's body, and a validator names that body – without
  it, "unchanged" would be wrong. `SuccessIsFresh`: a 200 of the admin endpoint means
  the table is at least as new as the upstream was at the call, also for a caller
  that waited behind another one. `NeverOlder`: no late response takes the table back.
  `FloorOnReplacedTable`: the count the floor uses is that of the table replaced,
  though it is read before the fetch. `FailureKeepsState`: a failed, rejected or crashed
  attempt can be repeated, nothing of it sticks. `ImplementsTable`: what a lookup, which
  takes no lock, can see at any instant of any swap is the whole table of one body, never
  of an older one than before, or no table – between `clear()` and `update()` a lookup does
  find no estimate and falls through to a coarser tier; it never finds a mixture.
  `EveryAttemptEnds` and `Converges` have hypotheses on the upstream, see 4.
* `load_safety`. `NeverEmptyWithCache`; `FreshMeansConfigured`: rows of an extra
  source with a file name of its own are not served as fresh once it was removed (those of
  a mirror are, see 6); `FreshIsTwoTTLs`: the exact bound
  on the age of fresh data, twice the setting, since the database may be built from
  a ZIP one TTL old; `LastUpdatedIsHonest`: the reported date is never before the rows and
  at most one TTL after them, for the same reason; `EstimatesSurvive`: no step of a start
  loses an estimate of the database, imported ones included, but to the CSV or to an exact
  row saved with it, and but for the import it excludes
  by name: one between the reads and the save of the same start is overwritten.
  `NeverEmptyWithCache` speaks of databases with rows: one the import script has made
  is served as an empty table when nothing can be downloaded.
* `cache_safety`. `OneWriter`: of two workers that opened one file the second to create
  its tables gives up. `FastPathIsRecent`: although the file may be replaced between
  the check and the load, the fast path has rows, and recent ones. `LaterIsNewer`:
  over the five opens of a start, any of which may fail, what is read later is never older:
  `last_updated` is not before the rows, nor estimates and names before it; and the
  estimates a download saves again are no older than the cache it found expired. Both need
  that saves do not overlap: of two overlapping ones the older file may come last.
  `LoneSaveIsAtomic` and `NeverBlocked`: what one process at a
  time does is atomic, whatever was killed before; only overlapping saves tear the
  cache (`cache_torn`).
* `lookup_safety`. `ConfidenceOrdered`; `ConfidentIsNested`: levels vote apart and an
  answer may name a NUTS3 code outside its NUTS2 code, but never with a NUTS3
  confidence above one half, unless the estimates file lists the code (it has the answer
  then, and nothing checks its columns against each other); `NearestNeighbours`: where no known code is a prefix of the
  query, tier 3 is the vote of the rows sharing the longest prefix, without an index;
  `SoleRegion`: no code of a country of one NUTS2 region falls through all tiers, and
  what answers is that region, unless the estimates file or a pin of the settings says
  otherwise (a pin outlives the rows that contradict it, see 6).
* `codes_safety`. `EverySpellingIsFound`: loading and extraction, which normalise
  separately, agree on the key – also for the three countries with a key transform, and
  for Greece asked for as GR. `FoundIsMeant`: no repair makes up a letter or digit or drops one,
  but a country prefix, a single leading zero, the zeros after a final dot (`WholeNumber`)
  and what a coarser row does not hold, whatever is typed. `ValidIsTaken`: a
  text that matches the published pattern is read as that match: the repairs before it
  do no damage.
* `limit_safety`. `Cap`: in a window without an outage or a lost counter the published limit
  holds for all workers together, under every configuration the validator lets start;
  in an outage of the whole window the limit times the workers, else one more for the
  counter in the storage, and one for each counter lost. `ExemptIfTrusted`: a variable
  per context carries each request's own verdict to the limiter. `NoEarlyRefusal`:
  nothing but counted requests uses up the limit.
* `token_safety`. `WithinOneRefresh` ties the set to the registry as it was when the
  refresh was asked for; `VerdictIsCurrent` the answer to a request, though the set
  is read twice while it may be replaced; `RevokedForGood` the command line, whose
  operator repeats what failed; `ChangesTakeEffect` the eventual end of a revocation and
  of an issue.

Every property of a passing run has a mutant in `PROJECT.json`: a plausible bug in the
code of one definition that makes the same run fail.

**Why the bounds are enough.** *Refresh*: two callers are what it takes to race,
and the lock makes a third wait in the same way; two versions let an older answer
arrive after a newer one was applied (that a body comes back after another takes three, and
is left to the theorems); keys inside and outside of the exact matches let the floor pass or
fail on either side of revalidation. *LoadData*: with a TTL of one day and three days a ZIP can
expire, a database built from a ZIP at its last day can be used on its own last
day, and both can be stale; a second country is needed for a partial failure, more
add no new kind. *CacheFile*: a worker makes a file only when there is none at the temporary path,
so beside the cache and a file the other worker still holds three inodes never run out;
with TTL 0 two days are an old file, a check and a new file. *Codes*: the repairs look at
digits only by whether they are zero, Montenegro's codes start with 8; requests share nothing but the tables, so one at a time is all
of them, and a country's rows do not concern another's. *Rate limiting*: two workers are
one that has found the storage dead beside one that has not; a limit of 2 tells one
counter at its limit from two counters below it, and counters up to 3 have counted a
refused hit; two lost counters are a worker's and the storage's. *Lookup*: three rows are a majority, a tie and a
unanimous vote; a self-contradicting estimate is one that nothing nests; codes and
queries include a proper prefix and an extension of one another. *Tokens*: a worker refreshes alone – workers share only the registry and no
property relates two of them – and two rows are one revoked and one active. Bounds
are constants: `MaxVersions` (publications), `MaxNow` (days), `MaxRows`
and `MaxExtras` (table rows), `MaxLosses` (counters lost in a window), `MaxHits` (what a counter
counts; at the bound a request waits for the next window).

`CHECK_DEADLOCK` is left on in every run: each system has always a next step.

## 4. Fairness

* `EventLoopFairness` (refresh): each caller that holds the lock sends its request, and an
  answer is handled. The event loop runs every ready coroutine and `asyncio.Lock` is
  first come first served.
* `LoopFairness`: the periodic task calls again after each sleep (`while True`, and
  an `except` around the body), the lifespan runs the bootstrap. Nothing forces an
  operator to use the endpoint, so `Call(a)` has no fairness.
* That a request *ends* is no fairness of the code: `timeout=10.0`
  (`estimates_refresh.py:81`) bounds connecting, writing and each read of httpx, not the
  response as a whole, so an upstream that sends a byte now and then holds the lock for any
  time. `UpstreamEnds` (each request gets some answer or error) is therefore a hypothesis on
  the environment, written into `EveryAttemptEnds` and `Converges`. What `EveryAttemptEnds`
  says of the code is that no exit of an attempt keeps the lock.
* `UpstreamAnswers` (a hypothesis of `Converges` alone): a server that is asked again and again
  is at last reached by the periodic task. Strong fairness,
  since failures may come in between; without it a worker may of course never see
  the new body.
* `TokenBypass!FairSpec`: weak fairness of the refresh task's own steps (the loop in
  `main.py:114`), strong fairness of an answered statement, for the same reason.

LoadData, CacheFile, Lookup, PostalPatterns and RateLimit state safety only, without
fairness: a handler waits for no other, a start goes through finite loops and waits for
nothing but the upstream's files, whose end is no more the code's to promise than above.

## 5. Proofs

Every safety property and action property of a passing run is a theorem, for every value
of the constants. Each component has a module of proofs that extends it, PostalPatterns two.
There an invariant `Inv` is proved of the specification with one
lemma per action (or group of actions that write the same variables) and one step per
conjunct, and the theorems follow from it. Each `Inv` was model-checked before it was proved.

The assumptions are the named `ASSUME`s of the components' modules, which TLC evaluates on
every run. They say that bounds are numbers, sets that the code counts are finite, and the
markers for "none" are not values; the others are given below. One theorem has
hypotheses of its own, on the settings and the estimates file (see Lookup).

### EstimatesRefresh

For every set of keys, bodies, tables and requests and every bound on publications.

| Theorem | Says |
|---|---|
| `TypeCorrect` | `Spec => []TypeOK` |
| `MutualExclusion` | `Spec => []OneAttemptAtATime` |
| `TableCorrect` | `Spec => []TableIsLastBody` |
| `SuccessFresh` | `Spec => []SuccessIsFresh` |
| `Monotonic` | `Spec => NeverOlder` |
| `FailureIsHarmless` | `Spec => FailureKeepsState` |
| `FloorOfReplaced` | `Spec => FloorOnReplacedTable` |
| `Refinement` | `Spec => ImplementsTable` (EstimatesTable, whose table is what a lookup finds at that instant: the live one without the rows an exact match answers) |

Assumed: `Rows` maps bodies to tables, and the bundled table is already revalidated, as
`load_data` leaves it. The invariant is the conjunction of

* `TypeOK`;
* `LockHeld` – a caller past the lock is the head of the queue. `MutualExclusion`
  follows: a queue has one head;
* `PhaseOK` – the bootstrap is over once the application serves, and nobody runs when
  it stops. Without it `Restart` could clear the digest under a caller's feet;
* `ShownIsApplied` – digest, validator and version speak of one published body;
* `InFlight` – the heart: while a caller is past the lock, the validator it sent is
  still the stored one; an answer carries the published body of its version, which is
  no older than the table and than the call; a 304 means the stored validator names
  that version's body. The lock is needed for exactly this: every assignment to the
  digest, the validator or the version is made by the caller that holds it;
* `AskedOK` – the version a caller remembers was published;
* `Stage` – the table at each step of the swap, so that the last deletion leaves the
  revalidated table of the body, and `before` is the table of the digest until then;
* `SuccessIsFresh` itself, inductive beside the others.

`Monotonic` and `Refinement` use it in the step: `shown <= resp[c].ver` from `InFlight`
for the order, `Stage` for the value: `clear()` is a `Withdraw`, `update()` already an `Adopt`,
since the rows still to be deleted are answered by their exact matches, and the deletions
and the end of the swap are stutters. `FloorOfReplaced` needs one invariant more, `FloorOK`:
while a caller awaits its fetch the count it has read is still that of the table, since it
holds the lock; and from `clear()` on, the body has passed the floor against `before`.

### RateLimit

For every set of workers, requests and tokens, every limit, every bound on what a counter
counts and on lost counters.

| Theorem | Says |
|---|---|
| `TypeCorrect` | `Spec => []TypeOK` |
| `OwnVerdict` | `Spec => []ExemptIfTrusted` |
| `LimitHolds` | `Spec => []StrictCap`, the first conjunct of `Cap` |
| `CapHolds` | `Spec => []Cap` |
| `NobodyEarly` | `Spec => NoEarlyRefusal` |

Assumed: the limit is positive, and counters may pass it. The invariant is the conjunction of

* `TypeOK`;
* `ContextOK` – the variable of a context names the context's own request or none, none
  while the request is idle, and the request itself if it is a trusted one.
  `OwnVerdict` follows at once: the verdict is looked up through this variable;
* `CountersOK` – until the limit was let through no counter is ahead of what was let
  through, so a counter at the limit means that the limit was reached: `NobodyEarly`.
  Beyond it counters run on with the refused hits;
* `OneCounter` – without a shared storage one worker runs (`LoneWorker`: the validator of
  the settings leaves no other case); and in a window in which nothing went wrong one
  counter, the shared one or that of the lone worker, has seen every counted request:
  what was let through is the part of it below the limit (`Passed`): `LimitHolds`.

`CapHolds` needs the sum of the workers' own counters. It is the size of a set, `Hits`: the
pairs of a worker and a number up to its counter and the limit. A second invariant, `LooseOK`,
says that what was let through is at most what passed by the shared counter, the size of
`Hits` and the limit for each counter lost; a hit that is let through adds one to either
side, a loss takes a limit at most
(`HitsAdded`, `HitsLost`), and `Hits` has a limit of pairs for each running worker
(`HitsBounded`).

### TokenBypass

For every set of workers, requests and token values and every number of rows.

| Theorem | Says |
|---|---|
| `TypeCorrect` | `Spec => []TypeOK` |
| `OneRefreshBehind` | `Spec => []WithinOneRefresh` |
| `RevokedStaysRevoked` | `Spec => RevokedForGood` |
| `VerdictsCurrent` | `Spec => VerdictIsCurrent` |

The argument is an order on registries: `Later(rs, ss)` when `ss` has the rows of `rs`, a
row revoked in `rs` is revoked in `ss`, and other rows may follow. With the values unique
(`Unique`, the table's constraint), whatever a statement returns while the registry moves
from `rs` to `ss` has nothing that was revoked in `rs` and all that is active in both
(`Between`). The invariant adds to `TypeOK` that the registries remembered are earlier than
the present one (`RegistryOK`) and that the sets on their way and installed are between
(`RefreshOK`): this is `WithinOneRefresh`, and it is stable under any number of commands.

### CacheFile

For every number of workers, inodes and days and every TTL.

| Theorem | Says |
|---|---|
| `TypeCorrect` | `Spec => []TypeOK` |
| `FileHasOneWriter` | `Spec => []OneWriter` |
| `FastPath` | `Spec => []FastPathIsRecent` |
| `ReadsInOrder` | `Spec => []LaterIsNewer` |
| `NoLeftovers` | `Spec => []NeverBlocked` |
| `LoneSaves` | `Spec => LoneSaveIsAtomic` |

The invariant is `TypeOK`, `OneWriter` and

* `FilesOK` – no file is from the future, and who inserts has created the tables;
* `AloneOK` – from the unlink to the rename, a save that is alone owns the temporary path:
  it finds it free, holds what it names, and renames a complete file that is no older than
  the cache;
* `OverlapOK` – while no saves have overlapped, every save is alone;
* `WorkerOK` – what a worker has read at each place of a start, or not yet read, and, while
  no saves have overlapped, that it is in order (`InOrder`) and no newer than the cache is,
  so that whatever is read next is not older. `OthersOK` is why the steps of the others do
  no harm: the cache never gets older.

### LoadData

For every set of countries, every TTL and every number of days.

| Theorem | Says |
|---|---|
| `TypeCorrect` | `Spec => []TypeOK` |
| `CacheIsServed` | `Spec => []NeverEmptyWithCache` |
| `FreshIsConfigured` | `Spec => []FreshMeansConfigured` |
| `FreshIsRecent` | `Spec => []FreshIsTwoTTLs` |
| `HonestAge` | `Spec => []LastUpdatedIsHonest` |
| `EstimatesAreKept` | `Spec => EstimatesSurvive` |

`Built(t, day, ext)` says that a table could be built on that day: its rows are at
most a TTL old then, and none is an extra source's own unless that is configured. It holds of
the table a load fills (`LoadingOK`) and of the rows of the database, for the day it was
created and the configuration it records (`DiskOK`), over kills, imports and
reconfigurations; it does since no such row is ever cached under the name of a country's file
(`ZipsOK`), which is true of a source with a file name of its own and not of a mirror. A
start that serves the database unreported has checked its day and its
configuration, so its rows are at most two TTLs old: the bound of `FreshIsTwoTTLs` is the
sum of the two. `DownOK`, `SavingOK` and `ServingOK` say what is in memory between, before
and after; `SavingOK` also that the estimates about to be saved are those of the database, of the
CSV, or gone for an exact row.

### Lookup

For every set of codes, queries and regions, every table of rows in every order, every
estimates file and every setting of the caps, the threshold and the pins.

| Theorem | Says |
|---|---|
| `TypeCorrect` | `Spec => []TypeOK` |
| `ConfidenceFalls` | if `CapsOrdered` and `EstimatesOrdered`, `Spec => []ConfidenceOrdered` |
| `LikelyIsNested` | `Spec => []ConfidentIsNested` |
| `RegionIsNamed` | `Spec => []SoleRegion` |
| `IndexLosesNoRow` | `Spec => []NearestNeighbours` |

`CapsOrdered` and `EstimatesOrdered` say that caps and the confidences of the estimates do
not rise with the level. The code checks neither; `settings.json`
(`approximate_confidence_caps`, `confidence_map`, which a remote file goes through as well)
satisfies both. That the codes of an estimate are nested is neither checked nor assumed:
`ConfidentIsNested` is about the answers of the other tiers.

The invariant says that the rows are one for each key (`RowsOK`), that the estimates come
from the file (`EstimatesOK`), that the tables are functions of the rows once the worker
serves (`PhaseOK`), and that the answer is what `Answer` gives for the query (`AnswerOK`). The
work is in the operators, in lemmas that build on one another:

* `RoundBounds`, `RoundMonotone`, `RoundMajority` – Python's rounding to hundredths keeps the
  order, stays within 0 and 100, and is above one half only for more than half;
* `BackingGrows` – who agrees on a code agrees on its prefixes, so the winner of a coarser
  level has no fewer votes: with the caps in order, confidences fall;
* `MajorityNests` – a winner with more than half of the votes shares a voter with every
  coarser winner, which is therefore its prefix;
* `VoteElects`, `SinglesOf`, `FallbacksOf`, `AnswerHolds` – the same for the answer of each
  tier, and what the country tables say of a country of one region;
* `IndexEntries`, `SharedPrefix`, `IndexedIsShared`, `VoteOfNearest` – the entry of the longest
  indexed prefix of a query has exactly the rows that share most with it.

### PostalPatterns

For every alphabet that has the ASCII letters, digits and separators, every set of codes
that fit the patterns, every form of the files as assumed (see 2) and every text, of any
length. The 35 patterns are the concrete ones.

| Theorem | Says |
|---|---|
| `InvariantHolds` | `Spec => []IInv` |
| `SpellingsAreFound` | `Spec => []EverySpellingIsFound` |
| `AnswersAreMeant` | `Spec => []FoundIsMeant` |
| `ValidTextIsTaken` | `Spec => []ValidIsTaken` |

The invariant `IInv` is plain: the rows in memory are those of one file (`LookupOK`), and the last
answer is what that file gives for the key read of what was typed, which is a spelling of
the code it means, if it means one (`AnswerOK`). The theorems follow from three lemmas about a
single text, and these are where the work is.

`PostalTextProofs` has the theory of texts: what a filter keeps (`KeptIs`: the k-th character
kept is the one of rank k), of a concatenation (`KeptConcat`), in upper case (`KeptUpper`);
hence the normalisation goes part by part (`NormConcat`); stripping (`StripOf`) and the two
repairs (`ThousandsDropped`, `FloatDropped`). Induction over texts is by a smallest
counterexample (`SetOfSequences`, for a set of texts rather than a predicate).

`PostalPatternsProofs` then shows

* `EveryPattern` – of each of the 35 entries: prefixes are letters, shapes are letters and
  digits with gaps, and but for MT all shapes of a country have the same number of them;
* `SameCode` – therefore the letters and digits a text says determine those of its match: it does not matter
  which of several ways the expression takes, and `ReadOfMatch` that all give one key;
* `NothingIsMadeUp`, for `FoundIsMeant` – each repair and the reading keep the letters and digits,
  but for a zero put in front (`RestoreIs`) and the zeros after a final dot (`CleanedIs`);
* `ValidIsKept`, for `ValidIsTaken` – what matches is no number with thousands
  (`MatchedIsNoThousands`) and not a digit short (`MatchedIsNotShort`);
* `SpellingIsFound`, for `EverySpellingIsFound` – one lemma for each way to write a code:
  `WrittenIsWhole`, `PrefixedIsGood`, `AsNumbersIsGood` (with `DottedIsNumeral`, `FloatIsNumeral`,
  `NumberIs`), `FileFormIsGood`, and `GoodIsFound` for lower case and blanks around.

### Only model-checked

Liveness (`EveryAttemptEnds`, `Converges`, `ChangesTakeEffect`) is out of the prover's
reach: it rests on fairness, hence on `ENABLED`. The five runs that expect a violation
have nothing to prove.

## 6. Disagreements between code and documents

Five runs expect a violation: each states a sentence of the documents, and the
counterexample is what the code does.

* `refresh_truncation` – the design of the refresh says a half-truncated body cannot wipe the
  table. The floor compares rows before revalidation with rows after it: a truncated
  body of rows that all have exact matches passes, and leaves nothing.
* `refresh_flag` – README:460 says `estimates_refresh_stale` is true after a failed refresh,
  the design of the refresh "after any error path". A CSV row with too few fields raises
  `AttributeError`, which the handler at `estimates_refresh.py:168` does not list: the attempt
  crashes and the flag keeps the value of the success before it.
* `load_partial` – README:314 says a failed refresh falls back to the previous data
  and sets `data_stale`. When only some countries fail, they are dropped, the
  partial table replaces the complete cache, and nothing is reported.
* `cache_torn` – README:554 says the cache is written atomically. Two workers write the same
  temporary path; one may rename the file the other has just created over a
  complete cache.
* `token_last` – the design of the tokens says the holder of a revoked token starts
  receiving 401. When it was the last token, the set is empty, the check is off and
  the request goes on as anonymous.

More were met while writing the modules and have no run of their own; the
definitions show them.

* `ExtraFile`: the ZIP cache goes by the last part of the URL (`data_loader.py:335`), so a
  mirror of a TERCET file shares its entry. Once it is removed from the configuration its
  ZIP is parsed as TERCET's, and while a TERCET ZIP is cached the mirror is not asked: the
  rebuild README:682 promises is made of the cached file.
* `CsvRaises`: the same short row in the local CSV ends `load_data` and with it the start
  (`data_loader.py:502`), after the downloads and before the save.
* `LoadEstimates`: revalidation runs before the save (`data_loader.py:942`), so an estimate
  which an extra source answers exactly is gone from the database, and does not come back
  when the source is removed, unless the CSV has it.
* `SkipInside`: the check of the deadline inside `_download_and_parse_zip` skips a file, or
  every extra source, and `data_stale` stays false, against README:318.
* `IndexedPrefixes`: the index holds proper prefixes only, so a query that extends a known
  code is not matched with that code, against README:516.
* `SingleNuts3`: a pinned region stays in force for a country whose rows show several,
  against README:541.
* The country column of an extra source is not normalised (`Answer` normalises,
  `InsertExtra` does not), so rows under GR are never found, against README:678 with
  README:123. In the same way rows of LV, IE and MT are found only in the form the key
  transform makes (`Row` against `ApplyTercetMap`).
* `/pattern` takes the country code as it is (`main.py:309`), so GR, which `/lookup`
  accepts, has no pattern there.
* `Import` between the reads and the save of one start is lost, and of two saves that
  overlap the one that downloaded earlier may be renamed last (`Replace`).

## 7. Not modelled

* *Service*: the lifespan as a whole, `/health`, `/pattern`. Its parts are in
  EstimatesRefresh, TokenBypass, PostalPatterns and Lookup.
* *EstimatesRefresh*: a lookup in the middle of `clear()` or `update()`, which the interpreter's
  lock keeps out for a plain dict.
* *LoadData*: the scoping of the cache by NUTS version, a corrupt database, CSV dialects and
  column detection, ZIP members. They decide which rows a file has; a file
  here has a country's rows or fails. One extra source at a time, which is there for one
  country, and one estimate, of a code of that country. Region names are in CacheFile, which
  keeps the day of the file they come from and that a download may come without any.
* *CacheFile*: what is in a file but its day and that it is whole; the bytes of SQLite's journal.
* *PostalPatterns*: characters beyond ASCII – the two longer dashes, which every pattern
  takes where it takes a hyphen, other white space, other digits – and country codes in
  lower case. The extra sources' files.
* *RateLimit*: slowapi itself; windows of the counters that are not aligned; the other
  endpoints, which have counters of their own; `Retry-After` and the other headers.
* *Lookup*: region names, response models. A NUTS3 code is three levels deep
  (`RegionsAssumption`), where the parser's pattern also takes shorter codes, which TERCET's
  files do not have.
* *TokenBypass*: the wire format of the database's HTTP interface, the token id in the
  log. An answer of status 200 without results, which the code takes for an empty
  registry, is left out: nothing in the code says when a server sends one.
* *Configuration, response models, diagnostics, offline scripts, tests*: no state of
  the service changes there.

## 8. Plan

In order of importance; all but 8 and 10 are done as described above, and proved (see 5)
throughout.

1. EstimatesTable, EstimatesRefresh, EstimatesRefreshProofs – the concurrent core.
2. LoadData – the start over the life of a data directory.
3. CacheFile – several workers on one file.
4. Lookup – the answers.
5. TokenBypass – tokens and their refresh.
6. PostalPatterns – from what is typed to the first tier.
7. RateLimit – the limit, its fallback and the exemption.
8. *Service* – composes the lifespan (load, first token refresh, bootstrap, serve,
   stop) from the abstract modules: no request is served from tables not yet built;
   `/health` agrees with the components.
9. LoadData – `import_estimates.py` as an action, a database made by the script alone;
   CacheFile – the later opens of one start. Left: a corrupt database.
10. An abstract *AtomicCache* that CacheFile implements for one worker.

A theorem to come with 10: that a worker alone implements AtomicCache, for which
`AloneOK` of CacheFileProofs is the mapping's invariant.

## 9. Running it

    tlc -workers 2 -config EstimatesRefresh_all.cfg MCEstimatesRefresh
    for m in EstimatesRefresh RateLimit TokenBypass CacheFile LoadData Lookup PostalText PostalPatterns
    do tlapm ${m}Proofs.tla; done

Each run's module and configuration are listed under `runs` in `PROJECT.json`; the
largest are `load_safety` (6.6 million states, over three minutes) and `cache_safety`
(3.5 million); `refresh_all` takes a minute for its 185 thousand, most of it on liveness. `map` names the lines each definition stands for.
