-------------------------- MODULE EstimatesRefresh --------------------------
(***************************************************************************)
(* The refresh of the in-memory estimates table from a remote CSV          *)
(* (app/estimates_refresh.py), with its callers in app/main.py: the        *)
(* bootstrap of the lifespan, the periodic task, and the requests to       *)
(* POST /admin/refresh-estimates.                                          *)
(*                                                                         *)
(* The callers are coroutines of one event loop.  Between two awaits a     *)
(* coroutine is not interrupted by another coroutine, but the swap of the  *)
(* table is visible, step by step, to the lookups, which run in threads.   *)
(* The upstream server publishes bodies, answers conditional requests and  *)
(* fails.  An ETag and a Last-Modified date are one validator here, which  *)
(* names the body it was sent with.  The URL setting is set; without it    *)
(* every operation of this module is a no-op ("disabled").                 *)
(***************************************************************************)
EXTENDS Naturals, Sequences, FiniteSets

CONSTANTS Keys,          \* the (country, postal code) pairs
          ExactKeys,     \* those with an exact TERCET match: _lookup never changes here
          Estimates,     \* the values of the table's rows
          NoEst,         \* no row for this key
          Bundled,       \* the revalidated table load_data left behind
          Bodies,        \* the CSV bodies the upstream may publish
          NoBody,        \* None, for _last_hash, the validators and the responses
          Malformed,     \* bodies whose parse raises an exception the refresh handles
          ShortRow,      \* bodies with a short row: the parse raises AttributeError
          Rows,          \* the table parse_estimates_from_text makes of any other body
          Admins,        \* concurrent requests to the admin endpoint
          Loop,          \* the periodic task
          Boot,          \* the bootstrap refresh of the lifespan
          MaxVersions    \* bound on the number of publications

Callers == Admins \cup {Loop, Boot}
Tables == [Keys -> Estimates \cup {NoEst}]
Parsable == Bodies \ (Malformed \cup ShortRow)

ASSUME KeysAssumption == IsFiniteSet(Keys) /\ ExactKeys \subseteq Keys
ASSUME EstimatesAssumption == NoEst \notin Estimates
ASSUME BodiesAssumption == /\ NoBody \notin Bodies
                           /\ Malformed \subseteq Bodies
                           /\ ShortRow \subseteq Bodies
                           /\ Malformed \cap ShortRow = {}
ASSUME CallersAssumption == Loop # Boot /\ Loop \notin Admins /\ Boot \notin Admins
ASSUME MaxVersionsAssumption == MaxVersions \in Nat \ {0}
ASSUME RowsAssumption == Rows \in [Bodies -> Tables]
ASSUME BundledAssumption == /\ Bundled \in Tables
                            /\ \A k \in ExactKeys : Bundled[k] = NoEst

VARIABLES
  phase,      \* "boot" | "serving" | "stopping": where the lifespan is
  pc,         \* where each caller is in refresh_estimates_once
  queue,      \* _refresh_lock: the holder, then the waiting callers in order of arrival
  prev,       \* previous_count of each caller
  sentTag,    \* the validator each caller's request carried
  resp,       \* the response each caller's request got
  outcome,    \* the status of the RefreshResult each caller got last
  estimates,  \* _estimates
  lastHash,   \* _last_hash: the body it is the digest of
  lastTag,    \* _last_etag and _last_modified
  stale,      \* _stale
  log,        \* upstream: the bodies published so far, oldest first
  \* History, read by no guard:
  shown,      \* the newest version in log the table is known to equal, 0 = bundled
  before,     \* the table before the swap in progress
  asked,      \* the version published when each caller asked for a refresh
  attempt     \* the outcome of the attempt that ended last

vars == <<phase, pc, queue, prev, sentTag, resp, outcome, estimates, lastHash,
          lastTag, stale, log, shown, before, asked, attempt>>

Published == log[Len(log)]
NoResponse == [status |-> "none", body |-> NoBody, tag |-> NoBody, ver |-> 0]
Responses == [status : {"none", "200", "304", "error"}, body : Bodies \cup {NoBody},
              tag : Bodies \cup {NoBody}, ver : Nat]
Outcomes == {"none", "refreshed", "unchanged", "failed", "rejected", "crashed"}

(* len(_estimates) *)
Size(t) == Cardinality({k \in Keys : t[k] # NoEst})

(* What _revalidate_estimates leaves of a table, which is also what a lookup *)
(* finds in it: the exact tier answers the other keys first.                 *)
Revalidated(t) == [k \in Keys |-> IF k \in ExactKeys THEN NoEst ELSE t[k]]

(* Mutant: clear() forgets the rows revalidation will delete anyway. *)
M_EmptyTable == [k \in Keys \ ExactKeys |-> NoEst]

EmptyTable == [k \in Keys |-> NoEst]

(* The table of a body once the refresh has applied it. *)
TableOf == [b \in Bodies |-> Revalidated(Rows[b])]

(* The 50% floor on the rows of the candidate; an empty table accepts all. *)
PassesSanityGuard(new, current) == current = 0 \/ 2 * new >= current

(* Mutant: no lock, any caller in the queue goes ahead. *)
M_HoldsLock(c) == queue # <<>>

(* A caller owns _refresh_lock when it heads the queue of acquirers. *)
HoldsLock(c) == queue # <<>> /\ Head(queue) = c

Swapping == \E c \in Callers : pc[c] \in {"cleared", "merged"}

(* A coroutine in the middle of a swap does not yield the event loop. *)
EventLoopFree == ~Swapping

(***************************************************************************)
(* Start-up: every module-level variable is new.                           *)
(***************************************************************************)
Init == /\ phase = "boot"
        /\ pc = [c \in Callers |-> "idle"]
        /\ queue = <<>>
        /\ prev = [c \in Callers |-> 0]
        /\ sentTag = [c \in Callers |-> NoBody]
        /\ resp = [c \in Callers |-> NoResponse]
        /\ outcome = [c \in Callers |-> "none"]
        /\ estimates = Bundled
        /\ lastHash = NoBody
        /\ lastTag = NoBody
        /\ stale = "None"
        /\ log \in {<<b>> : b \in Bodies}
        /\ shown = 0
        /\ before = Bundled
        /\ asked = [c \in Callers |-> 0]
        /\ attempt = "none"

(***************************************************************************)
(* refresh_estimates_once.  The bootstrap runs before the application      *)
(* serves, the others after.                                               *)
(***************************************************************************)
MayCall(c) == phase = (IF c = Boot THEN "boot" ELSE "serving")

(* The call: a first previous_count, up to the acquisition of the lock. *)
Call(c) == /\ pc[c] = "idle" /\ MayCall(c) /\ EventLoopFree
           /\ pc' = [pc EXCEPT ![c] = "waiting"]
           /\ queue' = Append(queue, c)
           /\ prev' = [prev EXCEPT ![c] = Size(estimates)]
           /\ asked' = [asked EXCEPT ![c] = Len(log)]
           /\ outcome' = [outcome EXCEPT ![c] = "none"]
           /\ UNCHANGED <<phase, sentTag, resp, estimates, lastHash, lastTag,
                          stale, log, shown, before, attempt>>

(* Mutant: previous_count is not computed again with the lock held. *)
M_Fetch(c) == /\ pc[c] = "waiting" /\ HoldsLock(c) /\ EventLoopFree
              /\ pc' = [pc EXCEPT ![c] = "fetching"]
              /\ sentTag' = [sentTag EXCEPT ![c] = lastTag]
              /\ UNCHANGED <<phase, queue, prev, resp, outcome, estimates, lastHash,
                             lastTag, stale, log, shown, before, asked, attempt>>

(* With the lock held: previous_count again, and the conditional request. *)
Fetch(c) == /\ pc[c] = "waiting" /\ HoldsLock(c) /\ EventLoopFree
            /\ pc' = [pc EXCEPT ![c] = "fetching"]
            /\ prev' = [prev EXCEPT ![c] = Size(estimates)]
            /\ sentTag' = [sentTag EXCEPT ![c] = lastTag]
            /\ UNCHANGED <<phase, queue, resp, outcome, estimates, lastHash, lastTag,
                           stale, log, shown, before, asked, attempt>>

(* The attempt ends with an exit of "async with _refresh_lock" and of the   *)
(* call, its local variables with it.  The end of the bootstrap, whatever   *)
(* its outcome, opens the application.                                      *)
Return(c, status) == /\ pc' = [pc EXCEPT ![c] = "idle"]
                     /\ queue' = Tail(queue)
                     /\ outcome' = [outcome EXCEPT ![c] = status]
                     /\ attempt' = status
                     /\ phase' = IF c = Boot THEN "serving" ELSE phase
                     /\ prev' = [prev EXCEPT ![c] = 0]
                     /\ sentTag' = [sentTag EXCEPT ![c] = NoBody]
                     /\ resp' = [resp EXCEPT ![c] = NoResponse]
                     /\ UNCHANGED <<log, asked>>

(* Conditions on the response c is about to handle. *)
Got(c, status) == pc[c] = "fetching" /\ EventLoopFree /\ resp[c].status = status
GotNew(c) == Got(c, "200") /\ resp[c].body # lastHash

(* A 304, or a body with the digest of the one applied last. *)
Unchanged(c) == /\ \/ Got(c, "304")
                   \/ Got(c, "200") /\ resp[c].body = lastHash
                /\ Return(c, "unchanged")
                /\ stale' = "False"
                /\ shown' = resp[c].ver
                /\ UNCHANGED <<estimates, lastHash, lastTag, before>>

(* Any other status, a transport error, or a parse error the code handles. *)
Failed(c) == /\ \/ Got(c, "error")
                \/ GotNew(c) /\ resp[c].body \in Malformed
             /\ Return(c, "failed")
             /\ stale' = "True"
             /\ UNCHANGED <<estimates, lastHash, lastTag, shown, before>>

(* Mutant: a crash is retried at once, with the lock held. *)
M_Crashed(c) == /\ GotNew(c) /\ resp[c].body \in ShortRow
                /\ pc' = [pc EXCEPT ![c] = "waiting"]
                /\ resp' = [resp EXCEPT ![c] = NoResponse]
                /\ UNCHANGED <<phase, queue, prev, sentTag, outcome, estimates, lastHash,
                               lastTag, stale, log, shown, before, asked, attempt>>

(* A short row: AttributeError leaves refresh_estimates_once.  The lifespan  *)
(* catches it and sets _stale; the loop logs it; the endpoint answers 500.   *)
Crashed(c) == /\ GotNew(c) /\ resp[c].body \in ShortRow
              /\ Return(c, "crashed")
              /\ stale' = IF c = Boot THEN "True" ELSE stale
              /\ UNCHANGED <<estimates, lastHash, lastTag, shown, before>>

(* Mutant: only a growing table is accepted. *)
M_AcceptsGrowth(c) == Size(Rows[resp[c].body]) > prev[c]

Accepts(c) == PassesSanityGuard(Size(Rows[resp[c].body]), prev[c])

(* Mutant: the digest and validator are stored before the guard runs. *)
M_Rejected(c) == /\ GotNew(c) /\ resp[c].body \in Parsable /\ ~Accepts(c)
                 /\ Return(c, "rejected")
                 /\ stale' = "True"
                 /\ lastHash' = resp[c].body
                 /\ lastTag' = resp[c].tag
                 /\ UNCHANGED <<estimates, shown, before>>

Rejected(c) == /\ GotNew(c) /\ resp[c].body \in Parsable /\ ~Accepts(c)
               /\ Return(c, "rejected")
               /\ stale' = "True"
               /\ UNCHANGED <<estimates, lastHash, lastTag, shown, before>>

(* The swap under _data_lock, one action per step a thread can observe:      *)
(* clear(), update(), then one deletion per row that has an exact match.     *)
SwapClear(c) == /\ GotNew(c) /\ resp[c].body \in Parsable /\ Accepts(c)
                /\ pc' = [pc EXCEPT ![c] = "cleared"]
                /\ estimates' = EmptyTable
                /\ before' = estimates
                /\ UNCHANGED <<phase, queue, prev, sentTag, resp, outcome, lastHash,
                               lastTag, stale, log, shown, asked, attempt>>

(* Mutant: update() without clear(), the rows that disappeared stay. *)
M_SwapUpdate(c) ==
  /\ pc[c] = "cleared"
  /\ pc' = [pc EXCEPT ![c] = "merged"]
  /\ estimates' = [k \in Keys |-> IF Rows[resp[c].body][k] = NoEst
                                  THEN before[k] ELSE Rows[resp[c].body][k]]
  /\ UNCHANGED <<phase, queue, prev, sentTag, resp, outcome, lastHash, lastTag, stale,
                 log, shown, before, asked, attempt>>

SwapUpdate(c) == /\ pc[c] = "cleared"
                 /\ pc' = [pc EXCEPT ![c] = "merged"]
                 /\ estimates' = Rows[resp[c].body]
                 /\ UNCHANGED <<phase, queue, prev, sentTag, resp, outcome, lastHash,
                                lastTag, stale, log, shown, before, asked, attempt>>

(* Mutant: revalidation deletes nothing. *)
M_RedundantNever(k) == FALSE

Redundant(k) == k \in ExactKeys /\ estimates[k] # NoEst

SwapDelete(c) == /\ pc[c] = "merged"
                 /\ \E k \in Keys : /\ Redundant(k)
                                    /\ estimates' = [estimates EXCEPT ![k] = NoEst]
                 /\ UNCHANGED <<phase, pc, queue, prev, sentTag, resp, outcome,
                                lastHash, lastTag, stale, log, shown, before, asked,
                                attempt>>

SwapEnd(c) == /\ pc[c] = "merged" /\ ~\E k \in Keys : Redundant(k)
              /\ Return(c, "refreshed")
              /\ lastHash' = resp[c].body
              /\ lastTag' = resp[c].tag
              /\ stale' = "False"
              /\ shown' = resp[c].ver
              /\ UNCHANGED <<estimates, before>>

(* The status POST /admin/refresh-estimates answers for an outcome. *)
AdminReply(status) == CASE status \in {"refreshed", "unchanged"} -> 200
                        [] status = "rejected" -> 409
                        [] status = "failed"   -> 502
                        [] status = "crashed"  -> 500
                        [] OTHER               -> 0

(***************************************************************************)
(* The upstream server and the network.                                    *)
(***************************************************************************)
Publish == /\ Len(log) < MaxVersions
           /\ \E b \in Bodies : log' = Append(log, b)
           /\ UNCHANGED <<phase, pc, queue, prev, sentTag, resp, outcome, estimates,
                          lastHash, lastTag, stale, shown, before, asked, attempt>>

Answer(c, status, body, tag) ==
  /\ pc[c] = "fetching" /\ resp[c] = NoResponse
  /\ resp' = [resp EXCEPT ![c] = [status |-> status, body |-> body, tag |-> tag,
                                  ver |-> Len(log)]]
  /\ UNCHANGED <<phase, pc, queue, prev, sentTag, outcome, estimates, lastHash,
                 lastTag, stale, log, shown, before, asked, attempt>>

(* 200 with the published body, with or without a validator for it. *)
AnswerOk(c) == \E tag \in {Published, NoBody} : Answer(c, "200", Published, tag)

(* 304 when the validator of the request names the published body. *)
AnswerNotModified(c) == /\ sentTag[c] = Published
                        /\ Answer(c, "304", NoBody, NoBody)

(* Any other status, a transport error, or a timeout: connecting, sending   *)
(* and each read may take 10 s, the response as a whole any time, so that   *)
(* nothing in the code makes one of the answers happen.                     *)
AnswerError(c) == Answer(c, "error", NoBody, NoBody)

(***************************************************************************)
(* The end of the lifespan: uvicorn lets the requests finish, the periodic *)
(* task is cancelled at its await (the sleep, the lock or the fetch), and  *)
(* the process is started again.                                           *)
(***************************************************************************)
Shutdown == /\ phase = "serving" /\ EventLoopFree
            /\ \A a \in Admins : pc[a] = "idle"
            /\ phase' = "stopping"
            /\ pc' = [pc EXCEPT ![Loop] = "idle"]
            /\ queue' = <<>>
            /\ prev' = [prev EXCEPT ![Loop] = 0]
            /\ sentTag' = [sentTag EXCEPT ![Loop] = NoBody]
            /\ resp' = [resp EXCEPT ![Loop] = NoResponse]
            /\ UNCHANGED <<outcome, estimates, lastHash, lastTag, stale, log, shown,
                           before, asked, attempt>>

Restart == /\ phase = "stopping"
           /\ phase' = "boot"
           /\ outcome' = [c \in Callers |-> "none"]
           /\ estimates' = Bundled
           /\ lastHash' = NoBody
           /\ lastTag' = NoBody
           /\ stale' = "None"
           /\ shown' = 0
           /\ before' = Bundled
           /\ asked' = [c \in Callers |-> 0]
           /\ attempt' = "none"
           /\ UNCHANGED <<pc, queue, prev, sentTag, resp, log>>

Handle(c) == \/ Unchanged(c) \/ Failed(c) \/ Crashed(c) \/ Rejected(c)
             \/ SwapClear(c) \/ SwapUpdate(c) \/ SwapDelete(c) \/ SwapEnd(c)

Refresh(c) == Call(c) \/ Fetch(c) \/ Handle(c)

Server == \/ Publish
          \/ \E c \in Callers : AnswerOk(c) \/ AnswerNotModified(c) \/ AnswerError(c)

Next == (\E c \in Callers : Refresh(c)) \/ Server \/ Shutdown \/ Restart

Spec == Init /\ [][Next]_vars

(***************************************************************************)
(* Fairness.  The event loop runs every ready coroutine (asyncio.Lock      *)
(* wakes its waiters in order of arrival), and the periodic task calls     *)
(* again after each sleep.  What the server does is an assumption on the   *)
(* environment, kept apart: that it ends every request, one way or the     *)
(* other, and that the periodic task gets an answer now and then.          *)
(***************************************************************************)
EventLoopFairness == \A c \in Callers : WF_vars(Fetch(c)) /\ WF_vars(Handle(c))
LoopFairness == WF_vars(Call(Loop)) /\ WF_vars(Call(Boot))
UpstreamEnds == \A c \in Callers :
  WF_vars(AnswerOk(c) \/ AnswerNotModified(c) \/ AnswerError(c))
UpstreamAnswers == SF_vars(AnswerOk(Loop) \/ AnswerNotModified(Loop))

FairSpec == Spec /\ EventLoopFairness /\ LoopFairness

(***************************************************************************)
(* Type invariant.                                                         *)
(***************************************************************************)
TypeOK == /\ phase \in {"boot", "serving", "stopping"}
          /\ pc \in [Callers -> {"idle", "waiting", "fetching", "cleared", "merged"}]
          /\ queue \in Seq(Callers)
          /\ prev \in [Callers -> Nat]
          /\ sentTag \in [Callers -> Bodies \cup {NoBody}]
          /\ resp \in [Callers -> Responses]
          /\ outcome \in [Callers -> Outcomes]
          /\ estimates \in Tables
          /\ lastHash \in Bodies \cup {NoBody}
          /\ lastTag \in Bodies \cup {NoBody}
          /\ stale \in {"None", "True", "False"}
          /\ log \in Seq(Bodies) /\ log # <<>>
          /\ shown \in Nat
          /\ before \in Tables
          /\ asked \in [Callers -> Nat]
          /\ attempt \in Outcomes

(***************************************************************************)
(* Safety.                                                                 *)
(***************************************************************************)
(* At most one attempt is past the lock: what _refresh_lock, held across   *)
(* the await of the fetch, is for (estimates_refresh.py:36-41).            *)
OneAttemptAtATime == \A c, d \in Callers :
  pc[c] \notin {"idle", "waiting"} /\ pc[d] \notin {"idle", "waiting"} => c = d

(* The table a body stands for, or the bundled one before any was applied. *)
TableFor(hash) == IF hash = NoBody THEN Bundled ELSE TableOf[hash]

(* Outside a swap the table is exactly the revalidated table of the body   *)
(* _last_hash is the digest of, so that "unchanged" is the right answer to *)
(* a body with that digest; a validator only ever names that same body, so *)
(* that a 304 is too.                                                      *)
TableIsLastBody == /\ ~Swapping => estimates = TableFor(lastHash)
                   /\ lastTag # NoBody => lastTag = lastHash

(* A caller told that the refresh succeeded (200 from the endpoint) is     *)
(* served a table at least as new as what was published when it called.    *)
SuccessIsFresh == \A c \in Callers :
  AdminReply(outcome[c]) = 200 => asked[c] <= shown

(***************************************************************************)
(* Action properties.                                                      *)
(***************************************************************************)
(* Only a restart takes the table back to an older version: an older       *)
(* response never overwrites newer state (estimates_refresh.py:36-40).     *)
NeverOlder == [][phase' # "boot" => shown <= shown']_vars

SwapEnds == Swapping /\ ~Swapping'

(* Every swap met the floor against the table it actually replaced, which  *)
(* may have changed while the caller waited for the lock                   *)
(* (estimates_refresh.py:117-120).                                         *)
FloorOnReplacedTable ==
  [][SwapEnds => PassesSanityGuard(Size(Rows[lastHash']), Size(before))]_vars

(* A failed, rejected or crashed attempt leaves the table and the digest   *)
(* and validator it goes with as they were: the body is probed again.      *)
FailureKeepsState ==
  [][\A c \in Callers :
       outcome'[c] # outcome[c] /\ outcome'[c] \in {"failed", "rejected", "crashed"}
         => UNCHANGED <<estimates, lastHash, lastTag, shown>>]_vars

(***************************************************************************)
(* Liveness.                                                               *)
(***************************************************************************)
(* If the upstream ends every request, every attempt ends, those queueing  *)
(* for the lock included: no exit of an attempt, the unforeseen exceptions *)
(* among them, leaves the lock held (estimates_refresh.py:116-210).        *)
EveryAttemptEnds == UpstreamEnds =>
  \A c \in Callers : pc[c] = "waiting" ~> pc[c] = "idle"

(* Bodies every table the service may hold lets through the floor. *)
Acceptable(b) == /\ b \in Parsable
                 /\ PassesSanityGuard(Size(Rows[b]), Size(Bundled))
                 /\ \A d \in Parsable :
                      PassesSanityGuard(Size(Rows[b]), Size(TableOf[d]))

(* If the upstream settles on an acceptable body and ends every request,   *)
(* some of the task's with an answer, and the service stays up, then the   *)
(* table settles on that body, whatever failed, was rejected or crashed    *)
(* before, and /health never reports it stale for good.                    *)
Converges == UpstreamEnds /\ UpstreamAnswers => \A b \in {d \in Bodies : Acceptable(d)} :
  <>[](phase = "serving" /\ Published = b)
    => /\ <>[](lastHash = b /\ ~Swapping /\ estimates = TableOf[b])
       /\ []<>(stale = "False")

(***************************************************************************)
(* What the documents say and the code does not do.                        *)
(***************************************************************************)
(* "A bad upstream fetch (empty, half-truncated, parse error) cannot wipe  *)
(* out the in-memory estimates table" (specs/2026-05-01-estimates-         *)
(* periodic-refresh-design.md:16): a body that is a truncation of the one  *)
(* applied before never empties a table that has rows.                     *)
Truncates(new, old) == /\ \A k \in Keys : Rows[new][k] \in {Rows[old][k], NoEst}
                       /\ 2 * Size(Rows[new]) < Size(Rows[old])
TruncationNeverWipes ==
  [][SwapEnds /\ lastHash # NoBody /\ Truncates(lastHash', lastHash) /\ Size(before) > 0
       => Size(estimates') > 0]_vars

(* "`false` after a successful most-recent refresh, `true` after a failed   *)
(* one" (README.md:460), "`True` after any error path" (the design document *)
(* above, line 44): what /health reports is how the last attempt ended.     *)
StaleTellsLastAttempt ==
  /\ attempt \in {"refreshed", "unchanged"} => stale = "False"
  /\ attempt \in {"failed", "rejected", "crashed"} => stale = "True"

(***************************************************************************)
(* The abstract table, as the lookup threads find it at every instant of a *)
(* swap.  clear() and update() are one step each under the interpreter     *)
(* lock.  In between the table is withdrawn; once update() is through it   *)
(* is the new one, for the rows still to be deleted are never reached.     *)
(***************************************************************************)
Abstract == INSTANCE EstimatesTable WITH
  Empty <- EmptyTable,
  table <- Revalidated(estimates),
  gap <- \E c \in Callers : pc[c] = "cleared",
  shown <- IF \E c \in Callers : pc[c] = "merged" THEN resp[Head(queue)].ver ELSE shown

(* A lookup, in whatever step of a refresh it falls, is answered from the  *)
(* bundled table, from the whole table of one published body, never older  *)
(* than the one before, or, between clear() and update() only, from none   *)
(* (estimates_refresh.py:192-195).                                         *)
ImplementsTable == Abstract!Spec
=============================================================================
