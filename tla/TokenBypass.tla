----------------------------- MODULE TokenBypass -----------------------------
(***************************************************************************)
(* The trusted tokens that lift the rate limit: the registry in a remote   *)
(* database (app/token_db.py), the operator's command line on it           *)
(* (scripts/tokens.py), the set each worker keeps and refreshes            *)
(* (app/auth.py, the refresh task of app/main.py), and the middleware that *)
(* decides how a request is treated.                                       *)
(*                                                                         *)
(* The registry runs one statement at a time.  A command or a refresh may  *)
(* fail before the statement or lose its answer after it.                  *)
(***************************************************************************)
EXTENDS Naturals, Sequences

CONSTANTS Workers,    \* the worker processes
          Requests,   \* requests in progress
          Values,     \* token values
          EnvTokens,  \* settings.trusted_tokens
          NoHeader,   \* a request without an Authorization header
          BadHeader,  \* a request with a malformed one
          MaxRows     \* bound on the rows of the registry

ASSUME EnvAssumption == EnvTokens \subseteq Values
ASSUME HeaderAssumption == NoHeader \notin Values /\ BadHeader \notin Values
ASSUME MaxRowsAssumption == MaxRows \in Nat

VARIABLES
  schema,   \* whether the table trusted_tokens exists
  rows,     \* trusted_tokens, by id: value and whether revoked_at is null
  said,     \* what the last command printed
  phase,    \* per worker: "down", "starting" (before the yield) or "serving"
  refresh,  \* per worker: where refresh_db_tokens is
  reply,    \* per worker: the values list_active returned
  cache,    \* per worker: _db_tokens
  stale,    \* per worker: _token_db_stale
  request,  \* per request: its stage, worker and token
  \* History, read by no guard:
  asked     \* per worker: the rows when the refresh that was installed last was
            \* asked for, and when the one in progress was

vars == <<schema, rows, said, phase, refresh, reply, cache, stale, request, asked>>

Row == [value : Values, active : BOOLEAN]
Headers == Values \cup {NoHeader, BadHeader}
Idle == [stage |-> "idle"]
Stages == {"deciding", "anonymous", "trusted", "refused", "malformed"}

ValuesOf(rs) == {rs[i].value : i \in 1..Len(rs)}

(* Mutant: revoked rows are listed too. *)
M_ListActive(rs) == ValuesOf(rs)

(* Mutant: the set is built of rows instead of their values. *)
M_ListRows(rs) == {rs[i] : i \in {j \in 1..Len(rs) : rs[j].active}}

(* list_active: the rows whose revoked_at is null. *)
ListActive(rs) == {rs[i].value : i \in {j \in 1..Len(rs) : rs[j].active}}
Revoked(rs) == {rs[i].value : i \in {j \in 1..Len(rs) : ~rs[j].active}}

Init == /\ schema = FALSE
        /\ rows = <<>>
        /\ said = "nothing"
        /\ phase = [w \in Workers |-> "down"]
        /\ refresh = [w \in Workers |-> "idle"]
        /\ reply = [w \in Workers |-> {}]
        /\ cache = [w \in Workers |-> {}]
        /\ stale = [w \in Workers |-> FALSE]
        /\ request = [r \in Requests |-> Idle]
        /\ asked = [w \in Workers |-> [done |-> <<>>, now |-> <<>>]]

-----------------------------------------------------------------------------
(* The registry and the command line.                                      *)

(* Mutant: a value is unique among the active rows only. *)
M_Fresh(v) == v \notin ListActive(rows)

(* The UNIQUE constraint covers revoked rows. *)
Fresh(v) == v \notin ValuesOf(rows)

(* The command sees the answer of its statement, or an error. *)
Prints(answer) == said' \in {answer, "error"}

Silent == UNCHANGED <<phase, refresh, reply, cache, stale, request, asked>>

(* tokens init, idempotent. *)
InitSchema == /\ schema' = TRUE
              /\ Prints("initialised")
              /\ UNCHANGED rows
              /\ Silent

(* tokens add, with a new value or a given one. *)
Add(v) == /\ schema
          /\ \/ /\ Fresh(v) /\ Len(rows) < MaxRows
                /\ rows' = Append(rows, [value |-> v, active |-> TRUE])
                /\ Prints("generated")
             \/ ~Fresh(v) /\ said' = "error" /\ UNCHANGED rows
          /\ UNCHANGED schema
          /\ Silent

(* tokens revoke, idempotent; an id no row has is taken for revoked. *)
Revoke(i) == /\ schema
             /\ \/ /\ i <= Len(rows) /\ rows[i].active
                   /\ rows' = [rows EXCEPT ![i] = [value |-> @.value, active |-> FALSE]]
                   /\ Prints("revoked")
                \/ /\ i <= Len(rows) => ~rows[i].active
                   /\ Prints("already_revoked")
                   /\ UNCHANGED rows
             /\ UNCHANGED schema
             /\ Silent

(* tokens list, of the active rows or of all. *)
List(all) == /\ schema
             /\ Prints(IF rows = <<>> \/ (~all /\ ListActive(rows) = {}) THEN "no_tokens" ELSE "listed")
             /\ UNCHANGED <<schema, rows>>
             /\ Silent

(* A value that is not at least 32 hex digits never reaches the registry.   *)
AddMalformed == said' = "usage" /\ UNCHANGED <<schema, rows>> /\ Silent

(* The request is lost before the statement runs, or there is no table. *)
CommandFails == said' = "error" /\ UNCHANGED <<schema, rows>> /\ Silent

-----------------------------------------------------------------------------
(* A worker: its start, its refresh task, its end.                         *)

Start(w) == /\ phase[w] = "down"
            /\ phase' = [phase EXCEPT ![w] = "starting"]
            /\ UNCHANGED <<schema, rows, said, refresh, reply, cache, stale, request, asked>>

(* refresh_db_tokens, in a thread: first before the yield, then every       *)
(* token_refresh_seconds; the task waits for one refresh before the next.   *)
Ask(w) == /\ phase[w] # "down" /\ refresh[w] = "idle"
          /\ refresh' = [refresh EXCEPT ![w] = "asking"]
          /\ asked' = [asked EXCEPT ![w].now = rows]
          /\ UNCHANGED <<schema, rows, said, phase, reply, cache, stale, request>>

ListOk(w) == /\ refresh[w] = "asking" /\ schema
             /\ refresh' = [refresh EXCEPT ![w] = "listed"]
             /\ reply' = [reply EXCEPT ![w] = ListActive(rows)]
             /\ UNCHANGED <<schema, rows, said, phase, cache, stale, request, asked>>

(* Any exception of list_active, a missing table too: the set is kept. *)
ListFails(w) == /\ refresh[w] = "asking"
                /\ refresh' = [refresh EXCEPT ![w] = "idle"]
                /\ stale' = [stale EXCEPT ![w] = TRUE]
                /\ phase' = [phase EXCEPT ![w] = "serving"]
                /\ UNCHANGED <<schema, rows, said, reply, cache, request, asked>>

(* Mutant: the new values are added to the set. *)
M_Install(w) == /\ refresh[w] = "listed"
                /\ refresh' = [refresh EXCEPT ![w] = "installed"]
                /\ cache' = [cache EXCEPT ![w] = @ \cup reply[w]]
                /\ asked' = [asked EXCEPT ![w].done = asked[w].now]
                /\ UNCHANGED <<schema, rows, said, phase, reply, stale, request>>

(* Mutant: the set is loaded once, and only later kept up by hand. *)
M_InstallOnce(w) == /\ refresh[w] = "listed"
                    /\ refresh' = [refresh EXCEPT ![w] = "installed"]
                    /\ cache' = [cache EXCEPT ![w] = IF @ = {} THEN reply[w] ELSE @]
                    /\ asked' = [asked EXCEPT ![w].done = asked[w].now]
                    /\ UNCHANGED <<schema, rows, said, phase, reply, stale, request>>

(* _db_tokens is replaced, then the flag is cleared: two assignments that a *)
(* request on the event loop may fall between.                              *)
Install(w) == /\ refresh[w] = "listed"
              /\ refresh' = [refresh EXCEPT ![w] = "installed"]
              /\ cache' = [cache EXCEPT ![w] = reply[w]]
              /\ asked' = [asked EXCEPT ![w].done = asked[w].now]
              /\ UNCHANGED <<schema, rows, said, phase, reply, stale, request>>

ClearStale(w) == /\ refresh[w] = "installed"
                 /\ refresh' = [refresh EXCEPT ![w] = "idle"]
                 /\ reply' = [reply EXCEPT ![w] = {}]
                 /\ stale' = [stale EXCEPT ![w] = FALSE]
                 /\ phase' = [phase EXCEPT ![w] = "serving"]
                 /\ UNCHANGED <<schema, rows, said, cache, request, asked>>

(* The process ends, with its requests and its set. *)
Stop(w) == /\ phase[w] # "down"
           /\ phase' = [phase EXCEPT ![w] = "down"]
           /\ refresh' = [refresh EXCEPT ![w] = "idle"]
           /\ reply' = [reply EXCEPT ![w] = {}]
           /\ cache' = [cache EXCEPT ![w] = {}]
           /\ stale' = [stale EXCEPT ![w] = FALSE]
           /\ request' = [r \in Requests |->
                IF request[r] # Idle /\ request[r].worker = w THEN Idle ELSE request[r]]
           /\ asked' = [asked EXCEPT ![w] = [done |-> <<>>, now |-> <<>>]]
           /\ UNCHANGED <<schema, rows, said>>

-----------------------------------------------------------------------------
(* AuthMiddleware.dispatch, outside /health.                               *)

Trusted(w) == cache[w] \cup EnvTokens

(* The set is empty: the header is ignored.  Else the header is parsed, and *)
(* a token is looked up in the set as it is then.                           *)
Arrive(r, w, h) ==
  /\ request[r] = Idle /\ phase[w] = "serving"
  /\ request' = [request EXCEPT ![r] =
       [worker |-> w, header |-> h,
        stage |-> IF Trusted(w) = {} \/ h = NoHeader THEN "anonymous"
                  ELSE IF h = BadHeader THEN "malformed" ELSE "deciding"]]
  /\ UNCHANGED <<schema, rows, said, phase, refresh, reply, cache, stale, asked>>

(* Mutant: the lookup forgets the tokens of the environment. *)
M_Verdict(w, h) == IF h \in cache[w] THEN "trusted" ELSE "refused"

(* is_trusted: it reads the set again. *)
Verdict(w, h) == IF h \in Trusted(w) THEN "trusted" ELSE "refused"

Decide(r) ==
  /\ request[r].stage = "deciding"
  /\ request' = [request EXCEPT ![r].stage = Verdict(request[r].worker, request[r].header)]
  /\ UNCHANGED <<schema, rows, said, phase, refresh, reply, cache, stale, asked>>

(* The answer goes out. *)
Answered(r) == /\ request[r].stage \in Stages \ {"deciding"}
               /\ request' = [request EXCEPT ![r] = Idle]
               /\ UNCHANGED <<schema, rows, said, phase, refresh, reply, cache, stale, asked>>

Next == \/ \E v \in Values : Add(v)
        \/ \E i \in 1..MaxRows : Revoke(i)
        \/ \E all \in BOOLEAN : List(all)
        \/ InitSchema \/ AddMalformed \/ CommandFails
        \/ \E w \in Workers : \/ Start(w) \/ Ask(w) \/ ListOk(w) \/ ListFails(w)
                              \/ Install(w) \/ ClearStale(w) \/ Stop(w)
        \/ \E r \in Requests : \/ \E w \in Workers, h \in Headers : Arrive(r, w, h)
                               \/ Decide(r) \/ Answered(r)

Spec == Init /\ [][Next]_vars

(* The refresh task of a worker runs again and again, and of the statements *)
(* it sends infinitely many are answered.                                   *)
FairSpec == /\ Spec
            /\ \A w \in Workers : /\ WF_vars(Ask(w))
                                  /\ SF_vars(ListOk(w))
                                  /\ WF_vars(Install(w))
                                  /\ WF_vars(ClearStale(w))
-----------------------------------------------------------------------------
TypeOK ==
  /\ schema \in BOOLEAN
  /\ rows \in Seq(Row) /\ (rows # <<>> => schema)
  /\ said \in {"nothing", "initialised", "generated", "revoked", "already_revoked",
              "listed", "no_tokens", "usage", "error"}
  /\ phase \in [Workers -> {"down", "starting", "serving"}]
  /\ refresh \in [Workers -> {"idle", "asking", "listed", "installed"}]
  /\ reply \in [Workers -> SUBSET Values]
  /\ cache \in [Workers -> SUBSET Values]
  /\ stale \in [Workers -> BOOLEAN]
  /\ request \in [Requests ->
       {Idle} \cup [worker : Workers, header : Headers, stage : Stages]]
  /\ asked \in [Workers -> [done : Seq(Row), now : Seq(Row)]]

(* A set is never more than one refresh behind: it holds no value that was  *)
(* revoked when the refresh it comes from was asked for, and every value    *)
(* that was active then and still is.                                       *)
WithinOneRefresh == \A w \in Workers :
  LET then == asked[w].done IN
  /\ cache[w] \cap Revoked(then) = {}
  /\ ListActive(then) \cap ListActive(rows) \subseteq cache[w]

(* An answer is right as of the last refresh: a token is trusted only if it *)
(* is in the environment or was not revoked when that refresh was asked     *)
(* for, and refused only if it is not in the environment and was not active *)
(* from then on.                                                            *)
VerdictIsCurrent == [][\A r \in Requests :
  LET h == request[r].header
      then == asked[request[r].worker].done
  IN  request[r] # Idle /\ request[r].stage = "deciding" /\ request'[r] # Idle =>
        /\ request'[r].stage = "trusted" => h \in EnvTokens \/ h \notin Revoked(then)
        /\ request'[r].stage = "refused" =>
             h \notin EnvTokens \cup (ListActive(then) \cap ListActive(rows))]_request

(* A revoked value is revoked for good: no sequence of commands, retried    *)
(* after an error or not, makes it active again.                            *)
RevokedForGood == [][Revoked(rows) \subseteq Revoked(rows') \ ListActive(rows')]_rows

(* A revocation takes effect in every worker that stays up, and an issue    *)
(* too, whatever refreshes failed meanwhile (README.md:420).                *)
ChangesTakeEffect == \A w \in Workers, v \in Values :
  /\ <>[](phase[w] # "down" /\ v \in Revoked(rows)) => <>[](v \notin cache[w])
  /\ <>[](phase[w] # "down" /\ v \in ListActive(rows)) => <>[](v \in cache[w])

(* "Anyone using that token starts receiving 401"                           *)
(* (docs/superpowers/specs/2026-04-29-db-backed-trusted-tokens-design.md,   *)
(* line 84): a worker that has refreshed since the revocation never treats  *)
(* a request with the token as one without a token.                         *)
RevokedIsRefused == \A r \in Requests :
  request[r] # Idle /\ request[r].header \in Revoked(asked[request[r].worker].done) \ EnvTokens
    => request[r].stage # "anonymous"
=============================================================================
