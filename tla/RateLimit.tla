----------------------------- MODULE RateLimit ------------------------------
(***************************************************************************)
(* The per-client rate limit and the bypass of trusted callers: settings   *)
(* that may start (app/config.py), the Authorization header                *)
(* (app/auth.py AuthMiddleware), and the limiter of every worker process   *)
(* (app/limiter.py), which counts in a storage the workers share and falls *)
(* back to the worker's own memory while that storage is unreachable.      *)
(*                                                                         *)
(* One client and one limited endpoint: slowapi counts each client and     *)
(* each endpoint apart.  The windows of all counters change together.      *)
(***************************************************************************)
EXTENDS Integers, FiniteSets

CONSTANTS Workers,     \* worker processes
          Requests,    \* requests in flight
          Tokens,      \* tokens that are or were trusted
          Limit,       \* settings.rate_limit, requests in a window
          MaxHits,     \* bound on the requests a counter counts in a window
          MaxLosses,   \* bound on the counters lost in a window
          None

ASSUME LimitAssumption == Limit \in Nat \ {0} /\ MaxLosses \in Nat
                           /\ MaxHits \in Nat /\ Limit < MaxHits
ASSUME WorkersAssumption == IsFiniteSet(Workers) /\ None \notin Workers
ASSUME NoneAssumption == None \notin Requests

VARIABLES
  storage,    \* the shared storage: "unset" without settings.rate_limit_storage_uri,
              \* else "up" or "down", whether it answers
  running,    \* the worker processes, as many as settings.workers
  trusted,    \* _get_trusted_tokens()
  shared,     \* the client's counter in the shared storage
  local,      \* and in the memory of each worker
  dead,       \* the workers whose limiter holds the storage for dead
  request,    \* what is known of each request
  requestVar, \* _request_var, by context
  admitted,   \* counted requests that were let through in this window
  losses,     \* counters that were lost in this window
  outage      \* what the window saw of outages: "none", "some", "throughout"

limiter == <<shared, local, dead>>
history == <<admitted, losses, outage>>
vars == <<storage, running, trusted, limiter, request, requestVar, history>>

Headers == Tokens \cup {"absent", "malformed"}
Idle == [stage |-> "idle", worker |-> None, caller |-> "anonymous", status |-> 0]

(* Mutant: the validator of the settings is gone. *)
M_MayStart(workers, shared_storage) == TRUE

(* Several workers need a shared storage. *)
MayStart(workers, shared_storage) == Cardinality(workers) > 1 => shared_storage # "unset"

Init ==
  /\ storage \in {"unset", "up"}
  /\ running \in (SUBSET Workers) \ {{}}
  /\ MayStart(running, storage)
  /\ trusted \in SUBSET Tokens
  /\ shared = 0
  /\ local = [w \in Workers |-> 0]
  /\ dead = {}
  /\ request = [r \in Requests |-> Idle]
  /\ requestVar = [c \in Requests \cup Workers |-> None]
  /\ admitted = 0
  /\ losses = 0
  /\ outage = "none"

-----------------------------------------------------------------------------
(* A request and its header.                                               *)

(* Mutant: one variable for all requests of a worker. *)
M_Context(r, w) == w

(* Every request runs in a context of its own, on whatever worker. *)
Context(r, w) == r

Answer(r, w, status) ==
  request' = [request EXCEPT ![r] =
                [stage |-> "answered", worker |-> w, caller |-> "anonymous", status |-> status]]
Admit(r, w, caller) ==
  request' = [request EXCEPT ![r] =
                [stage |-> "entered", worker |-> w, caller |-> caller, status |-> 0]]

(* AuthMiddleware.dispatch up to call_next.  /health is exempt, and without *)
(* any token to trust the header is ignored; requests that are let past for *)
(* either reason never reach the variable.                                  *)
Arrive(r, w, path, header) ==
  /\ request[r].stage = "idle"
  /\ w \in running
  /\ \/ /\ path = "/health"
        /\ Answer(r, w, 200)
        /\ UNCHANGED requestVar
     \/ /\ path # "/health" /\ trusted = {}
        /\ Admit(r, w, "anonymous")
        /\ UNCHANGED requestVar
     \/ /\ path # "/health" /\ trusted # {}
        /\ header = "malformed" \/ header \in Tokens \ trusted
        /\ Answer(r, w, IF header = "malformed" THEN 400 ELSE 401)
        /\ UNCHANGED requestVar
     \/ /\ path # "/health" /\ trusted # {}
        /\ header = "absent" \/ header \in trusted
        /\ Admit(r, w, IF header \in trusted THEN "trusted" ELSE "anonymous")
        /\ requestVar' = [requestVar EXCEPT ![Context(r, w)] = r]
  /\ UNCHANGED <<storage, running, trusted, limiter, history>>

(* exempt_when: is_trusted_request. *)
IsTrustedRequest(r) ==
  LET named == requestVar[Context(r, request[r].worker)]
  IN  named # None /\ request[named].caller = "trusted"

-----------------------------------------------------------------------------
(* The limiter.                                                            *)

Conclude(r, status) ==
  request' = [request EXCEPT ![r] =
                [stage |-> "answered", worker |-> @.worker, caller |-> @.caller, status |-> status]]

(* A hit on a counter that stands at n.  The counter is raised first and    *)
(* compared then: refused requests are counted, too.                        *)
Hit(r, n) ==
  /\ n < MaxHits
  /\ IF n < Limit THEN Conclude(r, 200) /\ admitted' = admitted + 1
     ELSE Conclude(r, 429) /\ UNCHANGED admitted

HitShared(r) ==
  /\ Hit(r, shared)
  /\ shared' = shared + 1
  /\ dead' = dead \ {request[r].worker}
  /\ UNCHANGED local

(* Mutant: a worker that cannot reach the storage lets everything through. *)
M_HitLocal(r) ==
  /\ Conclude(r, 200) /\ admitted' = admitted + 1
  /\ dead' = IF storage = "unset" THEN dead ELSE dead \cup {request[r].worker}
  /\ UNCHANGED <<shared, local>>

HitLocal(r) ==
  /\ Hit(r, local[request[r].worker])
  /\ local' = [local EXCEPT ![request[r].worker] = @ + 1]
  /\ dead' = IF storage = "unset" THEN dead ELSE dead \cup {request[r].worker}
  /\ UNCHANGED shared

(* Mutant: what a trusted caller asks for is counted all the same. *)
M_Exempt(r) ==
  /\ shared < MaxHits
  /\ Conclude(r, 200)
  /\ shared' = shared + 1
  /\ UNCHANGED <<local, dead, admitted>>

Exempt(r) == Conclude(r, 200) /\ UNCHANGED <<limiter, admitted>>

(* The decorated handler: an exempt request is not counted.  A worker that  *)
(* finds the storage unreachable holds it for dead and counts on its own;   *)
(* it then asks again only when its backoff has passed.                     *)
Handle(r) ==
  /\ request[r].stage = "entered"
  /\ \/ IsTrustedRequest(r) /\ Exempt(r)
     \/ ~IsTrustedRequest(r) /\ storage = "up" /\ HitShared(r)
     \/ ~IsTrustedRequest(r) /\ (storage = "up" => request[r].worker \in dead) /\ HitLocal(r)
  /\ UNCHANGED <<storage, running, trusted, requestVar, losses, outage>>

(* Mutant: the variable is not reset. *)
M_Leave(r) ==
  /\ request[r].stage = "answered"
  /\ request' = [request EXCEPT ![r] = Idle]
  /\ UNCHANGED <<storage, running, trusted, limiter, requestVar, history>>

(* The answer is sent; the middleware resets the variable. *)
Leave(r) ==
  /\ request[r].stage = "answered"
  /\ request' = [request EXCEPT ![r] = Idle]
  /\ requestVar' = [requestVar EXCEPT ![Context(r, request[r].worker)] = None]
  /\ UNCHANGED <<storage, running, trusted, limiter, history>>

-----------------------------------------------------------------------------
(* What happens around the requests.                                       *)

(* The token refresh (TokenBypass). *)
RefreshTokens ==
  /\ \E tokens \in SUBSET Tokens : trusted' = tokens
  /\ UNCHANGED <<storage, running, limiter, request, requestVar, history>>

Outage ==
  /\ storage = "up"
  /\ storage' = "down"
  /\ outage' = IF outage = "none" THEN "some" ELSE outage
  /\ UNCHANGED <<running, trusted, limiter, request, requestVar, admitted, losses>>

(* The storage answers again; if it was restarted, its counters are gone. *)
Recover ==
  /\ storage = "down"
  /\ storage' = "up"
  /\ outage' = "some"
  /\ \/ UNCHANGED <<shared, losses>>
     \/ /\ losses < MaxLosses
        /\ shared' = 0 /\ losses' = losses + 1
  /\ UNCHANGED <<running, trusted, local, dead, request, requestVar, admitted>>

(* A worker process dies, with what it was serving, and is started anew. *)
RestartWorker(w) ==
  LET served == {r \in Requests : request[r].worker = w}
  IN  /\ w \in running
      /\ losses < MaxLosses
      /\ losses' = losses + 1
      /\ local' = [local EXCEPT ![w] = 0]
      /\ dead' = dead \ {w}
      /\ request' = [r \in Requests |-> IF r \in served THEN Idle ELSE request[r]]
      /\ requestVar' = [c \in DOMAIN requestVar |->
                          IF requestVar[c] \in served THEN None ELSE requestVar[c]]
      /\ UNCHANGED <<storage, running, trusted, shared, admitted, outage>>

(* A new window.  A worker that still holds the storage for dead carries    *)
(* the outage into it.                                                      *)
NextWindow ==
  /\ shared' = 0
  /\ local' = [w \in Workers |-> 0]
  /\ admitted' = 0
  /\ losses' = 0
  /\ outage' = IF storage = "down" THEN "throughout" ELSE IF dead # {} THEN "some" ELSE "none"
  /\ UNCHANGED <<storage, running, trusted, dead, request, requestVar>>

Next ==
  \/ \E r \in Requests, w \in Workers, path \in {"/lookup", "/health"}, header \in Headers :
       Arrive(r, w, path, header)
  \/ \E r \in Requests : Handle(r) \/ Leave(r)
  \/ RefreshTokens \/ Outage \/ Recover \/ NextWindow
  \/ \E w \in Workers : RestartWorker(w)

Spec == Init /\ [][Next]_vars

-----------------------------------------------------------------------------
(* Counters, requests and contexts are of their kind; a context never names *)
(* a request that was answered and gone (auth.py:110-114).                  *)
TypeOK ==
  /\ storage \in {"unset", "up", "down"} /\ running \subseteq Workers /\ trusted \subseteq Tokens
  /\ shared \in 0..MaxHits /\ local \in [Workers -> 0..MaxHits] /\ dead \subseteq running
  /\ request \in [Requests -> [stage : {"idle", "entered", "answered"},
                               worker : running \cup {None}, caller : {"anonymous", "trusted"},
                               status : {0, 200, 400, 401, 429}]]
  /\ requestVar \in [Requests \cup Workers -> Requests \cup {None}]
  /\ \A c \in DOMAIN requestVar : requestVar[c] # None => request[requestVar[c]].stage # "idle"
  /\ admitted \in Nat /\ losses \in 0..MaxLosses /\ outage \in {"none", "some", "throughout"}

StrictCap == outage = "none" /\ losses = 0 => admitted <= Limit

(* The published limit holds for all workers together in every window       *)
(* without an outage or a lost counter, whatever settings the service       *)
(* accepted: several workers never run without a shared storage             *)
(* (config.py:44-52).  Degraded, the cap is loose but there still is one.   *)
(* While the storage is down for the whole window it is the limit times the *)
(* workers; in a window that an outage starts or ends in, the counter in    *)
(* the storage comes on top, and so does every counter that is lost         *)
(* (limiter.py:21-28).                                                      *)
Cap ==
  /\ StrictCap
  /\ outage = "throughout" => admitted <= Limit * (Cardinality(running) + losses)
  /\ admitted <= Limit * (Cardinality(running) + 1 + losses)

(* The limiter exempts the requests that came with a token trusted at the   *)
(* time and no other, whatever else their worker serves meanwhile and       *)
(* whatever tokens are revoked: none goes uncounted for the token of        *)
(* another, none is counted for one without (auth.py:83-127).               *)
ExemptIfTrusted ==
  \A r \in Requests : request[r].stage = "entered" => (IsTrustedRequest(r) <=> request[r].caller = "trusted")

(* A client is refused only after it was let through as often as the limit  *)
(* says in that window: requests that were answered 400 or 401, that asked  *)
(* for /health or that were exempt have cost it nothing                     *)
(* (auth.py:83-99, main.py:241).                                            *)
NoEarlyRefusal ==
  [][\A r \in Requests : request'[r].status = 429 /\ request[r].status # 429 => admitted >= Limit]_vars
=============================================================================
