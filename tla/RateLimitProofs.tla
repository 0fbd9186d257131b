--------------------------- MODULE RateLimitProofs --------------------------
(***************************************************************************)
(* Proofs about RateLimit, for every set of workers, requests and tokens   *)
(* and every limit.                                                        *)
(***************************************************************************)
EXTENDS RateLimit, FiniteSetTheorems, TLAPS

(* A context holds its own request or none, and every trusted one. *)
ContextOK ==
  /\ \A r \in Requests :
       /\ requestVar[r] \in {None, r}
       /\ request[r].stage = "idle" => requestVar[r] = None
       /\ request[r].stage = "entered" => /\ request[r].worker \in running
                                          /\ request[r].caller = "trusted" => requestVar[r] = r
  /\ \A w \in Workers \ Requests : requestVar[w] = None

(* No counter runs ahead of what was let through before that reached the    *)
(* limit.                                                                   *)
CountersOK == /\ shared <= admitted \/ Limit <= admitted
              /\ \A w \in Workers : local[w] <= admitted \/ Limit <= admitted

(* Of the requests a counter has counted, those that it let through. *)
Passed(n) == IF n < Limit THEN n ELSE Limit

(* Without a shared storage one worker runs; and in a window in which       *)
(* nothing went wrong one counter has seen every counted request.           *)
OneCounter ==
  /\ storage = "unset" => \E w \in Workers : running = {w}
  /\ outage = "none" /\ losses = 0 =>
       /\ storage # "unset" => storage = "up" /\ admitted = Passed(shared) /\ dead = {}
       /\ storage = "unset" => \A w \in running : admitted = Passed(local[w])

Inv == TypeOK /\ ContextOK /\ CountersOK /\ OneCounter

-----------------------------------------------------------------------------
(* Settings without a shared storage that may start have one worker. *)
LEMMA LoneWorker ==
  ASSUME NEW W \in (SUBSET Workers) \ {{}}, MayStart(W, "unset")
  PROVE  \E w \in Workers : W = {w}
<1>1. IsFiniteSet(W) /\ Cardinality(W) \in Nat
  BY WorkersAssumption, FS_Subset, FS_CardinalityType
<1>2. Cardinality(W) # 0
  BY <1>1, FS_EmptySet
<1>3. ~(Cardinality(W) > 1)
  BY DEF MayStart
<1>4. Cardinality(W) = 1
  BY <1>1, <1>2, <1>3
<1>5. \E x : W = {x}
  BY <1>1, <1>4, FS_Singleton
<1> QED BY <1>5

LEMMA InitInv == Init => Inv
<1> SUFFICES ASSUME Init PROVE Inv
  OBVIOUS
<1>1. TypeOK
  BY LimitAssumption DEF Init, TypeOK, Idle
<1>2. ContextOK
  BY DEF Init, ContextOK, Idle
<1>3. CountersOK
  BY DEF Init, CountersOK
<1>4. OneCounter
  BY LoneWorker, LimitAssumption DEF Init, OneCounter, Passed
<1> QED BY <1>1, <1>2, <1>3, <1>4 DEF Inv

-----------------------------------------------------------------------------
(* One lemma per action, one step per conjunct. *)

LEMMA ArriveInv ==
  ASSUME Inv, NEW r \in Requests, NEW w \in Workers, NEW path, NEW header, Arrive(r, w, path, header)
  PROVE  Inv'
<1> USE DEF Inv, Arrive, limiter, history
<1>1. TypeOK'
  BY DEF TypeOK, Answer, Admit, Idle, Context
<1>2. ContextOK'
  BY NoneAssumption DEF TypeOK, ContextOK, Answer, Admit, Idle, Context
<1>3. CountersOK' /\ OneCounter'
  BY DEF CountersOK, OneCounter
<1> QED BY <1>1, <1>2, <1>3

LEMMA HandleInv ==
  ASSUME Inv, NEW r \in Requests, Handle(r)
  PROVE  Inv'
<1> USE DEF Inv, Handle, limiter
<1> DEFINE w == request[r].worker
<1>1. w \in running /\ w \in Workers
  BY DEF ContextOK, TypeOK
<1>2. CASE Exempt(r)
  <2>1. TypeOK'
    BY <1>1, <1>2 DEF Exempt, Conclude, TypeOK
  <2>2. ContextOK'
    BY <1>2 DEF Exempt, Conclude, TypeOK, ContextOK
  <2>3. CountersOK' /\ OneCounter'
    BY <1>2 DEF Exempt, CountersOK, OneCounter
  <2> QED BY <2>1, <2>2, <2>3
<1>3. CASE storage = "up" /\ HitShared(r)
  <2>1. TypeOK'
    BY <1>1, <1>3, LimitAssumption DEF HitShared, Hit, Conclude, TypeOK
  <2>2. ContextOK'
    BY <1>3 DEF HitShared, Hit, Conclude, TypeOK, ContextOK
  <2>3. CountersOK' /\ OneCounter'
    BY <1>1, <1>3, LimitAssumption DEF HitShared, Hit, TypeOK, CountersOK, OneCounter, Passed
  <2> QED BY <2>1, <2>2, <2>3
<1>4. CASE (storage = "up" => w \in dead) /\ HitLocal(r)
  <2>1. TypeOK'
    BY <1>1, <1>4, LimitAssumption DEF HitLocal, Hit, Conclude, TypeOK
  <2>2. ContextOK'
    BY <1>4 DEF HitLocal, Hit, Conclude, TypeOK, ContextOK
  <2>3. CountersOK'
    BY <1>1, <1>4, LimitAssumption DEF HitLocal, Hit, TypeOK, CountersOK
  <2>4. OneCounter'
    BY <1>1, <1>4, LimitAssumption DEF HitLocal, Hit, TypeOK, OneCounter, Passed
  <2> QED BY <2>1, <2>2, <2>3, <2>4
<1> QED BY <1>2, <1>3, <1>4

LEMMA LeaveInv ==
  ASSUME Inv, NEW r \in Requests, Leave(r)
  PROVE  Inv'
BY DEF Inv, Leave, limiter, history, Context, Idle, TypeOK, ContextOK, CountersOK, OneCounter

LEMMA RefreshTokensInv == Inv /\ RefreshTokens => Inv'
BY DEF Inv, RefreshTokens, limiter, history, TypeOK, ContextOK, CountersOK, OneCounter

LEMMA OutageInv == Inv /\ Outage => Inv'
BY DEF Inv, Outage, limiter, TypeOK, ContextOK, CountersOK, OneCounter

LEMMA RecoverInv == Inv /\ Recover => Inv'
<1> SUFFICES ASSUME Inv, Recover PROVE Inv'
  OBVIOUS
<1>1. TypeOK'
  BY LimitAssumption DEF Inv, Recover, TypeOK
<1>2. ContextOK' /\ CountersOK' /\ OneCounter'
  BY LimitAssumption DEF Inv, Recover, TypeOK, ContextOK, CountersOK, OneCounter, Passed
<1> QED BY <1>1, <1>2 DEF Inv

LEMMA RestartWorkerInv ==
  ASSUME Inv, NEW w \in Workers, RestartWorker(w)
  PROVE  Inv'
<1> USE DEF Inv, RestartWorker
<1>1. TypeOK'
  BY LimitAssumption DEF TypeOK, Idle
<1>2. ContextOK'
  BY NoneAssumption DEF TypeOK, ContextOK, Idle
<1>3. CountersOK' /\ OneCounter'
  BY LimitAssumption DEF TypeOK, CountersOK, OneCounter, Passed
<1> QED BY <1>1, <1>2, <1>3

LEMMA NextWindowInv == Inv /\ NextWindow => Inv'
<1> SUFFICES ASSUME Inv, NextWindow PROVE Inv'
  OBVIOUS
<1>1. TypeOK'
  BY LimitAssumption DEF Inv, NextWindow, TypeOK
<1>2. ContextOK' /\ CountersOK' /\ OneCounter'
  BY LimitAssumption DEF Inv, NextWindow, TypeOK, ContextOK, CountersOK, OneCounter, Passed
<1> QED BY <1>1, <1>2 DEF Inv

LEMMA StepInv == Inv /\ [Next]_vars => Inv'
<1> SUFFICES ASSUME Inv, [Next]_vars PROVE Inv'
  OBVIOUS
<1>1. CASE Next
  BY <1>1, ArriveInv, HandleInv, LeaveInv, RefreshTokensInv, OutageInv, RecoverInv,
     RestartWorkerInv, NextWindowInv DEF Next
<1>2. CASE UNCHANGED vars
  BY <1>2 DEF vars, limiter, history, Inv, TypeOK, ContextOK, CountersOK, OneCounter
<1> QED BY <1>1, <1>2

LEMMA AlwaysInv == Spec => []Inv
BY InitInv, StepInv, PTL DEF Spec

-----------------------------------------------------------------------------
(* The type invariant (limiter.py:16-28, auth.py:59-127). *)
THEOREM TypeCorrect == Spec => []TypeOK
BY AlwaysInv, PTL DEF Inv

(* The limiter exempts the trusted requests and no other, however many are  *)
(* in flight (auth.py:110-127).                                             *)
THEOREM OwnVerdict == Spec => []ExemptIfTrusted
<1>1. Inv => ExemptIfTrusted
  BY NoneAssumption DEF Inv, TypeOK, ContextOK, ExemptIfTrusted, IsTrustedRequest, Context
<1> QED BY <1>1, AlwaysInv, PTL

(* With any number of workers, the limit holds in every window in which     *)
(* nothing went wrong (config.py:44-52, limiter.py:21-28).                  *)
THEOREM LimitHolds == Spec => []StrictCap
<1>1. Inv => StrictCap
  BY LimitAssumption DEF Inv, TypeOK, OneCounter, StrictCap, Passed
<1> QED BY <1>1, AlwaysInv, PTL

(* Nobody is refused before the limit was reached (main.py:187-205).        *)
THEOREM NobodyEarly == Spec => NoEarlyRefusal
<1>1. Inv /\ [Next]_vars =>
        [\A r \in Requests : request'[r].status = 429 /\ request[r].status # 429 => admitted >= Limit]_vars
  <2> SUFFICES ASSUME Inv, Next, NEW r \in Requests, request'[r].status = 429, request[r].status # 429
               PROVE  admitted >= Limit
    OBVIOUS
  <2>1. PICK q \in Requests : Handle(q)
    <3>1. ASSUME NEW q \in Requests, NEW w \in Workers, NEW path, NEW header, Arrive(q, w, path, header)
          PROVE  FALSE
      BY <3>1 DEF Inv, TypeOK, Arrive, Answer, Admit, Idle
    <3>2. ASSUME NEW q \in Requests, Leave(q) PROVE FALSE
      BY <3>2 DEF Inv, TypeOK, Leave, Idle
    <3>3. ASSUME NEW w \in Workers, RestartWorker(w) PROVE FALSE
      BY <3>3 DEF Inv, TypeOK, RestartWorker, Idle
    <3>4. ~RefreshTokens /\ ~Outage /\ ~Recover /\ ~NextWindow
      BY DEF RefreshTokens, Outage, Recover, NextWindow
    <3> QED BY <3>1, <3>2, <3>3, <3>4 DEF Next
  <2>2. ~Exempt(q)
    BY DEF Inv, TypeOK, Exempt, Conclude
  <2>3. CASE HitShared(q)
    BY <2>3, LimitAssumption DEF Inv, TypeOK, CountersOK, HitShared, Hit, Conclude
  <2>4. CASE HitLocal(q)
    BY <2>1, <2>4, LimitAssumption DEF Inv, TypeOK, ContextOK, CountersOK, Handle, HitLocal, Hit, Conclude
  <2> QED BY <2>1, <2>2, <2>3, <2>4 DEF Handle
<1> QED BY <1>1, AlwaysInv, PTL DEF Spec, NoEarlyRefusal

-----------------------------------------------------------------------------
(* The loose cap.  What was let through is in the shared counter, in the    *)
(* counter of a worker, or was lost with a counter, which held no more than *)
(* the limit.  The sum of the workers' counters is the size of Hits.        *)
Hits == {hit \in Workers \X (1..Limit) : hit[2] <= local[hit[1]]}

LooseOK == /\ admitted <= Passed(shared) + Cardinality(Hits) + Limit * losses
           /\ outage = "throughout" => storage = "down" /\ shared = 0
           /\ \A w \in Workers \ running : local[w] = 0

(* The hits of one worker, or of some workers, are as many as the limit     *)
(* lets them be.                                                            *)
LEMMA HitsOfWorkers ==
  ASSUME NEW W \in SUBSET Workers
  PROVE  /\ IsFiniteSet(W \X (1..Limit))
         /\ Cardinality(W) \in Nat
         /\ Cardinality(W \X (1..Limit)) = Limit * Cardinality(W)
<1>1. IsFiniteSet(W) /\ Cardinality(W) \in Nat
  BY WorkersAssumption, FS_Subset, FS_CardinalityType
<1>2. IsFiniteSet(1..Limit) /\ Cardinality(1..Limit) = Limit
  BY LimitAssumption, FS_Interval
<1>3. /\ IsFiniteSet(W \X (1..Limit))
      /\ Cardinality(W \X (1..Limit)) = Cardinality(W) * Cardinality(1..Limit)
  BY <1>1, <1>2, FS_Product
<1> QED BY <1>1, <1>2, <1>3, LimitAssumption

LEMMA HitsFinite == IsFiniteSet(Hits) /\ Cardinality(Hits) \in Nat
<1>1. Hits \subseteq Workers \X (1..Limit)
  BY DEF Hits
<1>2. IsFiniteSet(Workers \X (1..Limit))
  BY HitsOfWorkers
<1> QED BY <1>1, <1>2, FS_Subset, FS_CardinalityType

(* A hit that is counted adds one. *)
LEMMA HitsAdded ==
  ASSUME TypeOK, NEW w \in Workers, local[w] < Limit,
         local' = [local EXCEPT ![w] = local[w] + 1]
  PROVE  Cardinality(Hits)' = Cardinality(Hits) + 1
<1> DEFINE hit == <<w, local[w] + 1>>
<1>1. local[w] \in 0..MaxHits /\ hit \in Workers \X (1..Limit) /\ hit \notin Hits
  BY LimitAssumption DEF TypeOK, Hits
<1>2. Hits' = Hits \cup {hit}
  <2>1. ASSUME NEW other \in Workers \X (1..Limit) PROVE other \in Hits' <=> other \in Hits \/ other = hit
    <3>1. PICK v \in Workers, i \in 1..Limit : other = <<v, i>>
      OBVIOUS
    <3>2. other \in Hits <=> i <= local[v]
      BY <3>1 DEF Hits
    <3>3. other \in Hits' <=> i <= local'[v]
      BY <3>1 DEF Hits
    <3>4. other = hit <=> v = w /\ i = local[w] + 1
      BY <3>1
    <3>5. local[v] \in 0..MaxHits /\ local'[v] = IF v = w THEN local[w] + 1 ELSE local[v]
      BY DEF TypeOK
    <3> HIDE DEF hit
    <3> QED BY <3>2, <3>3, <3>4, <3>5, <1>1
  <2>2. Hits' \subseteq Workers \X (1..Limit) /\ Hits \subseteq Workers \X (1..Limit)
    BY DEF Hits
  <2> HIDE DEF hit
  <2> QED BY <1>1, <2>1, <2>2
<1>3. Cardinality(Hits \cup {hit}) = Cardinality(Hits) + 1
  BY <1>1, HitsFinite, FS_AddElement
<1> QED BY <1>2, <1>3

(* A counter that is lost takes at most the limit with it. *)
LEMMA HitsLost ==
  ASSUME TypeOK, NEW w \in Workers, local' = [local EXCEPT ![w] = 0]
  PROVE  Cardinality(Hits) <= Cardinality(Hits)' + Limit /\ Cardinality(Hits)' \in Nat
<1> DEFINE own == {w} \X (1..Limit)
<1>1. IsFiniteSet(Hits') /\ Cardinality(Hits') \in Nat
  <2>1. Hits' \subseteq Workers \X (1..Limit)
    BY DEF Hits
  <2> QED BY <2>1, HitsOfWorkers, FS_Subset, FS_CardinalityType
<1>2. IsFiniteSet(own) /\ Cardinality(own) = Limit
  <2>1. Cardinality({w}) = 1 /\ {w} \in SUBSET Workers
    BY FS_Singleton
  <2>2. IsFiniteSet(own) /\ Cardinality(own) = Limit * Cardinality({w})
    BY <2>1, HitsOfWorkers
  <2> QED BY <2>1, <2>2, LimitAssumption
<1>3. Hits \subseteq Hits' \cup own
  BY DEF TypeOK, Hits
<1>4. /\ IsFiniteSet(Hits' \cup own) /\ Hits' \cap own \subseteq own
      /\ Cardinality(Hits' \cup own) = Cardinality(Hits') + Cardinality(own) - Cardinality(Hits' \cap own)
  BY <1>1, <1>2, FS_Union
<1>5. Cardinality(Hits) <= Cardinality(Hits' \cup own) /\ Cardinality(Hits' \cap own) \in Nat
  BY <1>2, <1>3, <1>4, FS_Subset, FS_CardinalityType
<1> QED BY <1>1, <1>2, <1>4, <1>5, HitsFinite, LimitAssumption

LEMMA PassedNone == Passed(0) = 0
BY LimitAssumption DEF Passed

LEMMA LossAdded ==
  ASSUME NEW n \in Nat PROVE Limit * n \in Nat /\ Limit * (n + 1) = Limit * n + Limit
BY LimitAssumption

LEMMA LooseInit == Init => LooseOK
<1> SUFFICES ASSUME Init PROVE LooseOK
  OBVIOUS
<1>1. Limit * 0 = 0
  BY LimitAssumption
<1> QED BY <1>1, HitsFinite, PassedNone DEF Init, LooseOK

LEMMA LooseHandle == ASSUME Inv, LooseOK, NEW r \in Requests, Handle(r) PROVE LooseOK'
<1> USE DEF Inv, Handle, limiter
<1> DEFINE w == request[r].worker
<1>1. w \in running /\ w \in Workers
  BY DEF ContextOK, TypeOK
<1>2. Passed(shared) \in 0..Limit /\ admitted \in Nat /\ Limit * losses \in Nat /\ local[w] \in 0..MaxHits
  BY <1>1, LossAdded, LimitAssumption DEF TypeOK, Passed
<1>3. CASE Exempt(r)
  BY <1>3 DEF Exempt, LooseOK, Hits
<1>4. CASE storage = "up" /\ HitShared(r)
  <2>1. Hits' = Hits
    BY <1>4 DEF HitShared, Hits
  <2>2. /\ admitted' - admitted = Passed(shared') - Passed(shared)
        /\ admitted' \in Nat /\ Passed(shared') \in 0..Limit
    BY <1>2, <1>4, LimitAssumption DEF HitShared, Hit, Passed, TypeOK
  <2> QED BY <1>2, <1>4, <2>1, <2>2, HitsFinite DEF HitShared, LooseOK
<1>5. CASE HitLocal(r)
  <2>1. CASE local[w] < Limit
    <3>1. /\ local' = [local EXCEPT ![w] = local[w] + 1] /\ admitted' = admitted + 1
          /\ UNCHANGED <<shared, losses, outage, storage, running>>
      BY <1>5, <2>1 DEF HitLocal, Hit
    <3>2. Cardinality(Hits)' = Cardinality(Hits) + 1
      BY <1>1, <2>1, <3>1, HitsAdded
    <3>3. \A v \in Workers \ running : local'[v] = local[v]
      BY <1>1, <3>1 DEF TypeOK
    <3> QED BY <1>2, <3>1, <3>2, <3>3, HitsFinite DEF LooseOK
  <2>2. CASE ~(local[w] < Limit)
    <3>1. /\ local' = [local EXCEPT ![w] = local[w] + 1]
          /\ UNCHANGED <<admitted, shared, losses, outage, storage, running>>
      BY <1>1, <1>5, <2>2 DEF HitLocal, Hit
    <3>2. Hits' = Hits
      BY <1>2, <2>2, <3>1, LimitAssumption DEF Hits, TypeOK
    <3>3. \A v \in Workers \ running : local'[v] = local[v]
      BY <1>1, <3>1 DEF TypeOK
    <3> QED BY <3>1, <3>2, <3>3 DEF LooseOK
  <2> QED BY <2>1, <2>2
<1> QED BY <1>3, <1>4, <1>5

LEMMA LooseRecover == ASSUME Inv, LooseOK, Recover PROVE LooseOK'
<1> USE DEF Inv, Recover
<1>1. Hits' = Hits
  BY DEF Hits
<1>2. CASE UNCHANGED <<shared, losses>>
  BY <1>1, <1>2 DEF LooseOK
<1>3. CASE shared' = 0 /\ losses' = losses + 1
  <2>1. losses \in Nat /\ Passed(shared) \in 0..Limit /\ admitted \in Nat
    BY LimitAssumption DEF TypeOK, Passed
  <2>2. Limit * losses \in Nat /\ Limit * losses' = Limit * losses + Limit
    BY <1>3, <2>1, LossAdded
  <2> QED BY <1>1, <1>3, <2>1, <2>2, HitsFinite, PassedNone, LimitAssumption DEF LooseOK
<1> QED BY <1>2, <1>3

LEMMA LooseRestart == ASSUME Inv, LooseOK, NEW w \in Workers, RestartWorker(w) PROVE LooseOK'
<1> USE DEF Inv
<1>1. /\ local' = [local EXCEPT ![w] = 0] /\ losses' = losses + 1
      /\ UNCHANGED <<shared, admitted, outage, storage, running>>
  BY DEF RestartWorker
<1>2. Cardinality(Hits) <= Cardinality(Hits)' + Limit /\ Cardinality(Hits)' \in Nat
  BY <1>1, HitsLost
<1>3. losses \in Nat /\ Passed(shared) \in 0..Limit /\ admitted \in Nat
  BY LimitAssumption DEF TypeOK, Passed
<1>4. Limit * losses \in Nat /\ Limit * losses' = Limit * losses + Limit
  BY <1>1, <1>3, LossAdded
<1>5. \A v \in Workers \ running : local'[v] = 0
  BY <1>1 DEF LooseOK, TypeOK
<1> QED BY <1>1, <1>2, <1>3, <1>4, <1>5, HitsFinite, LimitAssumption DEF LooseOK

LEMMA LooseStep == Inv /\ LooseOK /\ [Next]_vars => LooseOK'
<1> SUFFICES ASSUME Inv, LooseOK, [Next]_vars PROVE LooseOK'
  OBVIOUS
<1>1. CASE UNCHANGED <<shared, local, admitted, losses, outage, storage, running>>
  BY <1>1 DEF LooseOK, Hits
<1>2. CASE Outage
  <2>1. Hits' = Hits /\ outage' # "throughout"
    BY <1>2 DEF Outage, limiter, Hits, LooseOK, Inv, TypeOK
  <2> QED BY <1>2, <2>1 DEF Outage, limiter, LooseOK
<1>3. CASE NextWindow
  <2>1. Cardinality(Hits') \in Nat /\ Limit * 0 = 0
    <3>1. Hits' \subseteq Workers \X (1..Limit)
      BY DEF Hits
    <3>2. IsFiniteSet(Workers \X (1..Limit))
      BY HitsOfWorkers
    <3>3. IsFiniteSet(Hits')
      BY <3>1, <3>2, FS_Subset
    <3> QED BY <3>3, FS_CardinalityType, LimitAssumption
  <2> QED BY <1>3, <2>1, PassedNone DEF NextWindow, LooseOK
<1>4. ASSUME NEW r \in Requests, NEW w \in Workers, NEW path, NEW header, Arrive(r, w, path, header)
      PROVE  LooseOK'
  BY <1>1, <1>4 DEF Arrive, limiter, history
<1>5. ASSUME NEW r \in Requests, Leave(r) PROVE LooseOK'
  BY <1>1, <1>5 DEF Leave, limiter, history
<1>6. CASE RefreshTokens \/ UNCHANGED vars
  BY <1>1, <1>6 DEF RefreshTokens, limiter, history, vars
<1> QED BY <1>2, <1>3, <1>4, <1>5, <1>6, LooseHandle, LooseRecover, LooseRestart DEF Next

(* Only workers that run have counted on their own. *)
LEMMA HitsBounded ==
  ASSUME Inv, LooseOK
  PROVE  Cardinality(Hits) <= Limit * Cardinality(running) /\ Cardinality(running) \in Nat
<1>1. running \in SUBSET Workers
  BY DEF Inv, TypeOK
<1>2. Hits \subseteq running \X (1..Limit)
  BY LimitAssumption DEF Hits, LooseOK
<1>3. /\ IsFiniteSet(running \X (1..Limit)) /\ Cardinality(running) \in Nat
      /\ Cardinality(running \X (1..Limit)) = Limit * Cardinality(running)
  BY <1>1, HitsOfWorkers
<1>4. Cardinality(Hits) <= Cardinality(running \X (1..Limit))
  BY <1>2, <1>3, FS_Subset
<1> QED BY <1>3, <1>4

(* However long the storage is away and whichever counters are lost, the    *)
(* limit that is left is the one Cap states (limiter.py:21-28).             *)
THEOREM CapHolds == Spec => []Cap
<1>1. Inv /\ LooseOK => Cap
  <2> SUFFICES ASSUME Inv, LooseOK PROVE Cap
    OBVIOUS
  <2> DEFINE n == Cardinality(running)
  <2>1. n \in Nat /\ losses \in Nat /\ Passed(shared) \in 0..Limit /\ admitted \in Nat
    BY HitsBounded, LimitAssumption DEF Inv, TypeOK, Passed
  <2>2. /\ Limit * n \in Nat /\ Limit * losses \in Nat
        /\ Limit * (n + losses) = Limit * n + Limit * losses
        /\ Limit * (n + 1 + losses) = Limit * n + Limit + Limit * losses
    BY <2>1, LimitAssumption
  <2>3. StrictCap
    BY LimitAssumption DEF Inv, TypeOK, OneCounter, StrictCap, Passed
  <2>4. admitted <= Passed(shared) + Limit * n + Limit * losses
    BY <2>1, <2>2, HitsBounded, HitsFinite DEF LooseOK
  <2>5. outage = "throughout" => Passed(shared) = 0
    BY LimitAssumption DEF LooseOK, Passed
  <2> QED BY <2>1, <2>2, <2>3, <2>4, <2>5, LimitAssumption DEF Cap
<1>2. Init => LooseOK
  BY LooseInit
<1> QED BY <1>1, <1>2, LooseStep, AlwaysInv, PTL DEF Spec
=============================================================================
