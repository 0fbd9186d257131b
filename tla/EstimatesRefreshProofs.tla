----------------------- MODULE EstimatesRefreshProofs -----------------------
(***************************************************************************)
(* Proofs about EstimatesRefresh, for every set of keys, bodies, rows,     *)
(* requests and publications.                                              *)
(*                                                                         *)
(* What the lock protects is said by InFlight: as long as a caller is past *)
(* the lock nothing it read (the validator it sent, the version the table  *)
(* had) is changed by another.  With it a response that is handled is never *)
(* older than the table, and a 304 speaks of the body the table stands for. *)
(***************************************************************************)
EXTENDS EstimatesRefresh, FiniteSetTheorems, SequenceTheorems, TLAPS

Active(c) == pc[c] \in {"fetching", "cleared", "merged"}

LockHeld == \A c \in Callers : Active(c) => HoldsLock(c)

PhaseOK == /\ phase # "boot" => pc[Boot] = "idle"
           /\ phase = "stopping" => queue = <<>> /\ \A c \in Callers : pc[c] = "idle"

(* The table's version and the digest and validator kept for it. *)
ShownIsApplied == /\ lastTag # NoBody => lastTag = lastHash
                  /\ shown <= Len(log)
                  /\ IF shown = 0 THEN lastHash = NoBody ELSE lastHash = log[shown]

(* What a response says, until it is handled. *)
RespOK(c) ==
  /\ resp[c].status = "none" \/ (/\ resp[c].ver \in 1..Len(log)
                                 /\ shown <= resp[c].ver
                                 /\ asked[c] <= resp[c].ver)
  /\ resp[c].status = "200" => /\ resp[c].body = log[resp[c].ver]
                               /\ resp[c].tag \in {resp[c].body, NoBody}
  /\ resp[c].status = "304" => lastTag # NoBody /\ lastTag = log[resp[c].ver]

InFlight == \A c \in Callers :
  IF Active(c) THEN sentTag[c] = lastTag /\ RespOK(c) ELSE resp[c] = NoResponse

AskedOK == \A c \in Callers : asked[c] <= Len(log)

(* The table at each stage of the swap. *)
Stage == /\ ~Swapping => estimates = TableFor(lastHash)
         /\ Swapping => before = TableFor(lastHash)
         /\ \A c \in Callers :
              /\ pc[c] \in {"cleared", "merged"} => resp[c].status = "200"
              /\ pc[c] = "merged" =>
                   \A k \in Keys \ ExactKeys : estimates[k] = Rows[resp[c].body][k]

Inv == /\ TypeOK /\ LockHeld /\ PhaseOK /\ ShownIsApplied /\ InFlight
       /\ AskedOK /\ Stage /\ SuccessIsFresh

-----------------------------------------------------------------------------
(* The constants' derived values. *)
LEMMA Derived ==
  /\ EmptyTable \in Tables
  /\ TableOf \in [Bodies -> Tables]
  /\ \A hash \in Bodies \cup {NoBody} : TableFor(hash) \in Tables
  /\ NoResponse \in Responses
  /\ Loop \in Callers /\ Boot \in Callers
<1>1. EmptyTable \in Tables
  BY DEF EmptyTable, Tables
<1>2. TableOf \in [Bodies -> Tables]
  BY RowsAssumption DEF TableOf, Revalidated, Tables
<1>3. \A hash \in Bodies \cup {NoBody} : TableFor(hash) \in Tables
  BY <1>2, BundledAssumption DEF TableFor
<1>4. NoResponse \in Responses
  BY DEF NoResponse, Responses
<1>5. Loop \in Callers /\ Boot \in Callers
  BY DEF Callers
<1> QED BY <1>1, <1>2, <1>3, <1>4, <1>5

(* The row count of a table is a number. *)
LEMMA SizeNat == ASSUME NEW t PROVE Size(t) \in Nat
<1>1. IsFiniteSet({k \in Keys : t[k] # NoEst})
  BY KeysAssumption, FS_Subset
<1> QED BY <1>1, FS_CardinalityType DEF Size

(* Only the head of the queue is past the lock, so two callers never are. *)
LEMMA OnlyHolder ==
  ASSUME LockHeld, NEW c \in Callers, NEW d \in Callers, Active(c), Active(d)
  PROVE  c = d
BY DEF LockHeld, HoldsLock

-----------------------------------------------------------------------------
(* One lemma per action, one step per conjunct of Inv.                     *)

LEMMA InitInv == ASSUME Init PROVE Inv
<1> USE DEF Init
<1>1. TypeOK
  <2>1. log \in Seq(Bodies) /\ log # <<>>
    <3>1. PICK b \in Bodies : log = <<b>>
      OBVIOUS
    <3> QED BY <3>1
  <2> QED BY <2>1, Derived, BundledAssumption DEF TypeOK, Outcomes
<1>2. LockHeld /\ PhaseOK /\ InFlight /\ AskedOK
  BY Derived DEF LockHeld, PhaseOK, InFlight, AskedOK, Active
<1>3. ShownIsApplied /\ Stage
  BY Derived DEF ShownIsApplied, Stage, Swapping, TableFor
<1>4. SuccessIsFresh
  BY DEF SuccessIsFresh, AdminReply
<1> QED BY <1>1, <1>2, <1>3, <1>4 DEF Inv

LEMMA CallInv == ASSUME Inv, NEW c \in Callers, Call(c) PROVE Inv'
<1> USE DEF Inv, Call
<1>1. TypeOK'
  BY SizeNat DEF TypeOK, Outcomes
<1>2. LockHeld'
  BY DEF LockHeld, Active, HoldsLock, TypeOK
<1>3. PhaseOK'
  BY Derived, CallersAssumption DEF PhaseOK, MayCall, TypeOK
<1>4. InFlight'
  BY DEF InFlight, RespOK, Active, TypeOK
<1>5. ShownIsApplied' /\ AskedOK'
  BY DEF ShownIsApplied, AskedOK, TypeOK
<1>6. Stage'
  BY DEF Stage, Swapping, TypeOK, TableFor
<1>7. SuccessIsFresh'
  BY DEF SuccessIsFresh, AdminReply, TypeOK
<1> QED BY <1>1, <1>2, <1>3, <1>4, <1>5, <1>6, <1>7

LEMMA FetchInv == ASSUME Inv, NEW c \in Callers, Fetch(c) PROVE Inv'
<1> USE DEF Inv, Fetch
<1>1. TypeOK'
  BY SizeNat DEF TypeOK
<1>2. LockHeld'
  BY DEF LockHeld, Active, HoldsLock, TypeOK
<1>3. PhaseOK'
  BY DEF PhaseOK, TypeOK
<1>4. InFlight'
  BY DEF InFlight, RespOK, Active, TypeOK, NoResponse
<1>5. ShownIsApplied' /\ AskedOK' /\ SuccessIsFresh'
  BY DEF ShownIsApplied, AskedOK, SuccessIsFresh
<1>6. Stage'
  BY DEF Stage, Swapping, TypeOK, TableFor
<1> QED BY <1>1, <1>2, <1>3, <1>4, <1>5, <1>6

(* What every way of returning preserves: afterwards nobody is past the    *)
(* lock.                                                                   *)
LEMMA ReturnInv ==
  ASSUME Inv, NEW c \in Callers, Active(c), NEW status \in Outcomes, Return(c, status)
  PROVE  /\ \A d \in Callers : ~Active(d)'
         /\ LockHeld' /\ PhaseOK' /\ InFlight' /\ AskedOK'
         /\ ~Swapping'
<1> USE DEF Inv, Return
<1>1. \A d \in Callers : ~Active(d)'
  BY OnlyHolder DEF Active, TypeOK
<1>2. ~Swapping'
  BY <1>1 DEF Swapping, Active
<1>3. LockHeld'
  BY <1>1 DEF LockHeld
<1>4. PhaseOK'
  BY DEF PhaseOK, TypeOK, Active
<1>5. InFlight'
  <2>1. \A d \in Callers : resp'[d] = NoResponse
    BY OnlyHolder DEF InFlight, TypeOK
  <2> QED BY <1>1, <2>1 DEF InFlight
<1>6. AskedOK'
  BY DEF AskedOK
<1> QED BY <1>1, <1>2, <1>3, <1>4, <1>5, <1>6

(* The types of what Return assigns. *)
LEMMA ReturnTypes ==
  ASSUME Inv, NEW c \in Callers, Active(c), NEW status \in Outcomes, Return(c, status),
         estimates' \in Tables, lastHash' \in Bodies \cup {NoBody},
         lastTag' \in Bodies \cup {NoBody}, stale' \in {"None", "True", "False"},
         shown' \in Nat, before' \in Tables
  PROVE  TypeOK'
BY Derived DEF Inv, Return, TypeOK, LockHeld, HoldsLock

LEMMA UnchangedInv == ASSUME Inv, NEW c \in Callers, Unchanged(c) PROVE Inv'
<1> USE DEF Inv, Unchanged, Got
<1>1. Active(c) /\ "unchanged" \in Outcomes /\ Return(c, "unchanged")
  BY DEF Active, Outcomes
<1>2. /\ resp[c].ver \in 1..Len(log) /\ shown <= resp[c].ver /\ asked[c] <= resp[c].ver
      /\ log[resp[c].ver] = lastHash
  BY <1>1 DEF InFlight, RespOK, ShownIsApplied
<1>3. TypeOK'
  <2>1. shown' \in Nat
    BY <1>2
  <2> QED BY <1>1, <2>1, ReturnTypes DEF TypeOK
<1>4. ShownIsApplied'
  BY <1>2 DEF ShownIsApplied, TypeOK, Return
<1>5. Stage'
  <2>1. ~Swapping' /\ estimates = TableFor(lastHash)
    BY <1>1, ReturnInv DEF Stage, EventLoopFree
  <2> QED BY <2>1 DEF Stage, Swapping, TableFor
<1>6. SuccessIsFresh'
  BY <1>2 DEF SuccessIsFresh, AdminReply, Return, TypeOK
<1> QED BY <1>1, <1>3, <1>4, <1>5, <1>6, ReturnInv

(* An attempt that ends without success changes nothing Inv speaks of but  *)
(* the caller's own state.                                                 *)
LEMMA GivesUpInv ==
  ASSUME Inv, NEW c \in Callers, pc[c] = "fetching", EventLoopFree,
         NEW status \in {"failed", "rejected", "crashed"}, Return(c, status),
         stale' \in {"None", "True", "False"},
         UNCHANGED <<estimates, lastHash, lastTag, shown, before>>
  PROVE  Inv'
<1> USE DEF Inv
<1>1. Active(c) /\ status \in Outcomes
  BY DEF Active, Outcomes
<1>2. TypeOK'
  BY <1>1, ReturnTypes DEF TypeOK
<1>3. ShownIsApplied'
  BY DEF ShownIsApplied, Return
<1>4. Stage'
  <2>1. ~Swapping' /\ estimates = TableFor(lastHash)
    BY <1>1, ReturnInv DEF Stage, EventLoopFree
  <2> QED BY <2>1 DEF Stage, Swapping, TableFor
<1>5. SuccessIsFresh'
  BY DEF SuccessIsFresh, AdminReply, Return, TypeOK
<1> QED BY <1>1, <1>2, <1>3, <1>4, <1>5, ReturnInv

LEMMA FailureInv ==
  ASSUME Inv, NEW c \in Callers, Failed(c) \/ Crashed(c) \/ Rejected(c) PROVE Inv'
<1>1. CASE Failed(c)
  BY <1>1, GivesUpInv DEF Failed, GotNew, Got
<1>2. CASE Crashed(c)
  BY <1>2, GivesUpInv DEF Crashed, GotNew, Got, Inv, TypeOK
<1>3. CASE Rejected(c)
  BY <1>3, GivesUpInv DEF Rejected, GotNew, Got
<1> QED BY <1>1, <1>2, <1>3

LEMMA SwapClearInv == ASSUME Inv, NEW c \in Callers, SwapClear(c) PROVE Inv'
<1> USE DEF Inv, SwapClear, GotNew, Got
<1>1. TypeOK'
  BY Derived DEF TypeOK
<1>2. LockHeld'
  BY DEF LockHeld, Active, HoldsLock, TypeOK
<1>3. PhaseOK' /\ ShownIsApplied' /\ AskedOK' /\ SuccessIsFresh'
  BY DEF PhaseOK, ShownIsApplied, AskedOK, SuccessIsFresh, TypeOK
<1>4. InFlight'
  BY DEF InFlight, RespOK, Active, TypeOK
<1>5. Stage'
  BY DEF Stage, Swapping, EventLoopFree, TypeOK, TableFor
<1> QED BY <1>1, <1>2, <1>3, <1>4, <1>5

LEMMA SwapUpdateInv == ASSUME Inv, NEW c \in Callers, SwapUpdate(c) PROVE Inv'
<1> USE DEF Inv, SwapUpdate
<1>0. Active(c) /\ resp[c].body \in Bodies
  <2>1. Active(c)
    BY DEF Active
  <2>2. resp[c].status = "200" /\ RespOK(c)
    BY <2>1 DEF Stage, InFlight
  <2>3. resp[c].ver \in 1..Len(log) /\ resp[c].body = log[resp[c].ver]
    BY <2>2 DEF RespOK
  <2> QED BY <2>1, <2>3 DEF TypeOK
<1>1. TypeOK'
  BY <1>0, RowsAssumption DEF TypeOK
<1>2. LockHeld'
  BY DEF LockHeld, Active, HoldsLock, TypeOK
<1>3. PhaseOK' /\ ShownIsApplied' /\ AskedOK' /\ SuccessIsFresh'
  BY DEF PhaseOK, ShownIsApplied, AskedOK, SuccessIsFresh, TypeOK
<1>4. InFlight'
  BY DEF InFlight, RespOK, Active, TypeOK
<1>5. Stage'
  <2>1. \A d \in Callers : pc[d] \in {"cleared", "merged"} => d = c
    BY <1>0, OnlyHolder DEF Active
  <2> QED BY <2>1 DEF Stage, Swapping, TypeOK, TableFor
<1> QED BY <1>1, <1>2, <1>3, <1>4, <1>5

LEMMA SwapDeleteInv == ASSUME Inv, NEW c \in Callers, SwapDelete(c) PROVE Inv'
<1> USE DEF Inv, SwapDelete, Redundant
<1>1. TypeOK'
  BY DEF TypeOK, Tables
<1>2. LockHeld' /\ PhaseOK' /\ ShownIsApplied' /\ AskedOK' /\ SuccessIsFresh'
  BY DEF LockHeld, HoldsLock, Active, PhaseOK, ShownIsApplied, AskedOK, SuccessIsFresh
<1>3. InFlight'
  BY DEF InFlight, RespOK, Active
<1>4. Stage'
  BY DEF Stage, Swapping, TableFor, TypeOK, Tables
<1> QED BY <1>1, <1>2, <1>3, <1>4

LEMMA SwapEndInv == ASSUME Inv, NEW c \in Callers, SwapEnd(c) PROVE Inv'
<1> USE DEF Inv, SwapEnd
<1>1. Active(c) /\ "refreshed" \in Outcomes /\ Return(c, "refreshed")
  BY DEF Active, Outcomes
<1>2. /\ resp[c].ver \in 1..Len(log) /\ shown <= resp[c].ver /\ asked[c] <= resp[c].ver
      /\ resp[c].body = log[resp[c].ver] /\ resp[c].body \in Bodies
      /\ resp[c].tag \in {resp[c].body, NoBody}
  <2>1. resp[c].status = "200" /\ RespOK(c)
    BY <1>1 DEF Stage, InFlight
  <2>2. resp[c].ver \in 1..Len(log) /\ resp[c].body = log[resp[c].ver]
    BY <2>1 DEF RespOK
  <2> QED BY <2>1, <2>2 DEF TypeOK, RespOK
<1>3. estimates = TableOf[resp[c].body]
  <2>1. \A k \in Keys : k \in ExactKeys => estimates[k] = NoEst
    BY DEF Redundant
  <2>2. \A k \in Keys \ ExactKeys : estimates[k] = Rows[resp[c].body][k]
    BY DEF Stage
  <2> QED BY <1>2, <2>1, <2>2 DEF TypeOK, Tables, TableOf, Revalidated
<1>4. TypeOK'
  BY <1>1, <1>2, ReturnTypes DEF TypeOK
<1>5. ShownIsApplied'
  BY <1>2 DEF ShownIsApplied, Return
<1>6. Stage'
  <2>1. ~Swapping'
    BY <1>1, ReturnInv
  <2>2. estimates' = TableFor(lastHash)'
    BY <1>2, <1>3, BodiesAssumption DEF TableFor
  <2> QED BY <2>1, <2>2 DEF Stage, Swapping
<1>7. SuccessIsFresh'
  BY <1>2 DEF SuccessIsFresh, AdminReply, Return, TypeOK
<1> QED BY <1>1, <1>4, <1>5, <1>6, <1>7, ReturnInv

LEMMA PublishInv == ASSUME Inv, Publish PROVE Inv'
<1> USE DEF Inv, Publish
<1>1. TypeOK'
  <2>1. PICK b \in Bodies : log' = Append(log, b)
    OBVIOUS
  <2>2. log' \in Seq(Bodies) /\ log' # <<>>
    <3>1. log \in Seq(Bodies)
      BY DEF TypeOK
    <3>2. log' \in Seq(Bodies) /\ Len(log') = Len(log) + 1
      BY <2>1, <3>1, AppendProperties
    <3>3. Len(log) \in Nat /\ Len(<<>>) = 0
      BY <3>1, LenProperties
    <3> QED BY <3>2, <3>3
  <2> QED BY <2>2 DEF TypeOK
<1>2. LockHeld' /\ PhaseOK' /\ SuccessIsFresh'
  BY DEF LockHeld, HoldsLock, Active, PhaseOK, SuccessIsFresh
<1>3. ShownIsApplied' /\ AskedOK'
  BY DEF ShownIsApplied, AskedOK, TypeOK
<1>4. InFlight'
  BY DEF InFlight, RespOK, Active, TypeOK
<1>5. Stage'
  BY DEF Stage, Swapping, TableFor
<1> QED BY <1>1, <1>2, <1>3, <1>4, <1>5

LEMMA AnswerInv ==
  ASSUME Inv, NEW c \in Callers,
         AnswerOk(c) \/ AnswerNotModified(c) \/ AnswerError(c)
  PROVE  Inv'
<1> USE DEF Inv
<1>1. PICK status \in {"200", "304", "error"}, body \in Bodies \cup {NoBody},
           tag \in Bodies \cup {NoBody} :
        /\ Answer(c, status, body, tag)
        /\ status = "200" => body = Published /\ tag \in {body, NoBody}
        /\ status = "304" => sentTag[c] = Published
  <2>1. Published \in Bodies
    BY DEF Published, TypeOK
  <2>2. CASE AnswerOk(c)
    BY <2>1, <2>2 DEF AnswerOk
  <2>3. CASE AnswerNotModified(c)
    BY <2>3 DEF AnswerNotModified
  <2>4. CASE AnswerError(c)
    BY <2>4 DEF AnswerError
  <2> QED BY <2>2, <2>3, <2>4
<1> USE <1>1 DEF Answer
<1>2. TypeOK'
  BY DEF TypeOK, Responses
<1>3. LockHeld' /\ PhaseOK' /\ SuccessIsFresh' /\ ShownIsApplied' /\ AskedOK'
  BY DEF LockHeld, HoldsLock, Active, PhaseOK, SuccessIsFresh, ShownIsApplied, AskedOK
<1>4. InFlight'
  <2>1. Len(log) \in 1..Len(log) /\ Published \in Bodies
    BY DEF TypeOK, Published
  <2>2. RespOK(c)'
    BY <2>1, BodiesAssumption
       DEF RespOK, InFlight, Active, ShownIsApplied, AskedOK, TypeOK, Published
  <2> QED BY <2>2 DEF InFlight, RespOK, Active, TypeOK
<1>5. Stage'
  BY DEF Stage, Swapping, TableFor, TypeOK
<1> QED BY <1>2, <1>3, <1>4, <1>5

LEMMA ShutdownInv == ASSUME Inv, Shutdown PROVE Inv'
<1> USE DEF Inv, Shutdown
<1>1. \A c \in Callers : pc'[c] = "idle"
  BY DEF Callers, PhaseOK, TypeOK
<1>2. TypeOK'
  BY Derived DEF TypeOK
<1>3. LockHeld' /\ PhaseOK' /\ SuccessIsFresh' /\ ShownIsApplied' /\ AskedOK'
  BY <1>1, Derived
     DEF LockHeld, Active, PhaseOK, SuccessIsFresh, ShownIsApplied, AskedOK
<1>4. InFlight'
  BY <1>1, Derived DEF InFlight, Active, TypeOK, Callers, PhaseOK
<1>5. Stage'
  BY <1>1 DEF Stage, Swapping, EventLoopFree, TableFor
<1> QED BY <1>2, <1>3, <1>4, <1>5

LEMMA RestartInv == ASSUME Inv, Restart PROVE Inv'
<1> USE DEF Inv, Restart
<1>1. \A c \in Callers : pc'[c] = "idle"
  BY DEF PhaseOK
<1>2. TypeOK'
  BY BundledAssumption DEF TypeOK, Outcomes
<1>3. LockHeld' /\ PhaseOK' /\ SuccessIsFresh' /\ ShownIsApplied' /\ AskedOK'
  BY <1>1, Derived
     DEF LockHeld, Active, PhaseOK, SuccessIsFresh, ShownIsApplied, AskedOK, TypeOK,
         AdminReply
<1>4. InFlight'
  BY <1>1 DEF InFlight, Active, PhaseOK
<1>5. Stage'
  BY <1>1 DEF Stage, Swapping, TableFor
<1> QED BY <1>2, <1>3, <1>4, <1>5

(* Inv is inductive. *)
LEMMA NextInv == ASSUME Inv, [Next]_vars PROVE Inv'
<1>1. ASSUME NEW c \in Callers, Refresh(c) PROVE Inv'
  BY <1>1, CallInv, FetchInv, UnchangedInv, FailureInv, SwapClearInv, SwapUpdateInv,
     SwapDeleteInv, SwapEndInv DEF Refresh, Handle
<1>2. CASE Server
  BY <1>2, PublishInv, AnswerInv DEF Server
<1>3. CASE Shutdown
  BY <1>3, ShutdownInv
<1>4. CASE Restart
  BY <1>4, RestartInv
<1>5. CASE UNCHANGED vars
  BY <1>5 DEF vars, Inv, TypeOK, LockHeld, HoldsLock, Active, PhaseOK, ShownIsApplied,
     InFlight, RespOK, AskedOK, Stage, Swapping, TableFor, SuccessIsFresh
<1> QED BY <1>1, <1>2, <1>3, <1>4, <1>5 DEF Next

LEMMA SpecInv == Spec => []Inv
<1>1. Init => Inv
  BY InitInv
<1>2. Inv /\ [Next]_vars => Inv'
  BY NextInv
<1> QED BY <1>1, <1>2, PTL DEF Spec

-----------------------------------------------------------------------------
(* The results.                                                            *)

(* The variables keep their types. *)
THEOREM TypeCorrect == Spec => []TypeOK
<1>1. Inv => TypeOK
  BY DEF Inv
<1> QED BY <1>1, SpecInv, PTL

(* _refresh_lock does its work: one attempt at a time, from the request to *)
(* the end of the swap.                                                    *)
THEOREM MutualExclusion == Spec => []OneAttemptAtATime
<1>1. Inv => OneAttemptAtATime
  BY OnlyHolder DEF Inv, OneAttemptAtATime, Active, TypeOK
<1> QED BY <1>1, SpecInv, PTL

(* The table is the one of the body _last_hash and the validators stand    *)
(* for, whatever was fetched, refused or interrupted before.               *)
THEOREM TableCorrect == Spec => []TableIsLastBody
<1>1. Inv => TableIsLastBody
  BY DEF Inv, Stage, ShownIsApplied, TableIsLastBody
<1> QED BY <1>1, SpecInv, PTL

(* A caller answered 200 is served a table no older than its call. *)
THEOREM SuccessFresh == Spec => []SuccessIsFresh
<1>1. Inv => SuccessIsFresh
  BY DEF Inv
<1> QED BY <1>1, SpecInv, PTL

(* The version of the table never decreases but by a restart. *)
THEOREM Monotonic == Spec => NeverOlder
<1>1. Inv /\ [Next]_vars => [phase' # "boot" => shown <= shown']_vars
  <2> SUFFICES ASSUME Inv, [Next]_vars, phase' # "boot" PROVE shown <= shown'
    OBVIOUS
  <2>1. shown \in Nat
    BY DEF Inv, TypeOK
  <2>2. ASSUME NEW c \in Callers, Unchanged(c) \/ SwapEnd(c) PROVE shown <= shown'
    <3>1. Active(c) /\ resp[c].status # "none" /\ shown' = resp[c].ver
      BY <2>2 DEF Unchanged, SwapEnd, Got, Active, Inv, Stage
    <3> QED BY <3>1 DEF Inv, InFlight, RespOK
  <2>3. CASE shown' = shown
    BY <2>1, <2>3
  <2> QED
    BY <2>2, <2>3 DEF Next, Refresh, Handle, Server, Call, Fetch, Failed, Crashed,
       Rejected, SwapClear, SwapUpdate, SwapDelete, Publish, AnswerOk,
       AnswerNotModified, AnswerError, Answer, Shutdown, Restart, vars
<1> QED BY <1>1, SpecInv, PTL DEF Spec, NeverOlder

(* An attempt that failed, was rejected or crashed changed nothing that the *)
(* next one relies on (estimates_refresh.py:58-128).                        *)
THEOREM FailureIsHarmless == Spec => FailureKeepsState
<1>1. ASSUME Inv, Next, NEW c \in Callers, outcome'[c] # outcome[c],
             outcome'[c] \in {"failed", "rejected", "crashed"}
      PROVE  UNCHANGED <<estimates, lastHash, lastTag, shown>>
  <2>1. ASSUME NEW d \in Callers, Unchanged(d) \/ SwapEnd(d) PROVE FALSE
    <3>1. outcome' = [outcome EXCEPT ![d] = "unchanged"] \/ outcome' = [outcome EXCEPT ![d] = "refreshed"]
      BY <2>1 DEF Unchanged, SwapEnd, Return
    <3> QED BY <1>1, <3>1 DEF Inv, TypeOK
  <2>2. ASSUME NEW d \in Callers, Refresh(d)
        PROVE  UNCHANGED <<estimates, lastHash, lastTag, shown>>
    <3>1. CASE Failed(d) \/ Crashed(d) \/ Rejected(d)
      BY <3>1 DEF Failed, Crashed, Rejected
    <3>2. CASE SwapClear(d) \/ SwapUpdate(d) \/ SwapDelete(d)
      BY <1>1, <3>2 DEF SwapClear, SwapUpdate, SwapDelete
    <3>3. CASE Call(d) \/ Fetch(d)
      BY <3>3 DEF Call, Fetch
    <3> QED BY <2>1, <2>2, <3>1, <3>2, <3>3 DEF Refresh, Handle
  <2>3. CASE Server \/ Shutdown
    BY <2>3 DEF Server, Publish, AnswerOk, AnswerNotModified, AnswerError, Answer, Shutdown
  <2>4. ~Restart
    BY <1>1 DEF Restart
  <2> QED BY <1>1, <2>2, <2>3, <2>4 DEF Next
<1>2. Inv /\ [Next]_vars
        => [\A c \in Callers :
              outcome'[c] # outcome[c] /\ outcome'[c] \in {"failed", "rejected", "crashed"}
                => UNCHANGED <<estimates, lastHash, lastTag, shown>>]_vars
  BY <1>1
<1> QED BY <1>2, SpecInv, PTL DEF Spec, FailureKeepsState

-----------------------------------------------------------------------------
(* The floor.  previous_count is read before the fetch and used after it;   *)
(* the lock keeps the table, and with it the count, until the swap.         *)
FloorOK == \A c \in Callers :
  /\ pc[c] = "fetching" => prev[c] = Size(estimates)
  /\ pc[c] \in {"cleared", "merged"} =>
       PassesSanityGuard(Size(Rows[resp[c].body]), Size(before))

LEMMA FloorStep == ASSUME Inv, FloorOK, [Next]_vars PROVE FloorOK'
<1> USE DEF FloorOK
<1>1. ASSUME NEW c \in Callers, Refresh(c) PROVE FloorOK'
  <2>1. CASE Call(c)
    BY <2>1 DEF Call, Inv, TypeOK
  <2>2. CASE Fetch(c)
    BY <2>2 DEF Fetch, Inv, TypeOK
  <2>3. CASE Unchanged(c) \/ Failed(c) \/ Crashed(c) \/ Rejected(c) \/ SwapEnd(c)
    <3>1. PICK status \in Outcomes : Return(c, status) /\ Active(c)
      BY <2>3 DEF Unchanged, Failed, Crashed, Rejected, SwapEnd, Got, GotNew, Active, Outcomes
    <3>2. \A d \in Callers : ~Active(d)'
      BY <3>1, ReturnInv
    <3> QED BY <3>2 DEF Active
  <2>4. CASE SwapClear(c) \/ SwapUpdate(c) \/ SwapDelete(c)
    <3>1. Active(c)
      BY <2>4 DEF SwapClear, SwapUpdate, SwapDelete, GotNew, Got, Active
    <3>2. \A d \in Callers \ {c} : ~Active(d) /\ pc'[d] = pc[d]
      BY <2>4, <3>1, OnlyHolder DEF SwapClear, SwapUpdate, SwapDelete, Inv, TypeOK
    <3>3. CASE SwapClear(c)
      BY <3>2, <3>3 DEF SwapClear, GotNew, Got, Accepts, Active, Inv, TypeOK
    <3>4. CASE SwapUpdate(c) \/ SwapDelete(c)
      BY <3>2, <3>4 DEF SwapUpdate, SwapDelete, Active, Inv, TypeOK
    <3> QED BY <2>4, <3>3, <3>4
  <2> QED BY <1>1, <2>1, <2>2, <2>3, <2>4 DEF Refresh, Handle
<1>2. CASE Publish
  BY <1>2 DEF Publish
<1>3. ASSUME NEW c \in Callers, AnswerOk(c) \/ AnswerNotModified(c) \/ AnswerError(c)
      PROVE  FloorOK'
  BY <1>3 DEF AnswerOk, AnswerNotModified, AnswerError, Answer, Inv, TypeOK
<1>4. CASE Shutdown
  <2>1. \A c \in Callers : pc'[c] = "idle"
    BY <1>4 DEF Shutdown, Callers, Inv, PhaseOK, TypeOK
  <2> QED BY <2>1
<1>5. CASE Restart
  BY <1>5 DEF Restart, Inv, PhaseOK
<1>6. CASE UNCHANGED vars
  BY <1>6 DEF vars
<1> QED BY <1>1, <1>2, <1>3, <1>4, <1>5, <1>6 DEF Next, Server

(* Every swap met the 50% floor against the table it replaced, however long *)
(* the caller waited for the lock and the server                            *)
(* (estimates_refresh.py:43, 117-120).                                      *)
THEOREM FloorOfReplaced == Spec => FloorOnReplacedTable
<1>1. Init => FloorOK
  BY DEF Init, FloorOK
<1>2. Inv /\ FloorOK /\ [Next]_vars => FloorOK'
  BY FloorStep
<1>3. ASSUME Inv, FloorOK, [Next]_vars, SwapEnds
      PROVE  PassesSanityGuard(Size(Rows[lastHash']), Size(before))
  <2>1. PICK c \in Callers : pc[c] \in {"cleared", "merged"}
    BY <1>3 DEF SwapEnds, Swapping
  <2>2. ~EventLoopFree /\ phase # "stopping"
    BY <1>3, <2>1 DEF EventLoopFree, Swapping, Inv, PhaseOK
  <2>3. PICK d \in Callers : SwapEnd(d)
    <3>1. ASSUME NEW d \in Callers, SwapUpdate(d) \/ SwapDelete(d) PROVE Swapping'
      BY <1>3, <3>1 DEF SwapUpdate, SwapDelete, Swapping, Inv, TypeOK
    <3>2. pc' # pc
      BY <1>3 DEF SwapEnds, Swapping
    <3>3. ~Server /\ ~UNCHANGED vars
      BY <3>2 DEF Server, Publish, AnswerOk, AnswerNotModified, AnswerError, Answer, vars
    <3>4. ~Shutdown /\ ~Restart
      BY <2>2 DEF Shutdown, Restart
    <3>5. PICK d \in Callers : Refresh(d)
      BY <1>3, <3>3, <3>4 DEF Next
    <3>6. ~Call(d) /\ ~Fetch(d) /\ ~Unchanged(d) /\ ~Failed(d) /\ ~Crashed(d) /\ ~Rejected(d)
          /\ ~SwapClear(d)
      BY <2>2 DEF Call, Fetch, Unchanged, Failed, Crashed, Rejected, SwapClear, Got, GotNew
    <3> QED BY <1>3, <3>1, <3>5, <3>6 DEF Refresh, Handle, SwapEnds
  <2>4. lastHash' = resp[d].body /\ pc[d] = "merged"
    BY <2>3 DEF SwapEnd
  <2> QED BY <1>3, <2>4 DEF FloorOK
<1>4. Inv /\ FloorOK /\ [Next]_vars
        => [SwapEnds => PassesSanityGuard(Size(Rows[lastHash']), Size(before))]_vars
  BY <1>3
<1> QED BY <1>1, <1>2, <1>4, SpecInv, PTL DEF Spec, FloorOnReplacedTable

-----------------------------------------------------------------------------
(* Refinement.  What a lookup can see of the table, whether it is withdrawn, *)
(* and the version it stands for: from update() on that of the response.    *)
SeenTable == Revalidated(estimates)
Gap == \E c \in Callers : pc[c] = "cleared"
SeenVersion == IF \E c \in Callers : pc[c] = "merged" THEN resp[Head(queue)].ver ELSE shown

(* Outside a swap a lookup sees the table of the digest kept. *)
Settled == ~Gap /\ SeenVersion = shown /\ SeenTable = TableFor(lastHash)

LEMMA Settles == Inv /\ ~Swapping => Settled
<1> SUFFICES ASSUME Inv, ~Swapping PROVE Settled
  OBVIOUS
<1>1. ~Gap /\ SeenVersion = shown
  BY DEF Swapping, Gap, SeenVersion
<1>2. CASE lastHash = NoBody
  <2>1. estimates = Bundled
    BY <1>2 DEF Inv, Stage, TableFor
  <2>2. Revalidated(Bundled) = Bundled
    BY BundledAssumption DEF Revalidated, Tables
  <2> QED BY <1>1, <1>2, <2>1, <2>2 DEF Settled, SeenTable, TableFor
<1>3. CASE lastHash # NoBody
  <2>1. lastHash \in Bodies /\ estimates = Revalidated(Rows[lastHash])
    BY <1>3 DEF Inv, Stage, TypeOK, TableFor, TableOf
  <2> QED BY <1>1, <1>3, <2>1 DEF Settled, TableFor, TableOf, SeenTable, Revalidated
<1> QED BY <1>2, <1>3

LEMMA SettlesNext == (Inv /\ ~Swapping => Settled)'
BY Settles, PTL

(* A step between two states without a swap that keeps the digest and the  *)
(* version is invisible.                                                   *)
LEMMA InvisibleStep ==
  ASSUME Inv, Inv', ~Swapping, ~Swapping', UNCHANGED <<lastHash, shown, log>>
  PROVE  UNCHANGED Abstract!vars
<1>1. Settled /\ Settled'
  BY Settles, SettlesNext
<1> QED BY <1>1 DEF Settled, Abstract!vars, Gap, SeenVersion, SeenTable, TableFor

(* An answer "unchanged" adopts the body that was published, as it is. *)
LEMMA UnchangedStep ==
  ASSUME Inv, Inv', NEW c \in Callers, Unchanged(c) PROVE Abstract!Adopt
<1>1. /\ Active(c) /\ resp[c].status # "none" /\ shown' = resp[c].ver
      /\ UNCHANGED <<log, estimates, lastHash>> /\ Return(c, "unchanged")
  BY DEF Unchanged, Got, Active, Return
<1>2. ~Swapping /\ ~Swapping'
  BY <1>1, ReturnInv DEF Unchanged, Got, EventLoopFree, Outcomes
<1>3. Settled /\ Settled'
  BY <1>2, Settles, SettlesNext
<1>4. shown' \in 1..Len(log) /\ shown <= shown'
  BY <1>1 DEF Inv, InFlight, RespOK
<1>5. lastHash' = log[shown'] /\ lastHash' \in Bodies
  BY <1>1, <1>4 DEF Inv, ShownIsApplied, TypeOK
<1>6. SeenTable' = TableOf[log[shown']]
  BY <1>3, <1>5, BodiesAssumption DEF Settled, TableFor
<1> QED BY <1>1, <1>3, <1>4, <1>6
  DEF Abstract!Adopt, Settled, SeenTable, SeenVersion, Gap

(* clear() withdraws the table. *)
LEMMA ClearStep ==
  ASSUME Inv, Inv', NEW c \in Callers, SwapClear(c) PROVE Abstract!Withdraw
<1>1. ~Swapping /\ Settled
  BY Settles DEF SwapClear, GotNew, Got, EventLoopFree
<1>2. Gap' /\ SeenTable' = EmptyTable
  BY DEF SwapClear, Gap, SeenTable, Revalidated, EmptyTable, Inv, TypeOK
<1>3. SeenVersion' = shown
  <2>1. ~\E d \in Callers : pc'[d] = "merged"
    BY <1>1 DEF SwapClear, Swapping, Inv, TypeOK
  <2> QED BY <2>1 DEF SwapClear, SeenVersion
<1> QED BY <1>1, <1>2, <1>3
  DEF Abstract!Withdraw, Settled, SeenTable, SeenVersion, Gap, SwapClear

(* update() brings the table of the response, all of it. *)
LEMMA UpdateStep ==
  ASSUME Inv, Inv', NEW c \in Callers, SwapUpdate(c) PROVE Abstract!Adopt
<1>1. Active(c) /\ HoldsLock(c) /\ resp[c].status = "200" /\ RespOK(c)
  BY DEF SwapUpdate, Active, Inv, LockHeld, Stage, InFlight
<1>2. \A d \in Callers \ {c} : pc[d] \notin {"cleared", "merged"}
  BY <1>1, OnlyHolder DEF Active, Inv
<1>3. SeenVersion = shown /\ SeenVersion' = resp[c].ver /\ ~Gap'
  BY <1>1, <1>2 DEF SwapUpdate, SeenVersion, Gap, HoldsLock, Inv, TypeOK
<1>4. /\ resp[c].ver \in 1..Len(log) /\ shown <= resp[c].ver
      /\ resp[c].body = log[resp[c].ver] /\ resp[c].body \in Bodies
  BY <1>1 DEF RespOK, Inv, TypeOK
<1>5. SeenTable' = TableOf[resp[c].body]
  BY <1>4 DEF SwapUpdate, SeenTable, TableOf
<1> QED BY <1>3, <1>4, <1>5
  DEF Abstract!Adopt, SeenTable, SeenVersion, Gap, SwapUpdate

(* The deletions and the bookkeeping after update() cannot be seen. *)
LEMMA AfterUpdate ==
  ASSUME Inv, Inv', NEW c \in Callers, SwapDelete(c) \/ SwapEnd(c)
  PROVE  UNCHANGED Abstract!vars
<1>1. Active(c) /\ pc[c] = "merged" /\ HoldsLock(c)
  BY DEF SwapDelete, SwapEnd, Active, Inv, LockHeld
<1>2. \A d \in Callers \ {c} : pc[d] \notin {"cleared", "merged"}
  BY <1>1, OnlyHolder DEF Active, Inv
<1>3. ~Gap /\ SeenVersion = resp[c].ver
  BY <1>1, <1>2 DEF Gap, SeenVersion, HoldsLock
<1>4. CASE SwapDelete(c)
  <2>1. SeenTable' = SeenTable
    BY <1>4 DEF SwapDelete, Redundant, SeenTable, Revalidated, Inv, TypeOK, Tables
  <2> QED BY <1>4, <2>1 DEF SwapDelete, Abstract!vars, SeenTable
<1>5. CASE SwapEnd(c)
  <2>1. ~Swapping' /\ UNCHANGED <<log, estimates>> /\ shown' = resp[c].ver
    BY <1>1, <1>5, ReturnInv DEF SwapEnd, Outcomes, Return
  <2>2. ~Gap' /\ SeenVersion' = resp[c].ver
    BY <2>1 DEF Swapping, Gap, SeenVersion
  <2> QED BY <1>3, <2>1, <2>2 DEF Abstract!vars, SeenTable, Gap, SeenVersion
<1> QED BY <1>4, <1>5

LEMMA RefinesRefresh ==
  ASSUME Inv, Inv', NEW c \in Callers, Refresh(c)
  PROVE  [Abstract!Next]_(Abstract!vars)
<1>1. CASE Unchanged(c) \/ SwapClear(c) \/ SwapUpdate(c)
  BY <1>1, UnchangedStep, ClearStep, UpdateStep DEF Abstract!Next
<1>2. CASE SwapDelete(c) \/ SwapEnd(c)
  BY <1>2, AfterUpdate
<1>3. CASE Call(c) \/ Fetch(c)
  <2>1. ~Swapping /\ ~Swapping' /\ UNCHANGED <<lastHash, shown, log>>
    BY <1>3 DEF Call, Fetch, EventLoopFree, Swapping, Inv, TypeOK
  <2> QED BY <2>1, InvisibleStep
<1>4. CASE Failed(c) \/ Crashed(c) \/ Rejected(c)
  <2>1. ~Swapping /\ Active(c) /\ UNCHANGED <<lastHash, shown, log>>
    BY <1>4 DEF Failed, Crashed, Rejected, GotNew, Got, EventLoopFree, Active, Return
  <2>2. ~Swapping'
    <3>1. PICK status \in Outcomes : Return(c, status)
      BY <1>4 DEF Failed, Crashed, Rejected, Outcomes
    <3> QED BY <2>1, <3>1, ReturnInv
  <2> QED BY <2>1, <2>2, InvisibleStep
<1> QED BY <1>1, <1>2, <1>3, <1>4 DEF Refresh, Handle

LEMMA RefinesStep ==
  ASSUME Inv, Inv', [Next]_vars PROVE [Abstract!Next]_(Abstract!vars)
<1>1. CASE \E c \in Callers : Refresh(c)
  BY <1>1, RefinesRefresh
<1>2. CASE Publish
  <2>1. UNCHANGED <<SeenTable, SeenVersion, Gap>>
    BY <1>2 DEF Publish, SeenTable, SeenVersion, Gap
  <2> QED BY <1>2, <2>1
    DEF Publish, Abstract!Publish, Abstract!Next, SeenTable, SeenVersion, Gap
<1>3. ASSUME NEW c \in Callers, AnswerOk(c) \/ AnswerNotModified(c) \/ AnswerError(c)
      PROVE  [Abstract!Next]_(Abstract!vars)
  <2>1. pc[c] = "fetching" /\ UNCHANGED <<pc, lastHash, shown, log>>
    BY <1>3 DEF AnswerOk, AnswerNotModified, AnswerError, Answer
  <2>2. ~Swapping /\ ~Swapping'
    BY <2>1, OnlyHolder DEF Swapping, Active, Inv
  <2> QED BY <2>1, <2>2, InvisibleStep
<1>4. CASE Shutdown
  <2>1. ~Swapping /\ ~Swapping' /\ UNCHANGED <<lastHash, shown, log>>
    BY <1>4 DEF Shutdown, EventLoopFree, Swapping, Inv, TypeOK
  <2> QED BY <2>1, InvisibleStep
<1>5. CASE Restart
  <2>1. ~Swapping /\ ~Swapping' /\ lastHash' = NoBody
    BY <1>5 DEF Restart, Swapping, Inv, PhaseOK
  <2>2. Settled /\ Settled'
    BY <2>1, Settles, SettlesNext
  <2> QED BY <1>5, <2>1, <2>2
    DEF Restart, Abstract!Restart, Abstract!Next, Settled, SeenTable, SeenVersion, Gap,
        TableFor
<1>6. CASE UNCHANGED vars
  BY <1>6 DEF vars, Abstract!vars, Revalidated
<1> QED BY <1>1, <1>2, <1>3, <1>4, <1>5, <1>6 DEF Next, Server

(* The refresh, with its lock, its conditional requests and its swap in    *)
(* several steps, implements EstimatesTable: at every instant the lookup   *)
(* threads find the whole table of one body, or none between clear() and   *)
(* update() (estimates_refresh.py:192-195).                                *)
THEOREM Refinement == Spec => ImplementsTable
<1>1. Init => Abstract!Init
  <2>1. Revalidated(Bundled) = Bundled
    BY BundledAssumption DEF Revalidated, Tables
  <2> QED BY <2>1 DEF Init, Abstract!Init
<1>2. Inv /\ Inv' /\ [Next]_vars => [Abstract!Next]_(Abstract!vars)
  BY RefinesStep
<1> QED BY <1>1, <1>2, SpecInv, PTL DEF Spec, ImplementsTable, Abstract!Spec
=============================================================================
