-------------------------- MODULE TokenBypassProofs --------------------------
(***************************************************************************)
(* Proofs about TokenBypass, for every set of workers, requests and values *)
(* and every number of rows.                                               *)
(*                                                                         *)
(* A registry only grows by values it never had, and a row once revoked    *)
(* stays revoked (Later).  So whatever the statement of a refresh returns  *)
(* lies between the registry as it was when the refresh was asked for and  *)
(* the registry as it is now (Between), however long the answer takes.     *)
(***************************************************************************)
EXTENDS TokenBypass, SequenceTheorems, TLAPS

(* What the commands do to a registry, in any number. *)
Later(rs, ss) == /\ Len(rs) <= Len(ss)
                 /\ \A i \in 1..Len(rs) : /\ rs[i].value = ss[i].value
                                          /\ ss[i].active => rs[i].active

Unique(rs) == \A i, j \in 1..Len(rs) : rs[i].value = rs[j].value => i = j

(* A set that was read after the registry was rs and before it was ss. *)
Between(rs, set, ss) == /\ set \cap Revoked(rs) = {}
                        /\ ListActive(rs) \cap ListActive(ss) \subseteq set

RegistryOK == Unique(rows) /\ \A w \in Workers : Later(asked[w].now, rows) /\ Later(asked[w].done, rows)

RefreshOK == \A w \in Workers :
  /\ refresh[w] = "listed" => Between(asked[w].now, reply[w], rows)
  /\ Between(asked[w].done, cache[w], rows)

Inv == TypeOK /\ RegistryOK /\ RefreshOK

-----------------------------------------------------------------------------
(* The registry.                                                           *)

LEMMA LaterReflexive == ASSUME NEW rs \in Seq(Row) PROVE Later(rs, rs) /\ Later(<<>>, rs)
BY DEF Later

LEMMA LaterTransitive ==
  ASSUME NEW rs \in Seq(Row), NEW ss \in Seq(Row), NEW ts \in Seq(Row), Later(rs, ss), Later(ss, ts)
  PROVE  Later(rs, ts)
BY DEF Later, Row

(* A list of now is between any earlier registry and now. *)
LEMMA ListIsBetween ==
  ASSUME NEW rs \in Seq(Row), NEW ss \in Seq(Row), Later(rs, ss), Unique(ss)
  PROVE  Between(rs, ListActive(ss), ss)
<1>1. ListActive(ss) \cap Revoked(rs) = {}
  <2> SUFFICES ASSUME NEW i \in 1..Len(ss), ss[i].active,
                      NEW j \in 1..Len(rs), ~rs[j].active, ss[i].value = rs[j].value
               PROVE  FALSE
    BY DEF ListActive, Revoked
  <2>1. j \in 1..Len(ss) /\ ss[j].value = ss[i].value /\ ~ss[j].active
    BY DEF Later
  <2> QED BY <2>1 DEF Unique
<1> QED BY <1>1 DEF Between

LEMMA ListActiveType == ASSUME NEW rs \in Seq(Row) PROVE ListActive(rs) \in SUBSET Values
<1>1. \A i \in 1..Len(rs) : rs[i] \in Row
  BY ElementOfSeq
<1> QED BY <1>1 DEF ListActive, Row

LEMMA NothingBetween == ASSUME NEW rs PROVE Between(<<>>, {}, rs)
<1>1. ListActive(<<>>) = {}
  BY DEF ListActive
<1> QED BY <1>1 DEF Between

(* What is between stays between when the registry changes. *)
LEMMA BetweenKeeps ==
  ASSUME NEW rs, NEW set, NEW ss, NEW ts, Between(rs, set, ss),
         ListActive(rs) \cap ListActive(ts) \subseteq ListActive(ss)
  PROVE  Between(rs, set, ts)
BY DEF Between

(* One command takes the registry to a later one, without making a value   *)
(* active that an earlier one had.                                         *)
LEMMA AppendRow ==
  ASSUME NEW rs \in Seq(Row), Unique(rs), NEW v \in Values, v \notin ValuesOf(rs)
  PROVE  LET ss == Append(rs, [value |-> v, active |-> TRUE])
         IN  /\ ss \in Seq(Row) /\ ss # <<>> /\ Unique(ss) /\ Later(rs, ss)
             /\ ListActive(ss) = ListActive(rs) \cup {v}
             /\ Revoked(ss) = Revoked(rs)
<1> DEFINE row == [value |-> v, active |-> TRUE]
           ss == Append(rs, row)
<1>1. row \in Row /\ row.value = v /\ row.active
  BY DEF Row
<1>2. /\ ss \in Seq(Row) /\ Len(ss) = Len(rs) + 1 /\ Len(rs) \in Nat
      /\ ss[Len(ss)] = row /\ \A i \in 1..Len(rs) : ss[i] = rs[i]
  BY <1>1, AppendProperties, LenProperties
<1> HIDE DEF row, ss
<1>3. \A i \in 1..Len(rs) : rs[i].value # v
  BY DEF ValuesOf
<1>4. Unique(ss)
  <2> SUFFICES ASSUME NEW i \in 1..Len(ss), NEW j \in 1..Len(ss), ss[i].value = ss[j].value
               PROVE  i = j
    BY DEF Unique
  <2>1. CASE i \in 1..Len(rs) /\ j \in 1..Len(rs)
    BY <1>2, <2>1 DEF Unique
  <2>2. CASE i = Len(ss) \/ j = Len(ss)
    BY <1>1, <1>2, <1>3, <2>2
  <2> QED BY <1>2, <2>1, <2>2
<1>5. Later(rs, ss)
  BY <1>2 DEF Later
<1>6. ListActive(ss) = ListActive(rs) \cup {v}
  <2>1. ListActive(rs) \subseteq ListActive(ss)
    BY <1>2 DEF ListActive
  <2>2. v \in ListActive(ss)
    BY <1>1, <1>2 DEF ListActive
  <2>3. ASSUME NEW i \in 1..Len(ss), ss[i].active PROVE ss[i].value \in ListActive(rs) \cup {v}
    BY <1>1, <1>2, <2>3 DEF ListActive
  <2> QED BY <2>1, <2>2, <2>3 DEF ListActive
<1>7. Revoked(ss) = Revoked(rs)
  <2>1. Revoked(rs) \subseteq Revoked(ss)
    BY <1>2 DEF Revoked
  <2>2. ASSUME NEW i \in 1..Len(ss), ~ss[i].active PROVE ss[i].value \in Revoked(rs)
    BY <1>1, <1>2, <2>2 DEF Revoked
  <2> QED BY <2>1, <2>2 DEF Revoked
<1>8. ss # <<>>
  BY <1>2
<1> QED BY <1>2, <1>4, <1>5, <1>6, <1>7, <1>8 DEF ss, row

LEMMA RevokeRow ==
  ASSUME NEW rs \in Seq(Row), Unique(rs), NEW i \in 1..Len(rs)
  PROVE  LET ss == [rs EXCEPT ![i] = [value |-> @.value, active |-> FALSE]]
         IN  /\ ss \in Seq(Row) /\ (rs # <<>> => ss # <<>>) /\ Unique(ss) /\ Later(rs, ss)
             /\ ListActive(ss) \subseteq ListActive(rs)
             /\ Revoked(rs) \subseteq Revoked(ss)
<1> DEFINE ss == [rs EXCEPT ![i] = [value |-> @.value, active |-> FALSE]]
<1>1. rs[i] \in Row /\ Len(rs) \in Nat
  BY ElementOfSeq, LenProperties
<1>2. /\ ss \in Seq(Row) /\ Len(ss) = Len(rs)
      /\ \A j \in 1..Len(rs) : ss[j].value = rs[j].value /\ (ss[j].active => rs[j].active)
  <2>1. [value |-> rs[i].value, active |-> FALSE] \in Row
    BY <1>1 DEF Row
  <2>2. ss \in Seq(Row) /\ Len(ss) = Len(rs)
    BY <2>1, ExceptSeq
  <2>3. ASSUME NEW j \in 1..Len(rs)
        PROVE  ss[j].value = rs[j].value /\ (ss[j].active => rs[j].active)
    BY <1>1
  <2> QED BY <2>2, <2>3
<1> HIDE DEF ss
<1>3. Unique(ss)
  BY <1>2 DEF Unique
<1>4. Later(rs, ss)
  BY <1>1, <1>2 DEF Later
<1>5. ListActive(ss) \subseteq ListActive(rs) /\ Revoked(rs) \subseteq Revoked(ss)
  BY <1>2 DEF ListActive, Revoked
<1>6. ss # <<>>
  BY <1>1, <1>2, EmptySeq
<1> QED BY <1>2, <1>3, <1>4, <1>5, <1>6 DEF ss

-----------------------------------------------------------------------------
(* One lemma per kind of action.                                           *)

LEMMA InitInv == Init => Inv
<1> SUFFICES ASSUME Init PROVE Inv
  OBVIOUS
<1>0. <<>> \in Seq(Row)
  BY EmptySeq
<1>1. TypeOK
  BY <1>0 DEF Init, TypeOK, Idle
<1>2. RegistryOK
  <2>1. Unique(<<>>) /\ Later(<<>>, <<>>)
    BY <1>0 DEF Unique, Later
  <2> QED BY <2>1 DEF Init, RegistryOK
<1>3. RefreshOK
  BY NothingBetween DEF Init, RefreshOK
<1> QED BY <1>1, <1>2, <1>3 DEF Inv

(* What a command that changes the rows leaves to show. *)
LEMMA RegistryStep ==
  ASSUME Inv, Silent, rows' \in Seq(Row), Unique(rows)', Later(rows, rows'),
         \A w \in Workers : \A rs \in {asked[w].now, asked[w].done} :
            ListActive(rs) \cap ListActive(rows') \subseteq ListActive(rows)
  PROVE  RegistryOK' /\ RefreshOK'
<1>1. \A w \in Workers : asked[w].now \in Seq(Row) /\ asked[w].done \in Seq(Row)
  BY DEF Inv, TypeOK
<1>2. RegistryOK'
  BY <1>1, LaterTransitive DEF Inv, TypeOK, RegistryOK, Silent
<1>3. RefreshOK'
  BY BetweenKeeps DEF Inv, RefreshOK, Silent
<1> QED BY <1>2, <1>3

LEMMA AddInv == ASSUME Inv, NEW v \in Values, Add(v) PROVE Inv'
<1> USE DEF Inv
<1>1. CASE UNCHANGED rows
  BY <1>1 DEF Add, Silent, TypeOK, RegistryOK, RefreshOK
<1>2. CASE Fresh(v) /\ rows' = Append(rows, [value |-> v, active |-> TRUE])
  <2>1. /\ rows' \in Seq(Row) /\ Unique(rows') /\ Later(rows, rows')
        /\ ListActive(rows') = ListActive(rows) \cup {v}
    BY <1>2, AppendRow DEF Fresh, TypeOK, RegistryOK
  <2>2. ASSUME NEW w \in Workers, NEW rs \in {asked[w].now, asked[w].done}
        PROVE  v \notin ListActive(rs)
    BY <1>2, <2>2 DEF RegistryOK, Later, Fresh, ValuesOf, ListActive
  <2>3. RegistryOK' /\ RefreshOK'
    BY <2>1, <2>2, RegistryStep DEF Add
  <2>4. TypeOK'
    BY <2>1 DEF Add, Silent, Prints, TypeOK
  <2> QED BY <2>3, <2>4
<1> QED BY <1>1, <1>2 DEF Add

LEMMA RevokeInv == ASSUME Inv, NEW i \in 1..MaxRows, Revoke(i) PROVE Inv'
<1> USE DEF Inv
<1>1. CASE UNCHANGED rows
  BY <1>1 DEF Revoke, Silent, Prints, TypeOK, RegistryOK, RefreshOK
<1>2. CASE i <= Len(rows) /\ rows' = [rows EXCEPT ![i] = [value |-> @.value, active |-> FALSE]]
  <2>1. /\ rows' \in Seq(Row) /\ Unique(rows') /\ Later(rows, rows')
        /\ ListActive(rows') \subseteq ListActive(rows)
    <3>1. i \in 1..Len(rows)
      BY <1>2, LenProperties DEF TypeOK
    <3>2. rows \in Seq(Row) /\ Unique(rows)
      BY DEF TypeOK, RegistryOK
    <3> QED BY <1>2, <3>1, <3>2, RevokeRow
  <2>2. RegistryOK' /\ RefreshOK'
    BY <2>1, RegistryStep DEF Revoke
  <2>3. TypeOK'
    BY <2>1 DEF Revoke, Silent, Prints, TypeOK
  <2> QED BY <2>2, <2>3
<1> QED BY <1>1, <1>2 DEF Revoke

(* The commands that change no row. *)
LEMMA OtherCommandsInv ==
  ASSUME Inv, InitSchema \/ AddMalformed \/ CommandFails \/ \E all \in BOOLEAN : List(all)
  PROVE  Inv'
<1>1. Silent /\ UNCHANGED rows /\ schema' \in {schema, TRUE}
  BY DEF InitSchema, AddMalformed, CommandFails, List
<1>2. said' \in {"initialised", "listed", "no_tokens", "usage", "error"}
  BY DEF InitSchema, AddMalformed, CommandFails, List, Prints
<1>3. TypeOK'
  BY <1>1, <1>2 DEF Inv, TypeOK, Silent
<1>4. RegistryOK' /\ RefreshOK'
  BY <1>1 DEF Inv, RegistryOK, RefreshOK, Silent
<1> QED BY <1>3, <1>4 DEF Inv

LEMMA RefreshInv ==
  ASSUME Inv, NEW w \in Workers, Ask(w) \/ ListOk(w) \/ ListFails(w) \/ Install(w) \/ ClearStale(w)
  PROVE  Inv'
<1> USE DEF Inv
<1>1. CASE Ask(w)
  BY <1>1, LaterReflexive DEF Ask, TypeOK, RegistryOK, RefreshOK
<1>2. CASE ListOk(w)
  <2>1. Between(asked[w].now, ListActive(rows), rows)
    BY ListIsBetween DEF TypeOK, RegistryOK
  <2>2. ListActive(rows) \in SUBSET Values
    BY ListActiveType DEF TypeOK
  <2> QED BY <1>2, <2>1, <2>2 DEF ListOk, TypeOK, RegistryOK, RefreshOK
<1>3. CASE ListFails(w)
  BY <1>3 DEF ListFails, TypeOK, RegistryOK, RefreshOK
<1>4. CASE Install(w)
  BY <1>4 DEF Install, TypeOK, RegistryOK, RefreshOK
<1>5. CASE ClearStale(w)
  BY <1>5 DEF ClearStale, TypeOK, RegistryOK, RefreshOK
<1> QED BY <1>1, <1>2, <1>3, <1>4, <1>5

LEMMA StartInv == ASSUME Inv, NEW w \in Workers, Start(w) PROVE Inv'
BY DEF Inv, Start, TypeOK, RegistryOK, RefreshOK

LEMMA StopInv == ASSUME Inv, NEW w \in Workers, Stop(w) PROVE Inv'
<1> USE DEF Inv, Stop
<1>1. <<>> \in Seq(Row) /\ Later(<<>>, rows)
  BY EmptySeq, LaterReflexive DEF TypeOK
<1>2. TypeOK'
  BY <1>1 DEF TypeOK
<1>3. RegistryOK'
  BY <1>1 DEF TypeOK, RegistryOK
<1>4. RefreshOK'
  <2>1. Between(<<>>, {}, rows)
    BY NothingBetween
  <2> QED BY <2>1 DEF TypeOK, RefreshOK
<1> QED BY <1>2, <1>3, <1>4

LEMMA RequestInv ==
  ASSUME Inv, NEW r \in Requests,
         (\E w \in Workers, h \in Headers : Arrive(r, w, h)) \/ Decide(r) \/ Answered(r)
  PROVE  Inv'
<1> USE DEF Inv
<1>1. UNCHANGED <<schema, rows, said, phase, refresh, reply, cache, stale, asked>>
  BY DEF Arrive, Decide, Answered
<1>2. request' \in [Requests -> {Idle} \cup [worker : Workers, header : Headers, stage : Stages]]
  <2>1. ASSUME NEW w \in Workers, NEW h \in Headers, Arrive(r, w, h) PROVE <1>2
    BY <2>1 DEF Arrive, TypeOK, Stages
  <2>2. CASE Decide(r)
    <3>1. request[r] \in [worker : Workers, header : Headers, stage : Stages]
      BY <2>2 DEF Decide, TypeOK, Idle
    <3>2. Verdict(request[r].worker, request[r].header) \in Stages
      BY DEF Verdict, Stages
    <3>3. [request[r] EXCEPT !.stage = Verdict(request[r].worker, request[r].header)]
            \in [worker : Workers, header : Headers, stage : Stages]
      BY <3>1, <3>2
    <3> QED BY <2>2, <3>3 DEF Decide, TypeOK
  <2>3. CASE Answered(r)
    BY <2>3 DEF Answered, TypeOK
  <2> QED BY <2>1, <2>2, <2>3
<1>3. TypeOK'
  BY <1>1, <1>2 DEF TypeOK
<1>4. RegistryOK' /\ RefreshOK'
  BY <1>1 DEF RegistryOK, RefreshOK
<1> QED BY <1>3, <1>4

LEMMA StepInv == Inv /\ [Next]_vars => Inv'
<1> SUFFICES ASSUME Inv, [Next]_vars PROVE Inv'
  OBVIOUS
<1>1. CASE Next
  BY <1>1, AddInv, RevokeInv, OtherCommandsInv, StartInv, RefreshInv, StopInv, RequestInv DEF Next
<1>2. CASE UNCHANGED vars
  BY <1>2 DEF vars, Inv, TypeOK, RegistryOK, RefreshOK
<1> QED BY <1>1, <1>2

LEMMA AlwaysInv == Spec => []Inv
BY InitInv, StepInv, PTL DEF Spec

-----------------------------------------------------------------------------
(* The type invariant (token_db.py, auth.py). *)
THEOREM TypeCorrect == Spec => []TypeOK
BY AlwaysInv, PTL DEF Inv

(* However long an answer of the registry is under way, whatever commands  *)
(* run meanwhile and whatever refreshes fail, a worker's set is not more   *)
(* than one refresh behind (auth.py refresh_db_tokens, token_db.py          *)
(* list_active).                                                            *)
THEOREM OneRefreshBehind == Spec => []WithinOneRefresh
<1>1. Inv => WithinOneRefresh
  BY DEF Inv, RefreshOK, Between, WithinOneRefresh
<1> QED BY <1>1, AlwaysInv, PTL

(* The rows change only by commands, and none makes a revoked value active *)
(* (scripts/tokens.py, the UNIQUE constraint of token_db.py).               *)
THEOREM RevokedStaysRevoked == Spec => RevokedForGood
<1>1. Inv /\ [Next]_vars => [Revoked(rows) \subseteq Revoked(rows') \ ListActive(rows')]_rows
  <2> SUFFICES ASSUME Inv, Next, rows' # rows
               PROVE  Revoked(rows) \subseteq Revoked(rows') \ ListActive(rows')
    BY DEF vars
  <2>1. rows \in Seq(Row) /\ Unique(rows)
    BY DEF Inv, TypeOK, RegistryOK
  <2>2. rows' \in Seq(Row) /\ Unique(rows')
    BY StepInv DEF Inv, TypeOK, RegistryOK
  <2>3. Revoked(rows) \subseteq Revoked(rows')
    <3>1. ASSUME NEW v \in Values, Add(v) PROVE <2>3
      BY <2>1, <3>1, AppendRow DEF Add, Fresh
    <3>2. ASSUME NEW i \in 1..MaxRows, Revoke(i) PROVE <2>3
      <4>1. i \in 1..Len(rows)
        BY <2>1, <3>2, LenProperties DEF Revoke
      <4> QED BY <2>1, <3>2, <4>1, RevokeRow DEF Revoke
    <3> QED
      BY <3>1, <3>2 DEF Next, List, InitSchema, AddMalformed, CommandFails, Start, Ask, ListOk,
         ListFails, Install, ClearStale, Stop, Arrive, Decide, Answered
  <2>4. Revoked(rows') \cap ListActive(rows') = {}
    BY <2>2 DEF Unique, Revoked, ListActive
  <2> QED BY <2>3, <2>4
<1> QED BY <1>1, AlwaysInv, PTL DEF Spec, RevokedForGood

(* The middleware trusts and refuses in accordance with the last refresh,  *)
(* though a refresh may fall between its two reads of the set (auth.py      *)
(* dispatch, is_trusted).                                                   *)
THEOREM VerdictsCurrent == Spec => VerdictIsCurrent
<1> DEFINE Current(r) ==
      LET h == request[r].header
          then == asked[request[r].worker].done
      IN  request[r] # Idle /\ request[r].stage = "deciding" /\ request'[r] # Idle =>
            /\ request'[r].stage = "trusted" => h \in EnvTokens \/ h \notin Revoked(then)
            /\ request'[r].stage = "refused" =>
                 h \notin EnvTokens \cup (ListActive(then) \cap ListActive(rows))
<1>1. Inv /\ [Next]_vars => [\A r \in Requests : Current(r)]_request
  <2> SUFFICES ASSUME Inv, Next, NEW r \in Requests, request' # request PROVE Current(r)
    BY DEF vars
  <2> SUFFICES ASSUME request[r] # Idle, request[r].stage = "deciding", request'[r] # request[r],
                      request'[r] # Idle
               PROVE  Current(r)
    OBVIOUS
  <2>1. request[r].worker \in Workers
    BY DEF Inv, TypeOK
  <2>2. Decide(r)
    <3>0. request \in [Requests -> {Idle} \cup [worker : Workers, header : Headers, stage : Stages]]
      BY DEF Inv, TypeOK
    <3>1. ~\E w \in Workers : Stop(w)
      BY <3>0 DEF Stop
    <3>2. PICK q \in Requests : (\E w \in Workers, h \in Headers : Arrive(q, w, h)) \/ Decide(q) \/ Answered(q)
      BY <3>1 DEF Next, Silent, Add, Revoke, List, InitSchema, AddMalformed, CommandFails,
         Start, Ask, ListOk, ListFails, Install, ClearStale
    <3>3. q = r
      BY <3>0, <3>2 DEF Arrive, Decide, Answered
    <3>4. ~\E w \in Workers, h \in Headers : Arrive(r, w, h)
      BY DEF Arrive
    <3>5. ~Answered(r)
      BY DEF Answered
    <3> QED BY <3>2, <3>3, <3>4, <3>5
  <2>3. request'[r].stage = Verdict(request[r].worker, request[r].header)
    BY <2>2 DEF Decide, Inv, TypeOK
  <2>4. Between(asked[request[r].worker].done, cache[request[r].worker], rows)
    BY <2>1 DEF Inv, RefreshOK
  <2> QED BY <2>3, <2>4 DEF Verdict, Trusted, Between
<1> QED BY <1>1, AlwaysInv, PTL DEF Spec, VerdictIsCurrent
=============================================================================
