------------------------- MODULE TokenManagerProofs --------------------------
(***************************************************************************)
(* What TLAPS proves about TokenManager, for every set of ids, requests,   *)
(* workers and rows and every configuration.                               *)
(***************************************************************************)
EXTENDS TokenManager, FiniteSetTheorems, TLAPS

-----------------------------------------------------------------------------
(* Every update maps a row to a row.                                       *)

\* The Mark* methods keep the row's shape.
LEMMA MarkTypes ==
    ASSUME NEW t \in Token
    PROVE  /\ MarkCooling(t) \in Token
           /\ MarkSuccess(t) \in Token
           /\ MarkFailed(t) \in Token
           /\ MarkPolicyQuarantine(t) \in Token
           /\ MarkExpired(t) \in Token
           /\ MarkRefreshUnavailable(t) \in Token
  <1>1. MarkCooling(t) \in Token
    BY DEF Token, Status, CoolUntil, MarkCooling
  <1>2. MarkSuccess(t) \in Token
    BY DEF Token, Status, CoolUntil, MarkSuccess
  <1>3. MarkFailed(t) \in Token
    <2>1. (IF FailThreshold > 0 /\ t.fails + 1 >= FailThreshold
           THEN "disabled" ELSE t.status) \in Status
      BY DEF Token, Status
    <2>2. t.fails + 1 \in Nat
      BY DEF Token
    <2> QED BY <2>1, <2>2 DEF Token, MarkFailed
  <1>4. MarkPolicyQuarantine(t) \in Token
    BY DEF Token, Status, CoolUntil, MarkPolicyQuarantine
  <1>5. MarkExpired(t) \in Token
    BY DEF Token, Status, MarkExpired
  <1>6. MarkRefreshUnavailable(t) \in Token
    BY DEF Token, Status, MarkRefreshUnavailable
  <1> QED BY <1>1, <1>2, <1>3, <1>4, <1>5, <1>6

\* What a synchronization grants is a quota for every category.
LEMMA QuotaTypes ==
    ASSUME NEW t \in Token, NEW n \in Nat
    PROVE  SyncedQuota(t, n) \in [Category -> Nat]
  <1>2. ASSUME NEW c \in Category, NEW m \in Nat
        PROVE  ClampQuota(c, m, t.mode) \in Nat
    BY ConfigAssumption DEF ClampQuota
  <1>3. t.quota \in [Category -> Nat] /\ Chat \in Category
    BY DEF Token, Category
  <1> QED BY <1>2, <1>3, ConfigAssumption DEF SyncedQuota

\* Consume keeps the row's shape.
LEMMA ConsumeType ==
    ASSUME NEW t \in Token, NEW c \in Category, NEW cost \in Nat
    PROVE  Consume(t, c, cost) \in Token
  <1> DEFINE left == IF cost < t.quota[c] THEN t.quota[c] - cost ELSE 0
             spent(q) == [t EXCEPT !.quota[c] = q, !.cool = "none",
                                   !.status = "quota_exhausted"]
             woken(q) == [t EXCEPT !.quota[c] = q,
                                   !.status = IF @ = "quota_exhausted"
                                              THEN "active" ELSE @]
  <1>1. left \in Nat /\ t.quota[c] \in Nat
    BY DEF Token
  <1>2. ASSUME NEW q \in Nat PROVE spent(q) \in Token
    BY DEF Token, Status, CoolUntil
  <1>3. ASSUME NEW q \in Nat PROVE woken(q) \in Token
    <2>1. (IF t.status = "quota_exhausted" THEN "active" ELSE t.status)
             \in Status
      BY DEF Token, Status
    <2> QED BY <2>1 DEF Token
  <1>4. Consume(t, c, cost) \in {spent(0), woken(t.quota[c]), woken(left)}
    BY DEF Consume
  <1> QED BY <1>1, <1>2, <1>3, <1>4

\* The ticker, the scheduler and the upstream checks keep the row's shape.
LEMMA RecoveryTypes ==
    ASSUME NEW t \in Token
    PROVE  /\ TickerRestore(t) \in Token
           /\ RestoreToken(t) \in Token
           /\ Validated(t) \in Token
           /\ \A n \in Nat : Synced(t, n) \in Token
           /\ \A kind \in {"sync", "validate"}, why \in Refusal :
                 Refused(t, kind, why) \in Token
  <1>1. TickerRestore(t) \in Token
    BY DEF Token, Status, CoolUntil, TickerRestore
  <1>2. RestoreToken(t) \in Token
    <2>1. RestoredQuota \in [Category -> Nat]
      BY ConfigAssumption DEF RestoredQuota
    <2> QED BY <2>1 DEF Token, Status, CoolUntil, RestoreToken
  <1>3. ASSUME NEW kind \in {"sync", "validate"}, NEW why \in Refusal
        PROVE  Refused(t, kind, why) \in Token
    BY DEF Token, Status, Refused, Refusal
  <1>4. ASSUME NEW u \in Token PROVE Reactivated(u) \in Token
    BY DEF Token, Status, CoolUntil, Reactivated
  <1>5. ASSUME NEW u \in Token
        PROVE  [u EXCEPT !.status = "quota_exhausted", !.cool = "none"] \in Token
    BY DEF Token, Status, CoolUntil
  <1>6. ASSUME NEW n \in Nat PROVE Synced(t, n) \in Token
    <2> DEFINE u == [t EXCEPT !.quota = SyncedQuota(t, n)]
    <2>1. u \in Token
      BY QuotaTypes DEF Token
    <2>2. Synced(t, n) \in {Reactivated(u), u,
             [u EXCEPT !.status = "quota_exhausted", !.cool = "none"]}
      BY DEF Synced
    <2> QED BY <2>1, <2>2, <1>4, <1>5
  <1>7. Validated(t) \in Token
    BY <1>4, <1>5 DEF Validated
  <1> QED BY <1>1, <1>2, <1>3, <1>6, <1>7

-----------------------------------------------------------------------------
(* Type correctness.                                                       *)

\* An update by id, applied or lost, leaves rows and dirty ids well-typed.
LEMMA PutType ==
    ASSUME TypeOK, NEW i \in Ids, NEW t \in Token, Put(i, t)
    PROVE  token' \in [Ids -> Token] /\ dirty' \subseteq Ids
  BY DEF TypeOK, Put

\* So does a check that writes through its pointer.
LEMMA WriteType ==
    ASSUME TypeOK, NEW k \in Checkers, NEW t \in Token, Write(k, t)
    PROVE  token' \in [Ids -> Token] /\ dirty' \subseteq Ids
  BY DEF TypeOK, Write, Check

\* A new grant leaves a debt for every id and category.
LEMMA GrantedType ==
    ASSUME TypeOK, NEW i \in Ids, Granted(i)
    PROVE  unpaid' \in [Ids -> [Category -> Nat]]
  BY DEF TypeOK, Granted, NoDebt

\* Starting and ending a check keeps the table of checks well-typed.
LEMMA CheckTypes ==
    ASSUME TypeOK, NEW k \in Checkers
    PROVE  /\ Done(k) => check' \in [Checkers -> Check]
           /\ \A kind \in {"sync", "validate"}, i \in Ids :
                 Begin(k, kind, i) => check' \in [Checkers -> Check]
  <1>1. Done(k) => check' \in [Checkers -> Check]
    BY DEF TypeOK, Done, Check
  <1>2. ASSUME NEW kind \in {"sync", "validate"}, NEW i \in Ids,
               Begin(k, kind, i)
        PROVE  check' \in [Checkers -> Check]
    <2>1. [kind |-> kind, id |-> i, attached |-> TRUE] \in Check
      BY DEF Check
    <2> QED BY <1>2, <2>1 DEF TypeOK, Begin
  <1> QED BY <1>1, <1>2

\* What LoadTokens leaves behind is well-typed.
LEMMA InitType == Init => TypeOK
  <1> SUFFICES ASSUME Init PROVE TypeOK
    OBVIOUS
  <1>1. token \in [Ids -> Token]
    BY ManagerAssumption DEF Init
  <1>2. req \in [Requests -> Request]
    BY ManagerAssumption DEF Init, Request, Category
  <1>3. check \in [Checkers -> Check]
    BY DEF Init, Check
  <1>4. scan \in Scan
    BY ManagerAssumption DEF Init, Scan
  <1>5. unpaid \in [Ids -> [Category -> Nat]]
    BY DEF Init
  <1> QED BY <1>1, <1>2, <1>3, <1>4, <1>5 DEF Init, TypeOK

\* A request's steps.
LEMMA RequestType ==
    ASSUME TypeOK, NEW r \in Requests, RequestStep(r)
    PROVE  TypeOK'
  <1> USE DEF history
  <1>1. CASE \E i \in Ids, c \in RequestCats : Pick(r, i, c)
    <2>1. req' \in [Requests -> Request]
      BY <1>1, ManagerAssumption DEF TypeOK, Pick, Request
    <2> QED BY <1>1, <2>1 DEF TypeOK, Pick
  <1>2. CASE ReportSuccess(r)
    <2>1. req' \in [Requests -> Request] /\ req[r].id \in Ids
      BY <1>2 DEF TypeOK, ReportSuccess, Request
    <2>2. MarkSuccess(token[req[r].id]) \in Token
      BY <2>1, MarkTypes DEF TypeOK
    <2>3. token' \in [Ids -> Token] /\ dirty' \subseteq Ids
      BY <1>2, <2>1, <2>2, PutType DEF TypeOK, ReportSuccess
    <2> QED BY <1>2, <2>1, <2>3 DEF TypeOK, ReportSuccess
  <1>3. CASE \E cost \in Costs : ConsumeQuota(r, cost)
    <2> PICK cost \in Costs : ConsumeQuota(r, cost)
      BY <1>3
    <2>1. req' \in [Requests -> Request] /\ req[r].id \in Ids
            /\ req[r].cat \in Category
      BY DEF TypeOK, ConsumeQuota, AfterConsume, Request
    <2>2. Consume(token[req[r].id], req[r].cat, cost) \in Token
      BY <2>1, ConsumeType, ManagerAssumption DEF TypeOK
    <2>3. token' \in [Ids -> Token] /\ dirty' \subseteq Ids
      BY <2>1, <2>2, PutType DEF ConsumeQuota
    <2>4. unpaid' \in [Ids -> [Category -> Nat]]
      BY <2>1 DEF TypeOK, ConsumeQuota
    <2> QED BY <2>1, <2>3, <2>4 DEF TypeOK, ConsumeQuota
  <1>4. CASE Fail(r)
    <2>1. req[r].id \in Ids /\ req[r].tries \in Nat
      BY DEF TypeOK, Request
    <2>2. token[req[r].id] \in Token
      BY <2>1 DEF TypeOK
    <2>3. req' \in [Requests -> Request]
      <3>1. CASE /\ req[r].tries + 1 < MaxAttempts
                 /\ req' = [req EXCEPT ![r].tries = @ + 1]
        <4>1. req[r].tries + 1 \in 0 .. MaxAttempts
          BY <2>1, <3>1, ManagerAssumption
        <4> QED BY <3>1, <4>1 DEF TypeOK, Request
      <3>2. CASE req' = [req EXCEPT ![r].pc = "idle"]
        BY <3>2 DEF TypeOK, Request
      <3> QED BY <1>4, <3>1, <3>2 DEF Fail
    <2>4. token' \in [Ids -> Token] /\ dirty' \subseteq Ids /\ held' \subseteq Ids
      BY <1>4, <2>1, <2>2, MarkTypes, PutType DEF TypeOK, Fail, Penalty
    <2> QED BY <1>4, <2>3, <2>4 DEF TypeOK, Fail
  <1> QED BY <1>1, <1>2, <1>3, <1>4 DEF RequestStep

\* The end of an upstream check.
LEMMA CheckType ==
    ASSUME TypeOK, NEW k \in Checkers, CheckStep(k)
    PROVE  TypeOK'
  <1> USE DEF history
  <1>0. /\ check[k].id \in Ids
        /\ check[k].kind \in {"none", "sync", "validate"}
        /\ token[check[k].id] \in Token
    BY DEF TypeOK, Check
  <1>1. CASE \E why \in Refusal : FinishRefused(k, why)
    <2>1. token' \in [Ids -> Token] /\ dirty' \subseteq Ids
      BY <1>0, <1>1, RecoveryTypes, WriteType DEF FinishRefused
    <2> QED BY <1>1, <2>1, CheckTypes DEF TypeOK, FinishRefused
  <1>2. CASE FinishFailed(k)
    BY <1>2, CheckTypes DEF TypeOK, FinishFailed
  <1>3. CASE \E n \in Remaining : FinishSync(k, n)
    <2>1. token' \in [Ids -> Token] /\ dirty' \subseteq Ids
      BY <1>0, <1>3, RecoveryTypes, WriteType, ManagerAssumption DEF FinishSync
    <2>2. unpaid' \in [Ids -> [Category -> Nat]]
      BY <1>0, <1>3, GrantedType DEF TypeOK, FinishSync
    <2> QED BY <1>3, <2>1, <2>2, CheckTypes DEF TypeOK, FinishSync
  <1>4. CASE FinishValidate(k)
    <2>1. token' \in [Ids -> Token] /\ dirty' \subseteq Ids
      BY <1>0, <1>4, RecoveryTypes, WriteType DEF FinishValidate
    <2> QED BY <1>4, <2>1, CheckTypes DEF TypeOK, FinishValidate
  <1> QED BY <1>1, <1>2, <1>3, <1>4 DEF CheckStep

\* The recovery scheduler's steps.
LEMMA SchedulerType == ASSUME TypeOK, SchedulerStep PROVE TypeOK'
  <1> USE DEF history
  <1>0. \A e \in scan.todo : e.id \in Ids
    BY DEF TypeOK, Scan
  <1>1. CASE \E m \in RecoveryModes : RefreshScan(m)
    <2> PICK m \in RecoveryModes : RefreshScan(m)
      BY <1>1
    <2>1. m \in {"auto", "upstream"}
      BY ManagerAssumption
    <2> DEFINE due == {i \in live : token[i].status = "cooling"
                                    /\ token[i].cool = "over"}
               entry(i) == [id |-> i, manual |-> token[i].mode = "manual"]
    <2>2. {entry(i) : i \in due} \subseteq [id : Ids, manual : BOOLEAN]
      <3>1. ASSUME NEW i \in due, NEW b \in BOOLEAN
            PROVE  [id |-> i, manual |-> b] \in [id : Ids, manual : BOOLEAN]
        BY DEF TypeOK
      <3>2. \A i \in due : (token[i].mode = "manual") \in BOOLEAN
        OBVIOUS
      <3>3. \A i \in due : entry(i) \in [id : Ids, manual : BOOLEAN]
        BY <3>1, <3>2, Zenon
      <3> HIDE DEF entry, due
      <3> QED BY <3>3
    <2>3. scan' = [mode |-> m, todo |-> {entry(i) : i \in due}]
      BY DEF RefreshScan
    <2>4. scan' \in Scan
      BY <2>1, <2>2, <2>3 DEF Scan
    <2> QED BY <2>4 DEF TypeOK, RefreshScan
  <1>2. CASE \E e \in scan.todo : AutoRestore(e)
    <2> PICK e \in scan.todo : AutoRestore(e)
      BY <1>2
    <2>1. scan' \in Scan
      BY DEF TypeOK, AutoRestore, Scan
    <2>2. RestoreToken(token[e.id]) \in Token
      BY <1>0, RecoveryTypes DEF TypeOK
    <2>3. token' \in [Ids -> Token] /\ dirty' \subseteq Ids
      BY <1>0, <2>2, PutType DEF TypeOK, AutoRestore
    <2>4. unpaid' \in [Ids -> [Category -> Nat]]
      BY <1>0, GrantedType DEF TypeOK, AutoRestore
    <2> QED BY <2>1, <2>3, <2>4 DEF TypeOK, AutoRestore
  <1>3. CASE \E w \in Workers, e \in scan.todo : RefreshTake(w, e)
    <2> PICK w \in Workers, e \in scan.todo : RefreshTake(w, e)
      BY <1>3
    <2>1. scan' \in Scan
      BY DEF TypeOK, RefreshTake, Scan
    <2>2. check' \in [Checkers -> Check]
      BY <1>0, CheckTypes DEF RefreshTake, Checkers
    <2> QED BY <2>1, <2>2 DEF TypeOK, RefreshTake
  <1> QED BY <1>1, <1>2, <1>3 DEF SchedulerStep

\* The health checker's steps.
LEMMA HealthType == ASSUME TypeOK, HealthStep PROVE TypeOK'
  <1> USE DEF history
  <1>1. CASE HealthScan
    BY <1>1 DEF TypeOK, HealthScan
  <1>2. CASE \E p \in Probes, i \in sweep : CheckOne(p, i)
    <2> PICK p \in Probes, i \in sweep : CheckOne(p, i)
      BY <1>2
    <2>1. i \in Ids /\ token[i] \in Token
      BY DEF TypeOK
    <2>2. token' \in [Ids -> Token] /\ dirty' \subseteq Ids
      BY <2>1, MarkTypes, PutType DEF TypeOK, CheckOne
    <2>3. check' \in [Checkers -> Check]
      BY <2>1, CheckTypes DEF TypeOK, CheckOne, Checkers
    <2> QED BY <2>2, <2>3 DEF TypeOK, CheckOne
  <1> QED BY <1>1, <1>2 DEF HealthStep

\* The operators' steps.
LEMMA OperatorType == ASSUME TypeOK, OperatorStep PROVE TypeOK'
  <1> USE DEF history
  <1>1. CASE \E p \in Probes, kind \in {"sync", "validate"}, i \in Ids :
                OperatorCheck(p, kind, i)
    <2>1. check' \in [Checkers -> Check]
      BY <1>1, CheckTypes DEF OperatorCheck, Checkers
    <2> QED BY <1>1, <2>1 DEF TypeOK, OperatorCheck
  <1>2. CASE \E i \in Ids : RefreshTokenOfficial(i)
    <2> PICK i \in Ids : RefreshTokenOfficial(i)
      BY <1>2
    <2>1. MarkRefreshUnavailable(token[i]) \in Token
      BY MarkTypes DEF TypeOK
    <2>2. token' \in [Ids -> Token] /\ dirty' \subseteq Ids
      BY <2>1, PutType DEF RefreshTokenOfficial
    <2> QED BY <2>2 DEF TypeOK, RefreshTokenOfficial
  <1>3. CASE \E i \in Ids : RemoveToken(i)
    <2> PICK i \in Ids : RemoveToken(i)
      BY <1>3
    <2>1. check' \in [Checkers -> Check]
      BY DEF TypeOK, RemoveToken, Check
    <2> QED BY <2>1 DEF TypeOK, RemoveToken
  <1>4. CASE \E i \in Ids, row \in Rows : AddToken(i, row)
    <2> PICK i \in Ids, row \in Rows : AddToken(i, row)
      BY <1>4
    <2>1. token' \in [Ids -> Token]
      BY ManagerAssumption DEF TypeOK, AddToken
    <2>2. unpaid' \in [Ids -> [Category -> Nat]]
      BY GrantedType DEF AddToken
    <2> QED BY <2>1, <2>2 DEF TypeOK, AddToken
  <1> QED BY <1>1, <1>2, <1>3, <1>4 DEF OperatorStep

\* Every step keeps the types.
LEMMA NextType == ASSUME TypeOK, [Next]_vars PROVE TypeOK'
  <1> USE DEF history
  <1>1. CASE \E i \in Ids : CoolElapse(i)
    <2> PICK i \in Ids : CoolElapse(i)
      BY <1>1
    <2>1. token' \in [Ids -> Token]
      BY DEF TypeOK, CoolElapse, Token, CoolUntil
    <2> QED BY <2>1 DEF TypeOK, CoolElapse
  <1>2. CASE CheckNow
    <2>1. token' \in [Ids -> Token]
      BY <1>2, RecoveryTypes DEF TypeOK, CheckNow
    <2> QED BY <1>2, <2>1 DEF TypeOK, CheckNow
  <1>3. CASE \E S \in SUBSET dirty : ClearDirty(S)
    BY <1>3 DEF TypeOK, ClearDirty
  <1>4. CASE UNCHANGED vars
    BY <1>4 DEF TypeOK, vars
  <1> QED BY <1>1, <1>2, <1>3, <1>4, RequestType, CheckType, SchedulerType,
             HealthType, OperatorType DEF Next

\* Every reachable state of the manager is well-typed.
THEOREM TypeCorrect == Spec => []TypeOK
  BY InitType, NextType, PTL DEF Spec

-----------------------------------------------------------------------------
(* What one step can do to one row.                                        *)

\* Updates that grant no quota, and updates that do.
Update(t, u) ==
    \/ u \in {MarkCooling(t), MarkFailed(t), MarkPolicyQuarantine(t),
              MarkExpired(t), MarkRefreshUnavailable(t), Validated(t)}
    \/ \E c \in Category, cost \in Nat : u = Consume(t, c, cost)
    \/ TickerRestores(t) /\ u = TickerRestore(t)
    \/ \E kind \in {"sync", "validate"}, why \in Refusal :
          u = Refused(t, kind, why)

Grant(t, u) == u = RestoreToken(t) \/ \E n \in Nat : u = Synced(t, n)

\* What one step can do to the row of id i.
Effect(i) ==
    \/ token'[i] = token[i]
    \/ token'[i] = [token[i] EXCEPT !.cool = "over"] /\ token[i].cool = "running"
    \/ Update(token[i], token'[i]) /\ i \in dirty'
    \/ /\ token'[i] = MarkSuccess(token[i]) /\ i \in dirty'
       /\ \E r \in Requests : ReportSuccess(r) /\ req[r].id = i
    \/ Grant(token[i], token'[i]) /\ i \in dirty' /\ unpaid'[i] = NoDebt
    \/ i \notin live /\ token'[i] \in Rows /\ unpaid'[i] = NoDebt

\* An update by id hits that id only.
LEMMA PutEffect ==
    ASSUME TypeOK, NEW j \in Ids, NEW t, Put(j, t), Update(token[j], t)
    PROVE  \A i \in Ids : Effect(i)
  BY DEF TypeOK, Put, Effect

\* A check that writes through its pointer hits the row it was started for.
LEMMA WriteEffect ==
    ASSUME TypeOK, NEW k \in Checkers, NEW t, Write(k, t),
           Update(token[check[k].id], t)
    PROVE  \A i \in Ids : Effect(i)
  BY DEF TypeOK, Check, Write, Effect

\* A request updates the row of the token it holds, and no other.
LEMMA RequestEffect ==
    ASSUME TypeOK, NEW r \in Requests, RequestStep(r)
    PROVE  \A i \in Ids : Effect(i)
  <1>0. req[r].id \in Ids /\ req[r].cat \in Category
    BY DEF TypeOK, Request
  <1>1. CASE \E i \in Ids, c \in RequestCats : Pick(r, i, c)
    BY <1>1 DEF Pick, Effect
  <1>2. CASE ReportSuccess(r)
    <2> DEFINE t == MarkSuccess(token[req[r].id])
    <2>1. CASE token' = token
      BY <2>1 DEF Effect
    <2>2. CASE token' # token
      <3>1. /\ token' = [token EXCEPT ![req[r].id] = t]
            /\ dirty' = dirty \cup {req[r].id}
        BY <1>2, <2>2 DEF ReportSuccess, Put
      <3>2. ASSUME NEW i \in Ids, i = req[r].id PROVE Effect(i)
        <4>1. token'[i] = MarkSuccess(token[i]) /\ i \in dirty'
          BY <3>1, <3>2 DEF TypeOK
        <4> QED BY <1>2, <3>2, <4>1 DEF Effect
      <3>3. ASSUME NEW i \in Ids, i # req[r].id PROVE Effect(i)
        BY <3>1, <3>3 DEF Effect, TypeOK
      <3> QED BY <3>2, <3>3
    <2> QED BY <2>1, <2>2
  <1>3. CASE \E cost \in Costs : ConsumeQuota(r, cost)
    <2> PICK cost \in Costs : ConsumeQuota(r, cost)
      BY <1>3
    <2> DEFINE t == Consume(token[req[r].id], req[r].cat, cost)
    <2>1. Update(token[req[r].id], t)
      BY <1>0, ManagerAssumption DEF Update
    <2>2. Put(req[r].id, t)
      BY DEF ConsumeQuota
    <2> QED BY <1>0, <2>1, <2>2, PutEffect
  <1>4. CASE Fail(r)
    <2> DEFINE t == token[req[r].id]
    <2>1. /\ Update(t, MarkExpired(t)) /\ Update(t, MarkCooling(t))
          /\ Update(t, MarkPolicyQuarantine(t)) /\ Update(t, MarkFailed(t))
      BY DEF Update
    <2> QED BY <1>0, <1>4, <2>1, PutEffect DEF Fail, Penalty, Effect
  <1> QED BY <1>1, <1>2, <1>3, <1>4 DEF RequestStep

\* The end of an upstream check updates the row it was started for.
LEMMA CheckEffect ==
    ASSUME TypeOK, NEW k \in Checkers, CheckStep(k)
    PROVE  \A i \in Ids : Effect(i)
  <1> DEFINE t == token[check[k].id]
  <1>0. /\ check[k].id \in Ids
        /\ check[k].kind \in {"none", "sync", "validate"}
    BY DEF TypeOK, Check
  <1>1. CASE \E why \in Refusal : FinishRefused(k, why)
    <2> PICK why \in Refusal : FinishRefused(k, why)
      BY <1>1
    <2>1. check[k].kind \in {"sync", "validate"}
      BY <1>0 DEF FinishRefused
    <2>2. Update(t, Refused(t, check[k].kind, why))
      BY <2>1 DEF Update
    <2>3. Write(k, Refused(t, check[k].kind, why))
      BY DEF FinishRefused
    <2> QED BY <2>2, <2>3, WriteEffect
  <1>2. CASE FinishFailed(k)
    BY <1>2 DEF FinishFailed, Effect
  <1>3. CASE \E n \in Remaining : FinishSync(k, n)
    <2> PICK n \in Remaining : FinishSync(k, n)
      BY <1>3
    <2>1. Grant(t, Synced(t, n))
      BY ManagerAssumption DEF Grant
    <2>2. /\ token' = IF check[k].attached
                      THEN [token EXCEPT ![check[k].id] = Synced(t, n)]
                      ELSE token
          /\ dirty' = dirty \cup {check[k].id}
          /\ check[k].attached => unpaid' = [unpaid EXCEPT ![check[k].id] = NoDebt]
      BY DEF FinishSync, Write, Granted
    <2> HIDE DEF t
    <2>3. ASSUME check[k].attached, NEW i \in Ids PROVE Effect(i)
      <3>1. CASE i = check[k].id
        <4>1. token'[i] = Synced(t, n) /\ unpaid'[i] = NoDebt /\ i \in dirty'
          BY <2>2, <2>3, <3>1 DEF TypeOK
        <4> QED BY <2>1, <3>1, <4>1 DEF Effect, t
      <3>2. CASE i # check[k].id
        BY <2>2, <2>3, <3>2 DEF Effect, TypeOK
      <3> QED BY <3>1, <3>2
    <2>4. CASE ~check[k].attached
      BY <2>2, <2>4 DEF Effect
    <2> QED BY <2>3, <2>4
  <1>4. CASE FinishValidate(k)
    <2>1. Update(t, Validated(t))
      BY DEF Update
    <2> QED BY <1>4, <2>1, WriteEffect DEF FinishValidate
  <1> QED BY <1>1, <1>2, <1>3, <1>4 DEF CheckStep

\* The scheduler updates a row only by RestoreToken.
LEMMA SchedulerEffect ==
    ASSUME TypeOK, SchedulerStep
    PROVE  \A i \in Ids : Effect(i)
  <1>1. CASE \E m \in RecoveryModes : RefreshScan(m)
    BY <1>1 DEF RefreshScan, Effect
  <1>2. CASE \E e \in scan.todo : AutoRestore(e)
    <2> PICK e \in scan.todo : AutoRestore(e)
      BY <1>2
    <2>0. e.id \in Ids
      BY DEF TypeOK, Scan
    <2>1. CASE token' = token
      BY <2>1 DEF Effect
    <2>2. CASE token' # token
      <3> DEFINE u == RestoreToken(token[e.id])
      <3>1. /\ token' = [token EXCEPT ![e.id] = u]
            /\ dirty' = dirty \cup {e.id}
            /\ unpaid' = [unpaid EXCEPT ![e.id] = NoDebt]
        BY <2>2 DEF AutoRestore, Put, Granted
      <3>2. Grant(token[e.id], u)
        BY DEF Grant
      <3> HIDE DEF u
      <3> QED BY <2>0, <3>1, <3>2 DEF Effect, TypeOK
    <2> QED BY <2>1, <2>2
  <1>3. CASE \E w \in Workers, e \in scan.todo : RefreshTake(w, e)
    BY <1>3 DEF RefreshTake, Effect
  <1> QED BY <1>1, <1>2, <1>3 DEF SchedulerStep

\* The health checker updates a row only by MarkExpired.
LEMMA HealthEffect ==
    ASSUME TypeOK, HealthStep
    PROVE  \A i \in Ids : Effect(i)
  <1>1. CASE HealthScan
    BY <1>1 DEF HealthScan, Effect
  <1>2. CASE \E p \in Probes, i \in sweep : CheckOne(p, i)
    <2> PICK p \in Probes, j \in sweep : CheckOne(p, j)
      BY <1>2
    <2>1. j \in Ids /\ Update(token[j], MarkExpired(token[j]))
      BY DEF TypeOK, Update
    <2> QED BY <2>1, PutEffect DEF CheckOne, Effect
  <1> QED BY <1>1, <1>2 DEF HealthStep

\* An operator loads rows, drops them or marks a refresh as unavailable.
LEMMA OperatorEffect ==
    ASSUME TypeOK, OperatorStep
    PROVE  \A i \in Ids : Effect(i)
  <1>1. CASE \E p \in Probes, kind \in {"sync", "validate"}, i \in Ids :
                OperatorCheck(p, kind, i)
    BY <1>1 DEF OperatorCheck, Effect
  <1>2. CASE \E i \in Ids : RefreshTokenOfficial(i)
    <2> PICK j \in Ids : RefreshTokenOfficial(j)
      BY <1>2
    <2>1. Update(token[j], MarkRefreshUnavailable(token[j]))
      BY DEF Update
    <2> QED BY <2>1, PutEffect DEF RefreshTokenOfficial
  <1>3. CASE \E i \in Ids : RemoveToken(i)
    BY <1>3 DEF RemoveToken, Effect
  <1>4. CASE \E i \in Ids, row \in Rows : AddToken(i, row)
    BY <1>4 DEF AddToken, Granted, Effect, TypeOK
  <1> QED BY <1>1, <1>2, <1>3, <1>4 DEF OperatorStep

\* Every step leaves each row alone, or updates it and marks it dirty, or
\* lets its cooldown run out, or loads it.
LEMMA StepEffect ==
    ASSUME TypeOK, [Next]_vars
    PROVE  \A i \in Ids : Effect(i)
  <1>1. CASE \E i \in Ids : CoolElapse(i)
    BY <1>1 DEF TypeOK, CoolElapse, Effect
  <1>2. CASE CheckNow
    <2>1. ASSUME NEW i \in live, TickerRestores(token[i])
          PROVE  Update(token[i], TickerRestore(token[i]))
      BY <2>1 DEF Update
    <2> QED BY <1>2, <2>1 DEF CheckNow, Effect, TypeOK
  <1>3. CASE \E S \in SUBSET dirty : ClearDirty(S)
    BY <1>3 DEF ClearDirty, Effect
  <1>4. CASE UNCHANGED vars
    BY <1>4 DEF vars, Effect
  <1> QED BY <1>1, <1>2, <1>3, <1>4, RequestEffect, CheckEffect,
             SchedulerEffect, HealthEffect, OperatorEffect DEF Next

-----------------------------------------------------------------------------
(* Quarantine and the dirty set.                                           *)

\* No update takes a quarantined row straight to active.
LEMMA UpdateKeepsQuarantine ==
    ASSUME NEW t \in Token, NEW u, t.status = "policy_quarantine",
           Update(t, u) \/ Grant(t, u)
    PROVE  u.status # "active"
  <1>1. CASE u \in {MarkCooling(t), MarkFailed(t), MarkPolicyQuarantine(t),
                    MarkExpired(t), MarkRefreshUnavailable(t), Validated(t)}
    BY <1>1 DEF Token, MarkCooling, MarkFailed, MarkPolicyQuarantine,
         MarkExpired, MarkRefreshUnavailable, Validated,
         RestoredByValidate
  <1>2. CASE \E c \in Category, cost \in Nat : u = Consume(t, c, cost)
    BY <1>2 DEF Token, Consume
  <1>3. CASE TickerRestores(t)
    BY <1>3 DEF TickerRestores
  <1>4. CASE \E kind \in {"sync", "validate"}, why \in Refusal :
                u = Refused(t, kind, why)
    BY <1>4 DEF Token, Refused, Refusal
  <1>5. CASE u = RestoreToken(t)
    BY <1>5 DEF RestoreToken
  <1>6. CASE \E n \in Nat : u = Synced(t, n)
    BY <1>6 DEF Token, Synced, RestoredBySync
  <1> QED BY <1>1, <1>2, <1>3, <1>4, <1>5, <1>6 DEF Update, Grant

\* SyncQuota, RevalidateToken, RestoreToken and ReportSuccess, and every other
\* step, leave a quarantined row inactive, however late they come.
THEOREM QuarantineHolds == Spec => NoStepActivatesQuarantined
  <1> DEFINE Keeps == \A i \in live \cap live' :
                         token[i].status = "policy_quarantine"
                         => token'[i].status # "active"
  <1>1. TypeOK /\ [Next]_vars => Keeps
    <2> SUFFICES ASSUME TypeOK, [Next]_vars, NEW i \in live, i \in live',
                        token[i].status = "policy_quarantine"
                 PROVE  token'[i].status # "active"
      OBVIOUS
    <2>1. i \in Ids /\ token[i] \in Token
      BY DEF TypeOK
    <2>2. Effect(i)
      BY <2>1, StepEffect
    <2> QED BY <2>1, <2>2, UpdateKeepsQuarantine DEF Effect, Token, MarkSuccess
  <1>2. TypeOK /\ [Next]_vars => [Keeps]_vars
    BY <1>1
  <1> QED BY <1>2, TypeCorrect, PTL DEF Spec, NoStepActivatesQuarantined

\* Every step that changes a column of a row marks the row dirty.
THEOREM ChangesReachTheFlush == Spec => ChangesAreMarkedDirty
  <1> DEFINE Marks == \A i \in live \cap live' :
                         Columns(token'[i]) # Columns(token[i]) => i \in dirty'
  <1>1. TypeOK /\ [Next]_vars => Marks
    <2> SUFFICES ASSUME TypeOK, [Next]_vars, NEW i \in live, i \in live',
                        i \notin dirty'
                 PROVE  Columns(token'[i]) = Columns(token[i])
      OBVIOUS
    <2>1. i \in Ids /\ token[i] \in Token
      BY DEF TypeOK
    <2>2. Effect(i)
      BY <2>1, StepEffect
    <2>3. \/ token'[i] = token[i]
          \/ /\ token'[i] = [token[i] EXCEPT !.cool = "over"]
             /\ token[i].cool = "running"
      BY <2>2 DEF Effect
    <2> QED BY <2>1, <2>3 DEF Columns, Token
  <1>2. TypeOK /\ [Next]_vars => [Marks]_vars
    BY <1>1
  <1> QED BY <1>2, TypeCorrect, PTL DEF Spec, ChangesAreMarkedDirty

-----------------------------------------------------------------------------
(* Overrun.                                                                *)

\* The requests that may still consume from id i in category c.
Holders(i, c) ==
    {r \in Requests : /\ req[r].pc \in {"using", "marked"}
                      /\ req[r].id = i /\ req[r].cat = c}

\* An id with quota left has no debt, and a holder is a success not yet unpaid.
OverrunInv ==
    \A i \in Ids, c \in Category :
        /\ token[i].quota[c] > 0 => unpaid[i][c] = 0
        /\ unpaid[i][c] + Cardinality(Holders(i, c)) <= Cardinality(Requests)

\* Without a grant, a quota of zero stays zero.
LEMMA UpdateKeepsEmpty ==
    ASSUME NEW t \in Token, NEW u, Update(t, u), NEW c \in Category,
           u.quota[c] > 0
    PROVE  t.quota[c] > 0
  <1>1. CASE u \in {MarkCooling(t), MarkFailed(t), MarkPolicyQuarantine(t),
                    MarkExpired(t), MarkRefreshUnavailable(t), Validated(t)}
    BY <1>1 DEF Token, MarkCooling, MarkFailed, MarkPolicyQuarantine,
         MarkExpired, MarkRefreshUnavailable, Validated, Reactivated
  <1>2. CASE \E d \in Category, cost \in Nat : u = Consume(t, d, cost)
    <2> PICK d \in Category, cost \in Nat : u = Consume(t, d, cost)
      BY <1>2
    <2> DEFINE left == IF cost < t.quota[d] THEN t.quota[d] - cost ELSE 0
    <2>1. t.quota[d] \in Nat /\ t.quota[c] \in Nat /\ left <= t.quota[d]
      BY DEF Token
    <2>2. u.quota \in {[t.quota EXCEPT ![d] = q] : q \in {0, left, t.quota[d]}}
      BY DEF Consume, Token
    <2> QED BY <2>1, <2>2 DEF Token
  <1>3. CASE u = TickerRestore(t)
    BY <1>3 DEF Token, TickerRestore
  <1>4. CASE \E kind \in {"sync", "validate"}, why \in Refusal :
                u = Refused(t, kind, why)
    BY <1>4 DEF Token, Refused, Refusal
  <1> QED BY <1>1, <1>2, <1>3, <1>4 DEF Update

\* A step that keeps the debt of an id keeps "quota left means no debt".
LEMMA KeepsNoDebt ==
    ASSUME TypeOK, NEW i \in Ids, NEW c \in Category, Effect(i),
           token[i].quota[c] > 0 => unpaid[i][c] = 0,
           unpaid'[i][c] \in {unpaid[i][c], 0},
           token'[i].quota[c] > 0
    PROVE  unpaid'[i][c] = 0
  <1>1. token[i] \in Token
    BY DEF TypeOK
  <1>2. CASE unpaid'[i] = NoDebt
    BY <1>2 DEF NoDebt
  <1>3. CASE token'[i] = token[i] \/ token'[i] = [token[i] EXCEPT !.cool = "over"]
    BY <1>1, <1>3 DEF Token
  <1>4. CASE Update(token[i], token'[i])
    BY <1>1, <1>4, UpdateKeepsEmpty
  <1>5. CASE token'[i] = MarkSuccess(token[i])
    BY <1>1, <1>5 DEF Token, MarkSuccess
  <1> QED BY <1>2, <1>3, <1>4, <1>5 DEF Effect

\* There are at most as many holders as requests.
LEMMA HoldersFinite ==
    ASSUME NEW i \in Ids, NEW c \in Category
    PROVE  /\ Cardinality(Requests) \in Nat
           /\ Cardinality(Holders(i, c)) \in Nat
           /\ Cardinality(Holders(i, c)) <= Cardinality(Requests)
           /\ IsFiniteSet(Holders(i, c))
  BY ManagerAssumption, FS_CardinalityType, FS_Subset DEF Holders

\* Steps other than a request's leave the holders alone.
LEMMA OthersKeepHolders ==
    ASSUME TypeOK, [Next]_vars, ~\E r \in Requests : RequestStep(r)
    PROVE  /\ req' = req
           /\ \A i \in Ids : unpaid'[i] \in {unpaid[i], NoDebt}
  <1> USE DEF history
  <1>1. CASE \E k \in Checkers : CheckStep(k)
    BY <1>1 DEF TypeOK, CheckStep, FinishRefused, FinishFailed, FinishSync,
         FinishValidate, Granted
  <1>2. CASE SchedulerStep
    BY <1>2 DEF TypeOK, SchedulerStep, RefreshScan, AutoRestore, RefreshTake,
         Granted
  <1>3. CASE HealthStep
    BY <1>3 DEF HealthStep, HealthScan, CheckOne
  <1>4. CASE OperatorStep
    BY <1>4 DEF TypeOK, OperatorStep, OperatorCheck, RefreshTokenOfficial,
         RemoveToken, AddToken, Granted
  <1>5. CASE \/ \E i \in Ids : CoolElapse(i)
             \/ CheckNow
             \/ \E S \in SUBSET dirty : ClearDirty(S)
             \/ UNCHANGED vars
    BY <1>5 DEF CoolElapse, CheckNow, ClearDirty, vars
  <1> QED BY <1>1, <1>2, <1>3, <1>4, <1>5 DEF Next

\* At the start nobody holds a token and nothing is owed.
LEMMA OverrunInit == ASSUME Init PROVE OverrunInv
  <1> SUFFICES ASSUME NEW i \in Ids, NEW c \in Category
               PROVE  /\ unpaid[i][c] = 0
                      /\ Cardinality(Holders(i, c)) <= Cardinality(Requests)
                      /\ Cardinality(Holders(i, c)) \in Nat
    BY DEF OverrunInv
  <1> QED BY HoldersFinite DEF Init

\* A request's step: a pick finds no debt, and a debt costs a holder.
LEMMA OverrunRequest ==
    ASSUME TypeOK, OverrunInv, NEW r \in Requests, RequestStep(r),
           NEW i \in Ids, NEW c \in Category
    PROVE  /\ token'[i].quota[c] > 0 => unpaid'[i][c] = 0
           /\ unpaid'[i][c] + Cardinality(Holders(i, c)')
                <= Cardinality(Requests)
  <1>0. /\ Effect(i)
        /\ token[i].quota[c] > 0 => unpaid[i][c] = 0
        /\ unpaid[i][c] \in Nat /\ token[i].quota[c] \in Nat
        /\ unpaid[i][c] + Cardinality(Holders(i, c)) <= Cardinality(Requests)
        /\ Cardinality(Holders(i, c)) \in Nat
        /\ Cardinality(Requests) \in Nat
        /\ IsFiniteSet(Holders(i, c))
    BY RequestEffect, HoldersFinite DEF TypeOK, OverrunInv, Token
  <1>1. ASSUME unpaid' = unpaid, Holders(i, c)' \subseteq Holders(i, c)
        PROVE  /\ token'[i].quota[c] > 0 => unpaid'[i][c] = 0
               /\ unpaid'[i][c] + Cardinality(Holders(i, c)')
                    <= Cardinality(Requests)
    <2>1. /\ Cardinality(Holders(i, c)') <= Cardinality(Holders(i, c))
          /\ Cardinality(Holders(i, c)') \in Nat
      BY <1>0, <1>1, FS_Subset, FS_CardinalityType
    <2> QED BY <1>0, <1>1, <2>1, KeepsNoDebt
  <1>2. CASE \E j \in Ids, d \in RequestCats : Pick(r, j, d)
    <2> PICK j \in Ids, d \in RequestCats : Pick(r, j, d)
      BY <1>2
    <2>1. CASE i = j /\ c = d
      <3>1. token' = token /\ unpaid' = unpaid
        BY DEF Pick, history
      <3>2. token[i].quota[c] > 0
        BY <2>1 DEF Pick, Eligible, IsUnlimitedQuota
      <3>3. Holders(i, c)' \subseteq Requests
        BY DEF Holders
      <3>4. /\ Cardinality(Holders(i, c)') <= Cardinality(Requests)
            /\ Cardinality(Holders(i, c)') \in Nat
        BY <3>3, ManagerAssumption, FS_Subset, FS_CardinalityType
      <3> QED BY <1>0, <3>1, <3>2, <3>4
    <2>2. CASE ~(i = j /\ c = d)
      <3>1. Holders(i, c)' \subseteq Holders(i, c)
        BY <2>2 DEF Pick, Holders, TypeOK, Request
      <3> QED BY <1>1, <3>1 DEF Pick, history
    <2> QED BY <2>1, <2>2
  <1>3. CASE ReportSuccess(r)
    <2>1. Holders(i, c)' \subseteq Holders(i, c)
      BY <1>3 DEF ReportSuccess, Holders, TypeOK, Request
    <2> QED BY <1>1, <1>3, <2>1 DEF ReportSuccess, history
  <1>4. CASE Fail(r)
    <2>1. Holders(i, c)' \subseteq Holders(i, c)
      BY <1>4 DEF Fail, Holders, TypeOK, Request
    <2> QED BY <1>1, <1>4, <2>1 DEF Fail
  <1>5. CASE \E cost \in Costs : ConsumeQuota(r, cost)
    <2> PICK cost \in Costs : ConsumeQuota(r, cost)
      BY <1>5
    <2>1. Holders(i, c)' \subseteq Holders(i, c)
      BY DEF ConsumeQuota, AfterConsume, Holders, TypeOK, Request
    <2>2. CASE unpaid'[i] = unpaid[i]
      <3>1. /\ Cardinality(Holders(i, c)') <= Cardinality(Holders(i, c))
            /\ Cardinality(Holders(i, c)') \in Nat
        BY <1>0, <2>1, FS_Subset, FS_CardinalityType
      <3> QED BY <1>0, <2>2, <3>1, KeepsNoDebt
    <2>3. CASE unpaid'[i] # unpaid[i]
      <3>1. /\ i = req[r].id /\ i \in live /\ OutOfQuota(token[i], req[r].cat)
            /\ unpaid' = [unpaid EXCEPT ![i][req[r].cat] = @ + 1]
            /\ \E pc \in {"idle", "refused"} : req' = [req EXCEPT ![r].pc = pc]
        <4> DEFINE j == req[r].id
        <4>0. j \in Ids
          BY DEF TypeOK, Request
        <4>1. /\ j \in live /\ OutOfQuota(token[j], req[r].cat)
              /\ unpaid' = [unpaid EXCEPT ![j][req[r].cat] = @ + 1]
          BY <2>3 DEF ConsumeQuota
        <4>2. i = j
          BY <2>3, <4>0, <4>1 DEF TypeOK
        <4>3. AfterConsume(r, FALSE) \subseteq {"idle", "refused"}
          BY DEF AfterConsume
        <4>4. \E pc \in {"idle", "refused"} : req' = [req EXCEPT ![r].pc = pc]
          BY <4>1, <4>3 DEF ConsumeQuota
        <4> QED BY <4>1, <4>2, <4>4 DEF TypeOK, Request
      <3>2. CASE c = req[r].cat
        <4>1. token[i].quota[c] = 0
          BY <3>1, <3>2 DEF OutOfQuota
        <4>2. ~(token'[i].quota[c] > 0)
          <5>1. token'[i] = Consume(token[i], c, cost)
            BY <3>1, <3>2 DEF ConsumeQuota, Put, TypeOK
          <5>2. Update(token[i], token'[i])
            BY <5>1, ManagerAssumption DEF Update
          <5>3. token[i] \in Token
            BY DEF TypeOK
          <5> QED BY <4>1, <5>2, <5>3, UpdateKeepsEmpty
        <4>3. r \in Holders(i, c)
          BY <3>1, <3>2 DEF ConsumeQuota, Holders
        <4>4. Holders(i, c)' \subseteq Holders(i, c) \ {r}
          <5>1. req'[r].pc \notin {"using", "marked"}
            BY <3>1 DEF TypeOK, Request
          <5> QED BY <2>1, <5>1 DEF Holders
        <4>5. /\ IsFiniteSet(Holders(i, c) \ {r})
              /\ Cardinality(Holders(i, c) \ {r}) = Cardinality(Holders(i, c)) - 1
          BY <1>0, <4>3, FS_RemoveElement
        <4>6. /\ Cardinality(Holders(i, c)') <= Cardinality(Holders(i, c)) - 1
              /\ Cardinality(Holders(i, c)') \in Nat
          BY <4>4, <4>5, FS_Subset, FS_CardinalityType
        <4>7. unpaid'[i][c] = unpaid[i][c] + 1
          BY <3>1, <3>2 DEF TypeOK
        <4> QED BY <1>0, <4>2, <4>6, <4>7
      <3>3. CASE c # req[r].cat
        <4>1. unpaid'[i][c] = unpaid[i][c]
          BY <3>1, <3>3 DEF TypeOK
        <4>2. /\ Cardinality(Holders(i, c)') <= Cardinality(Holders(i, c))
              /\ Cardinality(Holders(i, c)') \in Nat
          BY <1>0, <2>1, FS_Subset, FS_CardinalityType
        <4> QED BY <1>0, <4>1, <4>2, KeepsNoDebt
      <3> QED BY <3>2, <3>3
    <2> QED BY <2>2, <2>3
  <1> QED BY <1>2, <1>3, <1>4, <1>5 DEF RequestStep

\* Every step keeps the overrun invariant.
LEMMA OverrunStep == ASSUME TypeOK, OverrunInv, [Next]_vars PROVE OverrunInv'
  <1>1. CASE \E r \in Requests : RequestStep(r)
    BY <1>1, OverrunRequest DEF OverrunInv
  <1>2. CASE ~\E r \in Requests : RequestStep(r)
    <2> SUFFICES ASSUME NEW i \in Ids, NEW c \in Category
                 PROVE  /\ token'[i].quota[c] > 0 => unpaid'[i][c] = 0
                        /\ unpaid'[i][c] + Cardinality(Holders(i, c)')
                             <= Cardinality(Requests)
      BY DEF OverrunInv
    <2>1. Holders(i, c)' = Holders(i, c)
      BY <1>2, OthersKeepHolders DEF Holders
    <2>2. unpaid'[i][c] \in {unpaid[i][c], 0}
      BY <1>2, OthersKeepHolders DEF NoDebt
    <2>3. /\ Effect(i)
          /\ token[i].quota[c] > 0 => unpaid[i][c] = 0
          /\ unpaid[i][c] + Cardinality(Holders(i, c)) <= Cardinality(Requests)
          /\ unpaid[i][c] \in Nat
      BY StepEffect DEF OverrunInv, TypeOK
    <2>4. token'[i].quota[c] > 0 => unpaid'[i][c] = 0
      BY <2>2, <2>3, KeepsNoDebt
    <2> QED BY <2>1, <2>2, <2>3, <2>4, HoldersFinite
  <1> QED BY <1>1, <1>2

\* Concurrent requests overrun the quota of a token by at most one success
\* each between two grants, whatever the schedule.
THEOREM OverrunIsBounded == Spec => []OverrunBounded
  <1>1. TypeOK /\ OverrunInv => OverrunBounded
    BY HoldersFinite DEF OverrunInv, OverrunBounded, TypeOK
  <1> QED BY <1>1, TypeCorrect, OverrunInit, OverrunStep, PTL DEF Spec

-----------------------------------------------------------------------------
(* Zombies.                                                                *)

\* A row only becomes an active row without quota by MarkSuccess.
LEMMA UpdateMakesNoZombie ==
    ASSUME NEW t \in Token, NEW u, Update(t, u), Zombie(u)
    PROVE  Zombie(t)
  <1>1. CASE u \in {MarkCooling(t), MarkFailed(t), MarkPolicyQuarantine(t),
                    MarkExpired(t), MarkRefreshUnavailable(t)}
    BY <1>1 DEF Token, MarkCooling, MarkFailed, MarkPolicyQuarantine,
         MarkExpired, MarkRefreshUnavailable, Zombie, SomeQuota,
         IsUnlimitedQuota
  <1>2. CASE u = Validated(t)
    BY <1>2 DEF Token, Validated, Reactivated, Zombie, SomeQuota,
         IsUnlimitedQuota
  <1>3. CASE \E c \in Category, cost \in Nat : u = Consume(t, c, cost)
    <2> PICK c \in Category, cost \in Nat : u = Consume(t, c, cost)
      BY <1>3
    <2> DEFINE left == IF cost < t.quota[c] THEN t.quota[c] - cost ELSE 0
    <2>1. left \in Nat
      BY DEF Token
    <2>2. CASE IsUnlimitedQuota(t, AllowUnlimited)
      BY <2>2 DEF Consume, Zombie, IsUnlimitedQuota, Token
    <2>3. CASE ~IsUnlimitedQuota(t, AllowUnlimited) /\ left = 0
      BY <2>3 DEF Consume, Zombie, Token
    <2>4. CASE ~IsUnlimitedQuota(t, AllowUnlimited) /\ left # 0
      <3>1. u.quota[c] = left
        BY <2>4 DEF Consume, Token
      <3> QED BY <2>1, <2>4, <3>1 DEF Zombie, SomeQuota
    <2> QED BY <2>2, <2>3, <2>4
  <1>4. CASE TickerRestores(t) /\ u = TickerRestore(t)
    BY <1>4 DEF Token, TickerRestores, TickerRestore, Zombie, SomeQuota
  <1>5. CASE \E kind \in {"sync", "validate"}, why \in Refusal :
                u = Refused(t, kind, why)
    BY <1>5 DEF Token, Refused, Refusal, Zombie, SomeQuota, IsUnlimitedQuota
  <1> QED BY <1>1, <1>2, <1>3, <1>4, <1>5 DEF Update

\* A grant leaves quota, or leaves the row inactive.
LEMMA GrantMakesNoZombie ==
    ASSUME NEW t \in Token, NEW u, Grant(t, u), Zombie(u)
    PROVE  FALSE
  <1>1. CASE u = RestoreToken(t)
    <2>1. CASE t.status = "policy_quarantine"
      BY <1>1, <2>1 DEF RestoreToken, Zombie
    <2>2. CASE t.status # "policy_quarantine"
      <3>1. u.quota = RestoredQuota
        BY <1>1, <2>2 DEF RestoreToken, Token
      <3>2. RestoredQuota[Chat] > 0 /\ Chat \in Category
        BY ConfigAssumption DEF RestoredQuota, Category
      <3> QED BY <3>1, <3>2 DEF Zombie, SomeQuota
    <2> QED BY <2>1, <2>2
  <1>2. CASE \E n \in Nat : u = Synced(t, n)
    <2> PICK n \in Nat : u = Synced(t, n)
      BY <1>2
    <2>1. CASE n = 0
      BY <2>1 DEF Synced, Zombie, Token
    <2>2. CASE n > 0
      <3>1. u.quota = SyncedQuota(t, n)
        BY DEF Synced, Reactivated, Token
      <3>2. Chat \in Category /\ MaxQuota[Chat] \in Nat
        BY ConfigAssumption DEF Category
      <3>3. SyncedQuota(t, n)[Chat] > 0
        BY <2>2, <3>2 DEF SyncedQuota, ClampQuota
      <3> QED BY <3>1, <3>2, <3>3 DEF Zombie, SomeQuota
    <2> QED BY <2>1, <2>2
  <1> QED BY <1>1, <1>2 DEF Grant

\* A row enters the manager only as one of the loaded rows.
LEMMA LoadedRows ==
    ASSUME TypeOK, [Next]_vars, NEW i \in live', i \notin live
    PROVE  token'[i] \in Rows
  <1>1. CASE \E j \in Ids, row \in Rows : AddToken(j, row)
    BY <1>1 DEF AddToken, TypeOK
  <1>2. CASE ~\E j \in Ids, row \in Rows : AddToken(j, row)
    <2>1. live' \subseteq live
      <3>1. CASE \E r \in Requests : RequestStep(r)
        BY <3>1 DEF RequestStep, Pick, ReportSuccess, ConsumeQuota, Fail
      <3>2. CASE \E k \in Checkers : CheckStep(k)
        BY <3>2 DEF CheckStep, FinishRefused, FinishFailed, FinishSync,
             FinishValidate
      <3>3. CASE SchedulerStep
        BY <3>3 DEF SchedulerStep, RefreshScan, AutoRestore, RefreshTake
      <3>4. CASE HealthStep
        BY <3>4 DEF HealthStep, HealthScan, CheckOne
      <3>5. CASE OperatorStep
        BY <1>2, <3>5 DEF OperatorStep, OperatorCheck, RefreshTokenOfficial,
             RemoveToken
      <3>6. CASE \/ \E j \in Ids : CoolElapse(j)
                 \/ CheckNow
                 \/ \E S \in SUBSET dirty : ClearDirty(S)
                 \/ UNCHANGED vars
        BY <3>6 DEF CoolElapse, CheckNow, ClearDirty, vars
      <3> QED BY <3>1, <3>2, <3>3, <3>4, <3>5, <3>6 DEF Next
    <2> QED BY <2>1
  <1> QED BY <1>1, <1>2

\* Chat requests mark before they consume and never the other way round.
ChatOnly == \A r \in Requests : req[r].cat = Chat /\ req[r].pc # "consumed"

\* With chat as the only category, no request consumes before it marks.
LEMMA ChatOnlyStep ==
    ASSUME RequestCats = {Chat}, TypeOK, ChatOnly, [Next]_vars
    PROVE  ChatOnly'
  <1>1. CASE \E r \in Requests : RequestStep(r)
    <2> PICK r \in Requests : RequestStep(r)
      BY <1>1
    <2>0. Chat # Image
      BY CategoryAssumption
    <2>1. CASE \E i \in Ids, c \in RequestCats : Pick(r, i, c)
      BY <2>1 DEF Pick, ChatOnly, TypeOK
    <2>2. CASE ReportSuccess(r)
      BY <2>2 DEF ReportSuccess, ChatOnly, TypeOK, Request
    <2>3. CASE \E cost \in Costs : ConsumeQuota(r, cost)
      BY <2>0, <2>3 DEF ConsumeQuota, AfterConsume, ChatOnly, TypeOK, Request
    <2>4. CASE Fail(r)
      BY <2>4 DEF Fail, ChatOnly, TypeOK, Request
    <2> QED BY <2>1, <2>2, <2>3, <2>4 DEF RequestStep
  <1>2. CASE ~\E r \in Requests : RequestStep(r)
    BY <1>2, OthersKeepHolders DEF ChatOnly
  <1> QED BY <1>1, <1>2

\* Every step of a chat-only system keeps active rows without quota accounted
\* for by a request that is about to consume.
LEMMA NoZombieStep ==
    ASSUME RequestCats = {Chat}, \A row \in Rows : ~Zombie(row),
           TypeOK, ChatOnly, NoZombie, [Next]_vars
    PROVE  NoZombie'
  <1> SUFFICES ASSUME NEW i \in live', Zombie(token'[i])
               PROVE  \E r \in Requests : req'[r].pc = "marked" /\ req'[r].id = i
    BY DEF NoZombie, Zombie, IsUnlimitedQuota, SomeQuota
  <1>1. i \in live
    BY LoadedRows
  <1>2. i \in Ids /\ token[i] \in Token /\ Effect(i)
    BY <1>1, StepEffect DEF TypeOK
  <1>3. CASE \E r \in Requests : ReportSuccess(r) /\ req[r].id = i
    BY <1>3 DEF ReportSuccess, ChatOnly, TypeOK, Request
  <1>4. CASE Zombie(token[i])
    <2> PICK r \in Requests : req[r].pc = "marked" /\ req[r].id = i
      BY <1>1, <1>4 DEF NoZombie
    <2>1. CASE \E cost \in Costs : ConsumeQuota(r, cost)
      <3> PICK cost \in Costs : ConsumeQuota(r, cost)
        BY <2>1
      <3>1. token'[i] = Consume(token[i], Chat, cost)
        BY <1>1 DEF ConsumeQuota, Put, ChatOnly, TypeOK
      <3>2. token[i].quota[Chat] = 0
              /\ ~IsUnlimitedQuota(token[i], AllowUnlimited)
        BY <1>2, <1>4 DEF Zombie, SomeQuota, Category, Token
      <3>3. cost \in Nat
        BY ManagerAssumption
      <3>4. token'[i].status = "quota_exhausted"
        BY <1>2, <3>1, <3>2, <3>3 DEF Consume, Token
      <3> QED BY <3>4 DEF Zombie
    <2>2. CASE ~\E cost \in Costs : ConsumeQuota(r, cost)
      <3>1. CASE \E s \in Requests : RequestStep(s)
        BY <2>2, <3>1 DEF RequestStep, Pick, ReportSuccess, ConsumeQuota,
             Fail, TypeOK, Request
      <3>2. CASE ~\E s \in Requests : RequestStep(s)
        BY <3>2, OthersKeepHolders
      <3> QED BY <3>1, <3>2
    <2> QED BY <2>1, <2>2
  <1>5. Zombie(token[i]) \/ \E r \in Requests : ReportSuccess(r) /\ req[r].id = i
    <2>1. CASE \/ token'[i] = token[i]
               \/ token'[i] = [token[i] EXCEPT !.cool = "over"]
      BY <1>2, <2>1 DEF Zombie, SomeQuota, IsUnlimitedQuota, Token
    <2>2. CASE Update(token[i], token'[i])
      BY <1>2, <2>2, UpdateMakesNoZombie
    <2>3. CASE Grant(token[i], token'[i])
      BY <1>2, <2>3, GrantMakesNoZombie
    <2>4. CASE i \notin live
      BY <1>1, <2>4
    <2> QED BY <1>2, <2>1, <2>2, <2>3, <2>4 DEF Effect
  <1> QED BY <1>3, <1>4, <1>5

\* When only chat is served and no loaded row is a zombie, an active row
\* without quota is always about to be consumed by the request that woke it.
THEOREM ChatLeavesNoZombie ==
    ASSUME RequestCats = {Chat}, \A row \in Rows : ~Zombie(row)
    PROVE  Spec => []NoZombie
  <1>1. Init => ChatOnly /\ NoZombie
    BY DEF Init, ChatOnly, NoZombie
  <1>2. TypeOK /\ ChatOnly /\ NoZombie /\ [Next]_vars => (ChatOnly /\ NoZombie)'
    BY ChatOnlyStep, NoZombieStep
  <1> QED BY <1>1, <1>2, TypeCorrect, PTL DEF Spec
=============================================================================
