---------------------------- MODULE TokenManager ----------------------------
(***************************************************************************)
(* internal/token's TokenManager and everything that drives it: requests   *)
(* that pick a token and report on it later, the cooldown ticker, the      *)
(* quota recovery scheduler, the health checker, the operator's refreshes  *)
(* and reloads, and the flush that clears dirty marks.                     *)
(*                                                                         *)
(* One action is one critical section of TokenManager.mu.  What the code   *)
(* does between two of them is the state kept per actor: a request holds a *)
(* token id, an upstream check holds a pointer, the scheduler and the      *)
(* health checker hold the ids of a snapshot that grows old.               *)
(***************************************************************************)
EXTENDS TokenState, FiniteSets

CONSTANTS
    Ids,            \* token ids
    Rows,           \* rows a load, an import or an operator's reload can bring
    Requests,       \* request goroutines
    RequestCats,    \* the categories they ask for
    Costs,          \* model costs ("model#cost"), at least 1
    MaxAttempts,    \* tries a request makes before it gives up
    Workers,        \* the scheduler's semaphore slots
    Probes,         \* concurrent checks by the health checker and operators
    Remaining,      \* remainingQueries the upstream may answer
    RecoveryModes,  \* token.quota_recovery_mode values a scan may find
    FailBound       \* bound on FailCount

ASSUME ManagerAssumption ==
    /\ Rows \subseteq Token
    /\ IsFiniteSet(Requests)
    /\ RequestCats \subseteq Category
    /\ Costs \subseteq Nat \ {0}
    /\ MaxAttempts \in Nat \ {0}
    /\ Remaining \subseteq Nat
    /\ RecoveryModes \subseteq {"auto", "upstream"}
    /\ Workers \cap Probes = {}
    /\ FailBound \in Nat

VARIABLES
    token,      \* the rows, by id; an id outside live has no row
    live,       \* the keys of TokenManager.tokens
    dirty,      \* TokenManager.dirty
    req,        \* request goroutines
    check,      \* upstream checks in flight
    scan,       \* the scheduler's current sweep
    sweep,      \* ids of the health checker's snapshot still to be checked
    unpaid,     \* history: successes Consume found no quota for since a grant
    held        \* history: ids quarantined since an operator last loaded them

history == <<unpaid, held>>
vars == <<token, live, dirty, req, check, scan, sweep, unpaid, held>>

Checkers == Workers \cup Probes

Request == [pc : {"idle", "using", "marked", "consumed", "refused"}, id : Ids,
            cat : Category, tries : 0 .. MaxAttempts]

\* "attached" says that the pointer the check holds is still the manager's row.
Check == [kind : {"none", "sync", "validate"}, id : Ids, attached : BOOLEAN]

Scan == [mode : {"auto", "upstream"},
         todo : SUBSET [id : Ids, manual : BOOLEAN]]

TypeOK ==
    /\ token \in [Ids -> Token]
    /\ live \subseteq Ids
    /\ dirty \subseteq Ids
    /\ req \in [Requests -> Request]
    /\ check \in [Checkers -> Check]
    /\ scan \in Scan
    /\ sweep \subseteq Ids
    /\ unpaid \in [Ids -> [Category -> Nat]]
    /\ held \subseteq Ids

\* LoadTokens: every row of the database is added and the dirty set is empty.
Init ==
    /\ token \in [Ids -> Rows]
    /\ live = Ids
    /\ dirty = {}
    /\ req \in [Requests -> [pc : {"idle"}, id : Ids, cat : {Chat}, tries : {0}]]
    /\ check \in [Checkers -> [kind : {"none"}, id : Ids, attached : {FALSE}]]
    /\ scan \in [mode : RecoveryModes, todo : {{}}]
    /\ sweep = {}
    /\ unpaid = [i \in Ids |-> [c \in Category |-> 0]]
    /\ held = {i \in Ids : token[i].status = "policy_quarantine"}

-----------------------------------------------------------------------------
(* Row updates.                                                            *)

\* An update by id: lost when the id has no row, marked dirty when it has.
Put(i, t) ==
    IF i \in live
    THEN /\ token' = [token EXCEPT ![i] = t]
         /\ dirty' = dirty \cup {i}
    ELSE UNCHANGED <<token, dirty>>

NoDebt == [c \in Category |-> 0]

\* New quota for an id: the history starts again.
Granted(i) == unpaid' = [unpaid EXCEPT ![i] = NoDebt]

-----------------------------------------------------------------------------
(* Requests: chat.go, video.go, image.go and image_edit.go as far as the   *)
(* token they hold is concerned.                                           *)

Pick(r, i, c) ==
    /\ req[r].pc = "idle"
    /\ i \in live
    /\ Eligible(token[i], c, FALSE)
    /\ req' = [req EXCEPT ![r] = [pc |-> "using", id |-> i, cat |-> c,
                                  tries |-> 0]]
    /\ UNCHANGED <<token, live, dirty, check, scan, sweep, history>>

\* A chat success marks the token first and consumes afterwards.
ReportSuccess(r) ==
    /\ \/ req[r].pc = "using" /\ req[r].cat = Chat
          /\ req' = [req EXCEPT ![r].pc = "marked"]
       \/ req[r].pc = "consumed"
          /\ req' = [req EXCEPT ![r].pc = "idle"]
    /\ LET i == req[r].id
       IN  IF token[i].status = "policy_quarantine"
           THEN UNCHANGED <<token, dirty>>
           ELSE Put(i, MarkSuccess(token[i]))
    /\ UNCHANGED <<live, check, scan, sweep, history>>

\* Media consume first; an image request may go on with its next image, and
\* an image edit that finds no quota reports that as an error of the token.
AfterConsume(r, paid) ==
    CASE req[r].pc = "marked"                        -> {"idle"}
      [] req[r].pc = "using" /\ req[r].cat = Image   ->
            IF paid THEN {"consumed", "using"} ELSE {"idle", "refused"}
      [] OTHER -> IF paid THEN {"consumed"} ELSE {"idle"}

ConsumeQuota(r, cost) ==
    LET i == req[r].id
        c == req[r].cat
        paid == i \in live /\ ~OutOfQuota(token[i], c)
    IN  /\ \/ req[r].pc = "marked"
           \/ req[r].pc = "using" /\ c # Chat
        /\ \E pc \in AfterConsume(r, paid) : req' = [req EXCEPT ![r].pc = pc]
        /\ Put(i, Consume(token[i], c, cost))
        /\ unpaid' = IF i \in live /\ ~paid
                     THEN [unpaid EXCEPT ![i][c] = @ + 1] ELSE unpaid
        /\ UNCHANGED <<live, check, scan, sweep, held>>

\* What an error costs the token: handleError and reportTokenError.
Penalty(i) ==
    \/ Put(i, MarkExpired(token[i])) /\ UNCHANGED held
    \/ Put(i, MarkCooling(token[i])) /\ UNCHANGED held
    \/ Put(i, MarkPolicyQuarantine(token[i])) /\ held' = held \cup {i}
    \/ /\ token[i].fails < FailBound
       /\ Put(i, MarkFailed(token[i])) /\ UNCHANGED held
    \/ UNCHANGED <<token, dirty, held>>   \* transport errors, CF challenges

\* A failed try: the request keeps the token for another try, or lets it go.
Fail(r) ==
    /\ req[r].pc \in {"using", "refused"}
    /\ Penalty(req[r].id)
    /\ \/ /\ req[r].pc = "using" /\ req[r].tries + 1 < MaxAttempts
          /\ req' = [req EXCEPT ![r].tries = @ + 1]
       \/ req' = [req EXCEPT ![r].pc = "idle"]
    /\ UNCHANGED <<live, check, scan, sweep, unpaid>>

-----------------------------------------------------------------------------
(* Time, the cooldown ticker and the recovery scheduler.                   *)

CoolElapse(i) ==
    /\ i \in live /\ token[i].cool = "running"
    /\ token' = [token EXCEPT ![i].cool = "over"]
    /\ UNCHANGED <<live, dirty, req, check, scan, sweep, history>>

\* Mutant of CheckNow: the tokens it wakes are not marked dirty.
CheckNowQuietly ==
    LET due == {i \in live : TickerRestores(token[i])}
    IN  /\ due # {}
        /\ token' = [i \in Ids |-> IF i \in due THEN TickerRestore(token[i])
                                   ELSE token[i]]
        /\ UNCHANGED <<live, dirty, req, check, scan, sweep, history>>

CheckNow ==
    LET due == {i \in live : TickerRestores(token[i])}
    IN  /\ due # {}
        /\ token' = [i \in Ids |-> IF i \in due THEN TickerRestore(token[i])
                                   ELSE token[i]]
        /\ dirty' = dirty \cup due
        /\ UNCHANGED <<live, req, check, scan, sweep, history>>

\* Mutant of RefreshScan: it asks for quota, as the ticker does.
RefreshScanWithQuota(mode) ==
    LET due == {i \in live : TickerRestores(token[i])}
    IN  /\ scan.todo = {} /\ due # {}
        /\ \A w \in Workers : check[w].kind = "none"
        /\ scan' = [mode |-> mode,
                    todo |-> {[id |-> i, manual |-> token[i].mode = "manual"]
                              : i \in due}]
        /\ UNCHANGED <<token, live, dirty, req, check, sweep, history>>

\* refreshExpiredCooling takes its snapshot once the last sweep is done.
RefreshScan(mode) ==
    LET due == {i \in live : token[i].status = "cooling"
                             /\ token[i].cool = "over"}
    IN  /\ scan.todo = {} /\ due # {}
        /\ \A w \in Workers : check[w].kind = "none"
        /\ scan' = [mode |-> mode,
                    todo |-> {[id |-> i, manual |-> token[i].mode = "manual"]
                              : i \in due}]
        /\ UNCHANGED <<token, live, dirty, req, check, sweep, history>>

AutoRestore(e) ==
    /\ e \in scan.todo /\ scan.mode = "auto"
    /\ scan' = [scan EXCEPT !.todo = @ \ {e}]
    /\ IF ~e.manual /\ e.id \in live
             /\ token[e.id].status # "policy_quarantine"
       THEN Put(e.id, RestoreToken(token[e.id])) /\ Granted(e.id)
       ELSE UNCHANGED <<token, dirty, unpaid>>
    /\ UNCHANGED <<live, req, check, sweep, held>>

-----------------------------------------------------------------------------
(* Upstream checks: SyncQuota and ValidateToken around the unlocked fetch. *)

Begin(k, kind, i) ==
    /\ check[k].kind = "none"
    /\ check' = IF i \in live /\ token[i].status # "policy_quarantine"
                THEN [check EXCEPT ![k] = [kind |-> kind, id |-> i,
                                           attached |-> TRUE]]
                ELSE check

RefreshTake(w, e) ==
    /\ e \in scan.todo /\ scan.mode = "upstream"
    /\ Begin(w, "sync", e.id)
    /\ scan' = [scan EXCEPT !.todo = @ \ {e}]
    /\ UNCHANGED <<token, live, dirty, req, sweep, history>>

\* RefreshToken and RevalidateToken, asked for by an operator.
OperatorCheck(p, kind, i) ==
    /\ Begin(p, kind, i)
    /\ check' # check
    /\ UNCHANGED <<token, live, dirty, req, scan, sweep, history>>

HealthChecked == {"active", "cooling", "quota_exhausted", "refresh_required",
                  "refresh_failed"}

HealthScan ==
    LET due == {i \in live : token[i].status \in HealthChecked}
    IN  /\ sweep = {} /\ due # {}
        /\ sweep' = due
        /\ UNCHANGED <<token, live, dirty, req, check, scan, history>>

CheckOne(p, i) ==
    /\ i \in sweep
    /\ sweep' = sweep \ {i}
    /\ IF i \in live /\ token[i].expired
       THEN Put(i, MarkExpired(token[i])) /\ UNCHANGED check
       ELSE Begin(p, "validate", i) /\ UNCHANGED <<token, dirty>>
    /\ UNCHANGED <<live, req, scan, history>>

Done(k) == check' = [check EXCEPT ![k].kind = "none"]

\* The check writes through its pointer and marks the id dirty; a row that
\* was removed or reloaded meanwhile is not the one it writes to.
Write(k, t) ==
    /\ token' = IF check[k].attached
                THEN [token EXCEPT ![check[k].id] = t] ELSE token
    /\ dirty' = dirty \cup {check[k].id}

FinishRefused(k, why) ==
    /\ check[k].kind # "none"
    /\ Write(k, Refused(token[check[k].id], check[k].kind, why))
    /\ Done(k)
    /\ UNCHANGED <<live, req, scan, sweep, history>>

\* No HTTP answer at all: nothing is recorded.
FinishFailed(k) ==
    /\ check[k].kind # "none"
    /\ Done(k)
    /\ UNCHANGED <<token, live, dirty, req, scan, sweep, history>>

FinishSync(k, remaining) ==
    /\ check[k].kind = "sync"
    /\ Write(k, Synced(token[check[k].id], remaining))
    /\ IF check[k].attached THEN Granted(check[k].id) ELSE UNCHANGED unpaid
    /\ Done(k)
    /\ UNCHANGED <<live, req, scan, sweep, held>>

FinishValidate(k) ==
    /\ check[k].kind = "validate"
    /\ Write(k, Validated(token[check[k].id]))
    /\ Done(k)
    /\ UNCHANGED <<live, req, scan, sweep, history>>

-----------------------------------------------------------------------------
(* Operators and the flush.                                                *)

RefreshTokenOfficial(i) ==
    /\ i \in live
    /\ Put(i, MarkRefreshUnavailable(token[i]))
    /\ UNCHANGED <<live, req, check, scan, sweep, history>>

\* RemoveFromPool, and the first half of SyncToken.
RemoveToken(i) ==
    /\ i \in live
    /\ live' = live \ {i}
    /\ dirty' = dirty \ {i}
    /\ check' = [k \in Checkers |->
                    IF check[k].id = i
                    THEN [check[k] EXCEPT !.attached = FALSE] ELSE check[k]]
    /\ UNCHANGED <<token, req, scan, sweep, history>>

\* AddToPool, and the second half of SyncToken.
AddToken(i, row) ==
    /\ i \notin live
    /\ live' = live \cup {i}
    /\ token' = [token EXCEPT ![i] = row]
    /\ Granted(i)
    /\ held' = IF row.status = "policy_quarantine" THEN held \cup {i}
               ELSE held \ {i}
    /\ UNCHANGED <<dirty, req, check, scan, sweep>>

\* The flush has persisted some of the tokens it found dirty.
ClearDirty(S) ==
    /\ S # {}
    /\ dirty' = dirty \ S
    /\ UNCHANGED <<token, live, req, check, scan, sweep, history>>

-----------------------------------------------------------------------------
RequestStep(r) ==
    \/ \E i \in Ids, c \in RequestCats : Pick(r, i, c)
    \/ ReportSuccess(r)
    \/ \E cost \in Costs : ConsumeQuota(r, cost)
    \/ Fail(r)

CheckStep(k) ==
    \/ \E why \in Refusal : FinishRefused(k, why)
    \/ FinishFailed(k)
    \/ \E n \in Remaining : FinishSync(k, n)
    \/ FinishValidate(k)

SchedulerStep ==
    \/ \E m \in RecoveryModes : RefreshScan(m)
    \/ \E e \in scan.todo : AutoRestore(e)
    \/ \E w \in Workers, e \in scan.todo : RefreshTake(w, e)

HealthStep ==
    \/ HealthScan
    \/ \E p \in Probes, i \in sweep : CheckOne(p, i)

OperatorStep ==
    \/ \E p \in Probes, kind \in {"sync", "validate"}, i \in Ids :
          OperatorCheck(p, kind, i)
    \/ \E i \in Ids : RefreshTokenOfficial(i) \/ RemoveToken(i)
    \/ \E i \in Ids, row \in Rows : AddToken(i, row)

Next ==
    \/ \E r \in Requests : RequestStep(r)
    \/ \E k \in Checkers : CheckStep(k)
    \/ \E i \in Ids : CoolElapse(i)
    \/ CheckNow
    \/ SchedulerStep
    \/ HealthStep
    \/ OperatorStep
    \/ \E S \in SUBSET dirty : ClearDirty(S)

Spec == Init /\ [][Next]_vars

(***************************************************************************)
(* Time passes, the ticker and the scheduler's loop run until shutdown,    *)
(* and every upstream check ends (the HTTP client has a timeout).          *)
(***************************************************************************)
Fairness ==
    /\ \A i \in Ids : WF_vars(CoolElapse(i))
    /\ WF_vars(CheckNow)
    /\ WF_vars(SchedulerStep)
    /\ \A k \in Checkers : WF_vars(CheckStep(k))

FairSpec == Spec /\ Fairness

-----------------------------------------------------------------------------
(* Properties.                                                             *)

\* No step takes a quarantined token straight to active: SyncQuota,
\* RevalidateToken, RestoreToken and ReportSuccess must not, however late
\* their answer is (MILESTONE_VPS_TOKEN_POLICY_STABILIZATION_PASS.md:26).
NoStepActivatesQuarantined ==
    [][\A i \in live \cap live' :
          token[i].status = "policy_quarantine" => token'[i].status # "active"]_vars

\* The columns a flush writes; that time passes changes no column.
Columns(t) == [t EXCEPT !.cool = IF @ = "none" THEN "none" ELSE "set"]

\* A row that changes in memory is marked for persistence by the same step:
\* whatever path an update takes, the flush will see it (manager.go:22).
ChangesAreMarkedDirty ==
    [][\A i \in live \cap live' :
          Columns(token'[i]) # Columns(token[i]) => i \in dirty']_vars

\* Quota is checked at Pick and taken at success, so concurrent requests can
\* overrun it, but never by more than one success per request goroutine.
OverrunBounded ==
    \A i \in Ids, c \in Category : unpaid[i][c] <= Cardinality(Requests)

\* "Prevent zombie: active token with no quota must enter cooling"
\* (quota.go:178): an active row without any quota is only ever seen between
\* the two halves of a chat success, and that request's Consume is to come.
Zombie(t) == t.status = "active" /\ ~IsUnlimitedQuota(t, AllowUnlimited)
             /\ ~SomeQuota(t)

NoZombie ==
    \A i \in live : Zombie(token[i]) =>
        \E r \in Requests : req[r].pc = "marked" /\ req[r].id = i

\* A cooling token with a deadline leaves the cooling state: the ticker takes
\* those with quota left, the scheduler's auto mode the others; only a token
\* in manual mode without any quota stays, as its operator asked.
CoolingEnds ==
    \A i \in Ids :
        (i \in live /\ token[i].status = "cooling" /\ token[i].cool # "none")
        ~> \/ i \notin live
           \/ token[i].status # "cooling"
           \/ token[i].mode = "manual" /\ ~SomeQuota(token[i])

\* Doc: "policy_quarantine must not auto-clear"
\* (MILESTONE_VPS_TOKEN_POLICY_STABILIZATION_PASS.md:24): a token that was
\* quarantined is not active again before an operator has reloaded it.
QuarantineNotAutoCleared ==
    \A i \in live \cap held : token[i].status # "active"
=============================================================================
