----------------------------- MODULE TokenState -----------------------------
(***************************************************************************)
(* The row of one upstream token and what internal/token does to it.       *)
(*                                                                         *)
(* Every operator below maps a row to the row the code leaves behind: the  *)
(* bodies of the Mark* methods, Consume, RestoreToken, the cooldown ticker *)
(* and the two halves of an upstream check.  Locking, the dirty set and    *)
(* the question which row is hit belong to module TokenManager.            *)
(*                                                                         *)
(* A row keeps the columns some decision reads.  Reasons, error texts,     *)
(* timestamps nobody compares, the refresh status shown to the operator    *)
(* and the Initial* baselines are left out.                                *)
(***************************************************************************)
EXTENDS Naturals

CONSTANTS
    Chat, Image, Video,     \* the quota categories
    FailThreshold,          \* token.fail_threshold, 0 = never disable
    DefaultQuota,           \* token.default_*_quota, 0 = unset
    BuiltinQuota,           \* what auto recovery grants when unset (100/100/200)
    MaxQuota,               \* token.max_*_quota, 0 = no cap
    AllowUnlimited          \* token.allow_unlimited_quota

Category == {Chat, Image, Video}

ASSUME CategoryAssumption == Chat # Image /\ Image # Video /\ Chat # Video

ASSUME ConfigAssumption ==
    /\ FailThreshold \in Nat
    /\ DefaultQuota \in [Category -> Nat]
    /\ BuiltinQuota \in [Category -> Nat \ {0}]
    /\ MaxQuota \in [Category -> Nat]
    /\ AllowUnlimited \in BOOLEAN

Status == {"active", "cooling", "disabled", "expired", "quota_exhausted",
           "invalid", "refresh_required", "refresh_failed",
           "policy_quarantine", "rate_limited", "needs_manual_check"}

QuotaMode == {"limited", "daily_reset", "unlimited", "manual"}

\* CoolUntil: not set, in the future, or already passed.
CoolUntil == {"none", "running", "over"}

\* ExpiresAt is only ever nil or a moment that has passed: "expired" tells which.
Token == [status : Status, cool : CoolUntil, expired : BOOLEAN,
          quota : [Category -> Nat], fails : Nat, mode : QuotaMode,
          capable : BOOLEAN]

-----------------------------------------------------------------------------
(* Quota arithmetic.                                                       *)

IsUnlimitedQuota(t, allow) == allow /\ t.mode = "unlimited"

ClampQuota(c, n, mode) ==
    IF mode # "unlimited" /\ MaxQuota[c] > 0 /\ n > MaxQuota[c]
    THEN MaxQuota[c]
    ELSE n

SomeQuota(t) == \E c \in Category : t.quota[c] > 0

\* Mutant of Eligible: the quota of the category is not looked at.
EligibleWithoutQuota(t, c, allow) ==
    /\ ~t.expired
    /\ t.status \in {"active", "quota_exhausted"}
    /\ c = Video => t.capable

(***************************************************************************)
(* TokenRejectionReason = "".  The selector passes a nil configuration, so *)
(* it calls this with allow = FALSE; preflight and the diagnostics pass    *)
(* the real one.                                                           *)
(***************************************************************************)
Eligible(t, c, allow) ==
    /\ ~t.expired
    /\ t.status \in {"active", "quota_exhausted"}
    /\ c = Video => t.capable
    /\ IsUnlimitedQuota(t, allow) \/ t.quota[c] > 0

-----------------------------------------------------------------------------
(* The Mark* methods.                                                      *)

MarkCooling(t) == [t EXCEPT !.status = "cooling", !.cool = "running"]

MarkSuccess(t) ==
    IF t.status = "policy_quarantine"
    THEN t
    ELSE [t EXCEPT !.status = "active", !.cool = "none", !.fails = 0]

MarkFailed(t) ==
    [t EXCEPT !.fails = @ + 1,
              !.status = IF FailThreshold > 0 /\ t.fails + 1 >= FailThreshold
                         THEN "disabled" ELSE @]

MarkPolicyQuarantine(t) ==
    [t EXCEPT !.status = "policy_quarantine", !.cool = "none"]

MarkExpired(t) == [t EXCEPT !.status = "expired", !.expired = TRUE]

MarkRefreshUnavailable(t) ==
    IF t.status \in {"refresh_required", "refresh_failed"}
    THEN [t EXCEPT !.status = "refresh_failed"]
    ELSE t

-----------------------------------------------------------------------------
(* Consume: the two ways it ends.  The caller has found the token.         *)

\* Mutant of Consume: the cost is taken off a quota that does not cover it.
ConsumeUnchecked(t, c, cost) == [t EXCEPT !.quota[c] = @ - cost]

OutOfQuota(t, c) == ~IsUnlimitedQuota(t, AllowUnlimited) /\ t.quota[c] = 0

Consume(t, c, cost) ==
    LET left == IF cost < t.quota[c] THEN t.quota[c] - cost ELSE 0
        exhausted(q) == [t EXCEPT !.quota[c] = q, !.cool = "none",
                                  !.status = "quota_exhausted"]
        woken(q) == [t EXCEPT !.quota[c] = q,
                              !.status = IF @ = "quota_exhausted"
                                         THEN "active" ELSE @]
    IN  IF IsUnlimitedQuota(t, AllowUnlimited) THEN woken(t.quota[c])
        ELSE IF left = 0 THEN exhausted(0)
        ELSE woken(left)

-----------------------------------------------------------------------------
(* Recovery: the cooldown ticker and the scheduler's auto mode.            *)

\* Mutant of TickerRestores: tokens without quota are woken as well.
TickerRestoresAny(t) == t.status = "cooling" /\ t.cool = "over"

TickerRestores(t) ==
    t.status = "cooling" /\ t.cool = "over" /\ SomeQuota(t)

TickerRestore(t) == [t EXCEPT !.status = "active", !.cool = "none"]

RestoredQuota ==
    [c \in Category |-> IF DefaultQuota[c] > 0 THEN DefaultQuota[c]
                        ELSE BuiltinQuota[c]]

RestoreToken(t) ==
    IF t.status = "policy_quarantine"
    THEN t
    ELSE [t EXCEPT !.quota = RestoredQuota, !.status = "active",
                   !.cool = "none", !.expired = FALSE]

-----------------------------------------------------------------------------
(* The end of an upstream check.                                           *)

\* HTTP statuses the rate-limits API answers with, as far as they are told apart.
Refusal == {"unauthorized", "bad_request", "other_status"}

\* SyncQuota and ValidateToken treat a refusal alike but for one case.
Refused(t, kind, why) ==
    CASE why = "unauthorized" -> [t EXCEPT !.status = "expired",
                                           !.expired = TRUE]
      [] why = "bad_request"  -> [t EXCEPT !.status = "invalid"]
      [] why = "other_status" ->
            IF kind = "validate" /\ t.status = "refresh_required"
            THEN [t EXCEPT !.status = "refresh_failed"] ELSE t

SyncedQuota(t, remaining) ==
    [c \in Category |->
        IF c = Chat THEN ClampQuota(Chat, remaining, t.mode)
        ELSE IF DefaultQuota[c] > 0 THEN ClampQuota(c, DefaultQuota[c], t.mode)
        ELSE t.quota[c]]

\* Mutant of RestoredBySync: everything but a disabled token.
RestoredBySyncMost == Status \ {"disabled"}

RestoredBySync == {"cooling", "quota_exhausted", "expired", "invalid",
                   "refresh_required", "refresh_failed"}

Reactivated(t) ==
    [t EXCEPT !.status = "active", !.cool = "none", !.fails = 0,
              !.expired = FALSE]

Synced(t, remaining) ==
    LET u == [t EXCEPT !.quota = SyncedQuota(t, remaining)]
    IN  IF remaining > 0 /\ t.status \in RestoredBySync THEN Reactivated(u)
        ELSE IF remaining = 0 /\ t.status = "active"
        THEN [u EXCEPT !.status = "quota_exhausted", !.cool = "none"]
        ELSE u

RestoredByValidate == {"expired", "invalid", "refresh_required",
                       "refresh_failed"}

Validated(t) ==
    IF t.status \notin RestoredByValidate THEN t
    ELSE IF SomeQuota(t) \/ IsUnlimitedQuota(t, AllowUnlimited)
    THEN Reactivated(t)
    ELSE [t EXCEPT !.status = "quota_exhausted", !.cool = "none"]
=============================================================================
