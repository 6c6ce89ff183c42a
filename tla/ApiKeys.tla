------------------------------- MODULE ApiKeys -------------------------------
(***************************************************************************)
(* One API key: the row admins edit (httpapi/admin_apikey.go and           *)
(* store/apikey_store.go), and the limits every /v1 request passes         *)
(* (httpapi/middleware.go, APIKeyAuth): a daily one, on a counter in the   *)
(* row, and one per minute, on an entry of two atomics that is shared by   *)
(* all requests and thrown away by a cleanup (rate_limit.go).              *)
(*                                                                         *)
(* Time is counted in units of which a minute has Window.  Keys are the    *)
(* numbers 1, 2, ... in the order they were generated.                     *)
(***************************************************************************)
EXTENDS Integers, FiniteSets, FiniteSetsExt

CONSTANTS
    Requests,   \* requests of one client, handled at once
    Editors,    \* admin requests that edit the row
    Window,     \* 60 seconds
    RateLimits, DailyLimits,    \* what admins set, 0 for no limit
    RateDefault, DailyDefault,  \* gorm's defaults, 60 and 1000
    Expiries,   \* times of expiry admins set
    Patches,    \* bodies of PATCH: columns with their values
    None,       \* no entry
    Entries,    \* entries that can be in memory at once
    MaxTime, MaxKeys, MaxDone, MaxEdits, MaxAdds      \* bounds

ASSUME ApiKeyAssumption ==
    /\ IsFiniteSet(Requests) /\ Requests \cap Editors = {}
    /\ Window \in Nat \ {0}
    /\ RateLimits \in SUBSET Nat /\ DailyLimits \in SUBSET Nat
    /\ \E m \in RateLimits : \A x \in RateLimits : x <= m
    /\ \E m \in DailyLimits : \A x \in DailyLimits : x <= m
    /\ Expiries \in SUBSET (0 .. MaxTime)
    /\ RateDefault \in Nat \ {0} /\ DailyDefault \in Nat \ {0}
    /\ IsFiniteSet(Entries) /\ None \notin Entries
    /\ Cardinality(Entries) > Cardinality(Requests)
    /\ MaxTime \in Nat /\ MaxKeys \in Nat \ {0} /\ MaxDone \in Nat
    /\ MaxEdits \in Nat /\ MaxAdds \in Nat

VARIABLES
    row,        \* the row of api_keys
    editors,    \* PATCH requests: the row they have read
    requests,   \* where a request is, and what it has read
    clock,      \* unix time
    entries,    \* rateLimitEntry's, those the map has dropped too
    mapped,     \* the entry rateLimitMap holds
    stale,      \* the entry the cleanup is about to delete
    edits,      \* requests of admins, for the bound
    doneToday,  \* history: requests that succeeded since midnight
    clobbered,  \* history: columns a PATCH has set back
    window      \* history, per entry: requests admitted since windowStart was
                \* set, adds since, and those admitted while another request
                \* had set a windowStart and not counted itself yet

vars == <<row, editors, requests, clock, entries, mapped, stale, edits,
          doneToday, clobbered, window>>

rowVars   == <<row, editors, edits, doneToday, clobbered>>
limitVars == <<entries, mapped, stale, window>>

Status == {"active", "inactive"}
Never  == MaxTime + 1
Rates  == RateLimits \cup {RateDefault}
Dailys == DailyLimits \cup {DailyDefault}

Row == [key : 1 .. MaxKeys, status : Status, expires : Expiries \cup {Never},
        rate : Rates, daily : Dailys, used : 0 .. MaxDone, deleted : BOOLEAN]

Columns == {"key", "status", "expires", "rate", "daily", "used", "deleted"}

Entry == [start : {-Window} \cup 0 .. MaxTime, count : Nat]

\* The columns a PATCH may set, each with the values admins give it.
ASSUME PatchAssumption ==
    \A p \in Patches :
        /\ DOMAIN p \subseteq {"status", "expires", "rate", "daily"}
        /\ "status" \in DOMAIN p => p["status"] \in Status
        /\ "expires" \in DOMAIN p => p["expires"] \in Expiries
        /\ "rate" \in DOMAIN p => p["rate"] \in RateLimits
        /\ "daily" \in DOMAIN p => p["daily"] \in DailyLimits

NoRow == [key |-> 0]
Idle  == [at |-> "idle", rate |-> 0, now |-> 0, entry |-> None, start |-> 0]
Serving == [Idle EXCEPT !.at = "serving"]
NewEntry  == [start |-> -Window, count |-> 0]
NewWindow == [admitted |-> 0, adds |-> 0, early |-> 0]

\* Where a request has loaded its entry.
AtEntry == {"load", "swap", "reset", "first", "count"}

Request == [at : {"idle", "allowed", "timed", "serving"} \cup AtEntry,
            rate : Rates \cup {0}, now : 0 .. MaxTime,
            entry : Entries \cup {None}, start : {-Window} \cup 0 .. MaxTime]

TypeOK ==
    /\ row \in Row
    /\ editors \in [Editors -> Row \cup {NoRow}]
    /\ requests \in [Requests -> Request]
    /\ \A r \in Requests :
          requests[r].at \in AtEntry => requests[r].entry \in Entries
    /\ clock \in 0 .. MaxTime
    /\ entries \in [Entries -> Entry] /\ mapped \in Entries \cup {None}
    /\ stale \in {mapped, None}
    /\ window \in [Entries -> [admitted : Nat, adds : Nat, early : Nat]]
    /\ edits \in 0 .. MaxEdits
    /\ doneToday \in 0 .. MaxDone /\ clobbered \subseteq Columns

\* Create: gorm puts its default where a limit is 0 or absent.
OrDefault(limit, default) == IF limit = 0 THEN default ELSE limit

Init ==
    /\ \E rate \in RateLimits, daily \in DailyLimits :
          row = [key |-> 1, status |-> "active", expires |-> Never,
                 rate |-> OrDefault(rate, RateDefault),
                 daily |-> OrDefault(daily, DailyDefault),
                 used |-> 0, deleted |-> FALSE]
    /\ editors = [e \in Editors |-> NoRow]
    /\ requests = [r \in Requests |-> Idle]
    /\ clock = 0
    /\ entries = [n \in Entries |-> NewEntry] /\ mapped = None
    /\ stale = None
    /\ edits = 0 /\ doneToday = 0 /\ clobbered = {}
    /\ window = [n \in Entries |-> NewWindow]

-----------------------------------------------------------------------------
(* APIKeyAuth *)

\* Mutant of Allowed: the daily limit is not looked at.
AllowedAnyDay(key) == key.status = "active" /\ ~(key.expires < clock)

Allowed(key) ==
    /\ key.status = "active"
    /\ ~(key.expires < clock)
    /\ ~(key.daily > 0 /\ key.used >= key.daily)

\* The bound on what one window counts.
Crowded == mapped # None /\ window[mapped].adds >= MaxAdds

\* GetByKey and the checks of the row it has read.
Lookup(r, key) ==
    /\ requests[r].at = "idle"
    /\ requests' =
          CASE row.deleted \/ row.key # key \/ ~Allowed(row) \/ Crowded -> requests
            [] OTHER -> [requests EXCEPT ![r] =
                           IF row.rate = 0 THEN Serving
                           ELSE [Idle EXCEPT !.at = "allowed", !.rate = row.rate]]
    /\ UNCHANGED <<rowVars, clock, limitVars>>

\* Mutant of ReadClock: the entry is loaded and not stored first.
ReadClockOnly(r) ==
    /\ requests[r].at = "allowed"
    /\ requests' = [requests EXCEPT ![r].at = "load", ![r].now = clock]
    /\ UNCHANGED <<rowVars, clock, limitVars>>

ReadClock(r) ==
    /\ requests[r].at = "allowed"
    /\ requests' = [requests EXCEPT ![r].at = "timed", ![r].now = clock]
    /\ UNCHANGED <<rowVars, clock, limitVars>>

Held(n) == \E r \in Requests : requests[r].entry = n

\* Nothing points to an entry: the memory may be that of a new one.
Free(n) == n # mapped /\ ~Held(n)

\* LoadOrStore.  A new entry starts at 0, long ago.
LoadEntry(r) ==
    /\ requests[r].at = "timed"
    /\ \/ /\ mapped # None
          /\ requests' = [requests EXCEPT ![r].at = "load", ![r].entry = mapped]
          /\ UNCHANGED limitVars
       \/ /\ mapped = None
          /\ LET n == CHOOSE n \in Entries : Free(n)
             IN  /\ entries' = [entries EXCEPT ![n] = NewEntry]
                 /\ window' = [window EXCEPT ![n] = NewWindow]
                 /\ mapped' = n
                 /\ requests' = [requests EXCEPT ![r].at = "load",
                                                 ![r].entry = n]
                 /\ UNCHANGED stale
    /\ UNCHANGED <<rowVars, clock>>

LoadStart(r) ==
    /\ requests[r].at = "load"
    /\ LET start == entries[requests[r].entry].start
       IN  requests' = [requests EXCEPT ![r].start = start,
               ![r].at = IF requests[r].now - start >= Window
                         THEN "swap" ELSE "count"]
    /\ UNCHANGED <<rowVars, clock, limitVars>>

\* CompareAndSwap of windowStart: the one that succeeds opens a new window.
Swap(r) ==
    LET q == requests[r]
    IN  /\ q.at = "swap"
        /\ IF entries[q.entry].start = q.start
           THEN /\ entries' = [entries EXCEPT ![q.entry].start = q.now]
                /\ window' = [window EXCEPT ![q.entry] = NewWindow]
                /\ requests' = [requests EXCEPT ![r].at = "reset", ![r].start = 0]
           ELSE /\ requests' = [requests EXCEPT ![r].at = "load"]
                /\ UNCHANGED <<entries, window>>
    /\ UNCHANGED <<rowVars, clock, mapped, stale>>

\* Another request has set windowStart and not counted itself yet.
OthersOpen(r, n) == \E o \in Requests \ {r} :
    requests[o].at \in {"reset", "first"} /\ requests[o].entry = n

Admitted(r, n) ==
    [admitted |-> window[n].admitted + 1, adds |-> window[n].adds + 1,
     early |-> window[n].early + (IF OthersOpen(r, n) THEN 1 ELSE 0)]

\* Mutant of Reset: the old window's counter stays.
ResetForgotten(r) ==
    /\ requests[r].at = "reset"
    /\ requests' = [requests EXCEPT ![r].at = "first"]
    /\ UNCHANGED <<rowVars, clock, limitVars>>

\* count.Store(0) wipes out what others have counted since the swap.
Reset(r) ==
    LET q == requests[r]
    IN  /\ q.at = "reset"
        /\ entries' = [entries EXCEPT ![q.entry].count = 0]
        /\ requests' = [requests EXCEPT ![r].at = "first"]
    /\ UNCHANGED <<rowVars, clock, mapped, stale, window>>

\* count.Add(1) of the request that has opened the window
First(r) ==
    LET q == requests[r]
    IN  /\ q.at = "first"
        /\ entries' = [entries EXCEPT ![q.entry].count = @ + 1]
        /\ window' = [window EXCEPT ![q.entry] = Admitted(r, q.entry)]
        /\ requests' = [requests EXCEPT ![r] = Serving]
    /\ UNCHANGED <<rowVars, clock, mapped, stale>>

\* Mutant of OverLimit: one request too many is let through.
OverLimitByOne(count, rate) == count > rate + 1

OverLimit(count, rate) == count > rate

\* count.Add(1) of the others; a request that is refused has been counted.
Count(r) ==
    LET q == requests[r]
        count == entries[q.entry].count + 1
    IN  /\ q.at = "count"
        /\ entries' = [entries EXCEPT ![q.entry].count = count]
        /\ IF OverLimit(count, q.rate)
           THEN /\ requests' = [requests EXCEPT ![r] = Idle]
                /\ window' = [window EXCEPT ![q.entry].adds = @ + 1]
           ELSE /\ requests' = [requests EXCEPT ![r] = Serving]
                /\ window' = [window EXCEPT ![q.entry] = Admitted(r, q.entry)]
    /\ UNCHANGED <<rowVars, clock, mapped, stale>>

\* The request is served; a chat request that succeeds is counted
\* (IncrementUsage, one atomic update of a row that is not deleted).
Finish(r) ==
    /\ requests[r].at = "serving"
    /\ requests' = [requests EXCEPT ![r] = Idle]
    /\ \/ /\ ~row.deleted /\ doneToday < MaxDone /\ row.used < MaxDone
          /\ row' = [row EXCEPT !.used = @ + 1]
          /\ doneToday' = doneToday + 1
       \/ UNCHANGED <<row, doneToday>>
    /\ UNCHANGED <<editors, clock, limitVars, edits, clobbered>>

-----------------------------------------------------------------------------
(* Time. *)

Tick ==
    /\ clock < MaxTime
    /\ clock' = clock + 1
    /\ UNCHANGED <<rowVars, requests, limitVars>>

\* cleanupRateLimitMap loads windowStart ...
FindStale ==
    /\ stale = None /\ mapped # None
    /\ entries[mapped].start <= clock - Window
    /\ stale' = mapped
    /\ UNCHANGED <<rowVars, requests, clock, entries, mapped, window>>

\* ... and deletes the entry, though it may have got a new window meanwhile.
\* Requests that hold it go on with it.
Cleanup ==
    /\ stale # None
    /\ stale' = None
    /\ mapped' = None
    /\ \/ Held(mapped) /\ UNCHANGED <<entries, window>>
       \/ /\ ~Held(mapped)
          /\ entries' = [entries EXCEPT ![mapped] = NewEntry]
          /\ window' = [window EXCEPT ![mapped] = NewWindow]
    /\ UNCHANGED <<rowVars, requests, clock>>

\* ResetDailyUsage, at midnight
Midnight ==
    /\ ~row.deleted
    /\ row' = [row EXCEPT !.used = 0]
    /\ doneToday' = 0
    /\ UNCHANGED <<editors, requests, clock, limitVars, edits, clobbered>>

-----------------------------------------------------------------------------
(* The admin's requests. *)

\* Mutant of PatchRead: a deleted row is found too.
PatchReadAny(e) ==
    /\ editors[e] = NoRow /\ edits < MaxEdits
    /\ editors' = [editors EXCEPT ![e] = row]
    /\ edits' = edits + 1
    /\ UNCHANGED <<row, requests, clock, limitVars, doneToday, clobbered>>

\* handleUpdateAPIKey: GetByID ...
PatchRead(e) ==
    /\ editors[e] = NoRow /\ edits < MaxEdits /\ ~row.deleted
    /\ editors' = [editors EXCEPT ![e] = row]
    /\ edits' = edits + 1
    /\ UNCHANGED <<row, requests, clock, limitVars, doneToday, clobbered>>

Patched(old) == {[c \in Columns |-> IF c \in DOMAIN p THEN p[c] ELSE old[c]] :
                     p \in Patches}

\* ... and gorm's Save, which writes every column, and inserts the row again
\* when it has been deleted meanwhile.
PatchSave(e) ==
    /\ editors[e] # NoRow
    /\ row' \in {[new EXCEPT !.deleted = FALSE] : new \in Patched(editors[e])}
    /\ editors' = [editors EXCEPT ![e] = NoRow]
    /\ clobbered' = clobbered \cup {c \in Columns : row[c] # editors[e][c]}
    /\ UNCHANGED <<requests, clock, limitVars, edits, doneToday>>

\* handleRegenerateAPIKey
Regenerate ==
    /\ ~row.deleted /\ row.key < MaxKeys /\ edits < MaxEdits
    /\ row' = [row EXCEPT !.key = @ + 1]
    /\ edits' = edits + 1
    /\ UNCHANGED <<editors, requests, clock, limitVars, doneToday, clobbered>>

\* handleDeleteAPIKey
Delete ==
    /\ ~row.deleted /\ edits < MaxEdits
    /\ row' = [row EXCEPT !.deleted = TRUE]
    /\ edits' = edits + 1
    /\ UNCHANGED <<editors, requests, clock, limitVars, doneToday, clobbered>>

Next ==
    \/ \E r \in Requests :
          \/ \E key \in 1 .. MaxKeys : Lookup(r, key)
          \/ ReadClock(r) \/ LoadEntry(r) \/ LoadStart(r) \/ Swap(r) \/ Reset(r)
          \/ First(r) \/ Count(r) \/ Finish(r)
    \/ Tick \/ FindStale \/ Cleanup \/ Midnight
    \/ \E e \in Editors : PatchRead(e) \/ PatchSave(e)
    \/ Regenerate \/ Delete

Spec == Init /\ [][Next]_vars

-----------------------------------------------------------------------------
(* Properties. *)

\* A window of an entry admits no more requests than the limit, besides those
\* admitted while another request was about to reset the counter and count itself.
BurstBounded ==
    \A n \in Entries :
        window[n].admitted <= Max(Rates) + window[n].early

Resetting(n) == \E r \in Requests :
    requests[r].at = "reset" /\ requests[r].entry = n

\* A request is refused for its rate only when as many as the limit have come
\* in the window before it, unless the counter of the last window is still
\* there.
NoEarlyRefusal ==
    [][\A r \in Requests :
          requests[r].at = "count" /\ requests'[r].at = "idle" =>
              LET n == requests[r].entry
              IN  Resetting(n) \/ window[n].adds >= requests[r].rate]_vars

\* Beyond the daily limit there are at most as many successes as requests were
\* under way together, unless a PATCH has set the counter back.
DailyOverrunBounded ==
    \/ clobbered \cap {"used", "daily"} # {} \/ 0 \in Dailys
    \/ doneToday <= Max(Dailys) - 1 + Cardinality(Requests)

\* A key that was replaced or deleted stays so, unless a PATCH had read the
\* row before.
RevokedStaysRevoked ==
    [][clobbered' \cap {"key", "deleted"} = {} =>
          /\ row'.key >= row.key
          /\ row.deleted => row'.deleted]_vars
=============================================================================
