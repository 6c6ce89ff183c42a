--------------------------- MODULE ApiKeysProofs ---------------------------
(***************************************************************************)
(* What the limits of a key admit, for any number of requests, admins and  *)
(* entries, and any limits.  The argument for the limit per minute is that *)
(* the counter of an entry is, but for the gap between the swap of its     *)
(* start and the opener's own increment, at least the number of requests   *)
(* admitted, and but for the gap before its reset at most the number that  *)
(* came.                                                                   *)
(***************************************************************************)
EXTENDS ApiKeys, FiniteSetTheorems, TLAPS

\* The largest limit is one of the limits, and none is larger.
LEMMA MaxRate == Max(Rates) \in Rates /\ \A x \in Rates : x <= Max(Rates)
<1>1. PICK m \in RateLimits : \A x \in RateLimits : x <= m
  BY ApiKeyAssumption
<1>2. \E m2 \in Rates : \A x \in Rates : m2 >= x
  <2>1. CASE m >= RateDefault
    BY <1>1, <2>1, ApiKeyAssumption DEF Rates
  <2>2. CASE m < RateDefault
    BY <1>1, <2>2, ApiKeyAssumption DEF Rates
  <2> QED
    BY <2>1, <2>2, <1>1, ApiKeyAssumption
<1> QED
  BY <1>2, ApiKeyAssumption DEF Max, Rates

\* The largest daily limit is one of them and bounds the others.
LEMMA MaxDaily == Max(Dailys) \in Dailys /\ \A x \in Dailys : x <= Max(Dailys)
<1>1. PICK m \in DailyLimits : \A x \in DailyLimits : x <= m
  BY ApiKeyAssumption
<1>2. \E m2 \in Dailys : \A x \in Dailys : m2 >= x
  <2>1. CASE m >= DailyDefault
    BY <1>1, <2>1, ApiKeyAssumption DEF Dailys
  <2>2. CASE m < DailyDefault
    BY <1>1, <2>2, ApiKeyAssumption DEF Dailys
  <2> QED
    BY <2>1, <2>2, <1>1, ApiKeyAssumption
<1> QED
  BY <1>2, ApiKeyAssumption DEF Max, Dailys

\* When no entry is in memory, one of the Entries is free for a new one.
LEMMA SomeFree ==
    ASSUME TypeOK, mapped = None
    PROVE  \E n \in Entries : Free(n)
<1> SUFFICES ASSUME \A n \in Entries : Held(n) PROVE FALSE
  BY ApiKeyAssumption DEF Free
<1> DEFINE held == {requests[r].entry : r \in Requests}
<1>1. IsFiniteSet(held) /\ Cardinality(held) <= Cardinality(Requests)
  <2> DEFINE entryOf == [r \in Requests |-> requests[r].entry]
  <2>1. entryOf \in Surjection(Requests, held)
    BY DEF Surjection
  <2> QED
    BY <2>1, ApiKeyAssumption, FS_Surjection
<1>2. Entries \subseteq held
  BY DEF Held
<1>3. Cardinality(Entries) <= Cardinality(held)
  BY <1>1, <1>2, FS_Subset
<1>4. Cardinality(Entries) \in Nat /\ Cardinality(held) \in Nat
      /\ Cardinality(Requests) \in Nat
  BY <1>1, ApiKeyAssumption, FS_CardinalityType
<1> QED
  BY <1>1, <1>3, <1>4, ApiKeyAssumption

\* The row a PATCH leaves: what it may set, the rest as it was read.
LEMMA PatchedRow ==
    ASSUME NEW old \in Row, NEW new \in Patched(old)
    PROVE  /\ new \in Row
           /\ new.key = old.key /\ new.used = old.used /\ new.deleted = old.deleted
<1>1. PICK p \in Patches : new = [c \in Columns |-> IF c \in DOMAIN p THEN p[c]
                                                    ELSE old[c]]
  BY DEF Patched
<1>2. /\ new.key = old.key /\ new.used = old.used /\ new.deleted = old.deleted
      /\ new.status \in Status /\ new.expires \in Expiries \cup {Never}
      /\ new.rate \in Rates /\ new.daily \in Dailys
  BY <1>1, PatchAssumption DEF Columns, Row, Rates, Dailys
<1>3. new = [key |-> new.key, status |-> new.status, expires |-> new.expires,
             rate |-> new.rate, daily |-> new.daily, used |-> new.used,
             deleted |-> new.deleted]
  BY <1>1 DEF Columns
<1> QED
  BY <1>2, <1>3 DEF Row

-----------------------------------------------------------------------------
(* Types. *)

\* The initial states have the types.
LEMMA TypeInit == Init => TypeOK
<1> SUFFICES ASSUME Init PROVE TypeOK
  OBVIOUS
<1> USE ApiKeyAssumption
<1>1. row \in Row
  BY DEF Init, OrDefault, Row, Status, Rates, Dailys, Never
<1>2. requests \in [Requests -> Request] /\ \A r \in Requests : requests[r].at = "idle"
  BY DEF Init, Idle, Request
<1>3. /\ entries \in [Entries -> Entry] /\ mapped = None
      /\ window \in [Entries -> [admitted : Nat, adds : Nat, early : Nat]]
  BY DEF Init, NewEntry, Entry, NewWindow
<1> QED
  BY <1>1, <1>2, <1>3 DEF Init, TypeOK, AtEntry

\* The records a fresh entry, window and request start from have their types.
LEMMA NewValues ==
    /\ NewEntry \in Entry /\ NewWindow \in [admitted : Nat, adds : Nat, early : Nat]
    /\ Idle \in Request /\ Serving \in Request
    /\ Idle.at \notin AtEntry /\ Serving.at \notin AtEntry
BY ApiKeyAssumption DEF NewEntry, Entry, NewWindow, Idle, Serving, Request, AtEntry

\* Every step keeps the types.
LEMMA TypeNext == TypeOK /\ [Next]_vars => TypeOK'
<1> SUFFICES ASSUME TypeOK, [Next]_vars PROVE TypeOK'
  OBVIOUS
<1> USE ApiKeyAssumption, NewValues DEF TypeOK, rowVars, limitVars
<1>1. ASSUME NEW r \in Requests, NEW key \in 1 .. MaxKeys, Lookup(r, key)
      PROVE TypeOK'
  <2>1. [Idle EXCEPT !.at = "allowed", !.rate = row.rate] \in Request
    BY DEF Idle, Request, Row
  <2>2. [Idle EXCEPT !.at = "allowed", !.rate = row.rate].at \notin AtEntry
    BY DEF Idle, AtEntry
  <2> QED
    BY <1>1, <2>1, <2>2 DEF Lookup
<1>2. ASSUME NEW r \in Requests, ReadClock(r) PROVE TypeOK'
  BY <1>2, ZenonT(60) DEF ReadClock, Request, AtEntry
<1>3. ASSUME NEW r \in Requests, LoadEntry(r) PROVE TypeOK'
  <2>1. CASE mapped # None
    <3>1. /\ requests' = [requests EXCEPT ![r].at = "load", ![r].entry = mapped]
          /\ mapped \in Entries
          /\ UNCHANGED <<rowVars, clock, limitVars>>
      BY <1>3, <2>1 DEF LoadEntry
    <3>2. /\ requests' \in [Requests -> Request]
          /\ \A o \in Requests : requests'[o].at \in AtEntry =>
                                     requests'[o].entry \in Entries
      BY <3>1, ZenonT(60) DEF Request, AtEntry
    <3> QED
      BY <3>1, <3>2
  <2>2. CASE mapped = None
    <3> DEFINE n == CHOOSE n \in Entries : Free(n)
    <3>1. n \in Entries
      BY <2>2, SomeFree
    <3>2. /\ requests' = [requests EXCEPT ![r].at = "load", ![r].entry = n]
          /\ entries' = [entries EXCEPT ![n] = NewEntry]
          /\ window' = [window EXCEPT ![n] = NewWindow]
          /\ mapped' = n /\ UNCHANGED <<rowVars, clock, stale>>
      BY <1>3, <2>2 DEF LoadEntry
    <3>3. stale' \in {mapped', None}
      BY <2>2, <3>2
    <3> HIDE DEF n
    <3>4. /\ requests' \in [Requests -> Request]
          /\ \A o \in Requests : requests'[o].at \in AtEntry =>
                                     requests'[o].entry \in Entries
      BY <3>1, <3>2, ZenonT(60) DEF Request, AtEntry
    <3> QED
      BY <3>1, <3>2, <3>3, <3>4, ZenonT(60)
  <2> QED
    BY <2>1, <2>2
<1>4. ASSUME NEW r \in Requests, LoadStart(r) PROVE TypeOK'
  BY <1>4, SMTT(60) DEF LoadStart, Request, AtEntry, Entry
<1>5. ASSUME NEW r \in Requests, Swap(r) PROVE TypeOK'
  <2> DEFINE n == requests[r].entry
  <2>1. n \in Entries /\ requests[r].now \in 0 .. MaxTime
    BY <1>5 DEF Swap, AtEntry, Request
  <2>2. /\ requests' \in [Requests -> Request]
        /\ \A o \in Requests : requests'[o].at \in AtEntry =>
                                   requests'[o].entry \in Entries
    <3>1. CASE entries[n].start = requests[r].start
      <4>1. requests' = [requests EXCEPT ![r].at = "reset", ![r].start = 0]
        BY <1>5, <3>1 DEF Swap
      <4>2. [requests[r] EXCEPT !.at = "reset", !.start = 0] \in Request
        <5>1. 0 \in 0 .. MaxTime /\ requests[r] \in Request
          OBVIOUS
        <5> QED
          BY <5>1 DEF Request, AtEntry
      <4>3. \A o \in Requests : requests'[o].entry = requests[o].entry
        BY <4>1 DEF Request
      <4>4. \A o \in Requests \ {r} : requests'[o] = requests[o]
        BY <4>1
      <4>5. requests' \in [Requests -> Request]
        BY <4>1, <4>2
      <4> QED
        BY <4>3, <4>4, <4>5, <2>1
    <3>2. CASE entries[n].start # requests[r].start
      <4>1. requests' = [requests EXCEPT ![r].at = "load"]
        BY <1>5, <3>2 DEF Swap
      <4> QED
        BY <4>1, <2>1 DEF Request, AtEntry
    <3> QED
      BY <3>1, <3>2
  <2>3. entries' \in [Entries -> Entry]
    BY <1>5, <2>1 DEF Swap, Entry
  <2>4. window' \in [Entries -> [admitted : Nat, adds : Nat, early : Nat]]
    BY <1>5, <2>1 DEF Swap
  <2> QED
    BY <1>5, <2>2, <2>3, <2>4 DEF Swap
<1>6. ASSUME NEW r \in Requests, Reset(r) PROVE TypeOK'
  BY <1>6, ZenonT(60) DEF Reset, Request, AtEntry, Entry
<1>7. ASSUME NEW r \in Requests, First(r) PROVE TypeOK'
  <2> DEFINE n == requests[r].entry
  <2>1. n \in Entries
    BY <1>7 DEF First, AtEntry
  <2>2. Admitted(r, n) \in [admitted : Nat, adds : Nat, early : Nat]
    BY <2>1 DEF Admitted
  <2>3. /\ requests' \in [Requests -> Request]
        /\ \A o \in Requests : requests'[o].at \in AtEntry =>
                                   requests'[o].entry \in Entries
    BY <1>7 DEF First
  <2>4. entries' \in [Entries -> Entry]
    BY <1>7, <2>1, SMTT(60) DEF First, Entry
  <2>5. window' \in [Entries -> [admitted : Nat, adds : Nat, early : Nat]]
    BY <1>7, <2>1, <2>2 DEF First
  <2> QED
    BY <1>7, <2>3, <2>4, <2>5 DEF First
<1>8. ASSUME NEW r \in Requests, Count(r) PROVE TypeOK'
  <2> DEFINE n == requests[r].entry
  <2>1. n \in Entries
    BY <1>8 DEF Count, AtEntry
  <2>2. Admitted(r, n) \in [admitted : Nat, adds : Nat, early : Nat]
    BY <2>1 DEF Admitted
  <2>3. /\ requests' \in [Requests -> Request]
        /\ \A o \in Requests : requests'[o].at \in AtEntry =>
                                   requests'[o].entry \in Entries
    <3>1. PICK q \in {Idle, Serving} : requests' = [requests EXCEPT ![r] = q]
      BY <1>8 DEF Count
    <3> QED
      BY <3>1
  <2>4. entries' \in [Entries -> Entry]
    BY <1>8, <2>1, SMTT(60) DEF Count, Entry
  <2>5. window' \in [Entries -> [admitted : Nat, adds : Nat, early : Nat]]
    <3>1. \/ window' = [window EXCEPT ![n].adds = @ + 1]
          \/ window' = [window EXCEPT ![n] = Admitted(r, n)]
      BY <1>8 DEF Count
    <3>2. window \in [Entries -> [admitted : Nat, adds : Nat, early : Nat]]
      OBVIOUS
    <3> HIDE DEF n, TypeOK
    <3> QED
      BY <2>1, <2>2, <3>1, <3>2, SMTT(60)
  <2> QED
    BY <1>8, <2>3, <2>4, <2>5 DEF Count
<1>9. ASSUME NEW r \in Requests, Finish(r) PROVE TypeOK'
  BY <1>9 DEF Finish, Row
<1>10. CASE Tick
  BY <1>10 DEF Tick
<1>11. CASE FindStale \/ Cleanup
  BY <1>11 DEF FindStale, Cleanup
<1>12. CASE Midnight
  BY <1>12 DEF Midnight, Row
<1>13. ASSUME NEW e \in Editors, PatchRead(e) PROVE TypeOK'
  BY <1>13 DEF PatchRead
<1>14. ASSUME NEW e \in Editors, PatchSave(e) PROVE TypeOK'
  <2>1. editors[e] \in Row
    BY <1>14 DEF PatchSave
  <2>2. PICK new \in Patched(editors[e]) : row' = [new EXCEPT !.deleted = FALSE]
    BY <1>14 DEF PatchSave
  <2>3. row' \in Row
    BY <2>1, <2>2, PatchedRow, ZenonT(60) DEF Row
  <2> QED
    BY <1>14, <2>3 DEF PatchSave
<1>15. CASE Regenerate
  BY <1>15 DEF Regenerate, Row
<1>16. CASE Delete
  <2>1. row' \in Row
    BY <1>16 DEF Delete, Row
  <2>2. edits' \in 0 .. MaxEdits
    BY <1>16 DEF Delete
  <2> QED BY <1>16, <2>1, <2>2 DEF Delete
<1>17. CASE UNCHANGED vars
  BY <1>17 DEF vars
<1> QED
  BY <1>1, <1>2, <1>3, <1>4, <1>5, <1>6, <1>7, <1>8, <1>9, <1>10, <1>11,
     <1>12, <1>13, <1>14, <1>15, <1>16, <1>17 DEF Next

\* The types hold of every state: of the row after any PATCH, and of a request
\* that loads an entry, which is one of those in memory.
THEOREM Typing == Spec => []TypeOK
BY TypeInit, TypeNext, PTL DEF Spec

-----------------------------------------------------------------------------
(* The limit per minute. *)

\* A request has opened the window of n and not counted itself yet.
Open(n) == \E r \in Requests :
    requests[r].at \in {"reset", "first"} /\ requests[r].entry = n

\* While a window is being opened, all it admits are early.  Then the counter
\* has counted all that were admitted.
AdmittedInv ==
    \A n \in Entries :
        /\ Open(n) => window[n].admitted = window[n].early
        /\ ~Open(n) => window[n].admitted <= entries[n].count + window[n].early

\* Once it has been reset the counter counts no more than have come.
CountedInv ==
    \A n \in Entries : ~Resetting(n) => entries[n].count <= window[n].adds

LimitInv == TypeOK /\ AdmittedInv /\ CountedInv /\ BurstBounded

\* At the start nothing has been admitted or counted.
LEMMA LimitInit == Init => LimitInv
<1> SUFFICES ASSUME Init PROVE LimitInv
  OBVIOUS
<1>1. TypeOK
  BY TypeInit
<1>2. \A n \in Entries : window[n] = NewWindow /\ entries[n] = NewEntry
  BY DEF Init
<1>3. Max(Rates) \in Nat
  BY MaxRate, ApiKeyAssumption DEF Rates
<1> QED
  BY <1>1, <1>2, <1>3 DEF LimitInv, AdmittedInv, CountedInv, BurstBounded,
     NewWindow, NewEntry

\* A step that leaves the counters, and the requests that are at the opening of
\* a window, preserves the invariant.
LEMMA LimitFrame ==
    ASSUME LimitInv, TypeOK', UNCHANGED <<entries, window>>,
           \A r \in Requests :
               \/ requests'[r] = requests[r]
               \/ /\ requests[r].at \notin {"reset", "first"}
                  /\ requests'[r].at \notin {"reset", "first"}
    PROVE  LimitInv'
<1>1. \A n \in Entries : Open(n)' <=> Open(n)
  BY DEF Open
<1>2. \A n \in Entries : Resetting(n)' <=> Resetting(n)
  BY DEF Resetting
<1>3. AdmittedInv'
  BY <1>1 DEF LimitInv, AdmittedInv
<1>4. CountedInv'
  BY <1>2 DEF LimitInv, CountedInv
<1>5. BurstBounded'
  BY DEF LimitInv, BurstBounded
<1> QED
  BY <1>3, <1>4, <1>5 DEF LimitInv

\* A step that touches one entry only.
LEMMA LimitStep ==
    ASSUME LimitInv, TypeOK', NEW n \in Entries,
           \A m \in Entries \ {n} : /\ Open(m)' <=> Open(m)
                                    /\ Resetting(m)' <=> Resetting(m)
                                    /\ entries'[m] = entries[m]
                                    /\ window'[m] = window[m],
           Open(n)' => window'[n].admitted = window'[n].early,
           ~Open(n)' => window'[n].admitted <= entries'[n].count + window'[n].early,
           ~Resetting(n)' => entries'[n].count <= window'[n].adds,
           window'[n].admitted <= Max(Rates) + window'[n].early
    PROVE  LimitInv'
<1>1. AdmittedInv'
  <2> SUFFICES ASSUME NEW m \in Entries
               PROVE  /\ Open(m)' => window'[m].admitted = window'[m].early
                      /\ ~Open(m)' => window'[m].admitted
                                        <= entries'[m].count + window'[m].early
    BY DEF AdmittedInv
  <2>1. CASE m = n
    BY <2>1
  <2>2. CASE m # n
    BY <2>2 DEF LimitInv, AdmittedInv
  <2> QED
    BY <2>1, <2>2
<1>2. CountedInv'
  <2> SUFFICES ASSUME NEW m \in Entries
               PROVE  ~Resetting(m)' => entries'[m].count <= window'[m].adds
    BY DEF CountedInv
  <2>1. CASE m = n
    BY <2>1
  <2>2. CASE m # n
    BY <2>2 DEF LimitInv, CountedInv
  <2> QED
    BY <2>1, <2>2
<1>3. BurstBounded'
  BY DEF LimitInv, BurstBounded
<1> QED
  BY <1>1, <1>2, <1>3 DEF LimitInv

\* Every step keeps the account of the minute window.
LEMMA LimitNext == LimitInv /\ [Next]_vars => LimitInv'
<1> SUFFICES ASSUME LimitInv, [Next]_vars PROVE LimitInv'
  OBVIOUS
<1>0. TypeOK /\ TypeOK'
  BY TypeNext DEF LimitInv
<1>m. Max(Rates) \in Nat /\ Rates \cup {0} \subseteq Nat /\ \A x \in Rates \cup {0} : x <= Max(Rates)
  <2>1. Rates \subseteq Nat
    BY ApiKeyAssumption DEF Rates
  <2>2. Max(Rates) \in Nat
    BY <2>1, MaxRate
  <2>3. \A x \in Rates : x <= Max(Rates)
    BY MaxRate
  <2> QED
    BY <2>1, <2>2, <2>3
<1> USE <1>0 DEF TypeOK, rowVars, limitVars
<1>1. ASSUME NEW r \in Requests, NEW key \in 1 .. MaxKeys, Lookup(r, key)
      PROVE LimitInv'
  BY <1>1, LimitFrame DEF Lookup, Idle, Serving
<1>2. ASSUME NEW r \in Requests, ReadClock(r) PROVE LimitInv'
  BY <1>2, LimitFrame DEF ReadClock, Request
<1>4. ASSUME NEW r \in Requests, LoadStart(r) PROVE LimitInv'
  BY <1>4, LimitFrame, ZenonT(60) DEF LoadStart, Request
<1>9. ASSUME NEW r \in Requests, Finish(r) PROVE LimitInv'
  BY <1>9, LimitFrame DEF Finish, Idle
<1>10. CASE Tick
  BY <1>10, LimitFrame DEF Tick
<1>12. CASE Midnight
  BY <1>12, LimitFrame DEF Midnight
<1>13. ASSUME NEW e \in Editors, PatchRead(e) PROVE LimitInv'
  BY <1>13, LimitFrame DEF PatchRead
<1>14. ASSUME NEW e \in Editors, PatchSave(e) PROVE LimitInv'
  BY <1>14, LimitFrame DEF PatchSave
<1>15. CASE Regenerate
  BY <1>15, LimitFrame DEF Regenerate
<1>16. CASE Delete
  BY <1>16, LimitFrame DEF Delete
<1>17. CASE UNCHANGED vars
  BY <1>17, LimitFrame DEF vars
<1>3. ASSUME NEW r \in Requests, LoadEntry(r) PROVE LimitInv'
  <2>1. CASE mapped # None
    BY <1>3, <2>1, LimitFrame DEF LoadEntry, Request
  <2>2. CASE mapped = None
    <3>1. PICK n \in Entries : n = CHOOSE m \in Entries : Free(m)
      BY <2>2, SomeFree
    <3>5. Free(n)
      BY <2>2, <3>1, SomeFree
    <3>2. /\ requests[r].at = "timed"
          /\ requests' = [requests EXCEPT ![r].at = "load", ![r].entry = n]
          /\ entries' = [entries EXCEPT ![n] = NewEntry]
          /\ window' = [window EXCEPT ![n] = NewWindow]
      BY <1>3, <2>2, <3>1 DEF LoadEntry
    <3>3. ASSUME NEW m \in Entries \ {n}
          PROVE  /\ Open(m)' <=> Open(m)
                 /\ Resetting(m)' <=> Resetting(m)
                 /\ entries'[m] = entries[m] /\ window'[m] = window[m]
      BY <3>1, <3>2 DEF Open, Resetting, Request
    <3>4. /\ ~Open(n)' /\ ~Resetting(n)'
          /\ entries'[n].count = 0 /\ window'[n] = NewWindow
      BY <3>5, <3>2 DEF Open, Resetting, Free, Held, NewEntry, Request
    <3> QED
      BY <3>3, <3>4, <1>m, LimitStep DEF NewWindow
  <2> QED
    BY <2>1, <2>2
<1>5. ASSUME NEW r \in Requests, Swap(r) PROVE LimitInv'
  <2>0. requests[r].at = "swap" /\ requests[r].entry \in Entries
    BY <1>5 DEF Swap, AtEntry
  <2>3. PICK n \in Entries : n = requests[r].entry
    BY <2>0
  <2>1. CASE entries[n].start # requests[r].start
    BY <1>5, <2>1, <2>3, LimitFrame DEF Swap, Request
  <2>2. CASE entries[n].start = requests[r].start
    <3>1. /\ requests' = [requests EXCEPT ![r].at = "reset", ![r].start = 0]
          /\ entries' = [entries EXCEPT ![n].start = requests[r].now]
          /\ window' = [window EXCEPT ![n] = NewWindow]
      BY <1>5, <2>2, <2>3 DEF Swap
    <3>2. /\ requests'[r].at = "reset" /\ requests'[r].entry = n
          /\ \A o \in Requests \ {r} : requests'[o] = requests[o]
      BY <3>1, <2>3 DEF Request
    <3>3. ASSUME NEW m \in Entries \ {n}
          PROVE  /\ Open(m)' <=> Open(m)
                 /\ Resetting(m)' <=> Resetting(m)
                 /\ entries'[m] = entries[m] /\ window'[m] = window[m]
      BY <3>1, <3>2, <2>0, <2>3 DEF Open, Resetting
    <3>4. Open(n)' /\ Resetting(n)' /\ window'[n] = NewWindow
      BY <3>1, <3>2, <2>0, <2>3 DEF Open, Resetting
    <3> QED
      BY <3>3, <3>4, <1>m, LimitStep DEF NewWindow
  <2> QED
    BY <2>1, <2>2
<1>6. ASSUME NEW r \in Requests, Reset(r) PROVE LimitInv'
  <2>0. requests[r].at = "reset" /\ requests[r].entry \in Entries
    BY <1>6 DEF Reset, AtEntry
  <2>9. PICK n \in Entries : n = requests[r].entry
    BY <2>0
  <2>1. /\ requests[r].at = "reset" /\ n = requests[r].entry
        /\ requests' = [requests EXCEPT ![r].at = "first"]
        /\ entries' = [entries EXCEPT ![n].count = 0]
        /\ window' = window
    BY <1>6, <2>9 DEF Reset
  <2>2. requests'[r].at = "first" /\ requests'[r].entry = n
    BY <2>1 DEF Request
  <2>3. ASSUME NEW m \in Entries \ {n}
        PROVE  /\ Open(m)' <=> Open(m)
               /\ Resetting(m)' <=> Resetting(m)
               /\ entries'[m] = entries[m]
    BY <2>1 DEF Open, Resetting, Request
  <2>4. Open(n)' /\ Open(n) /\ entries'[n].count = 0
    BY <2>1, <2>2 DEF Open, Entry
  <2>5. /\ window'[n].admitted = window'[n].early
        /\ entries'[n].count <= window'[n].adds
        /\ window'[n].admitted <= Max(Rates) + window'[n].early
    BY <2>1, <2>4 DEF LimitInv, AdmittedInv, BurstBounded
  <2> QED
    BY <2>1, <2>3, <2>4, <2>5, LimitStep
<1>7. ASSUME NEW r \in Requests, First(r) PROVE LimitInv'
  <2>0. requests[r].at = "first" /\ requests[r].entry \in Entries
    BY <1>7 DEF First, AtEntry
  <2>9. PICK n \in Entries : n = requests[r].entry
    BY <2>0
  <2>1. /\ requests[r].at = "first" /\ n = requests[r].entry
        /\ requests' = [requests EXCEPT ![r] = Serving]
        /\ entries' = [entries EXCEPT ![n].count = @ + 1]
        /\ window' = [window EXCEPT ![n] = Admitted(r, n)]
    BY <1>7, <2>9 DEF First
  <2>2. /\ requests'[r].at = "serving"
        /\ \A o \in Requests \ {r} : requests'[o] = requests[o]
    BY <2>1 DEF Serving, Idle
  <2>3. ASSUME NEW m \in Entries \ {n}
        PROVE  /\ Open(m)' <=> Open(m)
               /\ Resetting(m)' <=> Resetting(m)
               /\ entries'[m] = entries[m] /\ window'[m] = window[m]
    BY <2>1, <2>2 DEF Open, Resetting
  <2>4. /\ Open(n)
        /\ Open(n)' <=> OthersOpen(r, n)
        /\ Resetting(n)' <=> Resetting(n)
    <3>1. requests[r].at = "first" /\ n = requests[r].entry
      BY <2>1
    <3>2. Open(n)' <=> OthersOpen(r, n)
      BY <2>2 DEF Open, OthersOpen
    <3>3. Resetting(n)' <=> Resetting(n)
      BY <3>1, <2>2 DEF Resetting
    <3>4. Open(n)
      BY <3>1 DEF Open, OthersOpen
    <3> QED
      BY <3>2, <3>3, <3>4
  <2>5. /\ entries'[n].count = entries[n].count + 1
        /\ entries[n].count \in Nat
        /\ window'[n] = Admitted(r, n)
    BY <2>1 DEF Entry
  <2>6. Max(Rates) >= 1
    <3>1. RateDefault \in Rates /\ RateDefault >= 1 /\ RateDefault \in Nat
      BY ApiKeyAssumption DEF Rates
    <3> QED
      BY <3>1, <1>m
  <2>7. /\ Open(n)' => window'[n].admitted = window'[n].early
        /\ ~Open(n)' => window'[n].admitted <= entries'[n].count + window'[n].early
        /\ window'[n].admitted <= Max(Rates) + window'[n].early
    BY <2>4, <2>5, <2>6, <1>m, <2>1 DEF LimitInv, AdmittedInv, Admitted
  <2>8. ~Resetting(n)' => entries'[n].count <= window'[n].adds
    BY <2>4, <2>5, <2>1 DEF LimitInv, CountedInv, Admitted
  <2> QED
    BY <2>1, <2>3, <2>7, <2>8, LimitStep
<1>8. ASSUME NEW r \in Requests, Count(r) PROVE LimitInv'
  <2>0. requests[r].at = "count" /\ requests[r].entry \in Entries
    BY <1>8 DEF Count, AtEntry
  <2>9. PICK n \in Entries : n = requests[r].entry
    BY <2>0
  <2> DEFINE count == entries[n].count + 1
             over == OverLimit(count, requests[r].rate)
  <2>1. /\ requests[r].at = "count" /\ n = requests[r].entry
        /\ requests' = [requests EXCEPT ![r] = IF over THEN Idle ELSE Serving]
        /\ entries' = [entries EXCEPT ![n].count = count]
        /\ window' = [window EXCEPT ![n] = IF over
                         THEN [window[n] EXCEPT !.adds = @ + 1] ELSE Admitted(r, n)]
    BY <1>8, <2>9 DEF Count
  <2>2. /\ requests'[r].at \in {"idle", "serving"}
        /\ \A o \in Requests \ {r} : requests'[o] = requests[o]
    BY <2>1 DEF Serving, Idle
  <2>3. ASSUME NEW m \in Entries \ {n}
        PROVE  /\ Open(m)' <=> Open(m)
               /\ Resetting(m)' <=> Resetting(m)
               /\ entries'[m] = entries[m] /\ window'[m] = window[m]
    BY <2>1, <2>2 DEF Open, Resetting
  <2>4. /\ Open(n)' <=> Open(n)
        /\ OthersOpen(r, n) <=> Open(n)
        /\ Resetting(n)' <=> Resetting(n)
    <3>1. requests[r].at = "count" /\ n = requests[r].entry
      BY <2>1
    <3>2. Open(n)' <=> OthersOpen(r, n)
      BY <2>2 DEF Open, OthersOpen
    <3>3. Resetting(n)' <=> Resetting(n)
      BY <3>1, <2>2 DEF Resetting
    <3>4. Open(n) <=> OthersOpen(r, n)
      BY <3>1 DEF Open, OthersOpen
    <3> QED
      BY <3>2, <3>3, <3>4
  <2>5. /\ entries'[n].count = entries[n].count + 1
        /\ entries[n].count \in Nat
        /\ window'[n] = IF over THEN [window[n] EXCEPT !.adds = @ + 1]
                        ELSE Admitted(r, n)
    <3>1. entries[n].count \in Nat
      BY DEF Entry
    <3>2. entries'[n].count = entries[n].count + 1
      BY <2>1 DEF Entry
    <3>3. window'[n] = IF over THEN [window[n] EXCEPT !.adds = @ + 1]
                       ELSE Admitted(r, n)
      BY <2>1
    <3> QED
      BY <3>1, <3>2, <3>3
  <2>6. ~over => entries'[n].count <= Max(Rates)
    <3>1. requests[r].rate \in Rates \cup {0}
      BY DEF Request
    <3>2. ~over => count <= requests[r].rate
      BY <3>1, <2>5, <1>m DEF OverLimit
    <3> QED
      BY <3>1, <3>2, <2>5, <1>m
  <2>7. /\ Open(n)' => window'[n].admitted = window'[n].early
        /\ ~Open(n)' => window'[n].admitted <= entries'[n].count + window'[n].early
        /\ window'[n].admitted <= Max(Rates) + window'[n].early
    <3>1. CASE over
      BY <3>1, <2>1, <2>4, <2>5, <1>m DEF LimitInv, AdmittedInv, BurstBounded
    <3>2. CASE ~over
      BY <3>2, <2>1, <2>4, <2>5, <2>6, <1>m DEF LimitInv, AdmittedInv, Admitted
    <3> QED
      BY <3>1, <3>2
  <2>8. ~Resetting(n)' => entries'[n].count <= window'[n].adds
    BY <2>1, <2>4, <2>5 DEF LimitInv, CountedInv, Admitted
  <2> QED
    BY <2>1, <2>3, <2>7, <2>8, LimitStep
<1>18. CASE FindStale
  BY <1>18, LimitFrame DEF FindStale
<1>11. CASE Cleanup
  <2>1. CASE Held(mapped)
    BY <1>11, <2>1, LimitFrame DEF Cleanup
  <2>2. CASE ~Held(mapped)
    <3>1. PICK n \in Entries : n = mapped
      BY <1>11 DEF Cleanup
    <3>2. /\ UNCHANGED requests
          /\ entries' = [entries EXCEPT ![n] = NewEntry]
          /\ window' = [window EXCEPT ![n] = NewWindow]
      BY <1>11, <2>2, <3>1 DEF Cleanup
    <3>3. ASSUME NEW m \in Entries \ {n}
          PROVE  /\ Open(m)' <=> Open(m)
                 /\ Resetting(m)' <=> Resetting(m)
                 /\ entries'[m] = entries[m] /\ window'[m] = window[m]
      BY <3>2 DEF Open, Resetting
    <3>4. /\ ~Open(n)' /\ entries'[n].count = 0 /\ window'[n] = NewWindow
      BY <2>2, <3>1, <3>2 DEF Open, Held, NewEntry
    <3> QED
      BY <3>3, <3>4, <1>m, LimitStep DEF NewWindow
  <2> QED
    BY <2>1, <2>2
<1> QED
  BY <1>1, <1>2, <1>3, <1>4, <1>5, <1>6, <1>7, <1>8, <1>9, <1>10, <1>11,
     <1>12, <1>13, <1>14, <1>15, <1>16, <1>17, <1>18 DEF Next

\* The account of the minute window holds in every reachable state.
LEMMA Limit == Spec => []LimitInv
BY LimitInit, LimitNext, PTL DEF Spec

\* The burst a key can make in a window is its limit, and those requests that
\* pass while another one is about to reset the counter.
THEOREM Burst == Spec => []BurstBounded
<1>1. LimitInv => BurstBounded
  BY DEF LimitInv
<1> QED
  BY <1>1, Limit, PTL

\* Only the increment refuses a request.
LEMMA RefusedByCount ==
    ASSUME TypeOK, [Next]_vars, NEW r \in Requests,
           requests[r].at = "count", requests'[r].at = "idle"
    PROVE  Count(r)
<1> USE DEF TypeOK, rowVars, limitVars
<1>1. ASSUME NEW o \in Requests, NEW key \in 1 .. MaxKeys, Lookup(o, key)
      PROVE FALSE
  BY <1>1 DEF Lookup
<1>2. ASSUME NEW o \in Requests, ReadClock(o) PROVE FALSE
  BY <1>2 DEF ReadClock
<1>3. ASSUME NEW o \in Requests, LoadEntry(o) PROVE FALSE
  BY <1>3 DEF LoadEntry
<1>4. ASSUME NEW o \in Requests, LoadStart(o) PROVE FALSE
  BY <1>4 DEF LoadStart
<1>5. ASSUME NEW o \in Requests, Swap(o) PROVE FALSE
  BY <1>5 DEF Swap
<1>6. ASSUME NEW o \in Requests, Reset(o) PROVE FALSE
  BY <1>6 DEF Reset
<1>7. ASSUME NEW o \in Requests, First(o) PROVE FALSE
  BY <1>7 DEF First
<1>8. ASSUME NEW o \in Requests, Count(o) PROVE Count(r)
  BY <1>8 DEF Count
<1>9. ASSUME NEW o \in Requests, Finish(o) PROVE FALSE
  BY <1>9 DEF Finish
<1>10. Tick \/ FindStale \/ Cleanup \/ Midnight \/ Regenerate \/ Delete
            \/ UNCHANGED vars => FALSE
  BY DEF Tick, FindStale, Cleanup, Midnight, Regenerate, Delete, vars
<1>11. ASSUME NEW e \in Editors, PatchRead(e) \/ PatchSave(e) PROVE FALSE
  BY <1>11 DEF PatchRead, PatchSave
<1> QED
  BY <1>1, <1>2, <1>3, <1>4, <1>5, <1>6, <1>7, <1>8, <1>9, <1>10, <1>11 DEF Next

\* A request is refused for its rate only after as many as the limit have come,
\* or while the counter of the last window is still there.
THEOREM Refusal == Spec => NoEarlyRefusal
<1> DEFINE Fair(r) ==
        requests[r].at = "count" /\ requests'[r].at = "idle" =>
            LET n == requests[r].entry
            IN  Resetting(n) \/ window[n].adds >= requests[r].rate
<1>1. ASSUME LimitInv, [Next]_vars, NEW r \in Requests PROVE Fair(r)
  <2> SUFFICES ASSUME requests[r].at = "count", requests'[r].at = "idle",
                      ~Resetting(requests[r].entry)
               PROVE  window[requests[r].entry].adds >= requests[r].rate
    OBVIOUS
  <2> DEFINE n == requests[r].entry
  <2>1. Count(r) /\ n \in Entries
    BY <1>1, RefusedByCount DEF LimitInv, TypeOK, AtEntry
  <2>2. entries[n].count + 1 > requests[r].rate
    <3>1. Serving.at = "serving"
      BY DEF Serving, Idle
    <3> QED
      BY <2>1, <3>1, <1>1 DEF Count, OverLimit, LimitInv, TypeOK
  <2>3. entries[n].count <= window[n].adds
    BY <1>1, <2>1 DEF LimitInv, CountedInv
  <2>4. /\ entries[n].count \in Nat /\ window[n].adds \in Nat
        /\ requests[r].rate \in Nat
    <3>1. entries[n] \in Entry /\ window[n].adds \in Nat
      BY <1>1, <2>1 DEF LimitInv, TypeOK
    <3>2. requests[r].rate \in Rates \cup {0}
      BY <1>1 DEF LimitInv, TypeOK, Request
    <3>3. \A x \in Rates \cup {0} : x \in Nat
      <4>1. RateLimits \subseteq Nat /\ RateDefault \in Nat /\ 0 \in Nat
        BY ApiKeyAssumption
      <4> QED
        BY <4>1, Zenon DEF Rates
    <3>4. entries[n].count \in Nat
      BY <3>1 DEF Entry
    <3>5. requests[r].rate \in Nat
      BY <3>2, <3>3, Zenon
    <3> QED
      BY <3>1, <3>4, <3>5
  <2> QED
    BY <2>2, <2>3, <2>4
<1>2. LimitInv /\ [Next]_vars => [\A r \in Requests : Fair(r)]_vars
  BY <1>1
<1> QED
  BY <1>2, Limit, PTL DEF Spec, NoEarlyRefusal

-----------------------------------------------------------------------------
(* The daily limit. *)

UnderWay == {r \in Requests : requests[r].at # "idle"}

\* A success that is counted was under way when the limit let it pass.
DailyInv ==
    \/ clobbered \cap {"used", "daily"} # {} \/ 0 \in Dailys
    \/ /\ row.used = doneToday
       /\ row.used + Cardinality(UnderWay) <= Max(Dailys) - 1 + Cardinality(Requests)

\* The requests past the check of the row are finitely many, at most all.
LEMMA UnderWayFinite ==
    /\ IsFiniteSet(UnderWay) /\ Cardinality(UnderWay) \in Nat
    /\ Cardinality(Requests) \in Nat
    /\ Cardinality(UnderWay) <= Cardinality(Requests)
BY ApiKeyAssumption, FS_Subset, FS_CardinalityType DEF UnderWay

\* Daily limits are naturals with a largest one.
LEMMA DailyLimitsNat ==
    Max(Dailys) \in Nat /\ Dailys \subseteq Nat
    /\ \A x \in Dailys : x <= Max(Dailys)
<1>1. Dailys \subseteq Nat
  BY ApiKeyAssumption DEF Dailys
<1> QED
  BY <1>1, MaxDaily

\* At the start no request is past the check and nothing is used.
LEMMA DailyInit == Init => DailyInv
<1> SUFFICES ASSUME Init, 0 \notin Dailys PROVE DailyInv
  BY DEF DailyInv
<1>1. Max(Dailys) >= 1
  BY MaxDaily, DailyLimitsNat
<1>2. row.used = 0 /\ doneToday = 0
  BY DEF Init
<1> QED
  BY <1>1, <1>2, UnderWayFinite, DailyLimitsNat DEF DailyInv

\* A step that does not touch the row leaves at most as many under way.
LEMMA DailyFrame ==
    ASSUME TypeOK, DailyInv, UNCHANGED <<row, doneToday, clobbered>>,
           UnderWay' \subseteq UnderWay
    PROVE  DailyInv'
<1>1. Cardinality(UnderWay') <= Cardinality(UnderWay) /\ Cardinality(UnderWay') \in Nat
  BY UnderWayFinite, FS_Subset, FS_CardinalityType
<1>2. row.used \in Nat
  BY ApiKeyAssumption DEF TypeOK, Row
<1> QED
  BY <1>1, <1>2, UnderWayFinite, DailyLimitsNat DEF DailyInv

\* Every step keeps the account of the day.
LEMMA DailyNext == TypeOK /\ DailyInv /\ [Next]_vars => DailyInv'
<1> SUFFICES ASSUME TypeOK, DailyInv, [Next]_vars PROVE DailyInv'
  OBVIOUS
<1> USE DEF TypeOK, rowVars, limitVars
<1>0. row.used \in Nat /\ row.daily \in Dailys
  BY ApiKeyAssumption DEF Row
<1>1. ASSUME NEW r \in Requests, NEW key \in 1 .. MaxKeys, Lookup(r, key)
      PROVE DailyInv'
  <2>1. CASE requests' = requests
    BY <1>1, <2>1, DailyFrame DEF Lookup, UnderWay
  <2>2. CASE requests' # requests
    <3>1. Allowed(row) /\ UNCHANGED <<row, doneToday, clobbered>>
      BY <1>1, <2>2 DEF Lookup
    <3> SUFFICES ASSUME 0 \notin Dailys PROVE DailyInv'
      BY DEF DailyInv
    <3>2. PICK d \in Dailys : d = row.daily
      BY <1>0
    <3>6. d \in Nat /\ d > 0 /\ d <= Max(Dailys)
      BY DailyLimitsNat
    <3>7. ~(d > 0 /\ row.used >= d)
      BY <3>1, <3>2 DEF Allowed
    <3>9. row.used <= Max(Dailys) - 1
      BY <3>6, <3>7, <1>0, DailyLimitsNat
    <3>4. UnderWay' \subseteq Requests
      BY DEF UnderWay
    <3>5. /\ Cardinality(UnderWay') <= Cardinality(Requests)
          /\ Cardinality(UnderWay') \in Nat
      BY <3>4, ApiKeyAssumption, FS_Subset, FS_CardinalityType
    <3> QED
      BY <3>1, <3>9, <3>5, <1>0, UnderWayFinite, DailyLimitsNat DEF DailyInv
  <2> QED
    BY <2>1, <2>2
<1>2. ASSUME NEW r \in Requests, ReadClock(r) PROVE DailyInv'
  BY <1>2, DailyFrame DEF ReadClock, UnderWay
<1>3. ASSUME NEW r \in Requests, LoadEntry(r) PROVE DailyInv'
  <2>1. /\ UNCHANGED <<row, doneToday, clobbered>> /\ requests[r].at = "timed"
        /\ \A o \in Requests \ {r} : requests'[o] = requests[o]
    BY <1>3 DEF LoadEntry
  <2>2. UnderWay' \subseteq UnderWay
    BY <2>1 DEF UnderWay
  <2> QED
    BY <2>1, <2>2, DailyFrame
<1>4. ASSUME NEW r \in Requests, LoadStart(r) PROVE DailyInv'
  BY <1>4, DailyFrame DEF LoadStart, UnderWay
<1>5. ASSUME NEW r \in Requests, Swap(r) PROVE DailyInv'
  BY <1>5, DailyFrame DEF Swap, UnderWay
<1>6. ASSUME NEW r \in Requests, Reset(r) PROVE DailyInv'
  BY <1>6, DailyFrame DEF Reset, UnderWay
<1>7. ASSUME NEW r \in Requests, First(r) PROVE DailyInv'
  BY <1>7, DailyFrame DEF First, UnderWay
<1>8. ASSUME NEW r \in Requests, Count(r) PROVE DailyInv'
  BY <1>8, DailyFrame DEF Count, UnderWay
<1>9. ASSUME NEW r \in Requests, Finish(r) PROVE DailyInv'
  <2>1. /\ requests[r].at = "serving" /\ requests' = [requests EXCEPT ![r] = Idle]
        /\ clobbered' = clobbered
    BY <1>9 DEF Finish
  <2>2. UnderWay' = UnderWay \ {r} /\ r \in UnderWay
    BY <2>1 DEF UnderWay, Idle
  <2>3. CASE UNCHANGED <<row, doneToday>>
    BY <2>1, <2>2, <2>3, DailyFrame
  <2>4. CASE row' = [row EXCEPT !.used = @ + 1] /\ doneToday' = doneToday + 1
    <3>1. row'.used = row.used + 1
      BY <2>4 DEF Row
    <3>2. Cardinality(UnderWay') = Cardinality(UnderWay) - 1
      BY <2>2, UnderWayFinite, FS_RemoveElement
    <3> QED
      BY <2>1, <2>4, <3>1, <3>2, <1>0, UnderWayFinite, DailyLimitsNat DEF DailyInv
  <2> QED
    BY <1>9, <2>3, <2>4 DEF Finish
<1>10. CASE Tick
  BY <1>10, DailyFrame DEF Tick, UnderWay
<1>11. CASE FindStale \/ Cleanup
  BY <1>11, DailyFrame DEF FindStale, Cleanup, UnderWay
<1>12. CASE Midnight
  <2>1. /\ row'.used = 0 /\ doneToday' = 0 /\ clobbered' = clobbered
        /\ requests' = requests
    BY <1>12 DEF Midnight, Row
  <2>2. UnderWay' = UnderWay
    BY <2>1 DEF UnderWay
  <2>3. 0 \notin Dailys => Max(Dailys) >= 1
    BY MaxDaily, DailyLimitsNat
  <2> QED
    BY <2>1, <2>2, <2>3, UnderWayFinite, DailyLimitsNat DEF DailyInv
<1>13. ASSUME NEW e \in Editors, PatchRead(e) PROVE DailyInv'
  BY <1>13, DailyFrame DEF PatchRead, UnderWay
<1>14. ASSUME NEW e \in Editors, PatchSave(e) PROVE DailyInv'
  <2>1. editors[e] \in Row
    BY <1>14 DEF PatchSave
  <2>2. PICK new \in Patched(editors[e]) : row' = [new EXCEPT !.deleted = FALSE]
    BY <1>14 DEF PatchSave
  <2>3. row'.used = editors[e].used
    BY <2>1, <2>2, PatchedRow DEF Row
  <2>4. clobbered \subseteq clobbered'
        /\ (row["used"] # editors[e]["used"] => "used" \in clobbered')
    BY <1>14 DEF PatchSave, Columns
  <2>5. UnderWay' = UnderWay /\ doneToday' = doneToday
    BY <1>14 DEF PatchSave, UnderWay
  <2> QED
    BY <2>3, <2>4, <2>5 DEF DailyInv
<1>15. CASE Regenerate
  <2>1. row'.used = row.used /\ UNCHANGED <<doneToday, clobbered, requests>>
    BY <1>15 DEF Regenerate, Row
  <2> QED
    BY <2>1 DEF DailyInv, UnderWay
<1>16. CASE Delete
  <2>1. row'.used = row.used /\ UNCHANGED <<doneToday, clobbered, requests>>
    BY <1>16 DEF Delete, Row
  <2> QED
    BY <2>1 DEF DailyInv, UnderWay
<1>17. CASE UNCHANGED vars
  BY <1>17, DailyFrame DEF vars, UnderWay
<1> QED
  BY <1>1, <1>2, <1>3, <1>4, <1>5, <1>6, <1>7, <1>8, <1>9, <1>10, <1>11,
     <1>12, <1>13, <1>14, <1>15, <1>16, <1>17 DEF Next

\* A key's successes of a day exceed its limit by no more than the requests
\* that were under way together, unless a PATCH sets the counter back.
THEOREM DailyOverrun == Spec => []DailyOverrunBounded
<1>1. TypeOK /\ DailyInv => DailyOverrunBounded
  <2> SUFFICES ASSUME TypeOK, DailyInv PROVE DailyOverrunBounded
    OBVIOUS
  <2>1. row.used \in Nat
    BY ApiKeyAssumption DEF TypeOK, Row
  <2> QED
    BY <2>1, UnderWayFinite, DailyLimitsNat DEF DailyInv, DailyOverrunBounded
<1> QED
  BY <1>1, Typing, DailyInit, DailyNext, PTL DEF Spec

-----------------------------------------------------------------------------
(* Revocation. *)

\* A PATCH has read a row that was not deleted.
ReadInv == \A e \in Editors : editors[e] # NoRow => ~editors[e].deleted

\* At the start no PATCH holds a row.
LEMMA ReadInit == Init => ReadInv
BY DEF Init, ReadInv

\* No step leaves a PATCH with a row that has been deleted.
LEMMA ReadNext == TypeOK /\ ReadInv /\ [Next]_vars => ReadInv'
<1> SUFFICES ASSUME TypeOK, ReadInv, [Next]_vars PROVE ReadInv'
  OBVIOUS
<1>1. ASSUME NEW e \in Editors, PatchRead(e) PROVE ReadInv'
  BY <1>1 DEF PatchRead, ReadInv, TypeOK
<1>2. ASSUME NEW e \in Editors, PatchSave(e) PROVE ReadInv'
  BY <1>2 DEF PatchSave, ReadInv, TypeOK
<1>3. CASE editors' = editors
  BY <1>3 DEF ReadInv
<1> QED
  BY <1>1, <1>2, <1>3 DEF Next, Lookup, ReadClock, LoadEntry, LoadStart, Swap,
     Reset, First, Count, Finish, Tick, FindStale, Cleanup, Midnight,
     Regenerate, Delete, vars, rowVars, limitVars

\* A key that was replaced or deleted stays so, unless a PATCH had read the row
\* before it was.
THEOREM Revocation == Spec => RevokedStaysRevoked
<1> DEFINE Stays == clobbered' \cap {"key", "deleted"} = {} =>
                        /\ row'.key >= row.key
                        /\ row.deleted => row'.deleted
<1>1. ASSUME TypeOK, ReadInv, [Next]_vars PROVE Stays
  <2>0. row \in Row /\ row.key \in Nat
    BY <1>1 DEF TypeOK, Row
  <2>1. CASE row' = row
    BY <2>0, <2>1
  <2>2. ASSUME NEW r \in Requests, Finish(r) PROVE Stays
    BY <2>0, <2>2 DEF Finish, Row
  <2>3. CASE Midnight
    BY <2>0, <2>3 DEF Midnight, Row
  <2>4. ASSUME NEW e \in Editors, PatchSave(e) PROVE Stays
    <3>1. editors[e] \in Row /\ ~editors[e].deleted
      BY <1>1, <2>4 DEF PatchSave, TypeOK, ReadInv
    <3>2. PICK new \in Patched(editors[e]) : row' = [new EXCEPT !.deleted = FALSE]
      BY <2>4 DEF PatchSave
    <3>3. row'.key = editors[e].key
      BY <3>1, <3>2, PatchedRow DEF Row
    <3>4. /\ row["key"] # editors[e]["key"] => "key" \in clobbered'
          /\ row["deleted"] # editors[e]["deleted"] => "deleted" \in clobbered'
      BY <2>4 DEF PatchSave, Columns
    <3> QED
      BY <2>0, <3>1, <3>3, <3>4
  <2>5. CASE Regenerate
    BY <2>0, <2>5 DEF Regenerate, Row
  <2>6. CASE Delete
    BY <2>0, <2>6 DEF Delete, Row
  <2> QED
    BY <1>1, <2>1, <2>2, <2>3, <2>4, <2>5, <2>6 DEF Next, Lookup, ReadClock,
       LoadEntry, LoadStart, Swap, Reset, First, Count, Tick, FindStale, Cleanup,
       PatchRead, vars, rowVars, limitVars
<1>2. TypeOK /\ ReadInv /\ [Next]_vars => [Stays]_vars
  BY <1>1
<1> QED
  BY <1>2, Typing, ReadInit, ReadNext, PTL DEF Spec, RevokedStaysRevoked
=============================================================================
