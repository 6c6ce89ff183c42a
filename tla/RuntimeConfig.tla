--------------------------- MODULE RuntimeConfig ---------------------------
(***************************************************************************)
(* The configuration.  At start, defaults, file, database and environment  *)
(* are merged (config.Load, ApplyDBOverrides, ApplyEnvOverrides); from     *)
(* then on requests read one live copy (config.Runtime), which PUT         *)
(* /admin/config and the Cloudflare refresh (internal/cfrefresh) replace   *)
(* while they also write the database.  A restart merges again.            *)
(*                                                                         *)
(* A field below stands for all settings that are written, stored and      *)
(* loaded in the same way.  A scalar is a string; a list is a sequence of  *)
(* tags, and a tag is the sequence of its parts between commas, so that    *)
(* <<>> is the empty tag.  The database holds texts, as sequences of the   *)
(* parts between commas; <<>> is the empty text.                           *)
(***************************************************************************)
EXTENDS Naturals, Sequences

CONSTANTS
    Editors,        \* admin requests that can be open at once
    Edits,          \* bodies of PUT: fields with their new values
    FormFields,     \* the fields a form of the admin pages sends back
    File,           \* the defaults and config.toml
    Env,            \* fields the environment sets
    Algorithms,     \* what ValidAlgorithm accepts
    BrowserUA,      \* BrowserUAMap
    Solutions,      \* what FlareSolverr may answer
    Mask,           \* maskedConfigSecret
    MaxPuts, MaxSolves, MaxFails, MaxRestarts   \* bounds

AppFields   == {"app_key", "app_settings", "filter_tags"}
ImageFields == {"image_settings"}
ProxyFields == {"proxy_enabled", "cf_clearance", "browser", "user_agent"}
RetryFields == {"retry_settings", "retry_codes"}
TokenFields == {"token_settings", "default_quota", "models",
                "selection_algorithm"}
Fields == AppFields \cup ImageFields \cup ProxyFields \cup RetryFields
              \cup TokenFields

Secrets    == {"app_key", "cf_clearance"}
ListFields == {"filter_tags", "retry_codes", "models"}
Solved     == {"cf_clearance", "browser", "user_agent"}

\* What one refresh leaves in the configuration.  Without a user agent the old
\* one stays; the clearance is empty when no cookie has that name.
Solution == [cf_clearance : STRING, user_agent : STRING, browser : STRING]

\* Lists hold tags; a retry code is a number and has no comma.
Listed(c) ==
    \A f \in ListFields \cap DOMAIN c :
        /\ c[f] \in Seq(Seq(STRING))
        /\ f = "retry_codes" => \A i \in 1 .. Len(c[f]) : Len(c[f][i]) = 1

ASSUME ConfigAssumption ==
    /\ DOMAIN File = Fields /\ Listed(File)
    /\ \A e \in Edits : DOMAIN e \subseteq Fields /\ Listed(e)
    /\ "" \notin Algorithms
    /\ FormFields \subseteq Fields
    /\ DOMAIN Env \subseteq {"default_quota"}
    /\ Solutions \subseteq Solution
    /\ \A s \in Solutions : s.browser # ""
    /\ {MaxPuts, MaxSolves, MaxFails, MaxRestarts} \subseteq Nat

\* The placeholder is none of the secrets, and every clearance that is issued is
\* a new one.
ASSUME SecretsAssumption ==
    /\ Mask # ""
    /\ \A f \in Secrets : File[f] # Mask
    /\ \A s \in Solutions : s.cf_clearance # Mask
    /\ \A s, t \in Solutions : s.cf_clearance # "" =>
          /\ s.cf_clearance # File["cf_clearance"]
          /\ s.cf_clearance = t.cf_clearance => s = t

VARIABLES
    mem,        \* Runtime.current
    db,         \* config_entries
    editors,    \* per admin request: where it is, the form it has opened, its
                \* body, and its snapshot with the body applied
    refresh,    \* the refresh loop: where it is, the answer of FlareSolverr,
                \* and the clone it is about to swap in
    trigger,    \* Scheduler.triggerCh holds a request
    recent,     \* lastRefresh is within triggerCooldown
    puts, solves, fails, restarts,      \* counters for the bounds
    contested,  \* history: fields that overlapping writers set, that were set
                \* in memory and could not be saved, or that are dormant
    edited      \* history: an admin has set the browser, its user agent or
                \* the clearance

vars == <<mem, db, editors, refresh, trigger, recent, puts, solves, fails,
          restarts, contested, edited>>

counters == <<puts, solves, fails, restarts>>

\* new where it has a value, old elsewhere
Over(new, old) ==
    [f \in DOMAIN new \cup DOMAIN old |->
        IF f \in DOMAIN new THEN new[f] ELSE old[f]]

Only(r, S) == [f \in DOMAIN r \cap S |-> r[f]]

-----------------------------------------------------------------------------
(* Texts. *)

\* strings.Join(list, ",")
Join(list) ==
    LET joined[i \in 0 .. Len(list)] ==
            IF i = 0 THEN <<>> ELSE joined[i - 1] \o list[i]
    IN  joined[Len(list)]

\* strings.Split(text, ","): every part becomes a tag.
Split(text) == [i \in 1 .. Len(text) |-> <<text[i]>>]

\* filterEmptyStrings
NonEmpty(list) ==
    LET kept[i \in 0 .. Len(list)] ==
            IF i = 0 THEN <<>>
            ELSE IF list[i] = <<>> THEN kept[i - 1]
                                   ELSE Append(kept[i - 1], list[i])
    IN  kept[Len(list)]

Text(v) == IF v = "" THEN <<>> ELSE <<v>>

Scalar(text) == IF text = <<>> THEN "" ELSE text[1]

\* What the text of a field is read back as.
Decode(f, text) == IF f \in ListFields THEN Split(text) ELSE Scalar(text)

-----------------------------------------------------------------------------
(* config.ApplyDBOverrides: one operator per section. *)

AppFromDB(c, kvs) ==
    [f \in AppFields |->
        IF f \in DOMAIN kvs THEN Decode(f, kvs[f]) ELSE c[f]]

\* An empty browser is no override, and without a browser the stored user
\* agent is none either.
ProxyFromDB(c, kvs) ==
    LET browserInDB == "browser" \in DOMAIN kvs /\ kvs["browser"] # <<>>
        overrides(f) ==
            /\ f \in DOMAIN kvs
            /\ f \in {"browser", "user_agent"} => kvs[f] # <<>>
            /\ f = "user_agent" => browserInDB
    IN  [f \in ProxyFields |-> IF overrides(f) THEN Scalar(kvs[f]) ELSE c[f]]

RetryAndImageFromDB(c, kvs) ==
    [f \in RetryFields \cup ImageFields |->
        IF f \in DOMAIN kvs THEN Decode(f, kvs[f]) ELSE c[f]]

\* An empty list of models or algorithm is no override.
TokenFromDB(c, kvs) ==
    LET overrides(f) ==
            /\ f \in DOMAIN kvs
            /\ f \in {"models", "selection_algorithm"} => kvs[f] # <<>>
    IN  [f \in TokenFields |->
            IF overrides(f) THEN Decode(f, kvs[f]) ELSE c[f]]

ApplyDBOverrides(c, kvs) ==
    Over(AppFromDB(c, kvs),
         Over(ProxyFromDB(c, kvs),
              Over(RetryAndImageFromDB(c, kvs), TokenFromDB(c, kvs))))

ApplyEnvOverrides(c) == Over(Env, c)

\* config.Load
Load == ApplyEnvOverrides(File)

\* What main makes of the file, the database and the environment.
Loaded(kvs) == ApplyEnvOverrides(ApplyDBOverrides(Load, kvs))

-----------------------------------------------------------------------------
(* handlePutConfig: what a body changes in memory, and what it saves. *)

\* A form sends a secret back as the placeholder it was shown.
Unmasked(req) ==
    Only(req, {f \in DOMAIN req : f \in Secrets => req[f] # Mask})

\* A browser brings its user agent along, unless the body names one.
Paired(req) ==
    IF "browser" \in DOMAIN req /\ "user_agent" \notin DOMAIN req
    THEN [f \in {"user_agent" : x \in {req["browser"]} \cap DOMAIN BrowserUA}
              |-> BrowserUA[req["browser"]]]
    ELSE [f \in {} |-> ""]

Trimmed(f, v) == IF f \in {"filter_tags", "models"} THEN NonEmpty(v) ELSE v

\* Mutant of SetApp: the placeholder is taken for a secret.
SetAppMasked(req) ==
    LET given == Only(req, AppFields)
    IN  [f \in DOMAIN given |-> Trimmed(f, given[f])]

SetApp(req) ==
    LET given == Only(Unmasked(req), AppFields)
    IN  [f \in DOMAIN given |-> Trimmed(f, given[f])]

SetImage(req) == Only(req, ImageFields)

SetProxy(req) == Over(Only(Unmasked(req), ProxyFields), Paired(req))

SetRetry(req) == Only(req, RetryFields)

SetToken(req) ==
    LET given == Only(req, TokenFields)
    IN  [f \in DOMAIN given |-> Trimmed(f, given[f])]

Settings(req) ==
    Over(SetApp(req), Over(SetImage(req),
         Over(SetProxy(req), Over(SetRetry(req), SetToken(req)))))

\* An empty app key and an unknown algorithm are refused.
Refused(req) ==
    \/ "app_key" \in DOMAIN req /\ req["app_key"] = ""
    \/ /\ "selection_algorithm" \in DOMAIN req
       /\ req["selection_algorithm"] \notin Algorithms

AppTexts(req) ==
    LET given == Only(Unmasked(req), AppFields \cup ImageFields)
    IN  [f \in DOMAIN given |->
            IF f = "filter_tags" THEN Join(NonEmpty(given[f]))
                                 ELSE Text(given[f])]

\* Mutant of ProxyTexts: the user agent that comes with the browser is not
\* saved.
ProxyTextsUnpaired(req) ==
    LET given == Only(Unmasked(req), ProxyFields)
    IN  [f \in DOMAIN given |-> Text(given[f])]

ProxyTexts(req) ==
    LET given == Over(Only(Unmasked(req), ProxyFields), Paired(req))
    IN  [f \in DOMAIN given |-> Text(given[f])]

RetryAndTokenTexts(req) ==
    LET given == Only(req, RetryFields \cup TokenFields)
    IN  [f \in DOMAIN given |->
            CASE f = "models"      -> Join(NonEmpty(given[f]))
              [] f = "retry_codes" -> Join(given[f])
              [] OTHER             -> Text(given[f])]

Texts(req) == Over(AppTexts(req), Over(ProxyTexts(req), RetryAndTokenTexts(req)))

\* configToResponse
Response(c) ==
    [f \in Fields |-> IF f \in Secrets /\ c[f] # "" THEN Mask ELSE c[f]]

-----------------------------------------------------------------------------
(* The writers. *)

NoBody == [f \in {} |-> ""]
Idle   == [at |-> "idle", form |-> NoBody, req |-> NoBody, snap |-> NoBody]
Asleep == [at |-> "waiting", answer |-> NoBody, next |-> NoBody]

\* The writers that hold a copy of the configuration or have yet to save.
Working    == {p \in Editors : editors[p].at \in {"read", "saved"}}
Refreshing == refresh.at \in {"swapping", "saving"}
Settled    == Working = {} /\ ~Refreshing

\* The fields at stake when a writer of S starts beside the others.
Contested(S) ==
    IF Settled THEN {}
    ELSE S \cup (IF Refreshing THEN Solved ELSE {})
           \cup UNION {DOMAIN Settings(editors[p].req) : p \in Working}

Init ==
    /\ mem = Loaded(NoBody) /\ db = NoBody
    /\ editors = [p \in Editors |-> Idle]
    /\ refresh = [Asleep EXCEPT !.at = "starting"]
    /\ trigger = FALSE /\ recent = FALSE
    /\ puts = 0 /\ solves = 0 /\ fails = 0 /\ restarts = 0
    /\ contested = {} /\ edited = FALSE

\* handleGetConfigRuntime: a form shows the settings.
OpenForm(p) ==
    /\ editors[p].at = "idle" /\ puts < MaxPuts
    /\ editors' = [editors EXCEPT ![p] =
           [at |-> "form", form |-> Only(Response(mem), FormFields),
            req |-> NoBody, snap |-> NoBody]]
    /\ UNCHANGED <<mem, db, refresh, trigger, recent, counters, contested,
                   edited>>

\* PUT: the body is applied to a snapshot of the live configuration.
Put(p, e) ==
    /\ editors[p].at \in {"idle", "form"} /\ puts < MaxPuts
    /\ puts' = puts + 1
    /\ LET req == Over(e, editors[p].form)
       IN  IF Refused(req)
           THEN /\ editors' = [editors EXCEPT ![p] = Idle]
                /\ UNCHANGED <<contested, edited>>
           ELSE /\ editors' = [editors EXCEPT ![p] =
                       [at |-> "read", form |-> NoBody, req |-> req,
                        snap |-> Over(Settings(req), mem)]]
                /\ contested' = contested \cup Contested(DOMAIN Settings(req))
                /\ edited' = (edited \/ DOMAIN Settings(req) \cap Solved # {})
    /\ UNCHANGED <<mem, db, refresh, trigger, recent, solves, fails, restarts>>

\* ConfigStore.SetMany is one transaction.
Save(p) ==
    /\ editors[p].at = "read"
    /\ db' = Over(Texts(editors[p].req), db)
    /\ editors' = [editors EXCEPT ![p].at = "saved"]
    /\ UNCHANGED <<mem, refresh, trigger, recent, counters, contested, edited>>

SaveFails(p) ==
    /\ editors[p].at = "read" /\ Texts(editors[p].req) # NoBody
    /\ fails < MaxFails
    /\ fails' = fails + 1
    /\ editors' = [editors EXCEPT ![p] = Idle]
    /\ UNCHANGED <<mem, db, refresh, trigger, recent, puts, solves, restarts,
                   contested, edited>>

\* Runtime.Store, without the mutex of Update: the snapshot replaces whatever
\* has been stored since it was taken.
Store(p) ==
    /\ editors[p].at = "saved"
    /\ mem' = editors[p].snap
    /\ editors' = [editors EXCEPT ![p] = Idle]
    /\ UNCHANGED <<db, refresh, trigger, recent, counters, contested, edited>>

-----------------------------------------------------------------------------
(* cfrefresh.Scheduler *)

Enabled == mem["proxy_enabled"] = "true"

\* A request met a challenge: TriggerRefresh.
Challenge ==
    /\ Enabled /\ ~recent
    /\ trigger' = TRUE
    /\ UNCHANGED <<mem, db, editors, refresh, recent, counters, contested,
                   edited>>

CooldownEnds ==
    /\ recent
    /\ recent' = FALSE
    /\ UNCHANGED <<mem, db, editors, refresh, trigger, counters, contested,
                   edited>>

SolveOrSleep ==
    refresh' = [Asleep EXCEPT !.at = IF Enabled THEN "solving" ELSE "waiting"]

\* The first refresh, and those of the timer.
TimerFires ==
    /\ refresh.at \in {"starting", "waiting"}
    /\ SolveOrSleep
    /\ UNCHANGED <<mem, db, editors, trigger, recent, counters, contested,
                   edited>>

TakeTrigger ==
    /\ refresh.at = "waiting" /\ trigger
    /\ trigger' = FALSE
    /\ SolveOrSleep
    /\ UNCHANGED <<mem, db, editors, recent, counters, contested, edited>>

\* SolveCFChallenge
Solve(s) ==
    /\ refresh.at = "solving" /\ solves < MaxSolves
    /\ solves' = solves + 1
    /\ refresh' = [refresh EXCEPT !.at = "solved",
           !.answer = Only(s, {f \in Solved : f = "cf_clearance" \/ s[f] # ""})]
    /\ UNCHANGED <<mem, db, editors, trigger, recent, puts, fails, restarts,
                   contested, edited>>

SolveFails ==
    /\ refresh.at = "solving"
    /\ refresh' = Asleep
    /\ UNCHANGED <<mem, db, editors, trigger, recent, counters, contested,
                   edited>>

\* Mutant of Clone: the refresh swaps in what it has solved and nothing else.
CloneNothing ==
    /\ refresh.at = "solved"
    /\ refresh' = [refresh EXCEPT !.at = "swapping", !.next = refresh.answer]
    /\ contested' = contested \cup Contested(Solved)
    /\ UNCHANGED <<mem, db, editors, trigger, recent, counters, edited>>

\* Runtime.Update clones the live configuration and changes the clone ...
Clone ==
    /\ refresh.at = "solved"
    /\ refresh' = [refresh EXCEPT !.at = "swapping",
                                  !.next = Over(refresh.answer, mem)]
    /\ contested' = contested \cup Contested(Solved)
    /\ UNCHANGED <<mem, db, editors, trigger, recent, counters, edited>>

\* ... and swaps it in.
Swap ==
    /\ refresh.at = "swapping"
    /\ mem' = refresh.next
    /\ recent' = TRUE
    /\ refresh' = [refresh EXCEPT !.at = "saving", !.next = NoBody]
    /\ UNCHANGED <<db, editors, trigger, counters, contested, edited>>

\* Mutant of RefreshTexts: the browser is not saved.
RefreshTextsNoBrowser(answer) ==
    LET given == Only(answer, {"cf_clearance", "user_agent"})
    IN  [f \in DOMAIN given |-> Text(given[f])]

RefreshTexts(answer) == [f \in DOMAIN answer |-> Text(answer[f])]

SaveRefresh ==
    /\ refresh.at = "saving"
    /\ db' = Over(RefreshTexts(refresh.answer), db)
    /\ refresh' = Asleep
    /\ UNCHANGED <<mem, editors, trigger, recent, counters, contested, edited>>

SaveRefreshFails ==
    /\ refresh.at = "saving" /\ fails < MaxFails
    /\ fails' = fails + 1
    /\ refresh' = Asleep
    /\ contested' = contested \cup Solved
    /\ UNCHANGED <<mem, db, editors, trigger, recent, puts, solves, restarts,
                   edited>>

-----------------------------------------------------------------------------
\* A user agent that was saved without a browser: it does not count until some
\* browser is saved, which may be long after.
Dormant ==
    /\ "user_agent" \in DOMAIN db
    /\ "browser" \in DOMAIN db => db["browser"] = <<>>

\* The process ends, at any moment, and main starts it again.
Restart ==
    /\ restarts < MaxRestarts
    /\ restarts' = restarts + 1
    /\ mem' = Loaded(db)
    /\ editors' = [p \in Editors |-> Idle]
    /\ refresh' = [Asleep EXCEPT !.at = "starting"]
    /\ trigger' = FALSE /\ recent' = FALSE
    /\ contested' = IF Dormant THEN {"user_agent"} ELSE {}
    /\ UNCHANGED <<db, puts, solves, fails, edited>>

Next ==
    \/ \E p \in Editors :
          \/ OpenForm(p) \/ Save(p) \/ SaveFails(p) \/ Store(p)
          \/ \E e \in Edits : Put(p, e)
    \/ Challenge \/ CooldownEnds \/ TimerFires \/ TakeTrigger
    \/ SolveFails \/ Clone \/ Swap \/ SaveRefresh \/ SaveRefreshFails
    \/ \E s \in Solutions : Solve(s)
    \/ Restart

Spec == Init /\ [][Next]_vars

-----------------------------------------------------------------------------
(* Properties. *)

\* What a setting in memory loses in the database: the environment overrides
\* it again, an emptied list of models or user agent is no override, a comma
\* splits a tag, and a user agent counts only beside a browser.
LostAtRestart(f) ==
    \/ f \in DOMAIN Env
    \/ f = "models" /\ mem[f] = <<>>
    \/ f \in ListFields /\ \E i \in 1 .. Len(mem[f]) : Len(mem[f][i]) > 1
    \/ f \in {"browser", "user_agent"} /\ mem[f] = ""
    \/ f = "user_agent" /\ Dormant

\* A restart brings back the settings as they were, except those named above,
\* those that two overlapping writers had changed, and a dormant user agent.
RestartKeepsSettings ==
    Settled => \A f \in Fields :
        Loaded(db)[f] = mem[f] \/ LostAtRestart(f) \/ f \in contested

\* A clearance is used with the user agent and the browser it was issued to,
\* in memory and after a restart, whatever happens to the other settings and
\* however the writers overlap, unless an admin sets one of the three.
Coherent(c) ==
    \A s \in Solutions : s.cf_clearance # "" /\ c["cf_clearance"] = s.cf_clearance =>
        /\ c["browser"] = s.browser
        /\ s.user_agent # "" => c["user_agent"] = s.user_agent

ClearanceWithItsUserAgent ==
    ~edited => Coherent(mem) /\ Coherent(Loaded(db))

\* The placeholder of a form never becomes a secret.
MaskNeverStored ==
    \A f \in Secrets :
        /\ mem[f] # Mask
        /\ f \in DOMAIN db => db[f] # <<Mask>>

\* The type invariant: whatever replaces the live configuration has every field.
TypeOK ==
    /\ DOMAIN mem = Fields
    /\ DOMAIN db \subseteq Fields
    /\ \A p \in Editors :
           /\ editors[p].at \in {"idle", "form", "read", "saved"}
           /\ editors[p].at \in {"read", "saved"} =>
                  DOMAIN editors[p].snap = Fields
    /\ refresh.at \in {"starting", "waiting", "solving", "solved", "swapping",
                       "saving"}
    /\ refresh.at = "swapping" => DOMAIN refresh.next = Fields
    /\ DOMAIN refresh.answer \subseteq Solved
    /\ trigger \in BOOLEAN /\ recent \in BOOLEAN /\ edited \in BOOLEAN
    /\ contested \subseteq Fields
=============================================================================
