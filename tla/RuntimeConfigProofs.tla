------------------------ MODULE RuntimeConfigProofs ------------------------
(***************************************************************************)
(* What PUT, the refresh of the clearance and restarts keep of the         *)
(* secrets, for any settings, any bodies and any number of admins.  The    *)
(* invariant looks at every copy of the configuration there is: the live   *)
(* one, the snapshots of the writers, and what a restart would load.       *)
(* The second part proves, about the same copies, that a restart reads     *)
(* back the configuration in use.                                          *)
(***************************************************************************)
EXTENDS RuntimeConfig, Integers, SequenceTheorems, WellFoundedInduction, TLAPS

-----------------------------------------------------------------------------
(* The operators on settings. *)

\* Over takes the new value of a field, or else the old one.
LEMMA OverValue ==
    ASSUME NEW new, NEW old
    PROVE  /\ DOMAIN Over(new, old) = DOMAIN new \cup DOMAIN old
           /\ \A f \in DOMAIN new : Over(new, old)[f] = new[f]
           /\ \A f \in DOMAIN old \ DOMAIN new : Over(new, old)[f] = old[f]
BY DEF Over

\* Only keeps the values of the fields it selects.
LEMMA OnlyValue ==
    ASSUME NEW r, NEW S
    PROVE  /\ DOMAIN Only(r, S) = DOMAIN r \cap S
           /\ \A f \in DOMAIN r \cap S : Only(r, S)[f] = r[f]
BY DEF Only

\* Which groups of fields the secrets and the solved fields belong to.
LEMMA FieldSets ==
    /\ Secrets \subseteq Fields /\ Solved \subseteq Fields
    /\ "app_key" \in AppFields /\ "cf_clearance" \in ProxyFields
    /\ Solved \subseteq ProxyFields
    /\ ProxyFields \cap (AppFields \cup ImageFields \cup RetryFields \cup TokenFields) = {}
    /\ AppFields \cap (ImageFields \cup ProxyFields \cup RetryFields \cup TokenFields) = {}
    /\ Secrets \cap (ImageFields \cup RetryFields \cup TokenFields \cup ListFields) = {}
    /\ Fields = AppFields \cup ImageFields \cup ProxyFields \cup RetryFields
                    \cup TokenFields
BY DEF Secrets, Solved, Fields, AppFields, ImageFields, ProxyFields, RetryFields,
       TokenFields, ListFields

\* What a start makes of the fields the proofs are about.
LEMMA LoadedValue ==
    ASSUME NEW kvs
    PROVE  /\ DOMAIN Loaded(kvs) = Fields
           /\ \A f \in AppFields \ ListFields :
                 Loaded(kvs)[f] = IF f \in DOMAIN kvs THEN Scalar(kvs[f]) ELSE File[f]
           /\ \A f \in ProxyFields : Loaded(kvs)[f] = ProxyFromDB(Load, kvs)[f]
           /\ \A f \in Fields : Load[f] = IF f \in DOMAIN Env THEN Env[f] ELSE File[f]
<1>1. DOMAIN Env \subseteq TokenFields /\ DOMAIN File = Fields
  BY ConfigAssumption DEF TokenFields
<1>2. /\ DOMAIN Load = Fields
      /\ \A f \in Fields : Load[f] = IF f \in DOMAIN Env THEN Env[f] ELSE File[f]
  <2>1. Load = Over(Env, File)
    BY DEF Load, ApplyEnvOverrides
  <2>2. /\ DOMAIN Over(Env, File) = DOMAIN Env \cup DOMAIN File
        /\ \A f \in DOMAIN Env : Over(Env, File)[f] = Env[f]
        /\ \A f \in DOMAIN File \ DOMAIN Env : Over(Env, File)[f] = File[f]
    BY OverValue, Zenon
  <2>3. DOMAIN Env \subseteq Fields
    BY <1>1, FieldSets
  <2> QED
    BY <1>1, <2>1, <2>2, <2>3
<1> DEFINE app == AppFromDB(Load, kvs)
           proxy == ProxyFromDB(Load, kvs)
           rest == Over(RetryAndImageFromDB(Load, kvs), TokenFromDB(Load, kvs))
           all == ApplyDBOverrides(Load, kvs)
<1>3. /\ DOMAIN app = AppFields /\ DOMAIN proxy = ProxyFields
      /\ DOMAIN rest = RetryFields \cup ImageFields \cup TokenFields
  <2>1. DOMAIN app = AppFields
    BY DEF AppFromDB
  <2>2. DOMAIN proxy = ProxyFields
    BY DEF ProxyFromDB
  <2>3. /\ DOMAIN RetryAndImageFromDB(Load, kvs) = RetryFields \cup ImageFields
        /\ DOMAIN TokenFromDB(Load, kvs) = TokenFields
    BY DEF RetryAndImageFromDB, TokenFromDB
  <2> QED
    BY <2>1, <2>2, <2>3, OverValue
<1>4. \A f \in AppFields \ ListFields :
          app[f] = IF f \in DOMAIN kvs THEN Scalar(kvs[f]) ELSE Load[f]
  BY DEF AppFromDB, Decode
<1> HIDE DEF app, proxy, rest
<1>5. all = Over(app, Over(proxy, rest))
  BY DEF ApplyDBOverrides, app, proxy, rest
<1>6. /\ DOMAIN Over(proxy, rest) = ProxyFields \cup RetryFields \cup ImageFields
                                        \cup TokenFields
      /\ \A f \in ProxyFields : Over(proxy, rest)[f] = proxy[f]
  <2>1. /\ DOMAIN Over(proxy, rest) = DOMAIN proxy \cup DOMAIN rest
        /\ \A f \in DOMAIN proxy : Over(proxy, rest)[f] = proxy[f]
        /\ \A f \in DOMAIN rest \ DOMAIN proxy : Over(proxy, rest)[f] = rest[f]
    BY OverValue, Zenon
  <2> QED
    BY <1>3, <2>1
<1> HIDE DEF all
<1>7. /\ DOMAIN all = Fields
      /\ \A f \in AppFields : all[f] = app[f]
      /\ \A f \in ProxyFields : all[f] = proxy[f]
  <2> DEFINE low == Over(proxy, rest)
  <2> HIDE DEF low
  <2>1. /\ DOMAIN Over(app, low) = DOMAIN app \cup DOMAIN low
        /\ \A f \in DOMAIN app : Over(app, low)[f] = app[f]
        /\ \A f \in DOMAIN low \ DOMAIN app : Over(app, low)[f] = low[f]
    BY OverValue, Zenon
  <2>2. all = Over(app, low) /\ DOMAIN low = ProxyFields \cup RetryFields \cup ImageFields
                                              \cup TokenFields
        /\ \A f \in ProxyFields : low[f] = proxy[f]
    BY <1>5, <1>6 DEF low
  <2> QED
    BY <1>3, <2>1, <2>2, FieldSets
<1>8. Loaded(kvs) = Over(Env, all)
  BY DEF Loaded, ApplyEnvOverrides, all
<1>13. /\ DOMAIN Over(Env, all) = DOMAIN Env \cup DOMAIN all
       /\ \A f \in DOMAIN Env : Over(Env, all)[f] = Env[f]
       /\ \A f \in DOMAIN all \ DOMAIN Env : Over(Env, all)[f] = all[f]
  BY OverValue, Zenon
<1>9. DOMAIN Loaded(kvs) = Fields
  BY <1>1, <1>7, <1>8, <1>13, FieldSets
<1>10. \A f \in AppFields \cup ProxyFields : Loaded(kvs)[f] = all[f]
  <2> DEFINE loaded == Over(Env, all)
  <2> HIDE DEF loaded
  <2>1. \A f \in DOMAIN all \ DOMAIN Env : loaded[f] = all[f]
    BY <1>13 DEF loaded
  <2>2. \A f \in AppFields \cup ProxyFields : f \in DOMAIN all \ DOMAIN Env
    BY <1>1, <1>7, FieldSets
  <2>3. Loaded(kvs) = loaded
    BY <1>8 DEF loaded
  <2> QED
    BY <2>1, <2>2, <2>3
<1>11. \A f \in AppFields \ ListFields :
           Loaded(kvs)[f] = IF f \in DOMAIN kvs THEN Scalar(kvs[f]) ELSE File[f]
  <2> SUFFICES ASSUME NEW f \in AppFields \ ListFields
               PROVE  Loaded(kvs)[f] = IF f \in DOMAIN kvs THEN Scalar(kvs[f])
                                                           ELSE File[f]
    OBVIOUS
  <2>1. f \in Fields /\ f \notin TokenFields
    BY FieldSets
  <2>2. Load[f] = File[f]
    BY <1>1, <1>2, <2>1
  <2> QED
    BY <1>4, <1>7, <1>10, <2>2
<1>12. \A f \in ProxyFields : Loaded(kvs)[f] = proxy[f]
  BY <1>7, <1>10
<1> QED
  BY <1>2, <1>9, <1>11, <1>12 DEF proxy

\* What a body sets: fields of the configuration, no secret to the placeholder,
\* and of the three the clearance is about only those SetProxy names.
LEMMA SettingsValue ==
    ASSUME NEW req
    PROVE  /\ DOMAIN Settings(req) \subseteq Fields
           /\ \A f \in Secrets \cap DOMAIN Settings(req) : Settings(req)[f] # Mask
           /\ DOMAIN Settings(req) \cap Solved = DOMAIN SetProxy(req) \cap Solved
<1> DEFINE token == SetToken(req)
           retry == SetRetry(req)
           proxy == SetProxy(req)
           image == SetImage(req)
           app == SetApp(req)
<1>1. \A S : DOMAIN Only(Unmasked(req), S) \subseteq S
             /\ \A f \in DOMAIN Only(Unmasked(req), S) \cap Secrets :
                    Only(Unmasked(req), S)[f] # Mask
  <2> SUFFICES ASSUME NEW S
               PROVE  /\ DOMAIN Only(Unmasked(req), S) \subseteq S
                      /\ \A f \in DOMAIN Only(Unmasked(req), S) \cap Secrets :
                             Only(Unmasked(req), S)[f] # Mask
    OBVIOUS
  <2> DEFINE u == Unmasked(req)
             G == {f \in DOMAIN req : f \in Secrets => req[f] # Mask}
  <2>1. DOMAIN Only(req, G) = DOMAIN req \cap G
        /\ \A f \in DOMAIN req \cap G : Only(req, G)[f] = req[f]
    BY OnlyValue, Zenon
  <2>2. \A f \in DOMAIN u \cap Secrets : u[f] # Mask
    BY <2>1 DEF Unmasked
  <2> HIDE DEF u
  <2>3. DOMAIN Only(u, S) = DOMAIN u \cap S
        /\ \A f \in DOMAIN u \cap S : Only(u, S)[f] = u[f]
    BY OnlyValue, Zenon
  <2> QED
    BY <2>2, <2>3 DEF u
<1>2. DOMAIN Paired(req) \subseteq {"user_agent"}
  BY DEF Paired
<1>3. /\ DOMAIN app \subseteq AppFields
      /\ \A f \in DOMAIN app \cap Secrets : app[f] # Mask
  <2>1. DOMAIN app = DOMAIN Only(Unmasked(req), AppFields)
    BY DEF SetApp
  <2>2. \A f \in DOMAIN app : app[f] = Trimmed(f, Only(Unmasked(req), AppFields)[f])
    BY DEF SetApp
  <2>3. \A f \in Secrets : \A v : Trimmed(f, v) = v
    BY DEF Trimmed, Secrets
  <2> QED
    BY <1>1, <2>1, <2>2, <2>3
<1>4. /\ DOMAIN proxy \subseteq ProxyFields
      /\ \A f \in DOMAIN proxy \cap Secrets : proxy[f] # Mask
  <2> DEFINE given == Only(Unmasked(req), ProxyFields)
             pair == Paired(req)
  <2>1. /\ DOMAIN given \subseteq ProxyFields
        /\ \A f \in DOMAIN given \cap Secrets : given[f] # Mask
    BY <1>1
  <2> HIDE DEF given, pair
  <2>2. /\ DOMAIN Over(given, pair) = DOMAIN given \cup DOMAIN pair
        /\ \A f \in DOMAIN given : Over(given, pair)[f] = given[f]
        /\ \A f \in DOMAIN pair \ DOMAIN given : Over(given, pair)[f] = pair[f]
    BY OverValue, Zenon
  <2>3. proxy = Over(given, pair)
    BY DEF SetProxy, given, pair
  <2>4. DOMAIN pair \cap Secrets = {} /\ DOMAIN pair \subseteq ProxyFields
    BY <1>2 DEF Secrets, ProxyFields, pair
  <2> HIDE DEF proxy
  <2> QED
    BY <2>1, <2>2, <2>3, <2>4
<1>5. DOMAIN image \subseteq ImageFields /\ DOMAIN retry \subseteq RetryFields
      /\ DOMAIN token \subseteq TokenFields
  <2>1. \A S : DOMAIN Only(req, S) \subseteq S
    BY DEF Only
  <2>2. DOMAIN image \subseteq ImageFields
    BY <2>1 DEF SetImage
  <2>3. DOMAIN retry \subseteq RetryFields
    BY <2>1 DEF SetRetry
  <2>4. DOMAIN token = DOMAIN Only(req, TokenFields)
    BY DEF SetToken
  <2> HIDE DEF image, retry, token
  <2> QED
    BY <2>1, <2>2, <2>3, <2>4
<1> HIDE DEF token, retry, proxy, image, app
<1>6. Settings(req) = Over(app, Over(image, Over(proxy, Over(retry, token))))
  BY DEF Settings, token, retry, proxy, image, app
<1> DEFINE low == Over(retry, token)
           mid == Over(proxy, low)
           high == Over(image, mid)
<1>7. DOMAIN low \subseteq RetryFields \cup TokenFields
  BY <1>5, OverValue
<1> HIDE DEF low
<1>8. /\ DOMAIN mid = DOMAIN proxy \cup DOMAIN low
      /\ \A f \in DOMAIN proxy : mid[f] = proxy[f]
  BY OverValue
<1> HIDE DEF mid
<1>9. /\ DOMAIN high = DOMAIN image \cup DOMAIN mid
      /\ \A f \in DOMAIN mid \ DOMAIN image : high[f] = mid[f]
  BY OverValue
<1> HIDE DEF high
<1>14. Settings(req) = Over(app, high)
  BY <1>6 DEF high, mid, low
<1>10. /\ DOMAIN Settings(req) = DOMAIN app \cup DOMAIN high
       /\ \A f \in DOMAIN app : Settings(req)[f] = app[f]
       /\ \A f \in DOMAIN high \ DOMAIN app : Settings(req)[f] = high[f]
  <2>1. /\ DOMAIN Over(app, high) = DOMAIN app \cup DOMAIN high
        /\ \A f \in DOMAIN app : Over(app, high)[f] = app[f]
        /\ \A f \in DOMAIN high \ DOMAIN app : Over(app, high)[f] = high[f]
    BY OverValue, Zenon
  <2> QED
    BY <1>14, <2>1
<1>11. DOMAIN Settings(req) \subseteq Fields
  BY <1>3, <1>4, <1>5, <1>7, <1>8, <1>9, <1>10, FieldSets
<1>12. ASSUME NEW f \in Secrets \cap DOMAIN Settings(req)
       PROVE  Settings(req)[f] # Mask
  <2>1. CASE f \in DOMAIN app
    BY <1>3, <1>10, <2>1
  <2>2. CASE f \notin DOMAIN app
    <3>1. f \in DOMAIN proxy
      BY <1>5, <1>7, <1>8, <1>9, <1>10, <2>2, FieldSets
    <3> QED
      BY <3>1, <1>4, <1>5, <1>8, <1>9, <1>10, <2>2, FieldSets
  <2> QED
    BY <2>1, <2>2
<1>13. DOMAIN Settings(req) \cap Solved = DOMAIN proxy \cap Solved
  BY <1>3, <1>4, <1>5, <1>7, <1>8, <1>9, <1>10, FieldSets
<1> QED
  BY <1>11, <1>12, <1>13 DEF proxy

\* A text of a secret that is not the placeholder's.
SafeText(t) == t = <<>> \/ (t = <<t[1]>> /\ t[1] # Mask)

\* A value that is not the mask is stored as a text that is not the mask's.
LEMMA TextSafe == ASSUME NEW v, v # Mask PROVE SafeText(Text(v))
BY DEF SafeText, Text

\* A safe text is not read back as the mask.
LEMMA SafeScalar ==
    ASSUME NEW t, SafeText(t)
    PROVE  Scalar(t) # Mask /\ t # <<Mask>>
<1>1. \A x : <<x>> # <<>> /\ <<x>>[1] = x
  OBVIOUS
<1>2. CASE t = <<>>
  BY <1>1, <1>2, SecretsAssumption DEF Scalar
<1>3. CASE t = <<t[1]>> /\ t[1] # Mask
  <2>1. t # <<>> /\ t # <<Mask>>
    BY <1>1, <1>3
  <2> QED
    BY <1>3, <2>1 DEF Scalar
<1> QED
  BY <1>2, <1>3 DEF SafeText

\* What a body saves, likewise.
LEMMA TextsValue ==
    ASSUME NEW req
    PROVE  /\ DOMAIN Texts(req) \subseteq Fields
           /\ \A f \in Secrets \cap DOMAIN Texts(req) : SafeText(Texts(req)[f])
           /\ DOMAIN Texts(req) \cap Solved = DOMAIN SetProxy(req) \cap Solved
<1> DEFINE app == AppTexts(req)
           proxy == ProxyTexts(req)
           rest == RetryAndTokenTexts(req)
<1>1. \A S : /\ DOMAIN Only(req, S) \subseteq S
             /\ DOMAIN Only(Unmasked(req), S) \subseteq S
             /\ \A f \in DOMAIN Only(Unmasked(req), S) \cap Secrets :
                    Only(Unmasked(req), S)[f] # Mask
  BY DEF Only, Unmasked
<1>2. /\ DOMAIN app \subseteq AppFields \cup ImageFields
      /\ \A f \in DOMAIN app \cap Secrets : SafeText(app[f])
  <2> DEFINE given == Only(Unmasked(req), AppFields \cup ImageFields)
  <2>1. /\ DOMAIN given \subseteq AppFields \cup ImageFields
        /\ \A f \in DOMAIN given \cap Secrets : given[f] # Mask
    BY <1>1
  <2>2. DOMAIN app = DOMAIN given
    BY DEF AppTexts
  <2>3. \A f \in DOMAIN given : app[f] = IF f = "filter_tags"
            THEN Join(NonEmpty(given[f])) ELSE Text(given[f])
    BY DEF AppTexts
  <2>4. \A f \in Secrets : f # "filter_tags"
    BY DEF Secrets
  <2> HIDE DEF given, app
  <2> QED
    BY <2>1, <2>2, <2>3, <2>4, TextSafe
<1>3. /\ DOMAIN proxy = DOMAIN SetProxy(req)
      /\ \A f \in DOMAIN proxy \cap Secrets : SafeText(proxy[f])
  <2> DEFINE given == Only(Unmasked(req), ProxyFields)
             pair == Paired(req)
             set == Over(given, pair)
  <2>1. \A f \in DOMAIN given \cap Secrets : given[f] # Mask
    BY <1>1
  <2>2. DOMAIN pair \cap Secrets = {}
    BY DEF Paired, Secrets
  <2> HIDE DEF given, pair
  <2>3. /\ DOMAIN set = DOMAIN given \cup DOMAIN pair
        /\ \A f \in DOMAIN given : set[f] = given[f]
    BY OverValue, Zenon
  <2>4. set = SetProxy(req)
    BY DEF SetProxy, given, pair
  <2>5. DOMAIN proxy = DOMAIN set /\ \A f \in DOMAIN set : proxy[f] = Text(set[f])
    BY DEF ProxyTexts, given, pair
  <2> HIDE DEF set, proxy
  <2> QED
    BY <2>1, <2>2, <2>3, <2>4, <2>5, TextSafe
<1>4. DOMAIN rest \subseteq RetryFields \cup TokenFields
  <2>1. DOMAIN rest = DOMAIN Only(req, RetryFields \cup TokenFields)
    BY DEF RetryAndTokenTexts
  <2> QED
    BY <2>1, <1>1
<1>5. DOMAIN SetProxy(req) \subseteq ProxyFields
  <2>1. DOMAIN Paired(req) \subseteq ProxyFields
    BY DEF Paired, ProxyFields
  <2>2. DOMAIN Only(Unmasked(req), ProxyFields) \subseteq ProxyFields
    BY <1>1
  <2> QED
    BY <2>1, <2>2 DEF SetProxy, Over
<1> HIDE DEF app, proxy, rest
<1> DEFINE low == Over(proxy, rest)
<1>6. /\ DOMAIN low = DOMAIN proxy \cup DOMAIN rest
      /\ \A f \in DOMAIN proxy : low[f] = proxy[f]
  BY OverValue, Zenon
<1> HIDE DEF low
<1>7. Texts(req) = Over(app, low)
  BY DEF Texts, app, proxy, rest, low
<1>8. /\ DOMAIN Over(app, low) = DOMAIN app \cup DOMAIN low
      /\ \A f \in DOMAIN app : Over(app, low)[f] = app[f]
      /\ \A f \in DOMAIN low \ DOMAIN app : Over(app, low)[f] = low[f]
  BY OverValue, Zenon
<1>9. DOMAIN Texts(req) \subseteq Fields
  BY <1>2, <1>3, <1>4, <1>5, <1>6, <1>7, <1>8, FieldSets
<1>10. ASSUME NEW f \in Secrets \cap DOMAIN Texts(req)
       PROVE  SafeText(Texts(req)[f])
  <2>1. CASE f \in DOMAIN app
    BY <1>2, <1>7, <1>8, <2>1
  <2>2. CASE f \notin DOMAIN app
    <3>1. f \in DOMAIN low /\ f \notin DOMAIN rest
      BY <1>4, <1>7, <1>8, <2>2, FieldSets
    <3>2. f \in DOMAIN proxy
      BY <3>1, <1>6
    <3> QED
      BY <3>1, <3>2, <1>3, <1>6, <1>7, <1>8, <2>2
  <2> QED
    BY <2>1, <2>2
<1>11. DOMAIN Texts(req) \cap Solved = DOMAIN SetProxy(req) \cap Solved
  BY <1>2, <1>3, <1>4, <1>6, <1>7, <1>8, FieldSets
<1> QED
  BY <1>9, <1>10, <1>11

-----------------------------------------------------------------------------
(* The invariant. *)

Busy(p) == editors[p].at \in {"read", "saved"}

\* Admin requests and the refresh are records; the live configuration and every
\* copy that may replace it have all the fields.
Records ==
    /\ editors = [p \in Editors |-> editors[p]]
    /\ \A p \in Editors :
          editors[p] = [at |-> editors[p].at, form |-> editors[p].form,
                        req |-> editors[p].req, snap |-> editors[p].snap]
    /\ refresh = [at |-> refresh.at, answer |-> refresh.answer,
                  next |-> refresh.next]

\* No copy of a secret is the placeholder.
SecretInv ==
    \A f \in Secrets :
        /\ mem[f] # Mask
        /\ f \in DOMAIN db => SafeText(db[f])
        /\ \A p \in Editors : Busy(p) => editors[p].snap[f] # Mask
        /\ f \in DOMAIN refresh.answer => refresh.answer[f] # Mask
        /\ refresh.at = "swapping" => refresh.next[f] # Mask

AnswerOf(s) == Only(s, {f \in Solved : f = "cf_clearance" \/ s[f] # ""})

\* What the database has of a clearance is what was solved with it.
StoredWith(d) ==
    "cf_clearance" \in DOMAIN d /\ d["cf_clearance"] # <<>> => \E s \in Solutions :
        /\ d["cf_clearance"] = <<s.cf_clearance>>
        /\ "browser" \in DOMAIN d /\ d["browser"] = <<s.browser>>
        /\ s.user_agent # "" => /\ "user_agent" \in DOMAIN d
                                /\ d["user_agent"] = <<s.user_agent>>

\* While no admin has touched the three, every copy has them together.
CoherentInv ==
    ~edited =>
        /\ Coherent(mem)
        /\ StoredWith(db)
        /\ \A p \in Editors : Busy(p) => /\ Coherent(editors[p].snap)
                                         /\ DOMAIN SetProxy(editors[p].req) \cap Solved = {}
        /\ refresh.at \in {"solved", "swapping", "saving"} =>
               \E s \in Solutions : refresh.answer = AnswerOf(s)
        /\ refresh.at = "swapping" => Coherent(refresh.next)

CInv == TypeOK /\ Records /\ SecretInv /\ CoherentInv

\* What a start loads is free of the placeholder, and coherent.
LEMMA LoadedSafe ==
    ASSUME NEW d, NEW f \in Secrets, f \in DOMAIN d => SafeText(d[f])
    PROVE  Loaded(d)[f] # Mask
<1>1. f \in DOMAIN d => Scalar(d[f]) # Mask
  BY SafeScalar
<1>2. File[f] # Mask
  BY SecretsAssumption
<1>3. CASE f = "app_key"
  <2>1. f \in AppFields \ ListFields
    BY <1>3 DEF AppFields, ListFields
  <2> QED
    BY <2>1, <1>1, <1>2, LoadedValue
<1>4. CASE f = "cf_clearance"
  <2>1. f \in ProxyFields /\ f \in Fields /\ f \notin DOMAIN Env
    BY <1>4, FieldSets, ConfigAssumption
  <2>2. Load[f] = File[f]
    BY <2>1, LoadedValue
  <2>3. ProxyFromDB(Load, d)[f] = IF f \in DOMAIN d THEN Scalar(d[f]) ELSE Load[f]
    BY <1>4, <2>1 DEF ProxyFromDB
  <2>4. Loaded(d)[f] = ProxyFromDB(Load, d)[f]
    BY <2>1, LoadedValue
  <2> QED
    BY <2>2, <2>3, <2>4, <1>1, <1>2
<1> QED
  BY <1>3, <1>4 DEF Secrets

\* A scalar is read back as it was stored.
LEMMA ScalarText == \A v : Scalar(<<v>>) = v /\ <<v>> # <<>>
BY DEF Scalar

\* From a table with a coherent clearance a restart loads one.
LEMMA LoadedCoherent ==
    ASSUME NEW d, StoredWith(d)
    PROVE  Coherent(Loaded(d))
<1> DEFINE c == Loaded(d)
<1>1. /\ "cf_clearance" \in ProxyFields /\ "browser" \in ProxyFields
      /\ "user_agent" \in ProxyFields
  BY DEF ProxyFields
<1>2. \A f \in ProxyFields : c[f] = ProxyFromDB(Load, d)[f]
  BY LoadedValue
<1>3. c["cf_clearance"] = IF "cf_clearance" \in DOMAIN d
                          THEN Scalar(d["cf_clearance"]) ELSE Load["cf_clearance"]
  BY <1>1, <1>2 DEF ProxyFromDB
<1>4. CASE "cf_clearance" \notin DOMAIN d
  <2>1. Load["cf_clearance"] = File["cf_clearance"]
    <3>1. "cf_clearance" \in Fields /\ "cf_clearance" \notin DOMAIN Env
      BY FieldSets, ConfigAssumption
    <3> QED
      BY <3>1, LoadedValue
  <2>2. c["cf_clearance"] = File["cf_clearance"]
    BY <1>3, <1>4, <2>1
  <2> HIDE DEF c
  <2> QED
    BY <2>2, SecretsAssumption DEF Coherent, c
<1>5. CASE "cf_clearance" \in DOMAIN d /\ d["cf_clearance"] = <<>>
  <2>1. c["cf_clearance"] = ""
    BY <1>3, <1>5 DEF Scalar
  <2> HIDE DEF c
  <2> QED
    BY <2>1 DEF Coherent, c
<1>6. CASE "cf_clearance" \in DOMAIN d /\ d["cf_clearance"] # <<>>
  <2>1. PICK s \in Solutions :
           /\ d["cf_clearance"] = <<s.cf_clearance>>
           /\ "browser" \in DOMAIN d /\ d["browser"] = <<s.browser>>
           /\ s.user_agent # "" => /\ "user_agent" \in DOMAIN d
                                   /\ d["user_agent"] = <<s.user_agent>>
    BY <1>6 DEF StoredWith
  <2>2. c["cf_clearance"] = s.cf_clearance
    BY <1>3, <1>6, <2>1, ScalarText
  <2>3. c["browser"] = s.browser
    <3>1. ProxyFromDB(Load, d)["browser"] = Scalar(d["browser"])
      BY <1>1, <2>1, ScalarText DEF ProxyFromDB
    <3> QED
      BY <1>1, <1>2, <2>1, <3>1, ScalarText
  <2>4. s.user_agent # "" => c["user_agent"] = s.user_agent
    <3> SUFFICES ASSUME s.user_agent # "" PROVE c["user_agent"] = s.user_agent
      OBVIOUS
    <3>1. d["browser"] # <<>> /\ d["user_agent"] # <<>>
      BY <2>1, ScalarText
    <3>2. ProxyFromDB(Load, d)["user_agent"] = Scalar(d["user_agent"])
      BY <1>1, <2>1, <3>1 DEF ProxyFromDB
    <3> QED
      BY <1>1, <1>2, <2>1, <3>2, ScalarText
  <2> HIDE DEF c
  <2>5. \A t \in Solutions :
           t.cf_clearance # "" /\ c["cf_clearance"] = t.cf_clearance => t = s
    BY <2>2, SecretsAssumption
  <2> QED
    BY <2>3, <2>4, <2>5 DEF Coherent, c
<1> QED
  BY <1>4, <1>5, <1>6

\* The answer of a solved challenge.
LEMMA AnswerValue ==
    ASSUME NEW s \in Solutions
    PROVE  /\ DOMAIN AnswerOf(s) \subseteq Solved
           /\ \A f \in DOMAIN AnswerOf(s) :
                 AnswerOf(s)[f] = s[f] /\ (f = "cf_clearance" \/ s[f] # "")
           /\ "cf_clearance" \in DOMAIN AnswerOf(s) /\ "browser" \in DOMAIN AnswerOf(s)
           /\ s.user_agent # "" => "user_agent" \in DOMAIN AnswerOf(s)
           /\ \A f \in Secrets \cap DOMAIN AnswerOf(s) : AnswerOf(s)[f] # Mask
<1>1. DOMAIN s = Solved
  BY ConfigAssumption DEF Solution, Solved
<1>2. /\ DOMAIN AnswerOf(s) = {f \in Solved : f = "cf_clearance" \/ s[f] # ""}
      /\ \A f \in DOMAIN AnswerOf(s) : AnswerOf(s)[f] = s[f]
  BY <1>1 DEF AnswerOf, Only
<1>3. s["browser"] # "" /\ s["cf_clearance"] # Mask
  BY ConfigAssumption, SecretsAssumption
<1>4. Secrets \cap Solved = {"cf_clearance"}
  BY DEF Secrets, Solved
<1>5. {"cf_clearance", "browser", "user_agent"} = Solved
  BY DEF Solved
<1> QED
  BY <1>2, <1>3, <1>4, <1>5

\* A solver's answer laid over any configuration makes it coherent.
LEMMA AnswerCoherent ==
    ASSUME NEW s \in Solutions, NEW c
    PROVE  Coherent(Over(AnswerOf(s), c))
<1> DEFINE new == AnswerOf(s)
           merged == Over(new, c)
<1>1. /\ "cf_clearance" \in DOMAIN new /\ new["cf_clearance"] = s.cf_clearance
      /\ "browser" \in DOMAIN new /\ new["browser"] = s.browser
      /\ s.user_agent # "" =>
             "user_agent" \in DOMAIN new /\ new["user_agent"] = s.user_agent
  BY AnswerValue
<1> HIDE DEF new
<1>2. \A f \in DOMAIN new : merged[f] = new[f]
  BY OverValue, Zenon
<1> HIDE DEF merged
<1>3. \A t \in Solutions :
         t.cf_clearance # "" /\ merged["cf_clearance"] = t.cf_clearance => t = s
  BY <1>1, <1>2, SecretsAssumption
<1>4. Coherent(merged)
  BY <1>1, <1>2, <1>3 DEF Coherent
<1> QED
  BY <1>4 DEF merged, new

\* A solver's answer laid over any table makes it coherent.
LEMMA AnswerStored ==
    ASSUME NEW s \in Solutions, NEW d
    PROVE  StoredWith(Over(RefreshTexts(AnswerOf(s)), d))
<1> DEFINE new == RefreshTexts(AnswerOf(s))
           merged == Over(new, d)
<1>1. /\ DOMAIN new = DOMAIN AnswerOf(s)
      /\ \A f \in DOMAIN new : new[f] = IF s[f] = "" THEN <<>> ELSE <<s[f]>>
  BY AnswerValue DEF RefreshTexts, Text
<1>2. /\ "cf_clearance" \in DOMAIN new
      /\ "browser" \in DOMAIN new /\ s["browser"] # ""
      /\ s.user_agent # "" => "user_agent" \in DOMAIN new
  BY <1>1, AnswerValue
<1> HIDE DEF new
<1>3. /\ DOMAIN merged = DOMAIN new \cup DOMAIN d
      /\ \A f \in DOMAIN new : merged[f] = new[f]
  BY OverValue, Zenon
<1> HIDE DEF merged
<1>4. StoredWith(merged)
  BY <1>1, <1>2, <1>3 DEF StoredWith
<1> QED
  BY <1>4 DEF merged, new

\* Settings that touch none of the three keep them together.
LEMMA OthersCoherent ==
    ASSUME NEW new, NEW c, DOMAIN c = Fields, DOMAIN new \cap Solved = {}, Coherent(c)
    PROVE  Coherent(Over(new, c))
<1>1. \A f \in DOMAIN c \ DOMAIN new : Over(new, c)[f] = c[f]
  BY OverValue, Zenon
<1>2. \A f \in Solved : f \in DOMAIN c \ DOMAIN new
  BY FieldSets
<1>3. \A f \in {"cf_clearance", "browser", "user_agent"} : Over(new, c)[f] = c[f]
  BY <1>1, <1>2 DEF Solved
<1> QED
  BY <1>3 DEF Coherent

\* Saving other fields leaves the stored clearance coherent.
LEMMA OthersStored ==
    ASSUME NEW new, NEW d, DOMAIN new \cap Solved = {}, StoredWith(d)
    PROVE  StoredWith(Over(new, d))
<1>1. /\ DOMAIN Over(new, d) = DOMAIN new \cup DOMAIN d
      /\ \A f \in DOMAIN d \ DOMAIN new : Over(new, d)[f] = d[f]
  BY OverValue, Zenon
<1>2. \A f \in {"cf_clearance", "browser", "user_agent"} :
          /\ f \in DOMAIN Over(new, d) <=> f \in DOMAIN d
          /\ f \in DOMAIN d => Over(new, d)[f] = d[f]
  BY <1>1 DEF Solved
<1> QED
  BY <1>2 DEF StoredWith

\* The records of an idle editor and a sleeping refresh.
LEMMA RestValues ==
    /\ DOMAIN NoBody = {}
    /\ Idle.at = "idle" /\ Asleep.at = "waiting"
    /\ Idle = [at |-> Idle.at, form |-> Idle.form, req |-> Idle.req, snap |-> Idle.snap]
    /\ DOMAIN Asleep.answer = {}
    /\ \A x : /\ [Asleep EXCEPT !.at = x].at = x
              /\ [Asleep EXCEPT !.at = x] =
                     [at |-> x, answer |-> NoBody, next |-> NoBody]
BY DEF NoBody, Idle, Asleep

\* A start, the first one or a restart.
LEMMA Fresh ==
    ASSUME NEW d, \A f \in Secrets : f \in DOMAIN d => SafeText(d[f]), StoredWith(d)
    PROVE  /\ DOMAIN Loaded(d) = Fields
           /\ \A f \in Secrets : Loaded(d)[f] # Mask
           /\ Coherent(Loaded(d))
BY LoadedValue, LoadedSafe, LoadedCoherent

\* The invariant holds when the process starts.
LEMMA InitInv == Init => CInv
<1> SUFFICES ASSUME Init PROVE CInv
  OBVIOUS
<1>1. StoredWith(NoBody) /\ \A f \in Secrets : f \in DOMAIN NoBody => SafeText(NoBody[f])
  BY RestValues DEF StoredWith
<1>2. /\ DOMAIN mem = Fields /\ \A f \in Secrets : mem[f] # Mask
      /\ Coherent(mem) /\ db = NoBody
  BY <1>1, Fresh DEF Init
<1>3. /\ \A p \in Editors : editors[p] = Idle
      /\ editors = [p \in Editors |-> editors[p]]
      /\ refresh.at = "starting" /\ refresh.answer = NoBody
      /\ refresh = [at |-> refresh.at, answer |-> refresh.answer,
                    next |-> refresh.next]
      /\ contested = {} /\ trigger = FALSE /\ recent = FALSE /\ edited = FALSE
  BY RestValues DEF Init
<1>4. TypeOK
  BY <1>2, <1>3, RestValues DEF TypeOK
<1>5. Records
  BY <1>3, RestValues DEF Records
<1>6. SecretInv
  BY <1>2, <1>3, RestValues DEF SecretInv, Busy
<1>7. CoherentInv
  BY <1>1, <1>2, <1>3, RestValues DEF CoherentInv, Busy
<1> QED
  BY <1>4, <1>5, <1>6, <1>7 DEF CInv

\* One admin request moves: the invariant asks for its own new state only.
LEMMA EditorMoves ==
    ASSUME CInv, NEW p \in Editors, NEW at, NEW form, NEW req, NEW snap,
           editors' = [editors EXCEPT ![p] = [at |-> at, form |-> form,
                                              req |-> req, snap |-> snap]],
           at \in {"idle", "form", "read", "saved"},
           at \in {"read", "saved"} =>
               /\ DOMAIN snap = Fields
               /\ \A f \in Secrets : snap[f] # Mask
               /\ ~edited' => Coherent(snap) /\ DOMAIN SetProxy(req) \cap Solved = {},
           UNCHANGED <<refresh, trigger, recent>>,
           contested' \subseteq Fields, edited' \in BOOLEAN, edited => edited',
           DOMAIN mem' = Fields, \A f \in Secrets : mem'[f] # Mask,
           ~edited' => Coherent(mem'),
           DOMAIN db' \subseteq Fields,
           \A f \in Secrets : f \in DOMAIN db' => SafeText(db'[f]),
           ~edited' => StoredWith(db')
    PROVE  CInv'
<1>1. /\ editors'[p] = [at |-> at, form |-> form, req |-> req, snap |-> snap]
      /\ \A o \in Editors \ {p} : editors'[o] = editors[o]
      /\ editors' = [o \in Editors |-> editors'[o]]
  BY DEF CInv, Records
<1>2. TypeOK'
  BY <1>1 DEF CInv, TypeOK
<1>3. Records'
  <2>1. refresh' = [at |-> refresh'.at, answer |-> refresh'.answer,
                    next |-> refresh'.next]
    BY DEF CInv, Records
  <2>2. ASSUME NEW o \in Editors
        PROVE  editors'[o] = [at |-> editors'[o].at, form |-> editors'[o].form,
                              req |-> editors'[o].req, snap |-> editors'[o].snap]
    <3>1. CASE o = p
      BY <1>1, <3>1
    <3>2. CASE o # p
      <4>1. editors'[o] = editors[o]
        BY <1>1, <3>2
      <4>2. editors[o] = [at |-> editors[o].at, form |-> editors[o].form,
                          req |-> editors[o].req, snap |-> editors[o].snap]
        BY DEF CInv, Records
      <4> QED
        BY <4>1, <4>2
    <3> QED
      BY <3>1, <3>2
  <2> QED
    BY <1>1, <2>1, <2>2 DEF Records
<1>4. SecretInv'
  BY <1>1 DEF CInv, SecretInv, Busy
<1>5. CoherentInv'
  BY <1>1 DEF CInv, CoherentInv, Busy
<1> QED
  BY <1>2, <1>3, <1>4, <1>5 DEF CInv

\* The refresh moves.
LEMMA RefreshMoves ==
    ASSUME CInv, NEW at, NEW answer, NEW next,
           refresh' = [at |-> at, answer |-> answer, next |-> next],
           at \in {"starting", "waiting", "solving", "solved", "swapping", "saving"},
           DOMAIN answer \subseteq Solved,
           \A f \in Secrets : f \in DOMAIN answer => answer[f] # Mask,
           at = "swapping" => /\ DOMAIN next = Fields
                              /\ \A f \in Secrets : next[f] # Mask
                              /\ ~edited => Coherent(next),
           at \in {"solved", "swapping", "saving"} /\ ~edited =>
               \E s \in Solutions : answer = AnswerOf(s),
           UNCHANGED <<editors, edited>>,
           trigger' \in BOOLEAN, recent' \in BOOLEAN, contested' \subseteq Fields,
           DOMAIN mem' = Fields, \A f \in Secrets : mem'[f] # Mask,
           ~edited => Coherent(mem'),
           DOMAIN db' \subseteq Fields,
           \A f \in Secrets : f \in DOMAIN db' => SafeText(db'[f]),
           ~edited => StoredWith(db')
    PROVE  CInv'
<1>1. TypeOK'
  BY DEF CInv, TypeOK
<1>2. Records'
  BY DEF CInv, Records
<1>3. SecretInv'
  BY DEF CInv, SecretInv, Busy
<1>4. CoherentInv'
  BY DEF CInv, CoherentInv, Busy
<1> QED
  BY <1>1, <1>2, <1>3, <1>4 DEF CInv

\* What the invariant says of the live configuration and of the database.
LEMMA Here ==
    ASSUME CInv
    PROVE  /\ DOMAIN mem = Fields /\ \A f \in Secrets : mem[f] # Mask
           /\ ~edited => Coherent(mem) /\ StoredWith(db)
           /\ DOMAIN db \subseteq Fields
           /\ \A f \in Secrets : f \in DOMAIN db => SafeText(db[f])
           /\ contested \subseteq Fields /\ edited \in BOOLEAN
           /\ trigger \in BOOLEAN /\ recent \in BOOLEAN
           /\ DOMAIN refresh.answer \subseteq Solved
           /\ \A f \in Secrets : f \in DOMAIN refresh.answer =>
                                     refresh.answer[f] # Mask
BY DEF CInv, TypeOK, SecretInv, CoherentInv

\* The fields at stake are fields.
LEMMA ContestedFields ==
    ASSUME CInv, NEW S, S \subseteq Fields
    PROVE  Contested(S) \subseteq Fields
<1>1. \A p \in Working : DOMAIN Settings(editors[p].req) \subseteq Fields
  BY SettingsValue
<1> DEFINE theirs == UNION {DOMAIN Settings(editors[p].req) : p \in Working}
<1>2. theirs \subseteq Fields
  BY <1>1
<1>3. Contested(S) = IF Settled THEN {}
                     ELSE S \cup (IF Refreshing THEN Solved ELSE {}) \cup theirs
  BY DEF Contested
<1> HIDE DEF theirs
<1> QED
  BY <1>2, <1>3, FieldSets

\* Every step keeps the invariant.
LEMMA NextInv == CInv /\ [Next]_vars => CInv'
<1> SUFFICES ASSUME CInv, [Next]_vars PROVE CInv'
  OBVIOUS
<1>0. /\ Records /\ TypeOK /\ SecretInv /\ CoherentInv
      /\ Idle = [at |-> "idle", form |-> NoBody, req |-> NoBody, snap |-> NoBody]
  BY DEF CInv, Idle
<1>1. ASSUME NEW p \in Editors, OpenForm(p) PROVE CInv'
  <2> DEFINE form == Only(Response(mem), FormFields)
  <2>1. editors' = [editors EXCEPT ![p] = [at |-> "form", form |-> form,
                        req |-> NoBody, snap |-> NoBody]]
    BY <1>1 DEF OpenForm
  <2> HIDE DEF form
  <2>2. UNCHANGED <<mem, db, refresh, trigger, recent, contested, edited>>
    BY <1>1 DEF OpenForm
  <2> QED
    BY <2>1, <2>2, Here, EditorMoves
<1>2. ASSUME NEW p \in Editors, NEW e \in Edits, Put(p, e) PROVE CInv'
  <2> DEFINE req == Over(e, editors[p].form)
             snap == Over(Settings(req), mem)
  <2>1. CASE Refused(req)
    <3>1. editors' = [editors EXCEPT ![p] = [at |-> "idle", form |-> NoBody,
                          req |-> NoBody, snap |-> NoBody]]
      BY <1>0, <1>2, <2>1 DEF Put
    <3> QED
      BY <1>2, <2>1, <3>1, Here, EditorMoves DEF Put
  <2>2. CASE ~Refused(req)
    <3>1. /\ editors' = [editors EXCEPT ![p] = [at |-> "read", form |-> NoBody,
                             req |-> req, snap |-> snap]]
          /\ contested' = contested \cup Contested(DOMAIN Settings(req))
          /\ edited' = (edited \/ DOMAIN Settings(req) \cap Solved # {})
          /\ UNCHANGED <<mem, db, refresh, trigger, recent>>
      BY <1>2, <2>2 DEF Put
    <3> HIDE DEF req
    <3>2. /\ DOMAIN Settings(req) \subseteq Fields
          /\ \A f \in Secrets \cap DOMAIN Settings(req) : Settings(req)[f] # Mask
          /\ DOMAIN Settings(req) \cap Solved = DOMAIN SetProxy(req) \cap Solved
      BY SettingsValue
    <3>3. DOMAIN snap = Fields /\ \A f \in Secrets : snap[f] # Mask
      <4> DEFINE set == Settings(req)
      <4>1. /\ DOMAIN set \subseteq Fields
            /\ \A f \in Secrets \cap DOMAIN set : set[f] # Mask
        BY <3>2
      <4> HIDE DEF set
      <4>2. /\ DOMAIN Over(set, mem) = DOMAIN set \cup DOMAIN mem
            /\ \A f \in DOMAIN set : Over(set, mem)[f] = set[f]
            /\ \A f \in DOMAIN mem \ DOMAIN set : Over(set, mem)[f] = mem[f]
        BY OverValue, Zenon
      <4>3. DOMAIN Over(set, mem) = Fields /\ \A f \in Secrets : Over(set, mem)[f] # Mask
        BY <4>1, <4>2, Here, FieldSets
      <4> QED
        BY <4>3 DEF set
    <3>4. ~edited' => Coherent(snap) /\ DOMAIN SetProxy(req) \cap Solved = {}
      BY <3>1, <3>2, Here, OthersCoherent
    <3>5. contested' \subseteq Fields
      BY <3>1, <3>2, Here, ContestedFields
    <3>6. edited' \in BOOLEAN /\ (edited => edited')
      BY <3>1, Here
    <3> HIDE DEF snap
    <3>7. /\ DOMAIN mem' = Fields /\ DOMAIN db' \subseteq Fields
          /\ \A f \in Secrets : mem'[f] # Mask
          /\ \A f \in Secrets : f \in DOMAIN db' => SafeText(db'[f])
          /\ ~edited' => Coherent(mem') /\ StoredWith(db')
      BY <3>1, <3>6, Here
    <3> QED
      BY <3>1, <3>3, <3>4, <3>5, <3>6, <3>7, EditorMoves
  <2> QED
    BY <2>1, <2>2
<1>3. ASSUME NEW p \in Editors, Save(p) PROVE CInv'
  <2> DEFINE req == editors[p].req
             texts == Texts(req)
  <2>1. /\ editors[p].at = "read" /\ db' = Over(texts, db)
        /\ editors' = [editors EXCEPT ![p] = [at |-> "saved",
               form |-> editors[p].form, req |-> req, snap |-> editors[p].snap]]
        /\ UNCHANGED <<mem, refresh, trigger, recent, contested, edited>>
    <3>1. editors[p] = [at |-> editors[p].at, form |-> editors[p].form,
                        req |-> editors[p].req, snap |-> editors[p].snap]
      BY <1>0 DEF Records
    <3>2. [editors[p] EXCEPT !.at = "saved"] =
              [at |-> "saved", form |-> editors[p].form, req |-> req,
               snap |-> editors[p].snap]
      BY <3>1
    <3>3. editors' = [editors EXCEPT ![p] = [editors[p] EXCEPT !.at = "saved"]]
      BY <1>3 DEF Save
    <3> QED
      BY <1>3, <3>2, <3>3 DEF Save
  <2>2. /\ DOMAIN editors[p].snap = Fields
        /\ \A f \in Secrets : editors[p].snap[f] # Mask
        /\ ~edited => /\ Coherent(editors[p].snap)
                      /\ DOMAIN SetProxy(req) \cap Solved = {}
    BY <1>0, <2>1 DEF TypeOK, SecretInv, CoherentInv, Busy
  <2>3. /\ DOMAIN texts \subseteq Fields
        /\ \A f \in Secrets \cap DOMAIN texts : SafeText(texts[f])
        /\ DOMAIN texts \cap Solved = DOMAIN SetProxy(req) \cap Solved
    BY TextsValue
  <2> HIDE DEF texts, req
  <2>4. /\ DOMAIN Over(texts, db) = DOMAIN texts \cup DOMAIN db
        /\ \A f \in DOMAIN texts : Over(texts, db)[f] = texts[f]
        /\ \A f \in DOMAIN db \ DOMAIN texts : Over(texts, db)[f] = db[f]
    BY OverValue, Zenon
  <2>5. /\ DOMAIN db' \subseteq Fields
        /\ \A f \in Secrets : f \in DOMAIN db' => SafeText(db'[f])
    BY <2>1, <2>3, <2>4, Here
  <2>6. ~edited => StoredWith(db')
    BY <2>1, <2>2, <2>3, Here, OthersStored
  <2> QED
    BY <2>1, <2>2, <2>5, <2>6, Here, EditorMoves
<1>4. ASSUME NEW p \in Editors, SaveFails(p) PROVE CInv'
  <2>1. editors' = [editors EXCEPT ![p] = [at |-> "idle", form |-> NoBody,
                        req |-> NoBody, snap |-> NoBody]]
    BY <1>0, <1>4 DEF SaveFails
  <2>2. UNCHANGED <<mem, db, refresh, trigger, recent, contested, edited>>
    BY <1>4 DEF SaveFails
  <2> QED
    BY <2>1, <2>2, Here, EditorMoves
<1>5. ASSUME NEW p \in Editors, Store(p) PROVE CInv'
  <2>1. editors' = [editors EXCEPT ![p] = [at |-> "idle", form |-> NoBody,
                        req |-> NoBody, snap |-> NoBody]]
    BY <1>0, <1>5 DEF Store
  <2>2. /\ DOMAIN editors[p].snap = Fields
        /\ \A f \in Secrets : editors[p].snap[f] # Mask
        /\ ~edited => Coherent(editors[p].snap)
    BY <1>0, <1>5 DEF Store, TypeOK, SecretInv, CoherentInv, Busy
  <2>3. mem' = editors[p].snap /\ UNCHANGED <<db, refresh, trigger, recent, contested, edited>>
    BY <1>5 DEF Store
  <2> QED
    BY <2>1, <2>2, <2>3, Here, EditorMoves
<1>6. CASE Challenge
  BY <1>0, <1>6 DEF Challenge, CInv, TypeOK, Records, SecretInv, CoherentInv, Busy
<1>7. CASE CooldownEnds
  BY <1>0, <1>7 DEF CooldownEnds, CInv, TypeOK, Records, SecretInv, CoherentInv, Busy
<1>8. CASE TimerFires \/ TakeTrigger
  <2>1. \E at \in {"solving", "waiting"} :
           refresh' = [at |-> at, answer |-> NoBody, next |-> NoBody]
    BY <1>8 DEF TimerFires, TakeTrigger, SolveOrSleep, Asleep
  <2>2. /\ UNCHANGED <<mem, db, editors, recent, contested, edited>>
        /\ trigger' \in BOOLEAN
    BY <1>8, Here DEF TimerFires, TakeTrigger
  <2> QED
    BY <2>1, <2>2, Here, RestValues, RefreshMoves
<1>9. ASSUME NEW s \in Solutions, Solve(s) PROVE CInv'
  <2>1. refresh' = [at |-> "solved", answer |-> AnswerOf(s), next |-> refresh.next]
    BY <1>0, <1>9 DEF Solve, Records, AnswerOf
  <2>2. UNCHANGED <<mem, db, editors, trigger, recent, contested, edited>>
    BY <1>9 DEF Solve
  <2>3. /\ DOMAIN AnswerOf(s) \subseteq Solved
        /\ \A f \in Secrets : f \in DOMAIN AnswerOf(s) => AnswerOf(s)[f] # Mask
    BY AnswerValue
  <2>4. \E t \in Solutions : AnswerOf(s) = AnswerOf(t)
    OBVIOUS
  <2> QED
    BY <2>1, <2>2, <2>3, <2>4, Here, RefreshMoves
<1>10. CASE SolveFails
  <2>1. refresh' = [at |-> "waiting", answer |-> NoBody, next |-> NoBody]
    BY <1>10 DEF SolveFails, Asleep
  <2> QED
    BY <1>10, <2>1, Here, RestValues, RefreshMoves DEF SolveFails
<1>11. CASE Clone
  <2> DEFINE answer == refresh.answer
             next == Over(answer, mem)
  <2>1. /\ refresh.at = "solved"
        /\ refresh' = [at |-> "swapping", answer |-> answer, next |-> next]
        /\ contested' = contested \cup Contested(Solved)
        /\ UNCHANGED <<mem, db, editors, trigger, recent, edited>>
    BY <1>0, <1>11 DEF Clone, Records
  <2>2. ~edited => \E s \in Solutions : answer = AnswerOf(s)
    BY <1>0, <2>1 DEF CoherentInv
  <2> HIDE DEF answer
  <2>3. /\ DOMAIN next = DOMAIN answer \cup DOMAIN mem
        /\ \A f \in DOMAIN answer : next[f] = answer[f]
        /\ \A f \in DOMAIN mem \ DOMAIN answer : next[f] = mem[f]
    BY OverValue, Zenon
  <2>4. ~edited => Coherent(next)
    BY <2>2, AnswerCoherent
  <2> HIDE DEF next
  <2>5. /\ DOMAIN answer \subseteq Solved
        /\ \A f \in Secrets : f \in DOMAIN answer => answer[f] # Mask
    BY Here DEF answer
  <2>6. DOMAIN next = Fields /\ \A f \in Secrets : next[f] # Mask
    BY <2>3, <2>5, Here, FieldSets
  <2>7. contested' \subseteq Fields
    BY <2>1, Here, ContestedFields, FieldSets
  <2> QED
    BY <2>1, <2>2, <2>4, <2>5, <2>6, <2>7, Here, RefreshMoves
<1>12. CASE Swap
  <2>1. /\ refresh.at = "swapping" /\ mem' = refresh.next
        /\ refresh' = [at |-> "saving", answer |-> refresh.answer, next |-> NoBody]
        /\ recent' = TRUE /\ UNCHANGED <<db, editors, trigger, contested, edited>>
    BY <1>0, <1>12 DEF Swap, Records
  <2>2. /\ DOMAIN refresh.next = Fields
        /\ \A f \in Secrets : refresh.next[f] # Mask
        /\ ~edited => /\ Coherent(refresh.next)
                      /\ \E s \in Solutions : refresh.answer = AnswerOf(s)
    BY <1>0, <2>1 DEF TypeOK, SecretInv, CoherentInv
  <2> QED
    BY <2>1, <2>2, Here, RefreshMoves
<1>13. CASE SaveRefresh
  <2> DEFINE answer == refresh.answer
             texts == RefreshTexts(answer)
  <2>1. /\ refresh.at = "saving" /\ db' = Over(texts, db)
        /\ refresh' = [at |-> "waiting", answer |-> NoBody, next |-> NoBody]
        /\ UNCHANGED <<mem, editors, trigger, recent, contested, edited>>
    BY <1>13 DEF SaveRefresh, Asleep
  <2>2. /\ DOMAIN answer \subseteq Solved
        /\ \A f \in Secrets : f \in DOMAIN answer => answer[f] # Mask
        /\ ~edited => \E s \in Solutions : answer = AnswerOf(s)
    BY <1>0, <2>1, Here DEF CoherentInv
  <2> HIDE DEF answer
  <2>3. ~edited => StoredWith(db')
    BY <2>1, <2>2, AnswerStored
  <2>4. DOMAIN texts = DOMAIN answer /\ \A f \in DOMAIN texts : texts[f] = Text(answer[f])
    BY DEF RefreshTexts
  <2> HIDE DEF texts
  <2>5. /\ DOMAIN Over(texts, db) = DOMAIN texts \cup DOMAIN db
        /\ \A f \in DOMAIN texts : Over(texts, db)[f] = texts[f]
        /\ \A f \in DOMAIN db \ DOMAIN texts : Over(texts, db)[f] = db[f]
    BY OverValue, Zenon
  <2>6. \A f \in Secrets \cap DOMAIN texts : SafeText(texts[f])
    BY <2>2, <2>4, TextSafe
  <2>7. /\ DOMAIN db' \subseteq Fields
        /\ \A f \in Secrets : f \in DOMAIN db' => SafeText(db'[f])
    BY <2>1, <2>2, <2>4, <2>5, <2>6, Here, FieldSets
  <2> QED
    BY <2>1, <2>3, <2>7, Here, RestValues, RefreshMoves
<1>14. CASE SaveRefreshFails
  <2>1. refresh' = [at |-> "waiting", answer |-> NoBody, next |-> NoBody]
    BY <1>14 DEF SaveRefreshFails, Asleep
  <2>2. contested' \subseteq Fields
    BY <1>14, Here, FieldSets DEF SaveRefreshFails
  <2> QED
    BY <1>14, <2>1, <2>2, Here, RestValues, RefreshMoves DEF SaveRefreshFails
<1>15. CASE Restart
  <2>1. /\ mem' = Loaded(db) /\ db' = db /\ edited' = edited
        /\ editors' = [p \in Editors |-> Idle]
        /\ refresh' = [at |-> "starting", answer |-> NoBody, next |-> NoBody]
        /\ trigger' = FALSE /\ recent' = FALSE
        /\ contested' = IF Dormant THEN {"user_agent"} ELSE {}
    BY <1>15 DEF Restart, Asleep
  <2>2. /\ DOMAIN mem' = Fields /\ \A f \in Secrets : mem'[f] # Mask
        /\ ~edited => Coherent(mem')
    BY <2>1, Here, LoadedValue, LoadedSafe, LoadedCoherent
  <2>3. contested' \subseteq Fields
    BY <2>1 DEF Fields, ProxyFields
  <2>4. \A p \in Editors : editors'[p] = Idle
    BY <2>1
  <2>5. TypeOK'
    BY <2>1, <2>2, <2>3, <2>4, Here, RestValues DEF TypeOK
  <2>6. Records'
    BY <2>1, <2>4, RestValues DEF Records
  <2>7. SecretInv'
    BY <2>1, <2>2, <2>4, Here, RestValues DEF SecretInv, Busy
  <2>8. CoherentInv'
    BY <2>1, <2>2, <2>4, Here, RestValues DEF CoherentInv, Busy
  <2> QED
    BY <2>5, <2>6, <2>7, <2>8 DEF CInv
<1>16. CASE UNCHANGED vars
  BY <1>0, <1>16 DEF vars, CInv, TypeOK, Records, SecretInv, CoherentInv, Busy
<1> QED
  BY <1>1, <1>2, <1>3, <1>4, <1>5, <1>6, <1>7, <1>8, <1>9, <1>10, <1>11,
     <1>12, <1>13, <1>14, <1>15, <1>16 DEF Next

\* The invariant holds in every reachable state.
LEMMA Invariant == Spec => []CInv
BY InitInv, NextInv, PTL DEF Spec

\* Whatever the writers do and however they overlap, the live configuration has
\* every field: what Store or the refresh swaps in is a whole configuration.
THEOREM Typing == Spec => []TypeOK
<1>1. CInv => TypeOK
  BY DEF CInv
<1> QED
  BY <1>1, Invariant, PTL

\* The placeholder the forms send back never becomes a secret, in memory or in
\* the database.
THEOREM NoMask == Spec => []MaskNeverStored
<1>1. CInv => MaskNeverStored
  BY SafeScalar DEF CInv, SecretInv, MaskNeverStored
<1> QED
  BY <1>1, Invariant, PTL

\* Unless an admin sets one of the three, a clearance is used with the browser
\* and the user agent it was solved with, also after a restart.
THEOREM Clearance == Spec => []ClearanceWithItsUserAgent
<1>1. CInv => ClearanceWithItsUserAgent
  BY LoadedCoherent DEF CInv, CoherentInv, ClearanceWithItsUserAgent
<1> QED
  BY <1>1, Invariant, PTL

-----------------------------------------------------------------------------
(* Texts and lists.  Join and NonEmpty are recursive; what they return is  *)
(* found by induction along the list, with the set of the lengths up to    *)
(* which it holds.                                                         *)

\* What holds of 0 and of each number after one it holds of, holds up to hi.
LEMMA UpTo ==
    ASSUME NEW hi \in Nat, NEW T, 0 \in T, \A n \in 1 .. hi : n - 1 \in T => n \in T
    PROVE  \A n \in 0 .. hi : n \in T
<1> DEFINE R == OpToRel(<, Nat)
           gaps == {n \in 0 .. hi : n \notin T}
<1> SUFFICES ASSUME gaps # {} PROVE FALSE
  OBVIOUS
<1>1. IsWellFoundedOn(R, Nat)
  BY NatLessThanWellFounded
<1>2. \A x, y \in Nat : <<x, y>> \in R <=> x < y
  BY DEF OpToRel
<1>3. gaps \in SUBSET Nat
  OBVIOUS
<1> HIDE DEF R, gaps
<1>4. PICK m \in gaps : \A k \in gaps : ~ (<<k, m>> \in R)
  BY <1>1, <1>3, WFMin
<1>5. \A k \in gaps : ~ (k < m)
  BY <1>2, <1>3, <1>4, Zenon
<1>6. m \in 1 .. hi /\ m - 1 \in 0 .. hi /\ m \notin T
  BY <1>4 DEF gaps
<1>7. m - 1 \in gaps
  BY <1>6 DEF gaps
<1> QED
  BY <1>5, <1>6, <1>7

\* The ways to make a value from the one before, for each number; and what
\* begins with e and makes each value in that way.
Steps(hi, S) == [1 .. hi -> [S -> S]]

Run(g, hi, S, e, F) ==
    /\ g \in [0 .. hi -> S]
    /\ g = [n \in 0 .. hi |-> IF n = 0 THEN e ELSE F[n][g[n - 1]]]

\* What a recursive definition promises: there is such a run.
LEMMA Recursion ==
    ASSUME NEW hi \in Nat, NEW S, NEW e \in S, NEW F \in Steps(hi, S)
    PROVE  \E g : Run(g, hi, S, e, F)
<1> DEFINE T == {m \in 0 .. hi : \E g : Run(g, m, S, e, F)}
<1>1. 0 \in T
  <2> DEFINE h == [n \in 0 .. 0 |-> e]
  <2>1. \A n \in 0 .. 0 : n = 0
    OBVIOUS
  <2>2. Run(h, 0, S, e, F)
    BY <2>1 DEF Run
  <2> QED
    BY <2>2
<1>2. ASSUME NEW m \in 1 .. hi, m - 1 \in T PROVE m \in T
  <2>1. PICK g : Run(g, m - 1, S, e, F)
    BY <1>2
  <2> DEFINE h == [n \in 0 .. m |-> IF n = m THEN F[m][g[m - 1]] ELSE g[n]]
  <2>2. \A n \in 0 .. m - 1 :
            /\ h[n] = g[n] /\ g[n] \in S
            /\ g[n] = IF n = 0 THEN e ELSE F[n][g[n - 1]]
    BY <2>1 DEF Run
  <2>3. F[m][g[m - 1]] \in S
    <3>1. F[m] \in [S -> S]
      BY DEF Steps
    <3>2. m - 1 \in 0 .. m - 1
      OBVIOUS
    <3>3. g[m - 1] \in S
      BY <2>2, <3>2
    <3> QED
      BY <3>1, <3>3
  <2>4. h \in [0 .. m -> S]
    <3>1. \A n \in 0 .. m : n # m => n \in 0 .. m - 1
      OBVIOUS
    <3> QED
      BY <2>2, <2>3, <3>1
  <2>5. ASSUME NEW n \in 0 .. m
        PROVE  h[n] = IF n = 0 THEN e ELSE F[n][h[n - 1]]
    <3>1. CASE n = m
      BY <2>2, <3>1
    <3>2. CASE n # m
      <4>1. n \in 0 .. m - 1 /\ (n # 0 => n - 1 \in 0 .. m - 1)
        BY <3>2
      <4> QED
        BY <2>2, <4>1
    <3> QED
      BY <3>1, <3>2
  <2> HIDE DEF h
  <2>6. h = [n \in 0 .. m |-> IF n = 0 THEN e ELSE F[n][h[n - 1]]]
    BY <2>4, <2>5
  <2>7. Run(h, m, S, e, F)
    BY <2>4, <2>6 DEF Run
  <2> QED
    BY <2>7
<1> HIDE DEF T
<1>3. \A n \in 0 .. hi : n \in T
  BY <1>1, <1>2, UpTo
<1> QED
  BY <1>3 DEF T

\* Join of a list is a text; tags without a comma come back from it.
LEMMA JoinValue ==
    ASSUME NEW list \in Seq(Seq(STRING))
    PROVE  /\ Join(list) \in Seq(STRING)
           /\ (\A i \in 1 .. Len(list) : Len(list[i]) = 1) => Split(Join(list)) = list
<1> DEFINE n == Len(list)
           Joined(g) == g = [i \in 0 .. n |-> IF i = 0 THEN <<>> ELSE g[i - 1] \o list[i]]
           joined == CHOOSE g : Joined(g)
<1>1. n \in Nat /\ \A i \in 1 .. n : list[i] \in Seq(STRING)
  BY LenProperties, ElementOfSeq
<1>2. \E g : Joined(g)
  <2> DEFINE F == [i \in 1 .. n |-> [t \in Seq(STRING) |-> t \o list[i]]]
  <2>1. \A i \in 1 .. n : [t \in Seq(STRING) |-> t \o list[i]] \in [Seq(STRING) -> Seq(STRING)]
    BY <1>1, ConcatProperties
  <2>2. F \in Steps(n, Seq(STRING)) /\ <<>> \in Seq(STRING)
    BY <2>1, EmptySeq DEF Steps
  <2>3. \A i \in 1 .. n : \A t \in Seq(STRING) : F[i][t] = t \o list[i]
    OBVIOUS
  <2> HIDE DEF F, n
  <2>4. PICK g : Run(g, n, Seq(STRING), <<>>, F)
    BY <1>1, <2>2, Recursion, Zenon
  <2>5. ASSUME NEW i \in 0 .. n
        PROVE  g[i] = IF i = 0 THEN <<>> ELSE g[i - 1] \o list[i]
    <3>1. i # 0 => i \in 1 .. n /\ i - 1 \in 0 .. n
      BY <1>1
    <3> QED
      BY <2>3, <2>4, <3>1 DEF Run
  <2>6. g \in [0 .. n -> Seq(STRING)]
    BY <2>4 DEF Run
  <2>7. Joined(g)
    BY <2>5, <2>6
  <2> QED
    BY <2>7
<1>3. Joined(joined)
  <2> HIDE DEF Joined
  <2> QED
    BY <1>2
<1>4. Join(list) = joined[n]
  BY DEF Join
<1> HIDE DEF joined
<1>5. /\ joined[0] = <<>>
      /\ \A i \in 1 .. n : joined[i] = joined[i - 1] \o list[i]
  <2>1. 0 \in 0 .. n /\ \A i \in 1 .. n : i \in 0 .. n /\ i # 0
    BY <1>1
  <2> HIDE DEF n
  <2> QED
    BY <1>3, <2>1
<1> HIDE DEF Joined, n
<1>6. Join(list) \in Seq(STRING)
  <2> DEFINE T == {i \in 0 .. n : joined[i] \in Seq(STRING)}
  <2>1. 0 \in T
    <3>1. <<>> \in Seq(STRING) /\ 0 \in 0 .. n
      BY <1>1, EmptySeq
    <3> QED
      BY <1>5, <3>1
  <2>2. ASSUME NEW i \in 1 .. n, i - 1 \in T PROVE i \in T
    <3>1. joined[i - 1] \in Seq(STRING) /\ list[i] \in Seq(STRING)
      BY <1>1, <2>2
    <3>2. joined[i - 1] \o list[i] \in Seq(STRING)
      BY <3>1, ConcatProperties
    <3>3. i \in 0 .. n
      BY <1>1
    <3> QED
      BY <1>5, <3>2, <3>3
  <2> HIDE DEF T
  <2>3. \A i \in 0 .. n : i \in T
    BY <1>1, <2>1, <2>2, UpTo
  <2> QED
    BY <1>1, <1>4, <2>3 DEF T
<1>7. ASSUME \A i \in 1 .. n : Len(list[i]) = 1
      PROVE  Split(Join(list)) = list
  <2> DEFINE T == {i \in 0 .. n : joined[i] = [k \in 1 .. i |-> list[k][1]]}
  <2>0. \A k \in 1 .. n : list[k] = <<list[k][1]>> /\ list[k][1] \in STRING
    BY <1>1, <1>7
  <2>1. 0 \in T
    BY <1>1, <1>5
  <2>2. ASSUME NEW i \in 1 .. n, i - 1 \in T PROVE i \in T
    <3> DEFINE before == [k \in 1 .. i - 1 |-> list[k][1]]
               after == [k \in 1 .. i |-> list[k][1]]
    <3>1. /\ joined[i] = joined[i - 1] \o list[i]
          /\ joined[i - 1] = before
      BY <1>5, <2>2
    <3>2. \A k \in 1 .. i : list[k][1] \in STRING
      BY <1>1, <2>0
    <3>3. before \in Seq(STRING) /\ Len(before) = i - 1
      BY <1>1, <3>2
    <3>4. after \in Seq(STRING) /\ Len(after) = i
      <4>1. i \in Nat /\ after \in [1 .. i -> STRING]
        BY <1>1, <3>2
      <4> HIDE DEF after
      <4> QED
        BY <4>1, LenProperties
    <3>5. before \o list[i] = after
      <4>1. /\ before \o list[i] \in Seq(STRING) /\ Len(before \o list[i]) = i
            /\ \A k \in 1 .. i : (before \o list[i])[k] =
                  IF k <= i - 1 THEN before[k] ELSE list[i][k - (i - 1)]
        <5> HIDE DEF before
        <5>1. list[i] \in Seq(STRING) /\ Len(list[i]) = 1 /\ i \in 1 .. n
          BY <1>1, <1>7
        <5>2. /\ before \o list[i] \in Seq(STRING)
              /\ Len(before \o list[i]) = Len(before) + Len(list[i])
              /\ \A k \in 1 .. Len(before) + Len(list[i]) : (before \o list[i])[k] =
                    IF k <= Len(before) THEN before[k] ELSE list[i][k - Len(before)]
          BY <3>3, <5>1, ConcatProperties
        <5>3. Len(before) = i - 1 /\ Len(before) + Len(list[i]) = i
          BY <1>1, <3>3, <5>1
        <5> QED
          BY <5>2, <5>3
      <4>2. ASSUME NEW k \in 1 .. i PROVE (before \o list[i])[k] = after[k]
        <5>1. CASE k <= i - 1
          <6>1. k \in 1 .. i - 1
            BY <1>1, <5>1
          <6> QED
            BY <4>1, <5>1, <6>1
        <5>2. CASE ~ (k <= i - 1)
          <6>1. k = i /\ k - (i - 1) = 1
            BY <1>1, <5>2
          <6> QED
            BY <4>1, <5>2, <6>1
        <5> QED
          BY <5>1, <5>2
      <4> DEFINE both == before \o list[i]
      <4>3. /\ both \in Seq(STRING) /\ Len(both) = i
            /\ \A k \in 1 .. i : both[k] = after[k]
        BY <4>1, <4>2
      <4> HIDE DEF both, after
      <4>4. both = after
        BY <3>4, <4>3, SeqEqual
      <4> QED
        BY <4>4 DEF both
    <3>6. i \in 0 .. n
      BY <1>1
    <3>7. joined[i] = after
      <4> HIDE DEF before, after
      <4> QED
        BY <3>1, <3>5
    <3> QED
      BY <3>6, <3>7
  <2> HIDE DEF T
  <2>3. n \in T
    <3>1. \A i \in 0 .. n : i \in T
      BY <1>1, <2>1, <2>2, UpTo
    <3> QED
      BY <1>1, <3>1
  <2>4. Join(list) = [k \in 1 .. n |-> list[k][1]]
    BY <1>4, <2>3 DEF T
  <2>5. Len(Join(list)) = n
    BY <1>1, <2>4
  <2>6. Split(Join(list)) = [i \in 1 .. n |-> <<list[i][1]>>]
    BY <2>4, <2>5 DEF Split
  <2>7. list = [i \in 1 .. n |-> list[i]]
    BY DEF n
  <2> QED
    BY <2>0, <2>6, <2>7
<1> QED
  BY <1>6, <1>7 DEF n

\* NonEmpty leaves tags that are not empty.
LEMMA NonEmptyValue ==
    ASSUME NEW list \in Seq(Seq(STRING))
    PROVE  NonEmpty(list) \in Seq(Seq(STRING) \ {<<>>})
<1> DEFINE n == Len(list)
           Tags == Seq(STRING) \ {<<>>}
           Keeps(g) == g = [i \in 0 .. n |->
                              IF i = 0 THEN <<>>
                              ELSE IF list[i] = <<>> THEN g[i - 1]
                                                     ELSE Append(g[i - 1], list[i])]
           kept == CHOOSE g : Keeps(g)
<1>1. n \in Nat /\ \A i \in 1 .. n : list[i] \in Seq(STRING)
  BY LenProperties, ElementOfSeq
<1>2. ASSUME NEW i \in 1 .. n, NEW t \in Seq(Tags)
      PROVE  (IF list[i] = <<>> THEN t ELSE Append(t, list[i])) \in Seq(Tags)
  <2>1. CASE list[i] = <<>>
    BY <2>1
  <2>2. CASE list[i] # <<>>
    <3>1. list[i] \in Tags
      BY <1>1, <2>2
    <3> HIDE DEF Tags
    <3> QED
      BY <2>2, <3>1, AppendProperties
  <2> QED
    BY <2>1, <2>2
<1> HIDE DEF Tags
<1>3. \E g : Keeps(g)
  <2> DEFINE F == [i \in 1 .. n |-> [t \in Seq(Tags) |->
                      IF list[i] = <<>> THEN t ELSE Append(t, list[i])]]
  <2>1. \A i \in 1 .. n :
           [t \in Seq(Tags) |-> IF list[i] = <<>> THEN t ELSE Append(t, list[i])]
               \in [Seq(Tags) -> Seq(Tags)]
    BY <1>2
  <2>2. F \in Steps(n, Seq(Tags)) /\ <<>> \in Seq(Tags)
    BY <2>1, EmptySeq DEF Steps
  <2>3. \A i \in 1 .. n : \A t \in Seq(Tags) :
           F[i][t] = IF list[i] = <<>> THEN t ELSE Append(t, list[i])
    OBVIOUS
  <2> HIDE DEF F, n
  <2>4. PICK g : Run(g, n, Seq(Tags), <<>>, F)
    BY <1>1, <2>2, Recursion, Zenon
  <2>5. ASSUME NEW i \in 0 .. n
        PROVE  g[i] = IF i = 0 THEN <<>>
                      ELSE IF list[i] = <<>> THEN g[i - 1]
                                             ELSE Append(g[i - 1], list[i])
    <3>1. i # 0 => i \in 1 .. n /\ i - 1 \in 0 .. n
      BY <1>1
    <3> QED
      BY <2>3, <2>4, <3>1 DEF Run
  <2>6. g \in [0 .. n -> Seq(Tags)]
    BY <2>4 DEF Run
  <2>7. Keeps(g)
    BY <2>5, <2>6
  <2> QED
    BY <2>7
<1>4. Keeps(kept)
  <2> HIDE DEF Keeps
  <2> QED
    BY <1>3
<1>5. NonEmpty(list) = kept[n]
  BY DEF NonEmpty
<1> HIDE DEF kept
<1>6. /\ kept[0] = <<>>
      /\ \A i \in 1 .. n : kept[i] = IF list[i] = <<>> THEN kept[i - 1]
                                     ELSE Append(kept[i - 1], list[i])
  <2>1. 0 \in 0 .. n /\ \A i \in 1 .. n : i \in 0 .. n /\ i # 0
    BY <1>1
  <2> HIDE DEF n
  <2> QED
    BY <1>4, <2>1
<1> HIDE DEF Keeps, n
<1> DEFINE T == {i \in 0 .. n : kept[i] \in Seq(Tags)}
<1>7. 0 \in T
  <2>1. <<>> \in Seq(Tags) /\ 0 \in 0 .. n
    BY <1>1, EmptySeq
  <2> QED
    BY <1>6, <2>1
<1>8. ASSUME NEW i \in 1 .. n, i - 1 \in T PROVE i \in T
  <2>1. kept[i - 1] \in Seq(Tags) /\ i \in 0 .. n
    BY <1>1, <1>8
  <2>2. kept[i] \in Seq(Tags)
    BY <1>2, <1>6, <2>1
  <2> QED
    BY <2>1, <2>2
<1> HIDE DEF T
<1>9. \A i \in 0 .. n : i \in T
  BY <1>1, <1>7, <1>8, UpTo
<1> QED
  BY <1>1, <1>5, <1>9 DEF T, Tags

\* Split makes tags of one part.
LEMMA SplitValue ==
    ASSUME NEW text \in Seq(STRING)
    PROVE  /\ Split(text) \in Seq(Seq(STRING))
           /\ \A i \in 1 .. Len(Split(text)) : Len(Split(text)[i]) = 1
<1>1. Len(text) \in Nat /\ \A i \in 1 .. Len(text) : text[i] \in STRING
  BY LenProperties, ElementOfSeq
<1>2. \A i \in 1 .. Len(text) : <<text[i]>> \in Seq(STRING) /\ Len(<<text[i]>>) = 1
  BY <1>1
<1>3. Split(text) \in [1 .. Len(text) -> Seq(STRING)]
  BY <1>2 DEF Split
<1>4. Split(text) \in Seq(Seq(STRING)) /\ Len(Split(text)) = Len(text)
  BY <1>1, <1>3, LenProperties
<1> QED
  BY <1>2, <1>4 DEF Split

-----------------------------------------------------------------------------
(* What a restart keeps.  A setting survives when its text is read back as *)
(* the setting, when it is what a start loads without a text, or when it   *)
(* is one of those a start cannot keep.                                    *)

\* A list whose tags are not all read back as they were.
Splits(f, v) == f \in ListFields /\ \E i \in 1 .. Len(v) : Len(v[i]) > 1

\* The text t stands for the value v.
Stands(f, v, t) == Decode(f, t) = v \/ Splits(f, v)

\* The table d brings the value v of f back, as far as it can.
Kept(f, v, d) ==
    \/ f \in DOMAIN Env
    \/ f \in DOMAIN d /\ Stands(f, v, d[f])
    \/ /\ f \in DOMAIN d =>
              f \in {"browser", "user_agent", "models"} /\ d[f] = <<>>
       /\ v = Load[f]

\* A writer that has changed one of the two copies of a setting, and not yet
\* the other.
Pending(f) ==
    \/ \E p \in Editors : /\ editors[p].at = "saved"
                          /\ f \in DOMAIN Settings(editors[p].req)
    \/ refresh.at = "saving" /\ f \in DOMAIN refresh.answer

\* Memory and table agree on every setting nobody is about to change.
Agree == \A f \in Fields \ contested : Kept(f, mem[f], db) \/ Pending(f)

\* An admin request has a copy of the live configuration with its own settings
\* in it; once it has saved, the table agrees with them.
EditorsAgree ==
    \A p \in Working : \A f \in Fields \ contested :
        IF f \in DOMAIN Settings(editors[p].req)
        THEN /\ editors[p].snap[f] = Settings(editors[p].req)[f]
             /\ editors[p].at = "saved" => Kept(f, editors[p].snap[f], db)
        ELSE editors[p].snap[f] = mem[f]

\* The same for the refresh, which changes the configuration first.
RefreshAgrees ==
    \A f \in Fields \ contested :
        /\ refresh.at = "swapping" =>
              refresh.next[f] = IF f \in DOMAIN refresh.answer
                                THEN refresh.answer[f] ELSE mem[f]
        /\ refresh.at = "saving" /\ f \in DOMAIN refresh.answer =>
              mem[f] = refresh.answer[f]

\* What two writers at a time change is contested.
OverlapsContested ==
    /\ \A p, q \in Working :
          p # q => DOMAIN Settings(editors[p].req) \subseteq contested
    /\ Refreshing => \A p \in Working :
          DOMAIN Settings(editors[p].req) \cup Solved \subseteq contested

\* The table holds texts, and no empty algorithm.
Texted(d) ==
    /\ \A f \in ListFields \cap DOMAIN d : d[f] \in Seq(STRING)
    /\ "selection_algorithm" \in DOMAIN d => d["selection_algorithm"] # <<>>

\* Every list is a list of tags, wherever it is on its way.
ListsListed ==
    /\ Listed(mem) /\ Texted(db)
    /\ \A p \in Editors : /\ Listed(editors[p].form)
                          /\ Listed(editors[p].req) /\ Listed(editors[p].snap)
                          /\ p \in Working => ~Refused(editors[p].req)
    /\ Listed(refresh.next)

KeepInv ==
    /\ CInv /\ ListsListed /\ OverlapsContested
    /\ Agree /\ EditorsAgree /\ RefreshAgrees

\* What is read back as one list, or scalar, stands for it.
LEMMA ReadBack ==
    /\ \A v : Scalar(Text(v)) = v
    /\ \A f \in ListFields : \A v \in Seq(Seq(STRING)) :
          (\A i \in 1 .. Len(v) : v[i] # <<>>) => Stands(f, v, Join(v))
<1>1. ASSUME NEW v PROVE Scalar(Text(v)) = v
  <2>1. CASE v = ""
    BY <2>1 DEF Scalar, Text
  <2>2. CASE v # ""
    BY <2>2, ScalarText DEF Text
  <2> QED
    BY <2>1, <2>2
<1>2. ASSUME NEW f \in ListFields, NEW v \in Seq(Seq(STRING)),
             \A i \in 1 .. Len(v) : v[i] # <<>>
      PROVE  Stands(f, v, Join(v))
  <2>1. CASE \A i \in 1 .. Len(v) : Len(v[i]) = 1
    <3>1. Split(Join(v)) = v
      BY <2>1, JoinValue
    <3> QED
      BY <3>1 DEF Stands, Decode
  <2>2. ASSUME NEW i \in 1 .. Len(v), Len(v[i]) # 1
        PROVE  Stands(f, v, Join(v))
    <3>1. v[i] \in Seq(STRING) /\ v[i] # <<>>
      BY <1>2, ElementOfSeq
    <3> DEFINE tag == v[i]
    <3>2. Len(tag) # 1 /\ tag \in Seq(STRING) /\ tag # <<>>
      BY <2>2, <3>1
    <3> HIDE DEF tag
    <3>3. Len(tag) \in Nat /\ Len(tag) # 0
      BY <3>2, LenProperties, EmptySeq
    <3>6. \A n \in Nat : n # 0 /\ n # 1 => n > 1
      OBVIOUS
    <3>5. Len(tag) > 1
      BY <3>2, <3>3, <3>6, Zenon
    <3>4. Len(v[i]) > 1
      BY <3>5 DEF tag
    <3> QED
      BY <3>4 DEF Stands, Splits
  <2> QED
    BY <2>1, <2>2
<1> QED
  BY <1>1, <1>2

\* Which groups the lists and the fields with exceptions belong to.
LEMMA MoreFieldSets ==
    /\ ListFields \subseteq Fields
    /\ ListFields \cap (ProxyFields \cup Secrets \cup Solved \cup ImageFields
                            \cup DOMAIN Env) = {}
    /\ ListFields \cap AppFields = {"filter_tags"}
    /\ ListFields \cap RetryFields = {"retry_codes"}
    /\ ListFields \cap TokenFields = {"models"}
    /\ "user_agent" \in ProxyFields /\ "browser" \in ProxyFields
    /\ {"selection_algorithm", "models"} \subseteq TokenFields
    /\ ImageFields \cap (RetryFields \cup TokenFields) = {}
    /\ RetryFields \cap TokenFields = {}
    /\ DOMAIN Env \subseteq TokenFields \ {"models", "selection_algorithm"}
BY ConfigAssumption DEF Secrets, Solved, Fields, AppFields, ImageFields, ProxyFields,
       RetryFields, TokenFields, ListFields

\* The text of a field counts.
Overrides(f, d) ==
    /\ f \in DOMAIN d
    /\ f \in {"browser", "user_agent", "models", "selection_algorithm"} => d[f] # <<>>
    /\ f = "user_agent" => "browser" \in DOMAIN d /\ d["browser"] # <<>>

\* What a start makes of every field the environment does not set.
LEMMA LoadedFields ==
    ASSUME NEW d, NEW f \in Fields \ DOMAIN Env
    PROVE  Loaded(d)[f] = IF Overrides(f, d) THEN Decode(f, d[f]) ELSE Load[f]
<1> DEFINE app == AppFromDB(Load, d)
           proxy == ProxyFromDB(Load, d)
           retry == RetryAndImageFromDB(Load, d)
           token == TokenFromDB(Load, d)
           Right(c) == c[f] = IF Overrides(f, d) THEN Decode(f, d[f]) ELSE Load[f]
<1>1. /\ DOMAIN app = AppFields /\ DOMAIN proxy = ProxyFields
      /\ DOMAIN retry = RetryFields \cup ImageFields /\ DOMAIN token = TokenFields
  BY DEF AppFromDB, ProxyFromDB, RetryAndImageFromDB, TokenFromDB
<1>2. f \in AppFields => Right(app)
  <2>1. f \in AppFields => f \notin {"browser", "user_agent", "models", "selection_algorithm"}
    BY DEF AppFields
  <2> QED
    BY <2>1 DEF AppFromDB, Decode, Overrides
<1>3. f \in ProxyFields => Right(proxy)
  <2>1. f \in ProxyFields => f \notin ListFields \cup {"models", "selection_algorithm"}
    BY DEF ProxyFields, ListFields
  <2> QED
    BY <2>1 DEF ProxyFromDB, Decode, Overrides
<1>4. f \in RetryFields \cup ImageFields => Right(retry)
  <2>1. f \in RetryFields \cup ImageFields =>
            f \notin {"browser", "user_agent", "models", "selection_algorithm"}
    BY DEF RetryFields, ImageFields
  <2> QED
    BY <2>1 DEF RetryAndImageFromDB, Decode, Overrides
<1>5. f \in TokenFields => Right(token)
  <2>1. f \in TokenFields => f \notin {"browser", "user_agent"}
    BY DEF TokenFields
  <2> QED
    BY <2>1 DEF TokenFromDB, Decode, Overrides
<1> HIDE DEF app, proxy, retry, token, Right
<1> DEFINE low == Over(retry, token)
           mid == Over(proxy, low)
           all == Over(app, mid)
<1>6. /\ DOMAIN low = DOMAIN retry \cup DOMAIN token
      /\ \A g \in DOMAIN retry : low[g] = retry[g]
      /\ \A g \in DOMAIN token \ DOMAIN retry : low[g] = token[g]
  BY OverValue, Zenon
<1> HIDE DEF low
<1>7. /\ DOMAIN mid = DOMAIN proxy \cup DOMAIN low
      /\ \A g \in DOMAIN proxy : mid[g] = proxy[g]
      /\ \A g \in DOMAIN low \ DOMAIN proxy : mid[g] = low[g]
  BY OverValue, Zenon
<1> HIDE DEF mid
<1>8. /\ DOMAIN all = DOMAIN app \cup DOMAIN mid
      /\ \A g \in DOMAIN app : all[g] = app[g]
      /\ \A g \in DOMAIN mid \ DOMAIN app : all[g] = mid[g]
  BY OverValue, Zenon
<1> HIDE DEF all
<1>9. f \in DOMAIN all /\ Right(all)
  <2>1. f \in AppFields \cup ProxyFields \cup RetryFields \cup ImageFields \cup TokenFields
    BY FieldSets
  <2>2. CASE f \in AppFields
    BY <1>1, <1>2, <1>8, <2>2 DEF Right
  <2>3. CASE f \in ProxyFields
    BY <1>1, <1>3, <1>7, <1>8, <2>3, FieldSets DEF Right
  <2>4. CASE f \in RetryFields \cup ImageFields
    BY <1>1, <1>4, <1>6, <1>7, <1>8, <2>4, FieldSets DEF Right
  <2>5. CASE f \in TokenFields
    BY <1>1, <1>5, <1>6, <1>7, <1>8, <2>5, FieldSets, MoreFieldSets DEF Right
  <2> QED
    BY <2>1, <2>2, <2>3, <2>4, <2>5
<1>10. Loaded(d) = Over(Env, all)
  BY DEF Loaded, ApplyEnvOverrides, ApplyDBOverrides, all, mid, low, app, proxy,
         retry, token
<1>11. \A g \in DOMAIN all \ DOMAIN Env : Over(Env, all)[g] = all[g]
  BY OverValue, Zenon
<1>12. Loaded(d)[f] = all[f]
  BY <1>9, <1>10, <1>11
<1> QED
  BY <1>9, <1>12 DEF Right

\* The fields a body sets, with their values, and how a value is written.
Asked(req) == {f \in DOMAIN req \cap Fields : f \in Secrets => req[f] # Mask}

Value(req, f) == IF f \in Asked(req) THEN Trimmed(f, req[f]) ELSE Paired(req)[f]

Written(f, v) == IF f \in ListFields THEN Join(v) ELSE Text(v)

\* The fields of a section a body sets, as all sections select them.
LEMMA SectionValue ==
    ASSUME NEW req, NEW S, S \subseteq Fields
    PROVE  /\ DOMAIN Only(Unmasked(req), S) = Asked(req) \cap S
           /\ \A f \in Asked(req) \cap S : Only(Unmasked(req), S)[f] = req[f]
           /\ S \cap Secrets = {} => /\ DOMAIN Only(req, S) = Asked(req) \cap S
                                     /\ \A f \in Asked(req) \cap S : Only(req, S)[f] = req[f]
<1>1. /\ DOMAIN Only(req, S) = DOMAIN req \cap S
      /\ \A f \in DOMAIN req \cap S : Only(req, S)[f] = req[f]
  BY OnlyValue, Zenon
<1> DEFINE U == {f \in DOMAIN req : f \in Secrets => req[f] # Mask}
           u == Only(req, U)
<1>2. /\ DOMAIN Only(req, U) = DOMAIN req \cap U
      /\ \A f \in DOMAIN req \cap U : Only(req, U)[f] = req[f]
  BY OnlyValue, Zenon
<1>3. Unmasked(req) = u
  BY DEF Unmasked
<1>4. DOMAIN u = U /\ \A f \in U : u[f] = req[f]
  BY <1>2
<1> HIDE DEF u
<1>5. /\ DOMAIN Only(u, S) = DOMAIN u \cap S
      /\ \A f \in DOMAIN u \cap S : Only(u, S)[f] = u[f]
  BY OnlyValue, Zenon
<1>6. U \cap S = Asked(req) \cap S
  BY DEF Asked
<1> QED
  BY <1>1, <1>3, <1>4, <1>5, <1>6

\* The user agent of a browser comes where the body names none.
LEMMA PairedValue ==
    ASSUME NEW req
    PROVE  /\ DOMAIN Paired(req) \subseteq {"user_agent"}
           /\ DOMAIN Paired(req) \cap Asked(req) = {}
BY DEF Paired, Asked

\* What SetProxy and ProxyTexts start from.
LEMMA ProxyValue ==
    ASSUME NEW req
    PROVE  /\ DOMAIN SetProxy(req) = (Asked(req) \cap ProxyFields) \cup DOMAIN Paired(req)
           /\ \A f \in DOMAIN SetProxy(req) : SetProxy(req)[f] = Value(req, f)
<1> DEFINE given == Only(Unmasked(req), ProxyFields)
           pair == Paired(req)
<1>0. ProxyFields \subseteq Fields
  BY FieldSets
<1>1. /\ DOMAIN given = Asked(req) \cap ProxyFields
      /\ \A f \in DOMAIN given : given[f] = req[f]
  <2>1. /\ DOMAIN given = Asked(req) \cap ProxyFields
        /\ \A f \in Asked(req) \cap ProxyFields : given[f] = req[f]
    BY <1>0, SectionValue, Zenon
  <2> QED
    BY <2>1
<1>2. DOMAIN pair \cap Asked(req) = {}
  BY PairedValue
<1>3. \A f \in ProxyFields : \A v : Trimmed(f, v) = v
  BY DEF Trimmed, ProxyFields
<1>4. SetProxy(req) = Over(given, pair)
  BY DEF SetProxy
<1>5. \A f : Value(req, f) = IF f \in Asked(req) THEN Trimmed(f, req[f]) ELSE pair[f]
  BY DEF Value
<1> HIDE DEF given, pair
<1>6. /\ DOMAIN Over(given, pair) = DOMAIN given \cup DOMAIN pair
      /\ \A f \in DOMAIN given : Over(given, pair)[f] = given[f]
      /\ \A f \in DOMAIN pair \ DOMAIN given : Over(given, pair)[f] = pair[f]
  BY OverValue, Zenon
<1>7. ASSUME NEW f \in DOMAIN SetProxy(req) PROVE SetProxy(req)[f] = Value(req, f)
  <2>1. CASE f \in DOMAIN given
    BY <1>1, <1>3, <1>4, <1>5, <1>6, <2>1
  <2>2. CASE f \notin DOMAIN given
    BY <1>1, <1>2, <1>4, <1>5, <1>6, <1>7, <2>2
  <2> QED
    BY <2>1, <2>2
<1> QED
  BY <1>1, <1>4, <1>6, <1>7 DEF pair

\* What a body changes in memory, field by field.
LEMMA SettingsFields ==
    ASSUME NEW req
    PROVE  /\ DOMAIN Settings(req) = Asked(req) \cup DOMAIN Paired(req)
           /\ \A f \in DOMAIN Settings(req) : Settings(req)[f] = Value(req, f)
<1> DEFINE token == SetToken(req)
           retry == SetRetry(req)
           proxy == SetProxy(req)
           image == SetImage(req)
           app == SetApp(req)
           Right(c) == \A f \in DOMAIN c : c[f] = Value(req, f)
<1>0. /\ AppFields \subseteq Fields /\ ImageFields \subseteq Fields
      /\ RetryFields \subseteq Fields /\ TokenFields \subseteq Fields
      /\ ImageFields \cap Secrets = {} /\ RetryFields \cap Secrets = {}
      /\ TokenFields \cap Secrets = {}
  BY FieldSets
<1>1. DOMAIN app = Asked(req) \cap AppFields /\ Right(app)
  <2> DEFINE given == Only(Unmasked(req), AppFields)
  <2>1. /\ DOMAIN given = Asked(req) \cap AppFields
        /\ \A f \in Asked(req) \cap AppFields : given[f] = req[f]
    BY <1>0, SectionValue, Zenon
  <2>2. DOMAIN app = DOMAIN given /\ \A f \in DOMAIN given : app[f] = Trimmed(f, given[f])
    BY DEF SetApp
  <2> HIDE DEF given, app
  <2> QED
    BY <2>1, <2>2 DEF Value
<1>2. DOMAIN image = Asked(req) \cap ImageFields /\ Right(image)
  <2>1. /\ DOMAIN Only(req, ImageFields) = Asked(req) \cap ImageFields
        /\ \A f \in Asked(req) \cap ImageFields : Only(req, ImageFields)[f] = req[f]
    BY <1>0, SectionValue, Zenon
  <2>2. \A f \in ImageFields : \A v : Trimmed(f, v) = v
    BY DEF Trimmed, ImageFields
  <2>3. image = Only(req, ImageFields)
    BY DEF SetImage
  <2> HIDE DEF image
  <2> QED
    BY <2>1, <2>2, <2>3 DEF Value
<1>3. DOMAIN retry = Asked(req) \cap RetryFields /\ Right(retry)
  <2>1. /\ DOMAIN Only(req, RetryFields) = Asked(req) \cap RetryFields
        /\ \A f \in Asked(req) \cap RetryFields : Only(req, RetryFields)[f] = req[f]
    BY <1>0, SectionValue, Zenon
  <2>2. \A f \in RetryFields : \A v : Trimmed(f, v) = v
    BY DEF Trimmed, RetryFields
  <2>3. retry = Only(req, RetryFields)
    BY DEF SetRetry
  <2> HIDE DEF retry
  <2> QED
    BY <2>1, <2>2, <2>3 DEF Value
<1>4. DOMAIN token = Asked(req) \cap TokenFields /\ Right(token)
  <2> DEFINE given == Only(req, TokenFields)
  <2>1. /\ DOMAIN given = Asked(req) \cap TokenFields
        /\ \A f \in Asked(req) \cap TokenFields : given[f] = req[f]
    BY <1>0, SectionValue, Zenon
  <2>2. /\ DOMAIN token = DOMAIN given
        /\ \A f \in DOMAIN given : token[f] = Trimmed(f, given[f])
    BY DEF SetToken
  <2> HIDE DEF given, token
  <2> QED
    BY <2>1, <2>2 DEF Value
<1>5. DOMAIN proxy = (Asked(req) \cap ProxyFields) \cup DOMAIN Paired(req) /\ Right(proxy)
  BY ProxyValue
<1> HIDE DEF token, retry, proxy, image, app
<1> DEFINE low == Over(retry, token)
           mid == Over(proxy, low)
           high == Over(image, mid)
           all == Over(app, high)
<1>6. \A new, old : Right(new) /\ Right(old) => Right(Over(new, old))
  BY DEF Over
<1>7. \A new, old : DOMAIN Over(new, old) = DOMAIN new \cup DOMAIN old
  BY OverValue
<1> HIDE DEF Right
<1>8. Right(low) /\ DOMAIN low = DOMAIN retry \cup DOMAIN token
  BY <1>3, <1>4, <1>6, <1>7
<1> HIDE DEF low
<1>9. Right(mid) /\ DOMAIN mid = DOMAIN proxy \cup DOMAIN low
  BY <1>5, <1>6, <1>7, <1>8
<1> HIDE DEF mid
<1>10. Right(high) /\ DOMAIN high = DOMAIN image \cup DOMAIN mid
  BY <1>2, <1>6, <1>7, <1>9
<1> HIDE DEF high
<1>11. Right(all) /\ DOMAIN all = DOMAIN app \cup DOMAIN high
  BY <1>1, <1>6, <1>7, <1>10
<1> HIDE DEF all
<1>12. Settings(req) = all
  BY DEF Settings, all, high, mid, low, token, retry, proxy, image, app
<1>13. Asked(req) \subseteq AppFields \cup ImageFields \cup ProxyFields
                               \cup RetryFields \cup TokenFields
  BY FieldSets DEF Asked
<1>14. DOMAIN all = Asked(req) \cup DOMAIN Paired(req)
  BY <1>1, <1>2, <1>3, <1>4, <1>5, <1>8, <1>9, <1>10, <1>11, <1>13
<1> QED
  BY <1>11, <1>12, <1>14 DEF Right

\* What it saves are the same fields, with the texts of the same values.
LEMMA TextsFields ==
    ASSUME NEW req
    PROVE  /\ DOMAIN Texts(req) = Asked(req) \cup DOMAIN Paired(req)
           /\ \A f \in DOMAIN Texts(req) : Texts(req)[f] = Written(f, Value(req, f))
<1> DEFINE app == AppTexts(req)
           proxy == ProxyTexts(req)
           rest == RetryAndTokenTexts(req)
           Right(c) == \A f \in DOMAIN c : c[f] = Written(f, Value(req, f))
<1>0. /\ AppFields \cup ImageFields \subseteq Fields
      /\ RetryFields \cup TokenFields \subseteq Fields
      /\ (RetryFields \cup TokenFields) \cap Secrets = {}
  BY FieldSets
<1>1. DOMAIN app = Asked(req) \cap (AppFields \cup ImageFields) /\ Right(app)
  <2> DEFINE S == AppFields \cup ImageFields
             given == Only(Unmasked(req), S)
  <2>1. /\ DOMAIN given = Asked(req) \cap S
        /\ \A f \in Asked(req) \cap S : given[f] = req[f]
    BY <1>0, SectionValue, Zenon
  <2>2. /\ DOMAIN app = DOMAIN given
        /\ \A f \in DOMAIN given : app[f] = IF f = "filter_tags"
                  THEN Join(NonEmpty(given[f])) ELSE Text(given[f])
    BY DEF AppTexts
  <2>3. \A f \in S : /\ f \in ListFields <=> f = "filter_tags"
                     /\ f \in {"filter_tags", "models"} <=> f = "filter_tags"
    BY DEF AppFields, ImageFields, ListFields
  <2> HIDE DEF given, app, S
  <2>4. Right(app)
    BY <2>1, <2>2, <2>3 DEF Value, Written, Trimmed
  <2> QED
    BY <2>1, <2>2, <2>4 DEF S
<1>2. DOMAIN proxy = (Asked(req) \cap ProxyFields) \cup DOMAIN Paired(req) /\ Right(proxy)
  <2>1. DOMAIN proxy = DOMAIN SetProxy(req)
        /\ \A f \in DOMAIN SetProxy(req) : proxy[f] = Text(SetProxy(req)[f])
    BY DEF ProxyTexts, SetProxy
  <2>2. /\ DOMAIN SetProxy(req) = (Asked(req) \cap ProxyFields) \cup DOMAIN Paired(req)
        /\ \A f \in DOMAIN SetProxy(req) : SetProxy(req)[f] = Value(req, f)
    BY ProxyValue, Zenon
  <2>3. \A f \in DOMAIN SetProxy(req) : f \notin ListFields
    BY <2>2, PairedValue, MoreFieldSets
  <2> HIDE DEF proxy
  <2> QED
    BY <2>1, <2>2, <2>3 DEF Written
<1>3. DOMAIN rest = Asked(req) \cap (RetryFields \cup TokenFields) /\ Right(rest)
  <2> DEFINE S == RetryFields \cup TokenFields
             given == Only(req, S)
  <2>1. /\ DOMAIN given = Asked(req) \cap S
        /\ \A f \in Asked(req) \cap S : given[f] = req[f]
    BY <1>0, SectionValue, Zenon
  <2>2. /\ DOMAIN rest = DOMAIN given
        /\ \A f \in DOMAIN given : rest[f] =
              CASE f = "models"      -> Join(NonEmpty(given[f]))
                [] f = "retry_codes" -> Join(given[f])
                [] OTHER             -> Text(given[f])
    BY DEF RetryAndTokenTexts
  <2>3. \A f \in S : /\ f \in ListFields <=> f = "models" \/ f = "retry_codes"
                     /\ f \in {"filter_tags", "models"} <=> f = "models"
    BY DEF RetryFields, TokenFields, ListFields
  <2>4. "models" # "retry_codes"
    OBVIOUS
  <2> HIDE DEF given, rest, S
  <2>5. Right(rest)
    BY <2>1, <2>2, <2>3, <2>4 DEF Value, Written, Trimmed
  <2> QED
    BY <2>1, <2>2, <2>5 DEF S
<1> HIDE DEF app, proxy, rest
<1> DEFINE low == Over(proxy, rest)
           all == Over(app, low)
<1>6. \A new, old : Right(new) /\ Right(old) => Right(Over(new, old))
  BY DEF Over
<1>7. \A new, old : DOMAIN Over(new, old) = DOMAIN new \cup DOMAIN old
  BY OverValue
<1> HIDE DEF Right
<1>8. Right(low) /\ DOMAIN low = DOMAIN proxy \cup DOMAIN rest
  BY <1>2, <1>3, <1>6, <1>7
<1> HIDE DEF low
<1>9. Right(all) /\ DOMAIN all = DOMAIN app \cup DOMAIN low
  BY <1>1, <1>6, <1>7, <1>8
<1> HIDE DEF all
<1>10. Texts(req) = all
  BY DEF Texts, all, low, app, proxy, rest
<1>11. Asked(req) \subseteq AppFields \cup ImageFields \cup ProxyFields
                               \cup RetryFields \cup TokenFields
  BY FieldSets DEF Asked
<1>12. DOMAIN all = Asked(req) \cup DOMAIN Paired(req)
  BY <1>1, <1>2, <1>3, <1>8, <1>9, <1>11
<1> QED
  BY <1>9, <1>10, <1>12 DEF Right

\* A body with proper lists changes lists into lists and saves texts, and each
\* text stands for the setting.
LEMMA BodyStands ==
    ASSUME NEW req, Listed(req), ~Refused(req)
    PROVE  /\ Listed(Settings(req)) /\ Texted(Texts(req))
           /\ DOMAIN Texts(req) = DOMAIN Settings(req)
           /\ \A f \in DOMAIN Settings(req) :
                 Stands(f, Settings(req)[f], Texts(req)[f])
<1>1. /\ DOMAIN Settings(req) = Asked(req) \cup DOMAIN Paired(req)
      /\ \A f \in DOMAIN Settings(req) : Settings(req)[f] = Value(req, f)
  BY SettingsFields, Zenon
<1>2. /\ DOMAIN Texts(req) = Asked(req) \cup DOMAIN Paired(req)
      /\ \A f \in DOMAIN Texts(req) : Texts(req)[f] = Written(f, Value(req, f))
  BY TextsFields, Zenon
<1>3. \A f \in DOMAIN Paired(req) :
          f \notin ListFields /\ f # "selection_algorithm"
  BY PairedValue, MoreFieldSets
<1>4. ASSUME NEW f \in ListFields \cap DOMAIN Settings(req)
      PROVE  /\ Value(req, f) \in Seq(Seq(STRING))
             /\ \A i \in 1 .. Len(Value(req, f)) : Value(req, f)[i] # <<>>
             /\ f = "retry_codes" =>
                   \A i \in 1 .. Len(Value(req, f)) : Len(Value(req, f)[i]) = 1
  <2>1. f \in Asked(req) /\ f \in DOMAIN req
    BY <1>1, <1>3 DEF Asked
  <2>2. /\ req[f] \in Seq(Seq(STRING))
        /\ f = "retry_codes" => \A i \in 1 .. Len(req[f]) : Len(req[f][i]) = 1
    BY <2>1 DEF Listed
  <2>3. CASE f \in {"filter_tags", "models"}
    <3> DEFINE tags == NonEmpty(req[f])
    <3>1. tags \in Seq(Seq(STRING) \ {<<>>})
      BY <2>2, NonEmptyValue
    <3>2. Value(req, f) = tags /\ f # "retry_codes"
      BY <2>1, <2>3 DEF Value, Trimmed
    <3> HIDE DEF tags
    <3>3. /\ \A i \in 1 .. Len(tags) : tags[i] # <<>>
          /\ tags \in Seq(Seq(STRING))
      <4>1. \A i \in 1 .. Len(tags) : tags[i] \in Seq(STRING) \ {<<>>}
        BY <3>1, ElementOfSeq
      <4>2. /\ Len(tags) \in Nat
            /\ tags \in [1 .. Len(tags) -> Seq(STRING) \ {<<>>}]
        BY <3>1, LenProperties
      <4>3. tags \in [1 .. Len(tags) -> Seq(STRING)]
        BY <4>2
      <4> QED
        BY <4>1, <4>2, <4>3
    <3> QED
      BY <3>2, <3>3
  <2>4. CASE f \notin {"filter_tags", "models"}
    <3>1. f = "retry_codes"
      BY <2>4 DEF ListFields
    <3> DEFINE codes == req[f]
    <3>2. /\ codes \in Seq(Seq(STRING)) /\ \A i \in 1 .. Len(codes) : Len(codes[i]) = 1
      BY <2>2, <3>1
    <3>3. Value(req, f) = codes
      BY <2>1, <2>4 DEF Value, Trimmed
    <3> HIDE DEF codes
    <3>4. \A i \in 1 .. Len(codes) : codes[i] # <<>>
      <4>1. \A t : Len(t) = 1 => t # <<>>
        OBVIOUS
      <4> QED
        BY <3>2, <4>1, Zenon
    <3> QED
      BY <3>2, <3>3, <3>4
  <2> QED
    BY <2>3, <2>4
<1>5. Listed(Settings(req))
  BY <1>1, <1>4 DEF Listed
<1>6. ASSUME NEW f \in DOMAIN Settings(req)
      PROVE  Stands(f, Settings(req)[f], Texts(req)[f])
  <2> DEFINE v == Value(req, f)
  <2>1. Settings(req)[f] = v /\ Texts(req)[f] = Written(f, v)
    BY <1>1, <1>2
  <2>2. CASE f \in ListFields
    <3>1. v \in Seq(Seq(STRING)) /\ \A i \in 1 .. Len(v) : v[i] # <<>>
      BY <1>4, <2>2
    <3> HIDE DEF v
    <3>2. Stands(f, v, Join(v))
      BY <2>2, <3>1, ReadBack
    <3> QED
      BY <2>1, <2>2, <3>2 DEF Written
  <2>3. CASE f \notin ListFields
    <3> HIDE DEF v
    <3>1. Scalar(Text(v)) = v
      BY ReadBack
    <3> QED
      BY <2>1, <2>3, <3>1 DEF Written, Stands, Decode
  <2> QED
    BY <2>2, <2>3
<1>7. ASSUME NEW f \in ListFields \cap DOMAIN Texts(req)
      PROVE  Texts(req)[f] \in Seq(STRING)
  <2>1. Value(req, f) \in Seq(Seq(STRING))
    BY <1>1, <1>2, <1>4
  <2>2. Join(Value(req, f)) \in Seq(STRING)
    BY <2>1, JoinValue
  <2> QED
    BY <1>2, <2>2 DEF Written
<1>8. "selection_algorithm" \in DOMAIN Texts(req) =>
          Texts(req)["selection_algorithm"] # <<>>
  <2> SUFFICES ASSUME "selection_algorithm" \in DOMAIN Texts(req)
               PROVE  Texts(req)["selection_algorithm"] # <<>>
    OBVIOUS
  <2> DEFINE a == req["selection_algorithm"]
  <2>1. "selection_algorithm" \in Asked(req)
    BY <1>2, <1>3
  <2>2. a # ""
    BY <2>1, ConfigAssumption DEF Refused, Asked
  <2>3. Texts(req)["selection_algorithm"] = Text(a)
    <3>1. Value(req, "selection_algorithm") = a
      BY <2>1 DEF Value, Trimmed
    <3>2. "selection_algorithm" \notin ListFields
      BY DEF ListFields
    <3> QED
      BY <1>2, <3>1, <3>2 DEF Written
  <2> HIDE DEF a
  <2> QED
    BY <2>2, <2>3, ScalarText DEF Text
<1> QED
  BY <1>1, <1>2, <1>5, <1>6, <1>7, <1>8 DEF Texted

\* Lists stay lists, and texts texts, when settings are laid over others.
LEMMA ListedOver ==
    /\ \A new, old : Listed(new) /\ Listed(old) => Listed(Over(new, old))
    /\ \A new, old : Texted(new) /\ Texted(old) => Texted(Over(new, old))
    /\ Listed(NoBody) /\ Texted(NoBody)
BY DEF Over, Listed, Texted, NoBody

\* A form, and the answer to a challenge, have proper lists if memory has.
LEMMA ListedForm ==
    ASSUME NEW c, Listed(c), DOMAIN c = Fields
    PROVE  Listed(Only(Response(c), FormFields))
<1> DEFINE form == Only(Response(c), FormFields)
<1>1. DOMAIN Response(c) = Fields /\ \A f \in ListFields : Response(c)[f] = c[f]
  BY MoreFieldSets DEF Response
<1>2. /\ DOMAIN Only(Response(c), FormFields) = DOMAIN Response(c) \cap FormFields
      /\ \A f \in DOMAIN Response(c) \cap FormFields :
             Only(Response(c), FormFields)[f] = Response(c)[f]
  BY OnlyValue, Zenon
<1>3. \A f \in ListFields \cap DOMAIN form : form[f] = c[f] /\ f \in DOMAIN c
  BY <1>1, <1>2
<1> HIDE DEF form
<1> QED
  BY <1>3 DEF Listed, form

\* Other fields than the lists have none.
LEMMA ListedOthers ==
    ASSUME NEW c, DOMAIN c \subseteq Solved
    PROVE  Listed(c)
BY MoreFieldSets DEF Listed

\* A start loads proper lists from texts.
LEMMA ListedLoaded ==
    ASSUME NEW d, Texted(d)
    PROVE  Listed(Loaded(d))
<1> SUFFICES ASSUME NEW f \in ListFields \cap DOMAIN Loaded(d)
             PROVE  /\ Loaded(d)[f] \in Seq(Seq(STRING))
                    /\ f = "retry_codes" => \A i \in 1 .. Len(Loaded(d)[f]) :
                                               Len(Loaded(d)[f][i]) = 1
  BY DEF Listed
<1>1. f \in Fields \ DOMAIN Env
  BY MoreFieldSets
<1>2. Loaded(d)[f] = IF Overrides(f, d) THEN Decode(f, d[f]) ELSE Load[f]
  BY <1>1, LoadedFields
<1>3. CASE Overrides(f, d)
  <2>1. d[f] \in Seq(STRING)
    BY <1>3 DEF Overrides, Texted
  <2>2. Loaded(d)[f] = Split(d[f])
    BY <1>2, <1>3 DEF Decode
  <2> QED
    BY <2>1, <2>2, SplitValue
<1>4. CASE ~Overrides(f, d)
  <2>1. Load[f] = File[f]
    BY <1>1, LoadedValue
  <2>2. Listed(File) /\ f \in DOMAIN File
    BY <1>1, ConfigAssumption
  <2> QED
    BY <1>2, <1>4, <2>1, <2>2 DEF Listed
<1> QED
  BY <1>3, <1>4

\* What a table keeps of a field depends on its own text only.
LEMMA KeptOver ==
    ASSUME NEW new, NEW d, NEW f, NEW v
    PROVE  /\ f \notin DOMAIN new => (Kept(f, v, Over(new, d)) <=> Kept(f, v, d))
           /\ f \in DOMAIN new /\ Stands(f, v, new[f]) => Kept(f, v, Over(new, d))
<1> DEFINE all == Over(new, d)
<1>1. /\ DOMAIN all = DOMAIN new \cup DOMAIN d
      /\ \A g \in DOMAIN new : all[g] = new[g]
      /\ \A g \in DOMAIN d \ DOMAIN new : all[g] = d[g]
  BY OverValue, Zenon
<1> HIDE DEF all
<1>2. f \notin DOMAIN new => (Kept(f, v, all) <=> Kept(f, v, d))
  BY <1>1 DEF Kept
<1>3. f \in DOMAIN new /\ Stands(f, v, new[f]) => Kept(f, v, all)
  BY <1>1 DEF Kept
<1> QED
  BY <1>2, <1>3 DEF all

\* What a start loads from a table, the table keeps, but for a dormant user
\* agent.
LEMMA KeptLoaded ==
    ASSUME NEW f \in Fields, f = "user_agent" => ~Dormant, Texted(db)
    PROVE  Kept(f, Loaded(db)[f], db)
<1> SUFFICES ASSUME f \notin DOMAIN Env PROVE Kept(f, Loaded(db)[f], db)
  BY DEF Kept
<1>1. Loaded(db)[f] = IF Overrides(f, db) THEN Decode(f, db[f]) ELSE Load[f]
  BY LoadedFields
<1>2. CASE Overrides(f, db)
  BY <1>1, <1>2 DEF Overrides, Kept, Stands
<1>3. CASE ~Overrides(f, db)
  <2>1. f \in DOMAIN db => f \in {"browser", "user_agent", "models"} /\ db[f] = <<>>
    BY <1>3 DEF Overrides, Texted, Dormant
  <2> QED
    BY <1>1, <1>3, <2>1 DEF Kept
<1> QED
  BY <1>2, <1>3

\* And what the table keeps is loaded, or is lost for a reason.
LEMMA LoadedKept ==
    ASSUME NEW f \in Fields, Kept(f, mem[f], db), Texted(db)
    PROVE  Loaded(db)[f] = mem[f] \/ LostAtRestart(f)
<1> SUFFICES ASSUME f \notin DOMAIN Env, ~Splits(f, mem[f])
             PROVE  Loaded(db)[f] = mem[f] \/ LostAtRestart(f)
  BY DEF LostAtRestart, Splits
<1>1. Loaded(db)[f] = IF Overrides(f, db) THEN Decode(f, db[f]) ELSE Load[f]
  BY LoadedFields
<1>2. CASE f \in DOMAIN db /\ Stands(f, mem[f], db[f])
  <2>1. Decode(f, db[f]) = mem[f]
    BY <1>2 DEF Stands
  <2>2. CASE Overrides(f, db)
    BY <1>1, <2>1, <2>2
  <2>3. CASE f \in {"browser", "user_agent"} /\ db[f] = <<>>
    <3>1. mem[f] = ""
      BY <2>1, <2>3 DEF Decode, Scalar, ListFields
    <3> QED
      BY <2>3, <3>1 DEF LostAtRestart
  <2>4. CASE f = "models" /\ db[f] = <<>>
    <3>1. Split(<<>>) = <<>>
      <4>1. Len(<<>>) = 0
        BY EmptySeq
      <4>2. <<>> \in Seq(STRING)
        BY EmptySeq
      <4>3. Split(<<>>) \in Seq(Seq(STRING)) /\ Len(Split(<<>>)) = 0
        BY <4>1, <4>2, SplitValue DEF Split
      <4> QED
        BY <4>3, EmptySeq
    <3>2. mem[f] = <<>>
      BY <2>1, <2>4, <3>1 DEF Decode, ListFields
    <3> QED
      BY <2>4, <3>2 DEF LostAtRestart
  <2>5. CASE f = "user_agent" /\ ("browser" \in DOMAIN db => db["browser"] = <<>>)
    BY <1>2, <2>5 DEF LostAtRestart, Dormant
  <2> QED
    BY <1>2, <2>2, <2>3, <2>4, <2>5 DEF Overrides, Texted
<1>3. CASE /\ f \in DOMAIN db => f \in {"browser", "user_agent", "models"} /\ db[f] = <<>>
           /\ mem[f] = Load[f]
  BY <1>1, <1>3 DEF Overrides
<1> QED
  BY <1>2, <1>3 DEF Kept

\* So the invariant gives the property.
LEMMA KeepsSettings == KeepInv => RestartKeepsSettings
<1> SUFFICES ASSUME KeepInv, Settled, NEW f \in Fields, f \notin contested
             PROVE  Loaded(db)[f] = mem[f] \/ LostAtRestart(f)
  BY DEF RestartKeepsSettings
<1>1. ~Pending(f)
  BY DEF Pending, Settled, Working, Refreshing
<1>2. Kept(f, mem[f], db) /\ Texted(db)
  BY <1>1 DEF KeepInv, Agree, ListsListed
<1> QED
  BY <1>2, LoadedKept

\* The invariant holds at the start.
LEMMA KeepInit == Init => KeepInv
<1> SUFFICES ASSUME Init PROVE KeepInv
  OBVIOUS
<1>1. /\ CInv /\ mem = Loaded(NoBody) /\ db = NoBody /\ contested = {}
      /\ \A p \in Editors : editors[p] = Idle
      /\ refresh.at = "starting" /\ refresh.next = NoBody
  BY InitInv, RestValues DEF Init
<1>2. Texted(db) /\ Listed(mem) /\ Listed(NoBody)
  BY <1>1, ListedOver, ListedLoaded
<1>3. Working = {} /\ ~Refreshing
  BY <1>1, RestValues DEF Working, Refreshing
<1>4. ListsListed
  BY <1>1, <1>2, <1>3 DEF ListsListed, Idle
<1>5. OverlapsContested /\ EditorsAgree /\ RefreshAgrees
  BY <1>1, <1>3 DEF OverlapsContested, EditorsAgree, RefreshAgrees, Refreshing
<1>6. Agree
  <2>1. ~Dormant
    BY <1>1, RestValues DEF Dormant
  <2> QED
    BY <1>1, <1>2, <2>1, KeptLoaded DEF Agree
<1> QED
  BY <1>1, <1>4, <1>5, <1>6 DEF KeepInv

\* One admin request moves and the others stay.
LEMMA OneMoves ==
    ASSUME CInv, NEW p \in Editors, NEW r, editors' = [editors EXCEPT ![p] = r]
    PROVE  /\ editors'[p] = r
           /\ \A q \in Editors \ {p} : editors'[q] = editors[q]
           /\ p \in Working' <=> r.at \in {"read", "saved"}
           /\ \A q \in Editors \ {p} : q \in Working' <=> q \in Working
<1>1. /\ editors'[p] = r
      /\ \A q \in Editors \ {p} : editors'[q] = editors[q]
  BY DEF CInv, Records
<1> QED
  BY <1>1 DEF Working

\* A step of an admin request that has nothing saved and ends with nothing to
\* store changes nothing the invariant is about.
LEMMA EditorRests ==
    ASSUME KeepInv, CInv', NEW p \in Editors, NEW r,
           editors' = [editors EXCEPT ![p] = r],
           editors[p].at # "saved", r.at \notin {"read", "saved"},
           Listed(r.form), Listed(r.req), Listed(r.snap),
           UNCHANGED <<mem, db, refresh, contested>>
    PROVE  KeepInv'
<1>1. /\ editors'[p] = r
      /\ \A q \in Editors \ {p} : editors'[q] = editors[q]
      /\ p \notin Working' /\ \A q \in Editors \ {p} : q \in Working' <=> q \in Working
  BY OneMoves DEF KeepInv
<1>2. \A q \in Working' : q \in Working /\ q \in Editors /\ editors'[q] = editors[q]
  BY <1>1 DEF Working
<1>3. ListsListed'
  BY <1>1, <1>2 DEF KeepInv, ListsListed
<1>4. OverlapsContested'
  BY <1>2 DEF KeepInv, OverlapsContested, Refreshing
<1>5. EditorsAgree'
  BY <1>2 DEF KeepInv, EditorsAgree
<1>6. RefreshAgrees'
  BY DEF KeepInv, RefreshAgrees
<1>7. \A f : Pending(f) => Pending(f)'
  BY <1>1 DEF Pending
<1>8. Agree'
  BY <1>7 DEF KeepInv, Agree
<1> QED
  BY <1>3, <1>4, <1>5, <1>6, <1>8 DEF KeepInv

\* Nor does a step of the refresh that holds no copy, before it or after.
LEMMA RefreshRests ==
    ASSUME KeepInv, CInv', UNCHANGED <<mem, db, editors, contested>>,
           \/ UNCHANGED refresh
           \/ ~Refreshing /\ ~Refreshing' /\ Listed(refresh'.next)
    PROVE  KeepInv'
<1>1. ListsListed'
  BY DEF KeepInv, ListsListed, Working
<1>2. OverlapsContested'
  BY DEF KeepInv, OverlapsContested, Working, Refreshing
<1>3. EditorsAgree'
  BY DEF KeepInv, EditorsAgree, Working
<1>4. RefreshAgrees'
  BY DEF KeepInv, RefreshAgrees, Refreshing
<1>5. \A f : Pending(f) => Pending(f)'
  BY DEF Pending, Refreshing
<1>6. Agree'
  BY <1>5 DEF KeepInv, Agree
<1> QED
  BY <1>1, <1>2, <1>3, <1>4, <1>6 DEF KeepInv

\* What starts beside the other writers contests what it changes and what they
\* change.
LEMMA Contests ==
    ASSUME NEW S
    PROVE  /\ Working # {} => S \subseteq Contested(S)
           /\ \A q \in Working : DOMAIN Settings(editors[q].req) \subseteq Contested(S)
           /\ Refreshing => S \subseteq Contested(S) /\ Solved \subseteq Contested(S)
<1>1. \A q \in Working : DOMAIN Settings(editors[q].req) \subseteq
                             UNION {DOMAIN Settings(editors[o].req) : o \in Working}
  OBVIOUS
<1> QED
  BY <1>1 DEF Contested, Settled

\* An admin request starts: its snapshot is the live configuration with its
\* settings in it.
LEMMA PutKeeps ==
    ASSUME KeepInv, CInv', NEW p \in Editors, NEW e \in Edits, Put(p, e)
    PROVE  KeepInv'
<1> DEFINE req == Over(e, editors[p].form)
           set == Settings(req)
           snap == Over(set, mem)
<1>1. Listed(req)
  BY ListedOver, ConfigAssumption DEF KeepInv, ListsListed
<1>2. CASE Refused(req)
  <2>1. editors' = [editors EXCEPT ![p] = Idle]
    BY <1>2 DEF Put
  <2>2. editors[p].at # "saved" /\ UNCHANGED <<mem, db, refresh, contested>>
    BY <1>2 DEF Put
  <2>3. /\ Idle.at = "idle"
        /\ Listed(Idle.form) /\ Listed(Idle.req) /\ Listed(Idle.snap)
    BY ListedOver DEF Idle
  <2> QED
    BY <2>1, <2>2, <2>3, EditorRests
<1>3. CASE ~Refused(req)
  <2>1. /\ editors' = [editors EXCEPT ![p] = [at |-> "read", form |-> NoBody,
                           req |-> req, snap |-> snap]]
        /\ contested' = contested \cup Contested(DOMAIN set)
        /\ UNCHANGED <<mem, db, refresh>>
        /\ editors[p].at \in {"idle", "form"}
    BY <1>3 DEF Put
  <2>2. /\ Listed(set) /\ DOMAIN mem = Fields /\ CInv /\ Listed(mem)
    BY <1>1, <1>3, BodyStands, Here DEF KeepInv, ListsListed
  <2>3. ~Refused(req)
    BY <1>3
  <2> HIDE DEF req
  <2>4. Listed(snap)
    <3> HIDE DEF set
    <3> QED
      BY <2>2, ListedOver
  <2>5. /\ \A f \in DOMAIN set : snap[f] = set[f]
        /\ \A f \in DOMAIN mem \ DOMAIN set : snap[f] = mem[f]
    <3> HIDE DEF set
    <3> QED
      BY OverValue, Zenon
  <2> DEFINE r == [at |-> "read", form |-> NoBody, req |-> req, snap |-> snap]
  <2>6. r.at = "read" /\ r.form = NoBody /\ r.req = req /\ r.snap = snap
    OBVIOUS
  <2> HIDE DEF snap, r
  <2>7. /\ editors'[p] = r
        /\ \A q \in Editors \ {p} : editors'[q] = editors[q]
        /\ p \in Working' /\ \A q \in Editors \ {p} : q \in Working' <=> q \in Working
    <3>1. editors' = [editors EXCEPT ![p] = r]
      BY <2>1 DEF r
    <3> QED
      BY <2>2, <2>6, <3>1, OneMoves
  <2>8. p \notin Working
    BY <2>1 DEF Working
  <2>9. Listed(NoBody)
    BY ListedOver
  <2>10. ListsListed'
    BY <2>1, <2>3, <2>4, <2>6, <2>7, <2>9, <1>1 DEF KeepInv, ListsListed
  <2>11. OverlapsContested'
    <3>1. \A q \in Working' \ {p} : q \in Working /\ editors'[q] = editors[q]
      BY <2>7 DEF Working
    <3>2. /\ Working # {} => DOMAIN set \subseteq contested'
          /\ \A q \in Working : DOMAIN Settings(editors[q].req) \subseteq contested'
          /\ Refreshing => DOMAIN set \subseteq contested' /\ Solved \subseteq contested'
      BY <2>1, Contests
    <3>3. DOMAIN Settings(editors'[p].req) = DOMAIN set
      BY <2>6, <2>7
    <3>4. Refreshing' = Refreshing
      BY <2>1 DEF Refreshing
    <3> HIDE DEF set
    <3>5. ASSUME NEW o \in Working', NEW q \in Working', o # q
          PROVE  DOMAIN Settings(editors'[o].req) \subseteq contested'
      <4>1. CASE o = p
        <5>1. q \in Working
          BY <3>1, <3>5, <4>1
        <5> QED
          BY <3>2, <3>3, <4>1, <5>1
      <4>2. CASE o # p
        BY <3>1, <3>2, <4>2
      <4> QED
        BY <4>1, <4>2
    <3>6. ASSUME Refreshing', NEW o \in Working'
          PROVE  DOMAIN Settings(editors'[o].req) \cup Solved \subseteq contested'
      <4>1. CASE o = p
        BY <3>2, <3>3, <3>4, <3>6, <4>1
      <4>2. CASE o # p
        BY <3>1, <3>2, <3>4, <3>6, <4>2
      <4> QED
        BY <4>1, <4>2
    <3> QED
      BY <3>5, <3>6 DEF OverlapsContested
  <2>12. contested \subseteq contested'
    BY <2>1
  <2>13. EditorsAgree'
    <3>1. ASSUME NEW f \in Fields \ contested'
          PROVE  IF f \in DOMAIN Settings(editors'[p].req)
                 THEN /\ editors'[p].snap[f] = Settings(editors'[p].req)[f]
                      /\ editors'[p].at = "saved" => Kept(f, editors'[p].snap[f], db')
                 ELSE editors'[p].snap[f] = mem'[f]
      <4>1. Settings(editors'[p].req) = set /\ editors'[p].snap = snap
            /\ editors'[p].at = "read"
        BY <2>6, <2>7
      <4> HIDE DEF set
      <4> QED
        BY <2>1, <2>2, <2>5, <4>1
    <3>2. ASSUME NEW q \in Working' \ {p}, NEW f \in Fields \ contested'
          PROVE  IF f \in DOMAIN Settings(editors'[q].req)
                 THEN /\ editors'[q].snap[f] = Settings(editors'[q].req)[f]
                      /\ editors'[q].at = "saved" => Kept(f, editors'[q].snap[f], db')
                 ELSE editors'[q].snap[f] = mem'[f]
      <4>1. q \in Working /\ editors'[q] = editors[q] /\ f \in Fields \ contested
        BY <2>7, <2>12 DEF Working
      <4> QED
        BY <2>1, <4>1 DEF KeepInv, EditorsAgree
    <3> QED
      BY <3>1, <3>2 DEF EditorsAgree
  <2>14. RefreshAgrees'
    BY <2>1, <2>12 DEF KeepInv, RefreshAgrees
  <2>15. Agree'
    <3>1. \A f : Pending(f) => Pending(f)'
      BY <2>1, <2>7 DEF Pending
    <3> QED
      BY <2>1, <2>12, <3>1 DEF KeepInv, Agree
  <2> QED
    BY <2>10, <2>11, <2>13, <2>14, <2>15 DEF KeepInv
<1> QED
  BY <1>2, <1>3

\* Saving writes the texts of what the snapshot holds; of the fields nobody
\* contests, no other writer has any.
LEMMA SaveKeeps ==
    ASSUME KeepInv, CInv', NEW p \in Editors, Save(p)
    PROVE  KeepInv'
<1> DEFINE req == editors[p].req
           set == Settings(req)
           texts == Texts(req)
           r == [at |-> "saved", form |-> editors[p].form, req |-> req,
                 snap |-> editors[p].snap]
<1>1. /\ editors[p].at = "read" /\ db' = Over(texts, db)
      /\ editors' = [editors EXCEPT ![p] = r]
      /\ UNCHANGED <<mem, refresh, contested>>
  <2>1. editors[p] = [at |-> editors[p].at, form |-> editors[p].form,
                      req |-> editors[p].req, snap |-> editors[p].snap]
    BY DEF KeepInv, CInv, Records
  <2>2. [editors[p] EXCEPT !.at = "saved"] = r
    BY <2>1
  <2>3. editors' = [editors EXCEPT ![p] = [editors[p] EXCEPT !.at = "saved"]]
    BY DEF Save
  <2> QED
    BY <2>2, <2>3 DEF Save
<1>2. /\ r.at = "saved" /\ r.form = editors[p].form /\ r.req = req
      /\ r.snap = editors[p].snap
  OBVIOUS
<1> HIDE DEF r
<1>3. /\ editors'[p] = r
      /\ \A q \in Editors \ {p} : editors'[q] = editors[q]
      /\ p \in Working' /\ \A q \in Editors \ {p} : q \in Working' <=> q \in Working
  BY <1>1, <1>2, OneMoves DEF KeepInv
<1>4. p \in Working /\ Listed(req) /\ ~Refused(req)
  BY <1>1 DEF Working, KeepInv, ListsListed
<1>5. /\ Texted(texts) /\ DOMAIN texts = DOMAIN set
      /\ \A f \in DOMAIN set : Stands(f, set[f], texts[f])
  BY <1>4, BodyStands
<1>6. \A q \in Working' : q \in Working /\ q \in Editors
                          /\ editors'[q].req = editors[q].req
                          /\ editors'[q].snap = editors[q].snap
  BY <1>2, <1>3, <1>4 DEF Working
<1>7. editors'[p].at = "saved" /\ editors'[p].req = req
  BY <1>2, <1>3
<1> HIDE DEF texts, set
<1>8. ListsListed'
  <2>1. Texted(db')
    BY <1>1, <1>5, ListedOver DEF KeepInv, ListsListed
  <2> QED
    BY <1>1, <1>2, <1>3, <1>6, <2>1 DEF KeepInv, ListsListed
<1>9. OverlapsContested'
  BY <1>1, <1>6 DEF KeepInv, OverlapsContested, Refreshing
<1>10. \A f, v : f \notin DOMAIN set => (Kept(f, v, db') <=> Kept(f, v, db))
  BY <1>1, <1>5, KeptOver
<1>11. EditorsAgree'
  <2>1. ASSUME NEW q \in Working', NEW f \in Fields \ contested'
        PROVE  IF f \in DOMAIN Settings(editors'[q].req)
               THEN /\ editors'[q].snap[f] = Settings(editors'[q].req)[f]
                    /\ editors'[q].at = "saved" => Kept(f, editors'[q].snap[f], db')
               ELSE editors'[q].snap[f] = mem'[f]
    <3>1. IF f \in DOMAIN Settings(editors[q].req)
          THEN /\ editors[q].snap[f] = Settings(editors[q].req)[f]
               /\ editors[q].at = "saved" => Kept(f, editors[q].snap[f], db)
          ELSE editors[q].snap[f] = mem[f]
      BY <1>1, <1>6, <2>1 DEF KeepInv, EditorsAgree
    <3>2. CASE q = p
      <4>1. f \in DOMAIN set => Kept(f, set[f], db')
        BY <1>1, <1>5, KeptOver
      <4> QED
        BY <1>1, <1>6, <3>1, <3>2, <4>1 DEF set
    <3>3. CASE q # p
      <4>1. DOMAIN Settings(editors[q].req) \subseteq contested /\ DOMAIN set \subseteq contested
        BY <1>4, <1>6, <3>3 DEF KeepInv, OverlapsContested, set
      <4>2. f \notin DOMAIN Settings(editors[q].req)
        BY <1>1, <4>1
      <4> QED
        BY <1>1, <1>6, <3>1, <4>2
    <3> QED
      BY <3>2, <3>3
  <2> QED
    BY <2>1 DEF EditorsAgree
<1>12. RefreshAgrees'
  BY <1>1 DEF KeepInv, RefreshAgrees
<1>13. Agree'
  <2>1. \A f : Pending(f) => Pending(f)'
    BY <1>1, <1>3, <1>7 DEF Pending
  <2>2. \A f \in DOMAIN set : Pending(f)'
    BY <1>3, <1>7 DEF Pending, set
  <2> QED
    BY <1>1, <1>10, <2>1, <2>2 DEF KeepInv, Agree
<1> QED
  BY <1>8, <1>9, <1>11, <1>12, <1>13 DEF KeepInv

\* Storing a snapshot: of the fields nobody contests it changes only its own,
\* and those only when it is the one writer.
LEMMA StoreKeeps ==
    ASSUME KeepInv, CInv', NEW p \in Editors, Store(p)
    PROVE  KeepInv'
<1> DEFINE set == Settings(editors[p].req)
           snap == editors[p].snap
<1>1. /\ editors[p].at = "saved" /\ mem' = snap
      /\ editors' = [editors EXCEPT ![p] = Idle]
      /\ UNCHANGED <<db, refresh, contested>>
  BY DEF Store
<1>2. /\ Idle.at = "idle"
      /\ Listed(Idle.form) /\ Listed(Idle.req) /\ Listed(Idle.snap)
  BY ListedOver DEF Idle
<1>3. /\ editors'[p] = Idle
      /\ \A q \in Editors \ {p} : editors'[q] = editors[q]
      /\ p \notin Working' /\ \A q \in Editors \ {p} : q \in Working' <=> q \in Working
  BY <1>1, <1>2, OneMoves DEF KeepInv
<1>4. p \in Working
  BY <1>1 DEF Working
<1>5. \A q \in Working' : q \in Working \ {p} /\ q \in Editors /\ editors'[q] = editors[q]
  BY <1>3 DEF Working
<1>6. \A f \in Fields \ contested :
          IF f \in DOMAIN set THEN Kept(f, snap[f], db) ELSE snap[f] = mem[f]
  BY <1>1, <1>4 DEF KeepInv, EditorsAgree
<1>7. Refreshing \/ Working' # {} =>
          /\ DOMAIN set \subseteq contested
          /\ \A f \in Fields \ contested : mem'[f] = mem[f]
  <2>1. Refreshing \/ Working' # {} => DOMAIN set \subseteq contested
    BY <1>4, <1>5 DEF KeepInv, OverlapsContested
  <2> HIDE DEF set, snap
  <2> QED
    BY <1>1, <1>6, <2>1
<1> HIDE DEF set, snap
<1>8. ListsListed'
  <2>1. Listed(mem')
    BY <1>1 DEF KeepInv, ListsListed, snap
  <2> QED
    BY <1>1, <1>2, <1>3, <1>5, <2>1 DEF KeepInv, ListsListed
<1>9. OverlapsContested'
  BY <1>1, <1>5 DEF KeepInv, OverlapsContested, Refreshing
<1>10. EditorsAgree'
  <2>1. ASSUME NEW q \in Working', NEW f \in Fields \ contested'
        PROVE  IF f \in DOMAIN Settings(editors'[q].req)
               THEN /\ editors'[q].snap[f] = Settings(editors'[q].req)[f]
                    /\ editors'[q].at = "saved" => Kept(f, editors'[q].snap[f], db')
               ELSE editors'[q].snap[f] = mem'[f]
    <3>1. mem'[f] = mem[f]
      BY <1>1, <1>7
    <3>2. q \in Working /\ editors'[q] = editors[q] /\ f \in Fields \ contested
      BY <1>1, <1>5
    <3> QED
      BY <1>1, <3>1, <3>2 DEF KeepInv, EditorsAgree
  <2> QED
    BY <2>1 DEF EditorsAgree
<1>11. RefreshAgrees'
  <2>1. ASSUME NEW f \in Fields \ contested', Refreshing PROVE mem'[f] = mem[f]
    BY <1>1, <1>7, <2>1
  <2> QED
    BY <1>1, <2>1 DEF KeepInv, RefreshAgrees, Refreshing
<1>12. Agree'
  <2>1. ASSUME NEW f \in Fields \ contested'
        PROVE  Kept(f, mem'[f], db') \/ Pending(f)'
    <3>1. CASE f \in DOMAIN set
      BY <1>1, <1>6, <2>1, <3>1
    <3>2. CASE f \notin DOMAIN set
      <4>1. mem'[f] = mem[f]
        BY <1>1, <1>6, <2>1, <3>2
      <4>2. Pending(f) => Pending(f)'
        BY <1>1, <1>3, <3>2 DEF Pending, set
      <4> QED
        BY <1>1, <2>1, <4>1, <4>2 DEF KeepInv, Agree
    <3> QED
      BY <3>1, <3>2
  <2> QED
    BY <2>1 DEF Agree
<1> QED
  BY <1>8, <1>9, <1>10, <1>11, <1>12 DEF KeepInv

\* The refresh clones the live configuration and changes the clone.
LEMMA CloneKeeps ==
    ASSUME KeepInv, CInv', Clone
    PROVE  KeepInv'
<1> DEFINE answer == refresh.answer
           next == Over(answer, mem)
<1>1. /\ refresh.at = "solved"
      /\ refresh' = [at |-> "swapping", answer |-> answer, next |-> next]
      /\ contested' = contested \cup Contested(Solved)
      /\ UNCHANGED <<mem, db, editors>>
  BY DEF Clone, KeepInv, CInv, Records
<1>2. /\ DOMAIN answer \subseteq Solved /\ DOMAIN mem = Fields /\ Listed(mem)
  BY Here DEF KeepInv, ListsListed
<1> HIDE DEF answer
<1>3. /\ \A f \in DOMAIN answer : next[f] = answer[f]
      /\ \A f \in DOMAIN mem \ DOMAIN answer : next[f] = mem[f]
  BY OverValue, Zenon
<1>4. Listed(next)
  BY <1>2, ListedOver, ListedOthers
<1> HIDE DEF next
<1>5. /\ refresh'.at = "swapping" /\ refresh'.answer = answer /\ refresh'.next = next
      /\ Refreshing' /\ Working' = Working
  BY <1>1 DEF Refreshing, Working
<1>6. ListsListed'
  BY <1>1, <1>4, <1>5 DEF KeepInv, ListsListed
<1>7. OverlapsContested'
  <2>1. /\ Working # {} => Solved \subseteq contested'
        /\ \A q \in Working : DOMAIN Settings(editors[q].req) \subseteq contested'
    BY <1>1, Contests
  <2> QED
    BY <1>1, <1>5, <2>1 DEF OverlapsContested
<1>8. contested \subseteq contested'
  BY <1>1
<1>9. EditorsAgree'
  BY <1>1, <1>5, <1>8 DEF KeepInv, EditorsAgree
<1>10. RefreshAgrees'
  BY <1>1, <1>2, <1>3, <1>5 DEF RefreshAgrees
<1>11. Agree'
  <2>1. \A f : Pending(f) => Pending(f)'
    BY <1>1 DEF Pending
  <2> QED
    BY <1>1, <1>8, <2>1 DEF KeepInv, Agree
<1> QED
  BY <1>6, <1>7, <1>9, <1>10, <1>11 DEF KeepInv

\* The clone is swapped in: while admin requests are open, the three it changes
\* are contested.
LEMMA SwapKeeps ==
    ASSUME KeepInv, CInv', Swap
    PROVE  KeepInv'
<1> DEFINE answer == refresh.answer
           next == refresh.next
<1>1. /\ refresh.at = "swapping" /\ mem' = next
      /\ refresh' = [at |-> "saving", answer |-> answer, next |-> NoBody]
      /\ UNCHANGED <<db, editors, contested>>
  BY DEF Swap, KeepInv, CInv, Records
<1>2. DOMAIN answer \subseteq Solved /\ Listed(next) /\ Listed(NoBody)
  BY Here, ListedOver DEF KeepInv, ListsListed
<1>3. \A f \in Fields \ contested :
          next[f] = IF f \in DOMAIN answer THEN answer[f] ELSE mem[f]
  BY <1>1 DEF KeepInv, RefreshAgrees
<1>4. Working # {} => Solved \subseteq contested
  BY <1>1 DEF KeepInv, OverlapsContested, Refreshing
<1> HIDE DEF answer, next
<1>5. /\ refresh'.at = "saving" /\ refresh'.answer = answer /\ refresh'.next = NoBody
      /\ Refreshing /\ Refreshing' /\ Working' = Working
  BY <1>1 DEF Refreshing, Working
<1>6. ListsListed'
  BY <1>1, <1>2, <1>5 DEF KeepInv, ListsListed
<1>7. OverlapsContested'
  BY <1>1, <1>5 DEF KeepInv, OverlapsContested
<1>8. EditorsAgree'
  <2>1. Working # {} => \A f \in Fields \ contested : mem'[f] = mem[f]
    BY <1>1, <1>2, <1>3, <1>4
  <2> QED
    BY <1>1, <1>5, <2>1 DEF KeepInv, EditorsAgree
<1>9. RefreshAgrees'
  BY <1>1, <1>3, <1>5 DEF RefreshAgrees
<1>10. Agree'
  <2>1. ASSUME NEW f \in Fields \ contested
        PROVE  Kept(f, mem'[f], db') \/ Pending(f)'
    <3>1. CASE f \in DOMAIN answer
      BY <1>5, <3>1 DEF Pending
    <3>2. CASE f \notin DOMAIN answer
      <4>1. mem'[f] = mem[f]
        BY <1>1, <1>3, <2>1, <3>2
      <4>2. Pending(f) => Pending(f)'
        BY <1>1 DEF Pending
      <4> QED
        BY <1>1, <2>1, <4>1, <4>2 DEF KeepInv, Agree
    <3> QED
      BY <3>1, <3>2
  <2> QED
    BY <1>1, <2>1 DEF Agree
<1> QED
  BY <1>6, <1>7, <1>8, <1>9, <1>10 DEF KeepInv

\* The refresh saves what memory has of it.
LEMMA SaveRefreshKeeps ==
    ASSUME KeepInv, CInv', SaveRefresh
    PROVE  KeepInv'
<1> DEFINE answer == refresh.answer
           texts == RefreshTexts(answer)
<1>1. /\ refresh.at = "saving" /\ db' = Over(texts, db)
      /\ refresh' = [at |-> "waiting", answer |-> NoBody, next |-> NoBody]
      /\ UNCHANGED <<mem, editors, contested>>
  BY DEF SaveRefresh, Asleep
<1>2. /\ DOMAIN texts = DOMAIN answer
      /\ \A f \in DOMAIN answer : texts[f] = Text(answer[f])
  BY DEF RefreshTexts
<1>3. /\ refresh'.at = "waiting" /\ refresh'.next = NoBody
      /\ Refreshing /\ ~Refreshing' /\ Working' = Working
  BY <1>1 DEF Refreshing, Working
<1>4. DOMAIN answer \subseteq Solved
  BY Here DEF KeepInv
<1>5. \A f \in DOMAIN answer \ contested : mem[f] = answer[f]
  BY <1>1, <1>4, FieldSets DEF KeepInv, RefreshAgrees
<1> HIDE DEF texts
<1>6. \A f, v : f \notin DOMAIN answer => (Kept(f, v, db') <=> Kept(f, v, db))
  BY <1>1, <1>2, KeptOver
<1>7. \A f \in DOMAIN answer \ contested : Kept(f, mem[f], db')
  <2>1. ASSUME NEW f \in DOMAIN answer \ contested PROVE Kept(f, mem[f], db')
    <3>1. Scalar(texts[f]) = mem[f] /\ f \notin ListFields
      BY <1>2, <1>4, <1>5, ReadBack, MoreFieldSets
    <3>2. Stands(f, mem[f], texts[f]) /\ f \in DOMAIN texts
      BY <1>2, <3>1 DEF Stands, Decode
    <3> QED
      BY <1>1, <3>2, KeptOver
  <2> QED
    BY <2>1
<1>8. ListsListed'
  <2>1. Texted(texts)
    BY <1>2, <1>4, MoreFieldSets, FieldSets DEF Texted
  <2>2. Texted(db') /\ Listed(NoBody)
    BY <1>1, <2>1, ListedOver DEF KeepInv, ListsListed
  <2> QED
    BY <1>1, <1>3, <2>2 DEF KeepInv, ListsListed
<1>9. OverlapsContested'
  BY <1>1, <1>3 DEF KeepInv, OverlapsContested
<1>10. EditorsAgree'
  <2>1. Working # {} => Solved \subseteq contested
    BY <1>3 DEF KeepInv, OverlapsContested
  <2>2. Working # {} => \A f \in Fields \ contested : f \notin DOMAIN answer
    BY <1>4, <2>1
  <2> QED
    BY <1>1, <1>3, <1>6, <2>2 DEF KeepInv, EditorsAgree
<1>11. RefreshAgrees'
  BY <1>3 DEF RefreshAgrees
<1>12. Agree'
  <2>1. ASSUME NEW f \in Fields \ contested
        PROVE  Kept(f, mem[f], db') \/ Pending(f)'
    <3>1. CASE f \in DOMAIN answer
      BY <1>7, <3>1
    <3>2. CASE f \notin DOMAIN answer
      <4>1. Pending(f) => Pending(f)'
        BY <1>1, <3>2 DEF Pending
      <4> QED
        BY <1>6, <2>1, <3>2, <4>1 DEF KeepInv, Agree
    <3> QED
      BY <3>1, <3>2
  <2> QED
    BY <1>1, <2>1 DEF Agree
<1> QED
  BY <1>8, <1>9, <1>10, <1>11, <1>12 DEF KeepInv

\* When it cannot save, what it has changed in memory only is contested.
LEMMA SaveRefreshFailsKeeps ==
    ASSUME KeepInv, CInv', SaveRefreshFails
    PROVE  KeepInv'
<1>1. /\ refresh' = [at |-> "waiting", answer |-> NoBody, next |-> NoBody]
      /\ contested' = contested \cup Solved
      /\ UNCHANGED <<mem, db, editors>>
  BY DEF SaveRefreshFails, Asleep
<1>2. /\ refresh'.at = "waiting" /\ refresh'.next = NoBody
      /\ ~Refreshing' /\ Working' = Working
  BY <1>1 DEF Refreshing, Working
<1>3. contested \subseteq contested' /\ DOMAIN refresh.answer \subseteq contested'
  BY <1>1, Here DEF KeepInv
<1>4. ListsListed'
  BY <1>1, <1>2, ListedOver DEF KeepInv, ListsListed
<1>5. OverlapsContested'
  <2>1. \A p, q \in Working :
            p # q => DOMAIN Settings(editors[p].req) \subseteq contested
    BY DEF KeepInv, OverlapsContested
  <2> QED
    BY <1>1, <1>2, <1>3, <2>1 DEF OverlapsContested
<1>6. EditorsAgree'
  BY <1>1, <1>2, <1>3 DEF KeepInv, EditorsAgree
<1>7. RefreshAgrees'
  BY <1>2 DEF RefreshAgrees
<1>8. Agree'
  <2>1. \A f \in Fields \ contested' : Pending(f) => Pending(f)'
    BY <1>1, <1>3 DEF Pending
  <2> QED
    BY <1>1, <1>3, <2>1 DEF KeepInv, Agree
<1> QED
  BY <1>4, <1>5, <1>6, <1>7, <1>8 DEF KeepInv

\* A restart loads what the table keeps.
LEMMA RestartKeeps ==
    ASSUME KeepInv, CInv', Restart
    PROVE  KeepInv'
<1>1. /\ mem' = Loaded(db) /\ db' = db
      /\ editors' = [p \in Editors |-> Idle]
      /\ refresh' = [at |-> "starting", answer |-> NoBody, next |-> NoBody]
      /\ contested' = IF Dormant THEN {"user_agent"} ELSE {}
  BY DEF Restart, Asleep
<1>2. /\ \A p \in Editors : editors'[p] = Idle
      /\ refresh'.at = "starting" /\ refresh'.next = NoBody
      /\ Idle.at = "idle" /\ Idle.form = NoBody /\ Idle.req = NoBody
      /\ Idle.snap = NoBody
  BY <1>1 DEF Idle
<1>3. Working' = {} /\ ~Refreshing'
  BY <1>2 DEF Working, Refreshing
<1>4. Texted(db) /\ Listed(Loaded(db)) /\ Listed(NoBody)
  BY ListedLoaded, ListedOver DEF KeepInv, ListsListed
<1>5. ListsListed'
  BY <1>1, <1>2, <1>3, <1>4 DEF ListsListed
<1>6. OverlapsContested' /\ EditorsAgree' /\ RefreshAgrees'
  BY <1>2, <1>3 DEF OverlapsContested, EditorsAgree, RefreshAgrees
<1>7. Agree'
  <2>1. \A f \in Fields \ contested' : Kept(f, Loaded(db)[f], db)
    BY <1>1, <1>4, KeptLoaded
  <2> QED
    BY <1>1, <2>1 DEF Agree
<1> QED
  BY <1>5, <1>6, <1>7 DEF KeepInv

\* Every step keeps the invariant.
LEMMA KeepNext == KeepInv /\ [Next]_vars => KeepInv'
<1> SUFFICES ASSUME KeepInv, [Next]_vars PROVE KeepInv'
  OBVIOUS
<1>0. CInv'
  BY NextInv DEF KeepInv
<1>1. ASSUME NEW p \in Editors, OpenForm(p) PROVE KeepInv'
  <2> DEFINE form == Only(Response(mem), FormFields)
             r == [at |-> "form", form |-> form, req |-> NoBody, snap |-> NoBody]
  <2>1. /\ editors' = [editors EXCEPT ![p] = r] /\ editors[p].at # "saved"
        /\ UNCHANGED <<mem, db, refresh, contested>>
    BY <1>1 DEF OpenForm
  <2>2. Listed(form) /\ Listed(NoBody)
    BY Here, ListedForm, ListedOver DEF KeepInv, ListsListed
  <2> HIDE DEF form
  <2>3. r.at = "form" /\ Listed(r.form) /\ Listed(r.req) /\ Listed(r.snap)
    BY <2>2
  <2> HIDE DEF r
  <2>4. r.at \notin {"read", "saved"}
    BY <2>3
  <2> QED
    BY <1>0, <2>1, <2>3, <2>4, EditorRests
<1>2. ASSUME NEW p \in Editors, SaveFails(p) PROVE KeepInv'
  <2>1. /\ editors' = [editors EXCEPT ![p] = Idle] /\ editors[p].at # "saved"
        /\ UNCHANGED <<mem, db, refresh, contested>>
    BY <1>2 DEF SaveFails
  <2>2. /\ Idle.at \notin {"read", "saved"}
        /\ Listed(Idle.form) /\ Listed(Idle.req) /\ Listed(Idle.snap)
    BY ListedOver DEF Idle
  <2> QED
    BY <1>0, <2>1, <2>2, EditorRests
<1>3. ASSUME NEW p \in Editors, NEW e \in Edits, Put(p, e) PROVE KeepInv'
  BY <1>0, <1>3, PutKeeps
<1>4. ASSUME NEW p \in Editors, Save(p) PROVE KeepInv'
  BY <1>0, <1>4, SaveKeeps
<1>5. ASSUME NEW p \in Editors, Store(p) PROVE KeepInv'
  BY <1>0, <1>5, StoreKeeps
<1>6. CASE Challenge \/ CooldownEnds \/ UNCHANGED vars
  <2>1. UNCHANGED <<mem, db, editors, contested, refresh>>
    BY <1>6 DEF Challenge, CooldownEnds, vars
  <2> QED
    BY <1>0, <2>1, RefreshRests
<1>7. CASE TimerFires \/ TakeTrigger \/ SolveFails
  <2>1. /\ UNCHANGED <<mem, db, editors, contested>>
        /\ refresh.at \in {"starting", "waiting", "solving"}
        /\ \E at \in {"solving", "waiting"} :
              refresh' = [at |-> at, answer |-> NoBody, next |-> NoBody]
    BY <1>7 DEF TimerFires, TakeTrigger, SolveFails, SolveOrSleep, Asleep
  <2>2. ~Refreshing /\ ~Refreshing' /\ refresh'.next = NoBody
    BY <2>1 DEF Refreshing
  <2> QED
    BY <1>0, <2>1, <2>2, ListedOver, RefreshRests
<1>8. ASSUME NEW s \in Solutions, Solve(s) PROVE KeepInv'
  <2>1. refresh' = [at |-> "solved", answer |-> AnswerOf(s), next |-> refresh.next]
    BY <1>8 DEF Solve, KeepInv, CInv, Records, AnswerOf
  <2>2. UNCHANGED <<mem, db, editors, contested>> /\ refresh.at = "solving"
    BY <1>8 DEF Solve
  <2>3. ~Refreshing /\ ~Refreshing' /\ refresh'.next = refresh.next
    BY <2>1, <2>2 DEF Refreshing
  <2>4. Listed(refresh'.next)
    BY <2>3 DEF KeepInv, ListsListed
  <2> QED
    BY <1>0, <2>2, <2>3, <2>4, RefreshRests
<1>9. CASE Clone
  BY <1>0, <1>9, CloneKeeps
<1>10. CASE Swap
  BY <1>0, <1>10, SwapKeeps
<1>11. CASE SaveRefresh
  BY <1>0, <1>11, SaveRefreshKeeps
<1>12. CASE SaveRefreshFails
  BY <1>0, <1>12, SaveRefreshFailsKeeps
<1>13. CASE Restart
  BY <1>0, <1>13, RestartKeeps
<1> QED
  BY <1>1, <1>2, <1>3, <1>4, <1>5, <1>6, <1>7, <1>8, <1>9, <1>10, <1>11,
     <1>12, <1>13 DEF Next

\* Memory and table, the snapshots of the admin requests and the clone of the
\* refresh agree on every setting that no two writers contest, however many
\* writers there are and in whichever order they read, save and store.
THEOREM CopiesAgree == Spec => []KeepInv
BY KeepInit, KeepNext, PTL DEF Spec

\* A restart at a settled moment brings every setting back as it was in memory,
\* except those the code cannot keep and those that overlapping writers had
\* changed.
THEOREM SettingsKept == Spec => []RestartKeepsSettings
BY KeepsSettings, CopiesAgree, PTL
=============================================================================
