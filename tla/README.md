# Formal models of grokpi

TLA+ specifications of the stateful parts of grokpi, an OpenAI-compatible
gateway in front of Grok: what a token goes through between a request, the
background loops and an operator; how memory and database are kept alike; how a
video job and its cancellation meet; how a chat request is retried, streamed and
ended, and what text it answers; how usage records reach the database; how an API
key is limited; how the configuration is edited, refreshed and reloaded; what the
process saves before it exits. TLC
checks the modules on small instances and TLAPS proves the main theorems for
every value of the constants. Line numbers refer to the sources beside this
directory; PROJECT.json maps every definition to the lines it translates.

## 1. The system

One Go process serves the API and the admin interface, keeps all tokens in
memory, and writes to SQLite (one connection) or PostgreSQL through GORM.

| component | state | operations | talks to |
|---|---|---|---|
| token rows (`internal/token` manager, quota, category, diagnostics) | status, quotas per category, CoolUntil, ExpiresAt, FailCount, quota mode | Mark*, Consume, SyncQuota, ValidateToken, RestoreToken, TokenRejectionReason | everything below |
| token manager | map of rows, dirty set, one RWMutex | AddToken, RemoveToken, Pick, GetDirtyTokens, ClearDirty | requests, loops, persister |
| cooldown ticker | none | CheckNow every interval | manager |
| quota recovery scheduler | semaphore, stop channel | refreshExpiredCooling in auto or upstream mode | manager, upstream |
| health checker | none | checkNow, checkOne | manager, upstream |
| request flows (chat, image, image edit, video) | the token a request holds, its attempts | pick, call upstream, report, consume | manager, usage buffer |
| pool selection | round-robin index | tiers of priority, three algorithms, two pools per model | manager |
| persistence (`persist.go`, `token_store.go`, admin handlers) | the tokens table; the row a handler has read | flush, edit, replace, reset, batch import/update/delete, SyncToken | manager, database |
| async video jobs | job rows, map of cancel functions | create, run, retry, cancel, poll | video flow, database |
| usage buffer | bounded slice, batch being inserted | Record, flush, Stop | database |
| API key middleware and rate limits | two atomics per key, a map of them, daily counters in the database | authenticate, count, clean up, PATCH, regenerate, delete, daily reset | database |
| CF clearance refresh | trigger channel, last refresh | TriggerRefresh, run, refreshOnce | runtime config, config table, FlareSolverr |
| runtime configuration | an atomic pointer, the config table, the file and the environment | load, Get, Update, Store, PUT from the settings form | admin handlers, CF refresh |
| start and shutdown (`main.go`) | contexts, the order of the stops | start loops, drain, stop them in order, flush | all loops |
| stream filters and writers (`tag_filter.go`, `tool_usage_card.go`, `toolcall_stream.go`, `chat_think.go`, the adapter and the collector) | what each parser holds back | push a chunk, flush at the end | chat flow, response handlers |
| upstream client, request validation, file cache, TTS, logging, web UI, scripts | protocol and text | | |

What is hard here, and what would be correct:

* Requests hold a token id across an upstream call of seconds to minutes. Quota
  is checked before and taken after; a status may have been changed by another
  request, the ticker, a check or an operator meanwhile. Overrun must stay
  bounded, a quarantined token must not become active by a late answer, a token
  without quota must not be left active.
* Checks hold a *pointer* to a row across the fetch, and the row may have been
  removed or replaced by a reload.
* Every change must be marked for the flush, and a flush is three steps: copy,
  transaction, clear.
* Admin handlers read a row, edit it, save it whole and have the manager read it
  again, with flushes and other operators in between; memory may know more
  than the database.
* A job's runner and a cancel request each read a row and save it whole, and the
  context that the cancel ends is the one the runner saves with.
* A chat request retries over tokens while it streams: two bounded channels, three
  goroutines, a context that ends anywhere. The client must be told exactly once
  how it ended, and a truncated answer must not pass for a whole one.
* The usage buffer drops, requeues and stops while requests go on recording.
* A process may die anywhere: memory is rebuilt from the database, jobs are not
  picked up.
* A new minute window is opened by a compare-and-swap, a store and an add;
  requests may come between any two of them, hold an entry the clean-up has
  removed, and be under way while the row of their key is edited whole.
* The settings form sends back what it was shown, masked secrets included; the
  refresh of the clearance clones and swaps under a lock the form's swap does not
  take; both write the table as well, in another order, and a restart merges
  file, table and environment.
* A tag may be cut anywhere between two chunks, three parsers in a row hold text
  back, and two different writers must make the same answer of it.
* When the process ends, main waits for some goroutines and not for others, while
  all of them still change tokens and record usage.

The hazards, each at its line and with the properties aimed at it, are in
PROJECT.json.

## 2. Modules

| module | models | built on |
|---|---|---|
| `TokenState` | one row: every update as an operator, eligibility, quota arithmetic | |
| `TokenManager` | the manager and its drivers; one action per critical section of `TokenManager.mu` | `TokenState` |
| `TokenPersistence` | memory, database and admin requests; flush, reload, restart | |
| `VideoJob` | job rows, runners, contexts, cancel requests, crashes | |
| `UsageLedger` | abstract: what happens to a usage record | |
| `UsageBuffer` | the buffer and its loop; refines `UsageLedger` | `UsageLedger` |
| `ChatRequest` | one chat completion: retry loop, upstream goroutines, channels, response handler | |
| `StreamText` | the text of an answer: filters, tool-call parser, streaming and blocking writer | |
| `ApiKeys` | one API key: its row and its edits, the minute window, the daily limit | |
| `RuntimeConfig` | the live configuration, its table, the settings form, the clearance refresh, restarts | |
| `Lifecycle` | the end of the process: main and everything it does or does not wait for | |
| `*Proofs` | theorems about the module named | TLAPS |
| `MC*` | values of constants for TLC | the module named |

**TokenState / TokenManager.** A row has a status, CoolUntil as
none/running/over, ExpiresAt as a flag (the code only ever stores nil or the
present moment), quotas, FailCount, quota mode and the video flag. `req[r]` is a
request goroutine: `using` a token while it is upstream, `marked` or `consumed`
between the two halves of a success (chat marks first, media consume first),
`refused` when an image edit found no quota and is about to report that as an
error. `check[k]` is an upstream check between its two critical sections;
`attached` says that the pointer it holds is still the manager's row, so a write
through a stale pointer changes nothing but still marks the id dirty, as the code
does. `scan` and `sweep` are the snapshots of scheduler and health checker.
`unpaid` and `held` are history: successes for which Consume found no quota, and
ids quarantined since an operator last loaded them. SyncQuota's test of the
status before the fetch is made without the lock in the code; in the model it is
one step with the start of the check, and every interleaving it could add is one
of a status changed during the fetch. A reload of an id is not interleaved with a
second reload of the same id.

**TokenPersistence.** A row is reduced to `life`, the columns a flush writes, and
`profile`, those only admins write. `flush` carries the copies, `op[o]` the row an
admin request holds and how far it is. Save is GORM's Save: every column, and an
upsert of a row that was soft-deleted meanwhile. `acked` (the profile last saved),
`newest` (the life last given to an id, by a change, an edit or an import) and
`excused` are history. An id is excused when two of these meet on it: a change not
yet flushed, a flush, an admin request, another one, the end of the process; and
when the reload after an edit fails. A later change that meets none of them ends the
excuse. Imports are served while no other request is at work on the same id.

**VideoJob.** The runner's program counter follows runVideoGenerationJob. A save
with an ended context does not happen: GORM wraps it in a transaction that
checks the context when it begins and when it commits, and the runner's save is
therefore one step. `Failures` turns on crashes, database errors and clients that
hang up; `hurt` is history, the jobs such a failure hit.

**UsageBuffer.** Records are numbered in the order they were made. The insert is
one transaction (CreateInBatches), between `Flush` and `InsertOK`/`InsertFails`.
The loop's `gaveup` is `ended` after a last insert that failed: what it put back
is lost with the process.

**ChatRequest.** `flow.pc` is the place in executeWithRetry and streamEvents;
`up[a]` the goroutine of attempt `a` and `events[a]` its channel; `out` is outCh.
A channel is a bounded sequence, closed when its sender has ended; a blocked send
is an action that is not enabled. What an error is to the flow is one of nine
kinds, which separate all the tests of retry.go with its default status codes.
`HandleError` has what TokenManager's updates do to the one thing that matters
here, whether the token can be picked; `OthersChange` is everybody else.
A chat client is built with MaxRetry 0 (main.go:170, 464), so streamChat makes one
request. The production client itself returns only errors of its own (`other`)
from Chat; the other kinds in `AtOnce` come from the clients the tests inject
through the factory, and are there for the branch the code has for them. That a
session reset fails is only logged and left out. Filters and tool parsing are a
choice between a line that leaves something to send and one that does not.
`refused`, `stale`, `cut` and `billed` are history.

**StreamText.** A text is a sequence of symbols, small enough that a tag can be cut
at every place the parsers treat differently: `<`, `/`, `>`, the tag's name and the
end of a line. A card becomes the text between its tags, without white space around
it, on a line of its own, as for a card without a name and arguments; the label of a
tool known by name, its JSON and the rollout are left out. Whether the line begins
with a newline depends, as in emitCardLine, on what the same chunk has put out before
it (`Break`, `Settled`). `filter` and `tools` are the parsers of the flow, each a
state and the text it holds back; `adapter` and `collector` receive the same events,
side by side, with a tool-call parser of their own. `Deliver` is one chunk of the
upstream, of any length; `Flush` the closed channel; `Finish` the end of the two
responses. The reference the chunks are compared with (`Whole`) is the same flow fed
one symbol at a time. Four things the code does are named by history variables or in
the properties and excepted: a chunk that opens a tool card and ends inside its end
tag swallows the rest of the answer (`torn`); a card that closes behind other text of
its chunk starts a new line, which it does not where the upstream cuts in between
(`parted`); the streaming response never flushes the adapter's tool-call parser, the
blocking one does, so text behind an unclosed `<tool_call>` is only in the latter;
thinking and content go through the same filter, so what it holds back, a card's text
included, may change the channel (`mixed`).

**ApiKeys.** `requests[r].at` is the place in APIKeyAuth: the lookup, the clock, the
entry, the load of windowStart, the compare-and-swap, `count.Store(0)`,
`count.Add(1)` are steps of their own, and so are the clean-up's comparison and its
deletion (`stale`). `entries` has also those the clean-up dropped from the map while
a request held them. The row is read and saved whole by PATCH, while regenerate,
delete, the daily count and the daily reset are single statements; a Save revives a
soft-deleted row, and zero limits become GORM's defaults. `window`, `doneToday` and
`clobbered` are history.

**RuntimeConfig.** A field stands for all settings that take the same way from the
form to memory, to the table and back; what differs is kept apart: masked secrets,
lists joined with commas, browser and user agent, what the environment overrides,
what the form sends. `Put` decodes the body into a snapshot, `Save` writes the table,
`Store` swaps; `Clone`, `Swap` and `SaveRefresh` are the refresh, in the other order.
A solve may give no clearance: the cookie's value may be empty. `Restart` may come at
any moment. `contested` names what two overlapping writers, or a save that failed,
left different in memory and table, and `edited` that an admin set browser, user
agent or clearance.

**Lifecycle.** `main` is the place in run's shutdown; sweep, usage loop and persister
have a phase each, and handlers, jobs, workers and checks a state. How these work
while the process is up is in the other modules; here each is reduced to what it
leaves in memory: a change of the token, with a usage record (`done`) or without
(`failed`), or the record of a failed attempt alone (`noted`). The buffer's limit of
10000 is in UsageBuffer only, and so is what it drops. Shutdown may return with
handlers still at work (its 30 seconds), a sweep with its workers (`abandoned`), and
the usage loop and the persister take a tick or the stop in any order. The clearance
refresh and the daily reset keep nothing in memory and are left out. `overdue`,
`abandoned`, `raced` and `failed` are history.

## 3. Runs

| run | asks | result |
|---|---|---|
| `chat_lifecycle` | chat requests, loops, checks, operator on one token | holds |
| `cooling_recovers` | every kind of request and row; does a cooling token recover (fair) | holds |
| `quarantine_auto_clear` | MILESTONE_VPS_TOKEN_POLICY_STABILIZATION_PASS.md:24 | violated |
| `persistence` | edits, deletes, flush, restart | holds |
| `video_job` | cancels against runner, crashes, failures; does a job end (fair) | holds |
| `usage_buffer` | bound, one place, Stop, refinement | holds |
| `chat_request` | one ending, whole answers, cooled tokens; is the client answered (fair) | holds |
| `cf_challenge` | retry.go:132 | violated |
| `stream_text` | chunks, the two responses, thinking | holds |
| `api_keys` | minute window, daily limit, revocation | holds |
| `runtime_config` | restarts, clearance and user agent, masked secrets | holds |
| `lifecycle` | usage and token changes saved at the exit | holds |

The violated properties are sentences of the repository's documents and
comments; PROJECT.json, "findings", quotes each and says what the run shows.

Four more sentences do not hold of the code. The models contain what breaks each of
them, and the properties that pass say exactly when:

* quota.go:178, "Prevent zombie: active token with no quota must enter cooling":
  video and image requests consume first and report success afterwards, so
  MarkSuccess reactivates a token whose last quota has just been consumed.
  `NoZombie` and `ChatLeavesNoZombie` are about chat requests.
* manager.go:22, dirty holds the "tokens that need persistence": FlushDirty clears
  the marks of all rows it copied, also of a row changed since; and an admin
  handler saves and reloads the row it read, so that an edit of the remark is enough
  to put a fresh quarantine back, in the database and in memory, and to clear its
  mark. `OnlyOverlapsLoseChanges` excuses these overlaps and no others.
* docs/PRD_GROKPI.md:88, "client polling status sampai `completed` atau gagal"
  (the client polls until completed or failed): the runner saves its cancelled
  status with the context the cancel has ended, and the cancel's own save fails
  when its client hangs up, so the job stays unfinished. `UnhurtJobsEnd` leaves
  these jobs out (`hurt`).
* retry.go:87, "IsNonRecoverable returns true if the error should NOT be retried":
  the branch of a failed stream never asks it, and the production client delivers
  every refusal through the stream, so a refused prompt goes on to the next token.

**Bounds.** One token suffices for the lifecycle: tokens share nothing but the
dirty set, the scheduler's slots and the sweeps, and the interesting meetings
are of two actors on one row. Two requests are enough for one to answer late;
one worker and one probe give two concurrent checks. Quotas of one make every
success exhaust the token, so that each boundary is met; `FailThreshold` is 1
where disabling matters and 0 where it would hide the run's question.
`FailBound` caps FailCount, `MaxAttempts` a request's tries. `cooling_recovers`
has one request, of any category, and a worker that idles in auto mode, so that
liveness over half a million states stays cheap; that debts stay bounded, for
media requests too, is proved. Persistence uses one token, two values of each
column and one operator: two of them can overwrite each other's rows, so the
properties about edits and deletes need one; they are proved for one operator
and any tokens and columns. What holds for several operators,
OnlyOverlapsLoseChanges, is proved for any number of them. The video run uses two
cancel requests, as a third could only repeat one of them. The buffer's limit is
3 with 9 records, so that it overflows by recording and by requeueing, more than
once, in both orders.

CHECK_DEADLOCK is off for the video, usage, chat request, text and lifecycle runs:
jobs, records, attempts and answers are finitely many, the buffer's loop ends at
Stop, and the process exits.

`chat_request` has one token in each pool and three attempts, so that a token is
tried again, let go, and found in the other pool, and runs out; channels of one
place and answers of one line, so that every send can block and every answer can
end before, at and after its line. Longer channels only let senders run ahead:
the proofs hold for any capacity. Cooling and a challenge are the answers that
differ most (swap or stay); that the properties hold for all is proved.
`cf_challenge` needs no more than one kind of error.

`stream_text` takes every answer of three pieces out of ten (tags whole and broken, a
payload), four around a tool call, a card between two others, and thinking before and
after content, each cut in every way, with tool calls and the display of thinking on
and off. `api_keys` has two requests, three entries (one mapped, two that the
requests may hold), a window of one unit and a clock that reaches the next, limits of
one and none, two admin requests (`MaxEdits`; a PATCH lifts the limit and lets the
key expire) and two key values, so that a window opens while another request stands
between its steps and the clean-up between its two, and a PATCH meets a regeneration
or a deletion; the theorems hold for any number of requests and operators. `MaxAdds`
keeps at most two requests from counting in a window before it lets no new one in.
`runtime_config` has two forms with two PUTs in all (one body sends nothing but a
masked clearance), one solve with one of three answers (one without a clearance), one
failed save and one restart: each pair of writers meets, at every step of both, and a
restart finds what they left. `lifecycle` has one request, one job, two workers on
one slot, one check and two tokens, so that a sweep waits for a slot when it is
stopped and a token is changed by several.

**Fairness.** `TokenManager!Fairness` is weak fairness of time, of the ticker
(time.Ticker in a goroutine that runs until shutdown), of the scheduler's loop
and of every check (the HTTP client has a timeout); requests and operators need
not act. `VideoJob!FairSpec` is weak fairness of each runner (GenerateSync has a
timeout) and of each cancel request already begun; nobody has to ask for a
cancel. Weak fairness is enough, as none of these steps is switched off again
for ever by others while it waits.

`ChatRequest!Fairness` is weak fairness of the flow, of each upstream goroutine and
of the handler: a goroutine that is not blocked runs, `proxy.timeout` (default 300
seconds) ends every answer, and the server's WriteTimeout every blocked write.
Nobody has to disconnect and the budget need not pass.

## 4. Proofs

All proofs hold for every value of the constants that satisfies the named
assumptions (`CategoryAssumption`, `ManagerAssumption`, the two `ConfigAssumption`s of
TokenState and RuntimeConfig, `SecretsAssumption`, `PersistenceAssumption`,
`FailuresAssumption`, `BufferAssumption`, `ChatAssumption`,
`ApiKeyAssumption`, `PatchAssumption`, `LifecycleAssumption`, `TextAssumption`).

* `TokenManagerProofs`. `TypeCorrect`. `QuarantineHolds` and
  `ChangesReachTheFlush` are action properties that follow from the types, one
  case per action. `OverrunIsBounded` needs an invariant: an id with quota left
  has no debt, and debt plus the requests that still hold the id in that
  category never exceeds the number of requests (`OverrunInv`); the counting is
  by the finite-set theorems. `ChatLeavesNoZombie` is stated for chat requests
  only, since media requests violate it (section 3).
* `TokenPersistenceProofs`. `OnlyOverlaps`: OnlyOverlapsLoseChanges is not
  inductive, because it says nothing of a copy under way or of a row a handler is about
  to save or load. `OverlapInv` has, for every id not excused (`Accounted`): a
  pending change and an admin request, or two requests, are not about it at once
  (`OneAtATime`); memory has the newest life, unless an edit of it or an import is on
  its way there (`MemoryKnows`, `Settling`); the database has it when no change is
  pending (`TableKnows`); so has a copy under way (`CopyKnows`), and the row in a
  handler's hand where that is not the edit (`HandKnows`). `EditsSurvive` and
  `DeletedStaysDeleted` assume that admin requests come one by one (`OneByOne`): then
  a row that a request has read is still there, with the profile saved last, when it
  is written (`HeldInv`).
* `BackgroundProofs`, about two modules of what runs behind the requests.
  VideoJob: `CancelsStick` rests on the context having ended, or the
  runner having left, wherever a cancel was acknowledged; `LateCancelsOnly` on a
  terminal row's runner having left.
  UsageBuffer: `BufferInv` says that buffer and batch are the newest
  records in order and that stored and dropped make up the rest; from it follow
  the bound, the single place, StopFlushes, and the refinement of `UsageLedger` (`BufferKeepsLedger`).
* `ChatRequestProofs`. One invariant, `ChatInv`, for all four theorems. Attempts to
  come are untouched and a token is called only with retries left (`LoopInv`),
  which the types need. `AnswerInv` is the account of the current answer: lines
  received plus items in the channel are what the goroutine has sent, one more
  when it has sent its error, and the error is last; so an empty closed channel
  means a whole answer (`WholeAnswers`). `EndingInv` adds to OneEnding that a flow
  done without success has its error still in outCh while the handler reads.
  `TokenInv`: a refused token is neither selectable nor the flow's, from which
  CooledNotCalled follows (`CooledNeverCalled`).
* `ApiKeysProofs`. For the minute window, the counter of an entry is at least the
  number of requests admitted in the window, except for those admitted between a
  swap and the opener's own increment (`AdmittedInv`), and at most the number that
  came, except before a reset (`CountedInv`): `Burst` and `Refusal`. For the day,
  successes plus the requests past the check of the row stay below limit plus
  requests (`DailyInv`). `Revocation` needs that a PATCH never holds a deleted row
  (`ReadInv`). That there is always a free entry for a new one is a cardinality
  argument, from more entries than requests.
* `LifecycleProofs`. `UsageInv` follows a record from the buffer over the batch to
  the table, `ChangesInv` a change from its mark over the transaction to the row;
  `WorkersInv` and `OverdueInv` say who can still be at work at each place of main,
  and `LastInv` what the last flush has carried. Both theorems follow at the exit.
* `RuntimeConfigProofs`. `CInv` speaks of every copy of the configuration: the live
  one, the editors' and the refresh's, and what a restart would load. `SecretInv`:
  none of them holds the mask (`NoMask`). `CoherentInv`: while no admin has touched
  the three fields, each copy that has a solved clearance has its browser and user
  agent (`Clearance`), which needs that different solves give different clearances, if any
  (`SecretsAssumption`). The second part is about what a restart
  keeps (`SettingsKept`). `KeepInv`: what a restart would load agrees with the live
  configuration (`Agree`), and with an editor's snapshot or the refresh's clone as
  soon as one of the two stores has it (`EditorsAgree`, `RefreshAgrees`), but for
  the fields in `contested`; `OverlapsContested` says that a field two writers are
  about to set is in there already. That a list comes back from its joined text is
  proved by induction over its length (`ReadBack`).
* `StreamTextProofs`. `TextInv` gives every parser, at every step, the sets its text
  may come from: symbols of the answer, of the tags, and private ones only where
  thinking passes or `mixed` holds; the two writers' parsers are equal until one of
  them is flushed. `AgreeingWriters` and `ThinkingApart` follow. The loop of Consume
  and the folds are recursive functions, whose equations the module derives
  (`Recursion`), and the inductions are stated with sets of numbers instead of
  predicates (`Induction`), as no prover here instantiates the latter.
  `ChunksAgree` compares two runs of the parsers. `ChunkInv` says that, unless
  `torn` or `parted`, the flow's state is the one `BySymbols` has after as many symbols. A step
  of a parser is `Local` if, given more text behind its own, it does the same and
  leaves the longer rest, or keeps its end and goes on from there; that is so for
  the tag filter and the tool parser (`DropLocal`, `ToolLocal`), and a loop of local
  steps on `x \o y` ends as one on `x` and then one on `y` (`ConsumedSplit`). The
  card parser is not local: a card it opens goes into the buffer with the beginning
  of its end tag. Fed one symbol at a time it cannot open a card and see its end tag
  at once (`Steady`), so there its first symbol may come alone (`CardOnward`), and a
  line is its symbols one by one (`LineBySymbols`): what the line puts out settles to
  what its symbols do, if no card's line parts it (`Settled`). This needs that the name of the
  tag is not itself a `<` or a `/`, which `TextAssumption` states.

Only model-checked: liveness (CoolingEnds, UnhurtJobsEnd, RequestEnds), which
the provers here do not do. Every safety and action property the passing runs check
is a theorem. That each Stop returns is neither
stated nor checked: the loops choose at random between a tick and the stop, and that
one of the two is taken in the end takes strong fairness, over millions of states.

## 5. Not modelled

Upstream protocol and browser imitation (`internal/xai`, but for the chat
goroutine), request validation (`chat_validate.go`: a pure function of one request),
the JSON of a tool call and its repairs, SSE framing, the file cache, TTS,
statistics queries, the admin session, logging, the web interface, scripts and the
extension: text, I/O or read-only. The lockout of failed admin logins
(`rate_limit.go` 18-78) has the shape of the minute window, on a counter of
failures. The preflight reads the manager's rows once, and nothing relies on its
answer. Which of the eligible tokens of a pool is picked is nondeterministic:
priority tiers and the three algorithms decide about load, not about correctness.
The token manager and the token service are built with the configuration of the
start (main.go:113), so selection_algorithm, fail_threshold and the cooling times
a PUT changes take effect at the next restart only; RuntimeConfig is about the
configuration the others read. MarkDisabled, MarkInvalid, MarkQuotaExhausted
and generateBlockedRecovery have no caller outside tests. Token reasons, error
texts, refresh status and baselines are left out of rows.

## 6. Plan

Done: token rows and manager, persistence, video jobs, usage records, the chat
request and its text, API keys, configuration and shutdown. What is left, in the
order of its worth:

1. `PoolSelection`: the priority tiers and the three picking algorithms as
   operators checked against a reference definition (a pick is of the highest tier
   with an eligible token; round robin is fair among unchanging candidates), with
   the preflight that shares their predicate.
2. Liveness of the shutdown: that each Stop returns, under fairness of the loops
   and strong fairness of their selects.
3. The lockout of failed admin logins, whose counter is reset in the other order
   than the minute window's.
4. `chat_validate.go` as a predicate on requests, and the routing that relies on it.
