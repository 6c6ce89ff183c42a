----------------------------- MODULE Lifecycle -----------------------------
(***************************************************************************)
(* How the process ends (cmd/grokpi/main.go): main waits for a signal,     *)
(* drains the HTTP server, cancels the root context, and stops the parts   *)
(* in order, flushing what is only in memory: usage records and the dirty  *)
(* tokens.  Meanwhile handlers, video jobs, the workers of a recovery      *)
(* sweep and health checks go on; main waits for some of them only.        *)
(*                                                                         *)
(* The refresh of the clearance, which main stops first, is left out: it   *)
(* ends by its own timeouts and keeps nothing in memory.                   *)
(*                                                                         *)
(* What a token change or a usage record says, and how each part works     *)
(* while the process is up, is in TokenPersistence and UsageBuffer.        *)
(***************************************************************************)
EXTENDS Naturals, FiniteSets

CONSTANTS
    Handlers,  \* HTTP requests
    Jobs,      \* video generations, detached from the request that asked
    Workers,   \* restorations of one token by a recovery sweep
    Checks,    \* health checks of one token
    Tokens,
    TokenOf,   \* the token each of them uses
    Slots      \* maxConcurrentRefresh

Actors == Handlers \cup Jobs \cup Workers \cup Checks

ASSUME LifecycleAssumption ==
    /\ TokenOf \in [Actors -> Tokens]
    /\ Slots \in Nat \ {0}
    /\ Workers \cap (Handlers \cup Jobs \cup Checks) = {}

VARIABLES
    main,       \* where main is
    sweep,      \* token.Scheduler: phase, tokens to do, workers started
    usage,      \* UsageBuffer's loop: phase, the records it is writing
    persister,  \* the loop of Persister: "waiting", "flushing", "last", "returned"
    actor,      \* what each actor does
    buffer,     \* UsageBuffer.buf: whose records
    dirty,      \* the manager's dirty tokens
    flush,      \* a transaction in flight: tokens, and whose changes it carries
    recorded,   \* usage rows
    saved,      \* whose changes are in the token rows
    overdue,    \* history: the actors that were not done at the cancellation
    abandoned,  \* history: a sweep returned without its workers
    raced,      \* history: changes of a token while a transaction carried it
    failed      \* history: what could not be written at the end

vars == <<main, sweep, usage, persister, actor, buffer, dirty, flush,
          recorded, saved, overdue, abandoned, raced, failed>>

histories == <<overdue, abandoned, raced, failed>>

NoFlush == [tokens |-> {}, changes |-> {}]

Init ==
    /\ main = "serving"
    /\ sweep = [phase |-> "waiting", todo |-> {}, started |-> {}]
    /\ usage = [phase |-> "waiting", batch |-> {}]
    /\ persister = "waiting"
    /\ actor = [a \in Actors |-> "new"]
    /\ buffer = {} /\ dirty = {} /\ flush = NoFlush
    /\ recorded = {} /\ saved = {}
    /\ overdue = {} /\ abandoned = FALSE /\ raced = {} /\ failed = {}

Up        == main \notin {"exited", "killed"}
Cancelled == main \notin {"serving", "draining"}   \* rootCancel

Finished == {"answered", "failed", "done", "noted"}
Changed  == {a \in Actors : actor[a] \in {"changed", "failed", "done"}}

-----------------------------------------------------------------------------
(* The actors. *)

\* The listener takes connections until Shutdown closes it.
Accept(h) ==
    /\ main = "serving" /\ actor[h] = "new"
    /\ actor' = [actor EXCEPT ![h] = "running"]
    /\ UNCHANGED <<main, sweep, usage, persister, buffer, dirty, flush,
                   recorded, saved, histories>>

\* A request for a video: the job goes on in a goroutine of its own.
CreateJob(h, j) ==
    /\ Up /\ actor[h] = "running" /\ actor[j] = "new"
    /\ actor' = [actor EXCEPT ![h] = "answered", ![j] = "running"]
    /\ UNCHANGED <<main, sweep, usage, persister, buffer, dirty, flush,
                   recorded, saved, histories>>

\* The token is changed in memory and marked dirty.  After a success a request
\* has a usage record to add, and after most failures of the media flows.
ChangeToken(a) ==
    /\ Up /\ actor[a] = "running"
    /\ \E next \in IF a \in Handlers \cup Jobs THEN {"changed", "failed"}
                   ELSE {"done"} :
          actor' = [actor EXCEPT ![a] = next]
    /\ dirty' = dirty \cup {TokenOf[a]}
    /\ raced' = IF TokenOf[a] \in flush.tokens THEN raced \cup {a} ELSE raced
    /\ UNCHANGED <<main, sweep, usage, persister, buffer, flush, recorded,
                   saved, overdue, abandoned, failed>>

\* A failed attempt that leaves the token as it was may be recorded too.
FailUnchanged(a) ==
    /\ Up /\ actor[a] = "running" /\ a \in Handlers \cup Jobs
    /\ actor' = [actor EXCEPT ![a] = "unchanged"]
    /\ UNCHANGED <<main, sweep, usage, persister, buffer, dirty, flush,
                   recorded, saved, histories>>

RecordUsage(a) ==
    /\ Up /\ actor[a] \in {"changed", "unchanged"}
    /\ actor' = [actor EXCEPT ![a] = IF @ = "changed" THEN "done" ELSE "noted"]
    /\ buffer' = buffer \cup {a}
    /\ UNCHANGED <<main, sweep, usage, persister, dirty, flush, recorded,
                   saved, histories>>

\* HealthChecker: its loop may take a tick that comes with the cancellation.
StartCheck(c) ==
    /\ Up /\ actor[c] = "new"
    /\ actor' = [actor EXCEPT ![c] = "running"]
    /\ UNCHANGED <<main, sweep, usage, persister, buffer, dirty, flush,
                   recorded, saved, histories>>

\* Nothing to change: a request that got no token, or a check without an answer
\* from upstream, because its context was cancelled for instance.
GiveUp(a) ==
    /\ Up /\ actor[a] = "running"
    /\ actor' = [actor EXCEPT ![a] = "answered"]
    /\ UNCHANGED <<main, sweep, usage, persister, buffer, dirty, flush,
                   recorded, saved, histories>>

ActorStep ==
    \/ \E h \in Handlers : Accept(h)
    \/ \E h \in Handlers, j \in Jobs : CreateJob(h, j)
    \/ \E a \in Actors : \/ ChangeToken(a) \/ FailUnchanged(a)
                        \/ RecordUsage(a) \/ GiveUp(a)
    \/ \E c \in Checks : StartCheck(c)

-----------------------------------------------------------------------------
(* The recovery sweeps (internal/token/refresh.go). *)

others == <<main, usage, persister, buffer, dirty, flush, recorded, saved,
            overdue, raced, failed>>

SweepBegin ==
    /\ Up /\ sweep.phase = "waiting"
    /\ \E todo \in SUBSET {w \in Workers : actor[w] = "new"} :
          /\ todo # {}
          /\ sweep' = [phase |-> "starting", todo |-> todo, started |-> {}]
    /\ UNCHANGED <<others, actor, abandoned>>

SweepWorker(w) ==
    /\ Up /\ sweep.phase = "starting" /\ w \in sweep.todo
    /\ Cardinality({v \in Workers : actor[v] = "running"}) < Slots
    /\ actor' = [actor EXCEPT ![w] = "running"]
    /\ sweep' = [phase   |-> IF sweep.todo = {w} THEN "joining" ELSE "starting",
                 todo    |-> sweep.todo \ {w},
                 started |-> sweep.started \cup {w}]
    /\ UNCHANGED <<others, abandoned>>

\* Waiting for a slot, the sweep sees the cancellation, and returns without
\* waiting for the workers it has started.
SweepAbandon ==
    /\ Up /\ Cancelled /\ sweep.phase = "starting"
    /\ sweep' = [phase |-> "waiting", todo |-> {}, started |-> {}]
    /\ abandoned' = TRUE
    /\ UNCHANGED <<others, actor>>

SweepJoin ==
    /\ Up /\ sweep.phase = "joining"
    /\ \A w \in sweep.started : actor[w] \in Finished
    /\ sweep' = [phase |-> "waiting", todo |-> {}, started |-> {}]
    /\ UNCHANGED <<others, actor, abandoned>>

SweepReturn ==
    /\ Up /\ Cancelled /\ sweep.phase = "waiting"
    /\ sweep' = [sweep EXCEPT !.phase = "returned"]
    /\ UNCHANGED <<others, actor, abandoned>>

SweepStep ==
    \/ SweepBegin \/ SweepAbandon \/ SweepJoin \/ SweepReturn
    \/ \E w \in Workers : SweepWorker(w)

-----------------------------------------------------------------------------
(* UsageBuffer's loop: a flush at every tick, a last one at the stop. *)

UsageFlush ==
    /\ Up /\ usage.phase = "waiting"
    /\ \/ buffer # {} /\ usage' = [phase |-> "flushing", batch |-> buffer]
       \/ main = "stopping usage" /\ usage' = [phase |-> "last", batch |-> buffer]
    /\ buffer' = {}
    /\ UNCHANGED <<main, sweep, persister, actor, dirty, flush, recorded,
                   saved, histories>>

UsageFlushed ==
    /\ Up /\ usage.phase \in {"flushing", "last"}
    /\ usage' = [phase |-> IF usage.phase = "last" THEN "returned" ELSE "waiting",
                 batch |-> {}]
    /\ \/ /\ recorded' = recorded \cup usage.batch
          /\ UNCHANGED <<buffer, failed>>
       \/ /\ usage.batch # {}
          /\ buffer' = buffer \cup usage.batch
          /\ failed' = IF usage.phase = "last" THEN failed \cup {"usage"} ELSE failed
          /\ UNCHANGED recorded
    /\ UNCHANGED <<main, sweep, persister, actor, dirty, flush, saved,
                   overdue, abandoned, raced>>

-----------------------------------------------------------------------------
(* Dirty tokens are written by the Persister's loop and, at the end, by    *)
(* main.  A transaction clears the marks of the tokens it carries.         *)

CopyDirty ==
    flush' = [tokens  |-> dirty,
              changes |-> {a \in Changed : TokenOf[a] \in dirty}]

EndTransaction ==
    \/ /\ saved' = saved \cup flush.changes
       /\ dirty' = dirty \ flush.tokens
    \/ UNCHANGED <<saved, dirty>>

PersisterFlush ==
    /\ Up /\ persister = "waiting"
    /\ \/ ~Cancelled /\ dirty # {} /\ persister' = "flushing"
       \/ Cancelled /\ persister' \in {"flushing", "last"}
    /\ CopyDirty
    /\ UNCHANGED <<main, sweep, usage, actor, buffer, dirty, recorded, saved,
                   histories>>

\* The loop ignores the error of its last flush; main flushes once more.
PersisterFlushed ==
    /\ Up /\ persister \in {"flushing", "last"}
    /\ EndTransaction
    /\ flush' = NoFlush
    /\ persister' = IF persister = "last" THEN "returned" ELSE "waiting"
    /\ UNCHANGED <<main, sweep, usage, actor, buffer, recorded, histories>>

-----------------------------------------------------------------------------
(* main. *)

parts == <<sweep, usage, persister, actor, buffer, recorded>>

Signal ==
    /\ main = "serving" /\ main' = "draining"
    /\ UNCHANGED <<parts, dirty, flush, saved, histories>>

\* The server fails: os.Exit.
ServerFails ==
    /\ main = "serving" /\ main' = "killed"
    /\ UNCHANGED <<parts, dirty, flush, saved, histories>>

\* Shutdown returns when every handler has, or after its 30 seconds, which is
\* to say at any time; then rootCancel and the stop of the clearance refresh.
Drain ==
    /\ main = "draining"
    /\ main' = "stopping sweeps"
    /\ overdue' = {a \in Actors : actor[a] \notin Finished}
    /\ UNCHANGED <<parts, dirty, flush, saved, abandoned, raced, failed>>

\* Mutant of StopNext: the usage buffer is not waited for.
StopNextUnawaited ==
    /\ \/ main = "stopping sweeps" /\ sweep.phase = "returned"
            /\ main' = "stopping usage"
       \/ main = "stopping usage" /\ main' = "stopping persister"
       \/ main = "stopping persister" /\ persister = "returned"
            /\ main' = "flushing"
    /\ UNCHANGED <<parts, dirty, flush, saved, histories>>

\* Each Stop returns when the goroutine of its part has.
StopNext ==
    /\ \/ main = "stopping sweeps" /\ sweep.phase = "returned"
            /\ main' = "stopping usage"
       \/ main = "stopping usage" /\ usage.phase = "returned"
            /\ main' = "stopping persister"
       \/ main = "stopping persister" /\ persister = "returned"
            /\ main' = "flushing"
    /\ UNCHANGED <<parts, dirty, flush, saved, histories>>

\* Mutant of LastFlush: the Persister's last flush is taken to be enough.
LastFlushSkipped ==
    /\ main = "flushing" /\ main' = "last flush"
    /\ UNCHANGED <<parts, dirty, flush, saved, histories>>

LastFlush ==
    /\ main = "flushing" /\ main' = "last flush"
    /\ CopyDirty
    /\ UNCHANGED <<parts, dirty, saved, histories>>

Exit ==
    /\ main = "last flush" /\ main' = "exited"
    /\ EndTransaction
    /\ failed' = IF dirty' = dirty /\ flush.tokens # {}
                 THEN failed \cup {"tokens"} ELSE failed
    /\ UNCHANGED <<parts, flush, overdue, abandoned, raced>>

MainStep ==
    Signal \/ ServerFails \/ Drain \/ StopNext \/ LastFlush \/ Exit

Next ==
    \/ ActorStep \/ SweepStep \/ UsageFlush
    \/ UsageFlushed \/ PersisterFlush \/ PersisterFlushed \/ MainStep

Spec == Init /\ [][Next]_vars

-----------------------------------------------------------------------------
(* Properties. *)

(***************************************************************************)
(* An orderly exit loses the usage record of a request or a video job only *)
(* if that was overdue when the root context was cancelled, or if the last *)
(* insertion failed: whatever a request the server has drained recorded is *)
(* in the table, records of failed insertions before the last included.    *)
(***************************************************************************)
DrainedUsageIsRecorded ==
    main = "exited" =>
        \A a \in Handlers \cup Jobs :
            actor[a] \in {"done", "noted"} =>
                a \in recorded \/ a \in overdue \/ "usage" \in failed

(***************************************************************************)
(* An orderly exit loses the change of a token only if it was made by a    *)
(* request, job or check that was overdue, by a worker of a sweep that     *)
(* returned without it, while a transaction carried the token, or if the   *)
(* last transaction failed.  A sweep main has waited for, and the dirty    *)
(* tokens the Persister's loop failed to write, reach the rows.            *)
(***************************************************************************)
AwaitedChangesAreSaved ==
    main = "exited" =>
        \A a \in Changed :
            \/ a \in saved
            \/ a \in overdue \ Workers
            \/ a \in Workers /\ abandoned
            \/ a \in raced
            \/ "tokens" \in failed
=============================================================================
