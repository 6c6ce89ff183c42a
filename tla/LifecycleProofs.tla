-------------------------- MODULE LifecycleProofs --------------------------
(***************************************************************************)
(* What an orderly exit loses, for any number of requests, jobs, workers,  *)
(* checks and tokens.  The invariant follows a usage record from the       *)
(* buffer to its row and a token change from its dirty mark to its row,    *)
(* and says which actors are left once main has stopped waiting.           *)
(***************************************************************************)
EXTENDS Lifecycle, TLAPS

StoppedSweeps == main \in {"stopping usage", "stopping persister", "flushing",
                           "last flush", "exited"}
StoppedUsage  == main \in {"stopping persister", "flushing", "last flush", "exited"}
StoppedSaving == main \in {"flushing", "last flush", "exited"}

\* The types the rest needs.
Types ==
    /\ main \in {"serving", "draining", "stopping sweeps", "stopping usage",
                 "stopping persister", "flushing", "last flush", "exited",
                 "killed"}
    /\ sweep \in [phase   : {"waiting", "starting", "joining", "returned"},
                  todo    : SUBSET Workers,
                  started : SUBSET Workers]
    /\ usage \in [phase : {"waiting", "flushing", "last", "returned"},
                  batch : SUBSET Actors]
    /\ persister \in {"waiting", "flushing", "last", "returned"}
    /\ actor \in [Actors -> {"new", "running", "changed", "unchanged"} \cup Finished]
    /\ buffer \subseteq Actors /\ dirty \subseteq Tokens
    /\ flush \in [tokens : SUBSET Tokens, changes : SUBSET Actors]
    /\ recorded \subseteq Actors /\ saved \subseteq Actors
    /\ overdue \subseteq Actors /\ raced \subseteq Actors
    /\ abandoned \in BOOLEAN

\* A part that main has waited for has returned.
PartsInv ==
    /\ StoppedSweeps => sweep.phase = "returned"
    /\ StoppedUsage  => usage.phase = "returned"
    /\ StoppedSaving => persister = "returned"

\* After the cancellation whoever is not finished is overdue.
OverdueInv ==
    Cancelled /\ main # "killed" =>
        \A a \in Actors : actor[a] \notin Finished => a \in overdue

\* A running worker is one its sweep waits for, or a sweep was abandoned; one
\* still to be started is new.
WorkersInv ==
    /\ \A w \in Workers : actor[w] = "running" => abandoned \/ w \in sweep.started
    /\ sweep.phase \in {"waiting", "returned"} => sweep.started = {}
    /\ \A w \in sweep.todo : actor[w] = "new"

\* A record is in the buffer, in the batch, or in the table.  After the last
\* flush only overdue or failed ones are in the buffer.
UsageInv ==
    /\ \A a \in Handlers \cup Jobs :
          actor[a] \in {"done", "noted"} => a \in recorded \cup buffer \cup usage.batch
    /\ usage.phase \in {"waiting", "returned"} => usage.batch = {}
    /\ usage.phase \in {"last", "returned"} =>
          /\ Cancelled /\ main # "killed"
          /\ buffer \subseteq overdue \/ "usage" \in failed

\* A change is marked or stored; a transaction carries the changes of its
\* tokens.  Both but for changes that met a transaction.
ChangesInv ==
    /\ \A a \in Changed : a \in saved \/ TokenOf[a] \in dirty \/ a \in raced
    /\ \A a \in Changed :
          TokenOf[a] \in flush.tokens => a \in flush.changes \/ a \in raced

Straggler(a) ==
    \/ a \in overdue \ Workers
    \/ a \in Workers /\ abandoned

\* What main's last transaction does not carry is stored, or a straggler's.
LastInv ==
    /\ main = "last flush" =>
          \A a \in Changed : \/ a \in saved \/ a \in raced \/ Straggler(a)
                             \/ TokenOf[a] \in flush.tokens
    /\ main = "exited" =>
          \A a \in Changed : \/ a \in saved \/ a \in raced \/ Straggler(a)
                             \/ "tokens" \in failed

LInv ==
    Types /\ PartsInv /\ OverdueInv /\ WorkersInv /\ UsageInv /\ ChangesInv /\ LastInv

\* The invariant holds when the process starts.
LEMMA InitInv == Init => LInv
<1> SUFFICES ASSUME Init PROVE LInv
  OBVIOUS
<1> USE DEF Init, NoFlush, Finished
<1>1. Types
  BY DEF Types
<1>2. Changed = {} /\ \A a \in Handlers \cup Jobs : actor[a] = "new"
  BY DEF Changed, Actors
<1>3. PartsInv /\ OverdueInv
  BY DEF PartsInv, OverdueInv, StoppedSweeps, StoppedUsage, StoppedSaving, Cancelled
<1>4. WorkersInv
  BY DEF WorkersInv, Actors
<1>5. UsageInv /\ ChangesInv /\ LastInv
  BY <1>2 DEF UsageInv, ChangesInv, LastInv
<1> QED
  BY <1>1, <1>3, <1>4, <1>5 DEF LInv

\* Every step keeps the invariant.
LEMMA NextInv == LInv /\ [Next]_vars => LInv'
<1> SUFFICES ASSUME LInv, [Next]_vars PROVE LInv'
  OBVIOUS
<1> USE LifecycleAssumption DEF LInv, Types, PartsInv, OverdueInv, WorkersInv,
        UsageInv, ChangesInv, LastInv, StoppedSweeps, StoppedUsage, StoppedSaving,
        Cancelled, Changed, Finished, Up, Straggler, Actors, histories, others,
        parts
<1>1. ASSUME NEW h \in Handlers, Accept(h) PROVE LInv'
  BY <1>1 DEF Accept
<1>2. ASSUME NEW h \in Handlers, NEW j \in Jobs, CreateJob(h, j) PROVE LInv'
  <2>1. /\ actor[h] = "running" /\ actor[j] = "new" /\ h \notin Workers
        /\ j \notin Workers /\ h # j
        /\ actor' = [actor EXCEPT ![h] = "answered", ![j] = "running"]
        /\ UNCHANGED <<main, sweep, usage, persister, buffer, dirty, flush,
                       recorded, saved, histories>>
    BY <1>2 DEF CreateJob
  <2>2. /\ actor'[h] = "answered" /\ actor'[j] = "running"
        /\ \A a \in Actors \ {h, j} : actor'[a] = actor[a]
    BY <2>1
  <2>3. Types'
    <3>1. actor' \in [Actors -> {"new", "running", "changed", "unchanged"} \cup Finished]
      BY <2>1
    <3> QED
      BY <2>1, <3>1
  <2>4. PartsInv'
    BY <2>1
  <2>5. WorkersInv'
    <3>1. ASSUME NEW w \in Workers PROVE actor'[w] = actor[w]
      <4>1. w # h /\ w # j /\ w \in Actors
        BY <2>1
      <4> QED
        BY <4>1, <2>1, Zenon
    <3> QED
      BY <3>1, <2>1
  <2>6. OverdueInv'
    BY <2>1, <2>2
  <2>7. UsageInv'
    BY <2>1, <2>2
  <2>8. ChangesInv' /\ LastInv'
    BY <2>1, <2>2
  <2> QED
    BY <2>3, <2>4, <2>5, <2>6, <2>7, <2>8
<1>3. ASSUME NEW a \in Actors, ChangeToken(a) PROVE LInv'
  <2>1. PICK next \in {"changed", "failed", "done"} :
           actor' = [actor EXCEPT ![a] = next]
    BY <1>3 DEF ChangeToken
  <2>2. /\ actor'[a] = next /\ next # "running" /\ actor[a] = "running"
        /\ \A b \in Actors \ {a} : actor'[b] = actor[b]
        /\ a \in Handlers \cup Jobs => next # "done"
    BY <2>1, <1>3 DEF ChangeToken
  <2>3. /\ UNCHANGED <<main, sweep, usage, persister, buffer, flush, recorded,
                       saved, overdue, abandoned, failed>>
        /\ dirty' = dirty \cup {TokenOf[a]}
        /\ raced' = IF TokenOf[a] \in flush.tokens THEN raced \cup {a} ELSE raced
        /\ main \notin {"exited", "killed"}
    BY <1>3 DEF ChangeToken
  <2>4. Types'
    <3>1. actor' \in [Actors -> {"new", "running", "changed", "unchanged"} \cup Finished]
      BY <2>1
    <3>2. TokenOf[a] \in Tokens
      BY LifecycleAssumption
    <3>3. dirty' \subseteq Tokens
      BY <2>3, <3>2
    <3>4. raced' \subseteq Actors
      BY <2>3
    <3> QED
      BY <2>3, <3>1, <3>3, <3>4
  <2>5. PartsInv' /\ OverdueInv' /\ WorkersInv'
    BY <2>2, <2>3, ZenonT(60)
  <2>6. UsageInv'
    BY <2>2, <2>3
  <2>7. ChangesInv'
    BY <2>2, <2>3
  <2>8. LastInv'
    <3>1. main = "last flush" => Straggler(a)
      BY <2>2
    <3> QED
      BY <2>2, <2>3, <3>1
  <2> QED
    BY <2>4, <2>5, <2>6, <2>7, <2>8
<1>4. ASSUME NEW a \in Actors, RecordUsage(a) PROVE LInv'
  <2>0. PICK next \in {"done", "noted"} :
           /\ \/ actor[a] = "changed" /\ next = "done"
              \/ actor[a] = "unchanged" /\ next = "noted"
           /\ actor' = [actor EXCEPT ![a] = next]
    <3>1. CASE actor[a] = "changed"
      <4>1. actor' = [actor EXCEPT ![a] = "done"]
        BY <1>4, <3>1 DEF RecordUsage
      <4> QED
        BY <3>1, <4>1
    <3>2. CASE actor[a] = "unchanged"
      <4>1. actor' = [actor EXCEPT ![a] = "noted"]
        BY <1>4, <3>2 DEF RecordUsage
      <4> QED
        BY <3>2, <4>1
    <3> QED
      BY <1>4, <3>1, <3>2 DEF RecordUsage
  <2>1. /\ actor[a] \in {"changed", "unchanged"} /\ Up
        /\ actor' = [actor EXCEPT ![a] = next]
        /\ buffer' = buffer \cup {a}
        /\ UNCHANGED <<main, sweep, usage, persister, dirty, flush, recorded,
                       saved, histories>>
    BY <1>4, <2>0 DEF RecordUsage
  <2>2. actor'[a] = next /\ \A b \in Actors \ {a} : actor'[b] = actor[b]
    BY <2>1
  <2>3. Types'
    <3>1. actor' \in [Actors -> {"new", "running", "changed", "unchanged"} \cup Finished]
      BY <2>1
    <3> QED
      BY <2>1, <3>1, ZenonT(60)
  <2>4. PartsInv' /\ OverdueInv' /\ WorkersInv'
    BY <2>1, <2>2
  <2>5. UsageInv'
    <3>1. usage.phase \in {"last", "returned"} => a \in overdue
      BY <2>1
    <3>2. \A b \in Handlers \cup Jobs :
             actor'[b] \in {"done", "noted"} => b \in recorded' \cup buffer' \cup usage'.batch
      BY <2>1, <2>2
    <3>3. usage.phase \in {"last", "returned"} =>
             buffer' \subseteq overdue \/ "usage" \in failed
      BY <2>1, <3>1
    <3> QED
      BY <2>1, <3>2, <3>3
  <2>6. Changed' = Changed
    BY <2>0, <2>1, <2>2
  <2>7. ChangesInv' /\ LastInv'
    BY <2>1, <2>6
  <2> QED
    BY <2>3, <2>4, <2>5, <2>7
<1>23. ASSUME NEW a \in Actors, FailUnchanged(a) PROVE LInv'
  <2>1. Types'
    BY <1>23 DEF FailUnchanged
  <2>2. PartsInv' /\ OverdueInv' /\ WorkersInv'
    BY <1>23 DEF FailUnchanged
  <2>3. UsageInv'
    BY <1>23 DEF FailUnchanged
  <2>4. ChangesInv'
    BY <1>23 DEF FailUnchanged
  <2>5. LastInv'
    BY <1>23 DEF FailUnchanged
  <2> QED
    BY <2>1, <2>2, <2>3, <2>4, <2>5
<1>5. ASSUME NEW a \in Actors, GiveUp(a) PROVE LInv'
  <2>1. Types'
    BY <1>5 DEF GiveUp
  <2>2. PartsInv' /\ OverdueInv' /\ WorkersInv'
    BY <1>5 DEF GiveUp
  <2>3. UsageInv'
    BY <1>5 DEF GiveUp
  <2>4. ChangesInv'
    BY <1>5 DEF GiveUp
  <2>5. LastInv'
    BY <1>5 DEF GiveUp
  <2> QED
    BY <2>1, <2>2, <2>3, <2>4, <2>5
<1>6. ASSUME NEW c \in Checks, StartCheck(c) PROVE LInv'
  <2>1. Types'
    BY <1>6 DEF StartCheck
  <2>2. PartsInv' /\ OverdueInv' /\ WorkersInv'
    BY <1>6 DEF StartCheck
  <2>3. UsageInv'
    BY <1>6 DEF StartCheck
  <2>4. ChangesInv'
    BY <1>6 DEF StartCheck
  <2>5. LastInv'
    BY <1>6 DEF StartCheck
  <2> QED
    BY <2>1, <2>2, <2>3, <2>4, <2>5
<1>7. CASE SweepBegin
  <2>1. PICK todo \in SUBSET {w \in Workers : actor[w] = "new"} :
           sweep' = [phase |-> "starting", todo |-> todo, started |-> {}]
    BY <1>7 DEF SweepBegin
  <2>2. sweep'.phase = "starting" /\ sweep'.started = {} /\ sweep.started = {}
        /\ sweep'.todo = todo
        /\ sweep.phase = "waiting"
    BY <1>7, <2>1 DEF SweepBegin
  <2>3. UNCHANGED <<others, actor, abandoned>>
    BY <1>7 DEF SweepBegin
  <2>4. Types'
    BY <2>1, <2>3
  <2> QED
    BY <2>1, <2>2, <2>3, <2>4
<1>8. ASSUME NEW w \in Workers, SweepWorker(w) PROVE LInv'
  <2>1. PICK p \in {"starting", "joining"} :
           sweep' = [phase |-> p, todo |-> sweep.todo \ {w},
                     started |-> sweep.started \cup {w}]
    BY <1>8 DEF SweepWorker
  <2>2. /\ sweep.phase = "starting"
        /\ actor' = [actor EXCEPT ![w] = "running"]
        /\ UNCHANGED <<others, abandoned>>
        /\ Up /\ actor[w] = "new"
    BY <1>8 DEF SweepWorker
  <2>3. /\ sweep'.phase = p /\ sweep'.started = sweep.started \cup {w}
        /\ sweep'.todo = sweep.todo \ {w}
    BY <2>1
  <2>4. Types'
    <3>1. sweep' \in [phase   : {"waiting", "starting", "joining", "returned"},
                      todo    : SUBSET Workers, started : SUBSET Workers]
      BY <2>1
    <3> QED
      BY <2>2, <3>1
  <2>5. PartsInv' /\ OverdueInv' /\ WorkersInv'
    BY <2>2, <2>3
  <2>6. UsageInv' /\ ChangesInv' /\ LastInv'
    BY <2>2
  <2> QED
    BY <2>4, <2>5, <2>6
<1>9. CASE SweepAbandon
  BY <1>9 DEF SweepAbandon
<1>10. CASE SweepJoin
  BY <1>10 DEF SweepJoin
<1>11. CASE SweepReturn
  BY <1>11 DEF SweepReturn
<1>12. CASE UsageFlush
  <2>1. PICK p \in {"flushing", "last"} :
           /\ usage' = [phase |-> p, batch |-> buffer]
           /\ p = "last" => main = "stopping usage"
    BY <1>12 DEF UsageFlush
  <2>2. /\ usage.phase = "waiting" /\ buffer' = {}
        /\ UNCHANGED <<main, sweep, persister, actor, dirty, flush, recorded,
                       saved, histories>>
    BY <1>12 DEF UsageFlush
  <2>3. usage'.phase = p /\ usage'.batch = buffer
    BY <2>1
  <2>4. Types'
    BY <2>1, <2>2
  <2>5. UsageInv'
    BY <2>1, <2>2, <2>3
  <2> QED
    BY <2>2, <2>4, <2>5
<1>13. CASE UsageFlushed
  <2>1. Types'
    BY <1>13 DEF UsageFlushed
  <2>2. PartsInv' /\ OverdueInv' /\ WorkersInv'
    BY <1>13 DEF UsageFlushed
  <2>3. UsageInv'
    BY <1>13 DEF UsageFlushed
  <2>4. ChangesInv'
    BY <1>13 DEF UsageFlushed
  <2>5. LastInv'
    BY <1>13 DEF UsageFlushed
  <2> QED
    BY <2>1, <2>2, <2>3, <2>4, <2>5
<1>14. CASE PersisterFlush
  <2>1. Types'
    BY <1>14 DEF PersisterFlush, CopyDirty
  <2>2. PartsInv' /\ OverdueInv' /\ WorkersInv'
    BY <1>14 DEF PersisterFlush, CopyDirty
  <2>3. UsageInv'
    BY <1>14 DEF PersisterFlush, CopyDirty
  <2>4. ChangesInv'
    BY <1>14 DEF PersisterFlush, CopyDirty
  <2>5. LastInv'
    BY <1>14 DEF PersisterFlush, CopyDirty
  <2> QED
    BY <2>1, <2>2, <2>3, <2>4, <2>5
<1>15. CASE PersisterFlushed
  <2>1. Types'
    BY <1>15 DEF PersisterFlushed, EndTransaction, NoFlush
  <2>2. PartsInv' /\ OverdueInv' /\ WorkersInv'
    BY <1>15 DEF PersisterFlushed, EndTransaction, NoFlush
  <2>3. UsageInv'
    BY <1>15 DEF PersisterFlushed, EndTransaction, NoFlush
  <2>4. ChangesInv'
    BY <1>15 DEF PersisterFlushed, EndTransaction, NoFlush
  <2>5. LastInv'
    BY <1>15 DEF PersisterFlushed, EndTransaction, NoFlush
  <2> QED
    BY <2>1, <2>2, <2>3, <2>4, <2>5
<1>16. CASE Signal
  BY <1>16 DEF Signal
<1>17. CASE ServerFails
  BY <1>17 DEF ServerFails
<1>18. CASE Drain
  BY <1>18 DEF Drain
<1>19. CASE StopNext
  <2>1. Types'
    BY <1>19 DEF StopNext
  <2>2. PartsInv' /\ OverdueInv' /\ WorkersInv'
    BY <1>19 DEF StopNext
  <2>3. UsageInv'
    BY <1>19 DEF StopNext
  <2>4. ChangesInv'
    BY <1>19 DEF StopNext
  <2>5. LastInv'
    BY <1>19 DEF StopNext
  <2> QED
    BY <2>1, <2>2, <2>3, <2>4, <2>5
<1>20. CASE LastFlush
  BY <1>20 DEF LastFlush, CopyDirty
<1>21. CASE Exit
  BY <1>21 DEF Exit, EndTransaction
<1>22. CASE UNCHANGED vars
  <2>1. Types'
    BY <1>22, ZenonT(60) DEF vars
  <2>2. PartsInv' /\ OverdueInv' /\ WorkersInv'
    BY <1>22 DEF vars
  <2>3. UsageInv'
    BY <1>22 DEF vars
  <2>4. ChangesInv'
    BY <1>22 DEF vars
  <2>5. LastInv'
    BY <1>22 DEF vars
  <2> QED
    BY <2>1, <2>2, <2>3, <2>4, <2>5
<1> QED
  BY <1>1, <1>2, <1>3, <1>4, <1>5, <1>6, <1>7, <1>8, <1>9, <1>10, <1>11, <1>12,
     <1>13, <1>14, <1>15, <1>16, <1>17, <1>18, <1>19, <1>20, <1>21, <1>22, <1>23
     DEF Next, ActorStep, SweepStep, MainStep

\* The invariant holds in every reachable state.
LEMMA Invariance == Spec => []LInv
BY InitInv, NextInv, PTL DEF Spec

(***************************************************************************)
(* An orderly exit loses no usage record but those of overdue requests and *)
(* of a last insertion that failed.                                        *)
(***************************************************************************)
THEOREM DrainedUsage == Spec => []DrainedUsageIsRecorded
<1>1. LInv => DrainedUsageIsRecorded
  BY DEF LInv, Types, PartsInv, StoppedUsage, UsageInv, DrainedUsageIsRecorded
<1> QED
  BY <1>1, Invariance, PTL

(***************************************************************************)
(* An orderly exit loses no token change but those of stragglers, of a     *)
(* change that met a transaction, and of a last transaction that failed.   *)
(***************************************************************************)
THEOREM AwaitedChanges == Spec => []AwaitedChangesAreSaved
<1>1. LInv => AwaitedChangesAreSaved
  BY DEF LInv, LastInv, Straggler, AwaitedChangesAreSaved
<1> QED
  BY <1>1, Invariance, PTL
=============================================================================
