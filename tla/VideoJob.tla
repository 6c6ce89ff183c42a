------------------------------ MODULE VideoJob ------------------------------
(***************************************************************************)
(* internal/httpapi/openai/video_async.go: a job row in the database, the  *)
(* goroutine that runs the job, the context a cancel ends, and the cancel  *)
(* requests that read the row, end the context and save the row.           *)
(*                                                                         *)
(* Both sides read a row and later save it whole.  The runner saves with   *)
(* the job's context: GORM runs the save in a transaction that neither     *)
(* begins nor commits once that context has ended, so a runner's save      *)
(* succeeds only before the cancel.  A cancel request saves with its own.  *)
(***************************************************************************)
EXTENDS Naturals

CONSTANTS
    Jobs,       \* job ids
    Clients,    \* requests to .../cancel that may be served at once
    Failures    \* what may go wrong besides generation, a subset of
                \* {"crash", "database", "hangup"}

ASSUME FailuresAssumption == Failures \subseteq {"crash", "database", "hangup"}

VARIABLES
    row,        \* the status column, "none" before the job is created
    runner,     \* the goroutine of a job
    cancelled,  \* jobs whose context has ended
    cancels,    \* Handler.cancels: jobs with a registered cancel function
    client,     \* cancel requests in progress
    acked,      \* history: jobs a cancel request was answered 200 for
    hurt        \* history: jobs of which a failure took a read or a save

jobVars == <<row, runner, cancelled, cancels, client, acked, hurt>>

Terminal == {"completed", "failed", "timeout", "cancelled"}
Status == {"queued", "processing"} \cup Terminal

\* How GenerateSync ends: "busy" is any code the runner tries again.
Outcome == {"completed", "failed", "timeout", "busy"}
Retried == {"timeout", "busy"}
Attempts == 2

Runner == [pc : {"none", "spawned", "loaded", "starting", "generating",
                 "backoff", "ended", "saving", "left"},
           attempt : 1 .. Attempts, outcome : Outcome]

JobsTypeOK ==
    /\ row \in [Jobs -> Status \cup {"none"}]
    /\ runner \in [Jobs -> Runner]
    /\ cancelled \subseteq Jobs
    /\ cancels \subseteq Jobs
    /\ client \in [Clients -> [pc : {"idle", "read", "ended"}, job : Jobs]]
    /\ acked \subseteq Jobs
    /\ hurt \subseteq Jobs

NoRunner == [pc |-> "none", attempt |-> 1, outcome |-> "failed"]

JobsInit ==
    /\ row = [j \in Jobs |-> "none"]
    /\ runner = [j \in Jobs |-> NoRunner]
    /\ cancelled = {}
    /\ cancels = {}
    /\ client \in [Clients -> [pc : {"idle"}, job : Jobs]]
    /\ acked = {} /\ hurt = {}

-----------------------------------------------------------------------------
(* The job.                                                                *)

Create(j) ==
    /\ row[j] = "none"
    /\ row' = [row EXCEPT ![j] = "queued"]
    /\ cancels' = cancels \cup {j}
    /\ runner' = [runner EXCEPT ![j].pc = "spawned"]
    /\ UNCHANGED <<cancelled, client, acked, hurt>>

\* The runner moves on; a runner that leaves has its cancel function removed.
Goto(j, pc) ==
    /\ runner' = [runner EXCEPT ![j].pc = pc]
    /\ cancels' = IF pc = "left" THEN cancels \ {j} ELSE cancels

\* Mutant of RunnerSaves: a save that a cancel does not stop.
RunnerSavesAlways(j, status) ==
    /\ row' = [row EXCEPT ![j] = status]
    /\ UNCHANGED hurt

\* VideoJobs.Save with the job's context; the error is dropped.
RunnerSaves(j, status) ==
    \/ /\ j \in cancelled
       /\ UNCHANGED <<row, hurt>>
    \/ /\ j \notin cancelled
       /\ row' = [row EXCEPT ![j] = status]
       /\ UNCHANGED hurt
    \/ /\ j \notin cancelled /\ "database" \in Failures
       /\ hurt' = hurt \cup {j}
       /\ UNCHANGED row

\* GetByID fails when the context has ended: the row is left as it is.
Load(j) ==
    /\ runner[j].pc = "spawned"
    /\ \/ j \notin cancelled /\ Goto(j, "loaded") /\ UNCHANGED hurt
       \/ j \in cancelled /\ Goto(j, "left") /\ UNCHANGED hurt
       \/ /\ j \notin cancelled /\ "database" \in Failures
          /\ Goto(j, "left")
          /\ hurt' = hurt \cup {j}
    /\ UNCHANGED <<row, cancelled, client, acked>>

\* The early cancel; its own save fails, as the context has ended.
CheckEarlyCancel(j) ==
    /\ runner[j].pc = "loaded"
    /\ Goto(j, IF j \in cancelled THEN "left" ELSE "starting")
    /\ UNCHANGED <<row, cancelled, client, acked, hurt>>

StartProcessing(j) ==
    /\ runner[j].pc = "starting"
    /\ RunnerSaves(j, "processing")
    /\ Goto(j, "generating")
    /\ UNCHANGED <<cancelled, client, acked>>

\* Mutant of Generate: one attempt too many is made.
GenerateOnceMore(j, outcome) ==
    /\ runner[j].pc = "generating"
    /\ runner' = [runner EXCEPT ![j].outcome = outcome,
                     ![j].pc = IF outcome \in Retried
                                  /\ runner[j].attempt <= Attempts
                               THEN "backoff" ELSE "ended"]
    /\ UNCHANGED <<row, cancelled, cancels, client, acked, hurt>>

\* GenerateSync, which may still succeed when the context ends under it.
Generate(j, outcome) ==
    /\ runner[j].pc = "generating"
    /\ runner' = [runner EXCEPT ![j].outcome = outcome,
                     ![j].pc = IF outcome \in Retried
                                  /\ runner[j].attempt < Attempts
                               THEN "backoff" ELSE "ended"]
    /\ UNCHANGED <<row, cancelled, cancels, client, acked, hurt>>

\* Mutant of Retry: the attempts are not counted.
RetryForever(j) ==
    /\ runner[j].pc = "backoff"
    /\ runner' = [runner EXCEPT ![j].pc = "generating"]
    /\ UNCHANGED <<row, cancelled, cancels, client, acked, hurt>>

\* The backoff ends by timer or cancel; its "break" leaves only the select,
\* so the next attempt is made either way.
Retry(j) ==
    /\ runner[j].pc = "backoff"
    /\ runner' = [runner EXCEPT ![j].pc = "generating", ![j].attempt = @ + 1]
    /\ UNCHANGED <<row, cancelled, cancels, client, acked, hurt>>

\* The check of the context before the last save.
CheckLateCancel(j) ==
    /\ runner[j].pc = "ended"
    /\ Goto(j, IF j \in cancelled THEN "left" ELSE "saving")
    /\ UNCHANGED <<row, cancelled, client, acked, hurt>>

SaveResult(j) ==
    /\ runner[j].pc = "saving"
    /\ RunnerSaves(j, IF runner[j].outcome = "busy" THEN "failed"
                      ELSE runner[j].outcome)
    /\ Goto(j, "left")
    /\ UNCHANGED <<cancelled, client, acked>>

-----------------------------------------------------------------------------
(* POST .../cancel.                                                        *)

\* The row is read; a terminal one is answered 409 and nothing happens.
ReadForCancel(k, j) ==
    /\ client[k].pc = "idle"
    /\ row[j] \in Status \ Terminal
    /\ client' = [client EXCEPT ![k] = [pc |-> "read", job |-> j]]
    /\ UNCHANGED <<row, runner, cancelled, cancels, acked, hurt>>

\* Mutant of CancelJob: only the map is tidied.
CancelJobForgets(k) ==
    LET j == client[k].job
    IN  /\ client[k].pc = "read"
        /\ cancels' = cancels \ {j}
        /\ client' = [client EXCEPT ![k].pc = "ended"]
        /\ UNCHANGED <<row, runner, cancelled, acked, hurt>>

\* cancelJob: no effect when the runner has left or another cancel was first.
CancelJob(k) ==
    LET j == client[k].job
    IN  /\ client[k].pc = "read"
        /\ cancelled' = IF j \in cancels THEN cancelled \cup {j} ELSE cancelled
        /\ cancels' = cancels \ {j}
        /\ client' = [client EXCEPT ![k].pc = "ended"]
        /\ UNCHANGED <<row, runner, acked, hurt>>

\* The row that was read is saved as cancelled, and the request answered 200.
SaveCancelled(k) ==
    LET j == client[k].job
    IN  /\ client[k].pc = "ended"
        /\ row' = [row EXCEPT ![j] = "cancelled"]
        /\ acked' = acked \cup {j}
        /\ client' = [client EXCEPT ![k].pc = "idle"]
        /\ UNCHANGED <<runner, cancelled, cancels, hurt>>

\* The save fails: the client hung up (the request's context), or the
\* database refused.
CancelSaveFails(k) ==
    /\ client[k].pc = "ended"
    /\ Failures \cap {"hangup", "database"} # {}
    /\ client' = [client EXCEPT ![k].pc = "idle"]
    /\ hurt' = hurt \cup {client[k].job}
    /\ UNCHANGED <<row, runner, cancelled, cancels, acked>>

-----------------------------------------------------------------------------
\* The process dies; nothing picks unfinished jobs up at the next start.
Crash ==
    /\ "crash" \in Failures
    /\ runner' = [j \in Jobs |-> IF runner[j].pc = "none" THEN NoRunner
                                 ELSE [runner[j] EXCEPT !.pc = "left"]]
    /\ cancelled' = {}
    /\ cancels' = {}
    /\ client' = [k \in Clients |-> [client[k] EXCEPT !.pc = "idle"]]
    /\ hurt' = hurt \cup {j \in Jobs : row[j] # "none"}
    /\ UNCHANGED <<row, acked>>

RunnerStep(j) ==
    \/ Load(j) \/ CheckEarlyCancel(j) \/ StartProcessing(j)
    \/ \E o \in Outcome : Generate(j, o)
    \/ Retry(j) \/ CheckLateCancel(j) \/ SaveResult(j)

CancelStep(k) == CancelJob(k) \/ SaveCancelled(k) \/ CancelSaveFails(k)

JobsNext ==
    \/ \E j \in Jobs : Create(j) \/ RunnerStep(j)
    \/ \E k \in Clients : CancelStep(k) \/ \E j \in Jobs : ReadForCancel(k, j)
    \/ Crash

JobsSpec == JobsInit /\ [][JobsNext]_jobVars

\* Goroutines are scheduled, GenerateSync has a timeout, and a handler that
\* has read a row goes on.  That anybody ever asks for a cancel is not assumed.
FairSpec ==
    /\ JobsSpec
    /\ \A j \in Jobs : WF_jobVars(RunnerStep(j))
    /\ \A k \in Clients : WF_jobVars(CancelStep(k))

-----------------------------------------------------------------------------
(* Properties.                                                             *)

\* A cancel that was answered 200 is not undone: no save of a runner, however
\* far it had come when the cancel arrived, replaces the cancelled row.
CancelSticks == \A j \in acked : row[j] = "cancelled"

\* A row that has reached a terminal state is only ever rewritten by a cancel
\* request that had read it before; the runner saves one result, once.
OnlyLateCancelsRewrite ==
    [][\A j \in Jobs :
          row[j] \in Terminal /\ row'[j] # row[j] =>
              row'[j] = "cancelled" /\ runner[j].pc = "left"]_jobVars

\* Every job that was accepted reaches a terminal state, unless a crash or a
\* failed read or save hit it, its own or a cancel request's.  A cancel whose
\* save fails is among these: it has ended the runner that would have saved.
UnhurtJobsEnd ==
    \A j \in Jobs : row[j] = "queued" ~> row[j] \in Terminal \/ j \in hurt
=============================================================================
