---------------------------- MODULE UsageBuffer ----------------------------
(***************************************************************************)
(* internal/flow/usage_buffer.go: requests append usage records to a       *)
(* bounded buffer, a loop takes the buffer and inserts it into the         *)
(* database without holding the lock, and puts it back when that fails.    *)
(* Records are the numbers 1, 2, 3, ... in the order they were made.       *)
(***************************************************************************)
EXTENDS Naturals, Sequences

CONSTANTS
    Max,        \* maxUsageBufferSize
    Records     \* bound on the records made

ASSUME BufferAssumption ==
    /\ Max \in Nat \ {0}
    /\ Records \in Nat

VARIABLES
    recorded,   \* how many records have been made
    buf,        \* UsageBuffer.buf
    batch,      \* the records of the insert in progress
    loop,       \* flushLoop: waiting, inserting, its last insert, ended, or
                \* ended with its last insert failed ("gaveup")
    stopping,   \* stopCh is closed
    stored,     \* records in the database
    dropped,    \* records dropped for want of room
    before      \* history: the records made before Stop was called

vars == <<recorded, buf, batch, loop, stopping, stored, dropped, before>>

Contents(s) == {s[i] : i \in 1 .. Len(s)}

TypeOK ==
    /\ recorded \in Nat
    /\ buf \in Seq(Nat)
    /\ batch \in Seq(Nat)
    /\ loop \in {"waiting", "inserting", "finishing", "ended", "gaveup"}
    /\ batch = <<>> <=> loop \in {"waiting", "ended", "gaveup"}
    /\ stopping \in BOOLEAN
    /\ stored \subseteq Nat
    /\ dropped \subseteq Nat
    /\ before \in Nat

Init ==
    /\ recorded = 0
    /\ buf = <<>> /\ batch = <<>>
    /\ loop = "waiting"
    /\ stopping = FALSE
    /\ stored = {} /\ dropped = {}
    /\ before = 0

-----------------------------------------------------------------------------
\* Mutant of Record: a full buffer takes one more record.
RecordPastFull ==
    /\ recorded < Records
    /\ recorded' = recorded + 1
    /\ LET full == Len(buf) > Max
       IN  /\ buf' = Append(IF full THEN Tail(buf) ELSE buf, recorded')
           /\ dropped' = IF full THEN dropped \cup {Head(buf)} ELSE dropped
    /\ UNCHANGED <<batch, loop, stopping, stored, before>>

\* A full buffer loses its oldest record.
Record ==
    /\ recorded < Records
    /\ recorded' = recorded + 1
    /\ LET full == Len(buf) >= Max
       IN  /\ buf' = Append(IF full THEN Tail(buf) ELSE buf, recorded')
           /\ dropped' = IF full THEN dropped \cup {Head(buf)} ELSE dropped
    /\ UNCHANGED <<batch, loop, stopping, stored, before>>

Stop ==
    /\ ~stopping
    /\ stopping' = TRUE
    /\ before' = recorded
    /\ UNCHANGED <<recorded, buf, batch, loop, stored, dropped>>

\* Mutant of Flush: the buffer keeps what is being inserted.
FlushKeeping(next) ==
    /\ loop = "waiting"
    /\ buf # <<>>
    /\ batch' = buf
    /\ loop' = next
    /\ UNCHANGED <<recorded, buf, stopping, stored, dropped, before>>

\* Mutant of Flush: an empty buffer is inserted as well.
FlushEmpty(next) ==
    /\ loop = "waiting"
    /\ batch' = buf
    /\ buf' = <<>>
    /\ loop' = next
    /\ UNCHANGED <<recorded, stopping, stored, dropped, before>>

\* flush, up to the insert.  When both channels are ready the loop takes
\* either; an empty buffer is not inserted.
Flush(next) ==
    /\ loop = "waiting"
    /\ buf # <<>>
    /\ batch' = buf
    /\ buf' = <<>>
    /\ loop' = next
    /\ UNCHANGED <<recorded, stopping, stored, dropped, before>>

Tick == Flush("inserting")

\* Mutant of FinalFlush: the loop leaves without a last flush.
FinalFlushForgotten ==
    /\ stopping /\ loop = "waiting"
    /\ loop' = "ended"
    /\ UNCHANGED <<recorded, buf, batch, stopping, stored, dropped, before>>

FinalFlush ==
    /\ stopping
    /\ \/ Flush("finishing")
       \/ /\ loop = "waiting" /\ buf = <<>>
          /\ loop' = "ended"
          /\ UNCHANGED <<recorded, buf, batch, stopping, stored, dropped,
                         before>>

\* Back to the select, or out of the loop: doneCh is closed.
AfterInsert(end) == loop' = IF loop = "inserting" THEN "waiting" ELSE end

\* BatchInsert: one transaction.
InsertOK ==
    /\ loop \in {"inserting", "finishing"}
    /\ stored' = stored \cup Contents(batch)
    /\ batch' = <<>>
    /\ AfterInsert("ended")
    /\ UNCHANGED <<recorded, buf, stopping, dropped, before>>

\* Mutant of InsertFails: the newest records go when there is no room.
InsertFailsDropNewest ==
    LET all == batch \o buf
    IN  /\ loop \in {"inserting", "finishing"}
        /\ buf' = SubSeq(all, 1, IF Len(all) > Max THEN Max ELSE Len(all))
        /\ dropped' = dropped \cup Contents(SubSeq(all, Max + 1, Len(all)))
        /\ batch' = <<>>
        /\ AfterInsert("gaveup")
        /\ UNCHANGED <<recorded, stopping, stored, before>>

\* The batch goes back to the front; the oldest records go when there is no
\* room for all.
InsertFails ==
    LET all == batch \o buf
        excess == IF Len(all) > Max THEN Len(all) - Max ELSE 0
    IN  /\ loop \in {"inserting", "finishing"}
        /\ buf' = SubSeq(all, excess + 1, Len(all))
        /\ dropped' = dropped \cup Contents(SubSeq(all, 1, excess))
        /\ batch' = <<>>
        /\ AfterInsert("gaveup")
        /\ UNCHANGED <<recorded, stopping, stored, before>>

Next ==
    \/ Record \/ Stop
    \/ Tick \/ FinalFlush
    \/ InsertOK \/ InsertFails

Spec == Init /\ [][Next]_vars

-----------------------------------------------------------------------------
(* Properties.                                                             *)

\* The buffer never holds more than Max records, a requeue included.
BufferBounded == Len(buf) <= Max

\* A record is in one place: it is neither inserted twice nor lost unnoticed.
InOnePlace ==
    /\ Contents(buf) \cup Contents(batch) \cup stored \cup dropped
          = 1 .. recorded
    /\ Contents(buf) \cap Contents(batch) = {}
    /\ (Contents(buf) \cup Contents(batch)) \cap (stored \cup dropped) = {}
    /\ stored \cap dropped = {}

\* Doc: "Stop signals the flush loop to stop and waits for remaining records
\* to be flushed" (usage_buffer.go:56): once the loop has ended, a record made
\* before Stop was called is in the database or was dropped for want of room,
\* whatever inserts failed before, unless the last one failed as well.
StopFlushes ==
    loop = "ended" => 1 .. before \subseteq stored \cup dropped

Ledger == INSTANCE UsageLedger
            WITH pending <- Contents(buf) \cup Contents(batch)

\* The buffer keeps the promises of UsageLedger: records are stored in the
\* order they were made, and one is dropped, by a recording or a failed insert,
\* only when Max newer ones have been made.
KeepsLedger == Ledger!Spec
=============================================================================
