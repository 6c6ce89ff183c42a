-------------------------- MODULE TokenPersistence --------------------------
(***************************************************************************)
(* The three copies of a token row and how they are kept alike: the        *)
(* manager's memory, the database, and the row an admin handler has read   *)
(* and is about to save.                                                   *)
(*                                                                         *)
(* Every update of TokenManager changes the memory row and marks it dirty; *)
(* the persister copies the dirty rows, writes them in one transaction and *)
(* clears the marks in a third step.  Admin handlers read a row from the   *)
(* database, save it whole, and have the manager reload it.  A crash loses *)
(* memory and everything in flight.                                        *)
(*                                                                         *)
(* A row is two columns: "life" stands for what the flush writes (status,  *)
(* quotas, cooldown, failures), "profile" for what only admins write       *)
(* (remark, pool, priority, nsfw flag, the secret).                        *)
(***************************************************************************)
EXTENDS Naturals, FiniteSets

CONSTANTS
    Ids,            \* token ids
    Operators,      \* admin requests that may be served at once
    Lives,          \* values of the columns the flush writes
    Profiles        \* values of the columns only admins write

ASSUME PersistenceAssumption ==
    /\ Ids # {}
    /\ Lives # {}
    /\ Profiles # {}

Row == [life : Lives, profile : Profiles]

VARIABLES
    mem,        \* the manager's rows; only those of live ids exist
    live,       \* ids the manager holds
    dirty,      \* TokenManager.dirty
    db,         \* the tokens table
    gone,       \* ids whose row is soft-deleted or was never created
    flush,      \* the flush in progress: its stage and its copies
    op,         \* admin requests in progress
    acked,      \* history: the profile last saved for an id
    newest,     \* history: the life last given to an id, by whomever
    excused     \* history: ids two of change, flush and admin request met on

history == <<acked, newest, excused>>
vars == <<mem, live, dirty, db, gone, flush, op, acked, newest, excused>>

Flush == [stage : {"idle", "copied", "stored"}, ids : SUBSET Ids,
          life : [Ids -> Lives]]

Op == [stage : {"idle", "read", "saved", "reread", "deleted", "created"},
       id : Ids, row : Row, edit : {"life", "profile"}]

TypeOK ==
    /\ mem \in [Ids -> Row]
    /\ live \subseteq Ids
    /\ dirty \subseteq Ids
    /\ db \in [Ids -> Row]
    /\ gone \subseteq Ids
    /\ flush \in Flush
    /\ flush.stage # "idle" => flush.ids # {}
    /\ op \in [Operators -> Op]
    /\ acked \in [Ids -> Profiles]
    /\ newest \in [Ids -> Lives]
    /\ excused \subseteq Ids

Idle == [o \in Operators |-> [stage |-> "idle", id |-> CHOOSE i \in Ids : TRUE,
                              row |-> CHOOSE r \in Row : TRUE,
                              edit |-> "life"]]

NoFlush == [stage |-> "idle", ids |-> {},
            life |-> [i \in Ids |-> CHOOSE l \in Lives : TRUE]]

Init ==
    /\ db \in [Ids -> Row]
    /\ gone \in SUBSET Ids
    /\ mem = db
    /\ live = Ids \ gone
    /\ dirty = {}
    /\ flush = NoFlush
    /\ op = Idle
    /\ acked = [i \in Ids |-> db[i].profile]
    /\ newest = [i \in Ids |-> db[i].life]
    /\ excused = {}

-----------------------------------------------------------------------------
(* Memory.                                                                 *)

Flushing(i) == flush.stage # "idle" /\ i \in flush.ids

\* A change of the row is on its way to the database.
Pending(i) == (i \in live /\ i \in dirty) \/ Flushing(i)

\* An admin request has the row in hand.
Working(i) == \E o \in Operators : op[o].stage # "idle" /\ op[o].id = i

\* Any of TokenManager's updates of a row it holds.
Change(i, l) ==
    /\ i \in live
    /\ mem' = [mem EXCEPT ![i].life = l]
    /\ dirty' = dirty \cup {i}
    /\ newest' = [newest EXCEPT ![i] = l]
    /\ excused' = IF Flushing(i) \/ Working(i) THEN excused \cup {i}
                  ELSE excused \ {i}
    /\ UNCHANGED <<live, db, gone, flush, op, acked>>

\* An upstream check that outlived its row marks the id all the same.
StrayMark(i) ==
    /\ dirty' = dirty \cup {i}
    /\ excused' = IF Working(i) THEN excused \cup {i} ELSE excused
    /\ UNCHANGED <<mem, live, db, gone, flush, op, acked, newest>>

-----------------------------------------------------------------------------
(* The flush.                                                              *)

\* Mutant of FlushCopy: a transaction with nothing to write.
FlushCopyEmpty ==
    /\ flush.stage = "idle"
    /\ flush' = [stage |-> "copied", ids |-> dirty \cap live,
                 life |-> [i \in Ids |-> mem[i].life]]
    /\ UNCHANGED <<mem, live, dirty, db, gone, op, history>>

\* GetDirtyTokens; with nothing dirty there is no transaction.
FlushCopy ==
    /\ flush.stage = "idle"
    /\ dirty \cap live # {}
    /\ flush' = [stage |-> "copied", ids |-> dirty \cap live,
                 life |-> [i \in Ids |-> mem[i].life]]
    /\ UNCHANGED <<mem, live, dirty, db, gone, op, history>>

\* Mutant of FlushCommit: the whole memory row is saved.
FlushCommitWhole ==
    /\ flush.stage = "copied"
    /\ db' = [i \in Ids |-> IF i \in flush.ids \ gone THEN mem[i] ELSE db[i]]
    /\ flush' = [flush EXCEPT !.stage = "stored"]
    /\ UNCHANGED <<mem, live, dirty, gone, op, history>>

\* Mutant of FlushCommit: the update does not stop at soft-deleted rows.
FlushCommitUpsert ==
    /\ flush.stage = "copied"
    /\ db' = [i \in Ids |-> IF i \in flush.ids
                            THEN [db[i] EXCEPT !.life = flush.life[i]]
                            ELSE db[i]]
    /\ gone' = gone \ flush.ids
    /\ flush' = [flush EXCEPT !.stage = "stored"]
    /\ UNCHANGED <<mem, live, dirty, op, history>>

\* The transaction: the life columns of every copied row that still exists.
FlushCommit ==
    /\ flush.stage = "copied"
    /\ db' = [i \in Ids |-> IF i \in flush.ids \ gone
                            THEN [db[i] EXCEPT !.life = flush.life[i]]
                            ELSE db[i]]
    /\ flush' = [flush EXCEPT !.stage = "stored"]
    /\ UNCHANGED <<mem, live, dirty, gone, op, history>>

\* Mutant of FlushFail: the marks are cleared although nothing was stored.
FlushFailClearing ==
    /\ flush.stage = "copied"
    /\ dirty' = dirty \ flush.ids
    /\ flush' = [flush EXCEPT !.stage = "idle"]
    /\ UNCHANGED <<mem, live, db, gone, op, history>>

FlushFail ==
    /\ flush.stage = "copied"
    /\ flush' = [flush EXCEPT !.stage = "idle"]
    /\ UNCHANGED <<mem, live, dirty, db, gone, op, history>>

\* ClearDirty, whatever has been marked again since the copy.
FlushClear ==
    /\ flush.stage = "stored"
    /\ dirty' = dirty \ flush.ids
    /\ flush' = [flush EXCEPT !.stage = "idle"]
    /\ UNCHANGED <<mem, live, db, gone, op, history>>

-----------------------------------------------------------------------------
(* Admin handlers.                                                         *)

\* A request takes the row in hand, maybe over a change or another request.
TakenUp(i) == IF Pending(i) \/ Working(i) THEN excused \cup {i} ELSE excused

\* GetToken and the edit of the row it returned: handleUpdateToken,
\* handleReplaceToken, handleResetTokenUsage, TestVideoCapability.
Read(o, i, edit, new) ==
    /\ op[o].stage = "idle"
    /\ i \notin gone
    /\ op' = [op EXCEPT ![o] = [stage |-> "read", id |-> i, edit |-> edit,
                 row |-> IF edit = "life" THEN [db[i] EXCEPT !.life = new.life]
                         ELSE [db[i] EXCEPT !.profile = new.profile]]]
    /\ excused' = TakenUp(i)
    /\ UNCHANGED <<mem, live, dirty, db, gone, flush, acked, newest>>

\* UpdateToken is GORM's Save: every column, and an upsert when the row was
\* soft-deleted meanwhile.
Save(o) ==
    LET i == op[o].id
    IN  /\ op[o].stage = "read"
        /\ db' = [db EXCEPT ![i] = op[o].row]
        /\ gone' = gone \ {i}
        /\ op' = [op EXCEPT ![o].stage = "saved"]
        /\ acked' = [acked EXCEPT ![i] = IF op[o].edit = "profile"
                                         THEN op[o].row.profile ELSE @]
        /\ newest' = [newest EXCEPT ![i] = IF op[o].edit = "life"
                                           THEN op[o].row.life ELSE @]
        /\ UNCHANGED <<mem, live, dirty, flush, excused>>

\* handleBatchUpdate writes one column without reading the row.
BatchUpdate(o, i, edit, new) ==
    /\ op[o].stage = "idle"
    /\ i \notin gone
    /\ db' = [db EXCEPT ![i] =
                 IF edit = "life" THEN [@ EXCEPT !.life = new.life]
                 ELSE [@ EXCEPT !.profile = new.profile]]
    /\ acked' = [acked EXCEPT ![i] = IF edit = "profile" THEN new.profile ELSE @]
    /\ newest' = [newest EXCEPT ![i] = IF edit = "life" THEN new.life ELSE @]
    /\ op' = [op EXCEPT ![o] = [@ EXCEPT !.stage = "saved", !.id = i,
                                         !.edit = edit]]
    /\ excused' = TakenUp(i)
    /\ UNCHANGED <<mem, live, dirty, gone, flush>>

\* The request fails before it has written: nothing changes.
GiveUp(o) ==
    /\ op[o].stage = "read"
    /\ op' = [op EXCEPT ![o].stage = "idle"]
    /\ UNCHANGED <<mem, live, dirty, db, gone, flush, history>>

\* SyncToken reads the row again and swaps it in with RemoveToken and AddToken.
SyncRead(o) ==
    LET i == op[o].id
    IN  /\ op[o].stage = "saved"
        /\ i \notin gone
        /\ op' = [op EXCEPT ![o] = [@ EXCEPT !.stage = "reread", !.row = db[i]]]
        /\ UNCHANGED <<mem, live, dirty, db, gone, flush, history>>

\* The row is gone or the read fails: the handler logs it and answers 200.
SyncFail(o) ==
    /\ op[o].stage = "saved"
    /\ op' = [op EXCEPT ![o].stage = "idle"]
    /\ excused' = IF op[o].edit = "life" THEN excused \cup {op[o].id} ELSE excused
    /\ UNCHANGED <<mem, live, dirty, db, gone, flush, acked, newest>>

SyncSwap(o) ==
    LET i == op[o].id
    IN  /\ op[o].stage = "reread"
        /\ mem' = [mem EXCEPT ![i] = op[o].row]
        /\ live' = live \cup {i}
        /\ dirty' = IF i \in live THEN dirty \ {i} ELSE dirty
        /\ op' = [op EXCEPT ![o].stage = "idle"]
        /\ UNCHANGED <<db, gone, flush, history>>

\* handleDeleteToken and handleBatchDelete: the row, then the memory.
Delete(o, i) ==
    /\ op[o].stage = "idle"
    /\ i \notin gone
    /\ gone' = gone \cup {i}
    /\ op' = [op EXCEPT ![o] = [@ EXCEPT !.stage = "deleted", !.id = i]]
    /\ excused' = TakenUp(i)
    /\ UNCHANGED <<mem, live, dirty, db, flush, acked, newest>>

RemoveFromPool(o) ==
    LET i == op[o].id
    IN  /\ op[o].stage = "deleted"
        /\ live' = live \ {i}
        /\ dirty' = IF i \in live THEN dirty \ {i} ELSE dirty
        /\ op' = [op EXCEPT ![o].stage = "idle"]
        /\ UNCHANGED <<mem, db, gone, flush, history>>

\* handleBatchImport: a new row, then the memory.
Create(o, i, row) ==
    /\ op[o].stage = "idle"
    /\ i \in gone \ live
    /\ \A p \in Operators : op[p].stage # "idle" => op[p].id # i
    /\ ~Flushing(i)
    /\ db' = [db EXCEPT ![i] = row]
    /\ gone' = gone \ {i}
    /\ acked' = [acked EXCEPT ![i] = row.profile]
    /\ newest' = [newest EXCEPT ![i] = row.life]
    /\ excused' = excused \ {i}
    /\ op' = [op EXCEPT ![o] = [@ EXCEPT !.stage = "created", !.id = i,
                                         !.row = row]]
    /\ UNCHANGED <<mem, live, dirty, flush>>

AddToPool(o) ==
    LET i == op[o].id
    IN  /\ op[o].stage = "created"
        /\ mem' = [mem EXCEPT ![i] = op[o].row]
        /\ live' = live \cup {i}
        /\ op' = [op EXCEPT ![o].stage = "idle"]
        /\ UNCHANGED <<dirty, db, gone, flush, history>>

\* A crash and the LoadTokens of the next start.
Restart ==
    /\ mem' = db
    /\ live' = Ids \ gone
    /\ dirty' = {}
    /\ flush' = NoFlush
    /\ op' = Idle
    /\ excused' = excused \cup {i \in Ids : Pending(i) \/ Working(i)}
    /\ UNCHANGED <<db, gone, acked, newest>>

-----------------------------------------------------------------------------
FlushStep == FlushCopy \/ FlushCommit \/ FlushFail \/ FlushClear

AdminStep(o) ==
    \/ \E i \in Ids, edit \in {"life", "profile"}, new \in Row :
          Read(o, i, edit, new) \/ BatchUpdate(o, i, edit, new)
    \/ Save(o) \/ GiveUp(o)
    \/ SyncRead(o) \/ SyncFail(o) \/ SyncSwap(o)
    \/ \E i \in Ids : Delete(o, i)
    \/ RemoveFromPool(o)
    \/ \E i \in Ids, row \in Row : Create(o, i, row)
    \/ AddToPool(o)

Next ==
    \/ \E i \in Ids : StrayMark(i) \/ \E l \in Lives : Change(i, l)
    \/ FlushStep
    \/ \E o \in Operators : AdminStep(o)
    \/ Restart

Spec == Init /\ [][Next]_vars

-----------------------------------------------------------------------------
(* Properties.                                                             *)

\* The newest life of every token, whoever gave it to it, is what memory knows
\* once no admin request has the row in hand, and what the database holds once
\* no mark or flush is under way for it.  Excepted are the rows on which, since
\* their last clean change, two met of: a change not yet flushed, a flush, an
\* admin request, another one, the end of the process; and those of which an
\* edit's reload failed.  There an edit of the remark is enough to put the row
\* back to what the database had, in both (UpdateToken, SyncToken).  No other
\* path loses a change: neither a failed transaction, nor one that begins again,
\* nor an edit, an import or a reload alone.
OnlyOverlapsLoseChanges ==
    \A i \in live \ (gone \cup excused) :
        ~Working(i) => /\ mem[i].life = newest[i]
                       /\ Pending(i) \/ db[i].life = newest[i]

\* A saved edit of the admin columns survives every flush, restart and reload
\* that follows it (with one operator; two can overwrite each other's rows).
ProfileEditsSurvive ==
    \A i \in Ids \ gone : db[i].profile = acked[i]

\* No flush, edit, reload or restart brings a deleted token back, to the
\* database or to memory: only an import does (with one operator).
DeletedStaysGone ==
    [][\A i \in gone :
          /\ i \in gone' \/ \E o \in Operators, row \in Row : Create(o, i, row)
          /\ i \in live' => i \in live]_vars
=============================================================================
