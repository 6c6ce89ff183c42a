----------------------- MODULE TokenPersistenceProofs -----------------------
(***************************************************************************)
(* Proofs about TokenPersistence for any tokens, any number of operators   *)
(* and any columns.                                                        *)
(***************************************************************************)
EXTENDS TokenPersistence, TLAPS

\* What Init and a restart put into op and flush has the types.
LEMMA IdleTypes == Idle \in [Operators -> Op] /\ NoFlush \in Flush
<1>1. (CHOOSE i \in Ids : TRUE) \in Ids
  <2>1. \E i \in Ids : TRUE
    BY PersistenceAssumption
  <2> QED BY <2>1
<1>2. (CHOOSE r \in Row : TRUE) \in Row
  <2>1. \E r \in Row : TRUE
    <3>1. PICK p \in Profiles, l \in Lives : TRUE
      BY PersistenceAssumption
    <3>2. [life |-> l, profile |-> p] \in Row
      BY PersistenceAssumption DEF Row
    <3> QED BY <3>2
  <2> QED BY <2>1
<1>3. NoFlush \in Flush
  BY PersistenceAssumption DEF NoFlush, Flush
<1> QED BY <1>1, <1>2, <1>3 DEF Idle, Op

\* The initial state has the types.
LEMMA InitTypes == Init => TypeOK
  BY IdleTypes DEF Init, TypeOK, Row, NoFlush

\* No step leaves the types.
LEMMA TypeStep == TypeOK /\ [Next]_vars => TypeOK'
<1> SUFFICES ASSUME TypeOK, [Next]_vars PROVE TypeOK'
  OBVIOUS
<1> USE DEF TypeOK, history
<1>1. ASSUME NEW i \in Ids, NEW l \in Lives, Change(i, l)
      PROVE  TypeOK'
  BY <1>1 DEF Change, Row
<1>2. ASSUME NEW i \in Ids, StrayMark(i)
      PROVE  TypeOK'
  BY <1>2 DEF StrayMark
<1>3. CASE FlushCopy
  BY <1>3 DEF FlushCopy, Flush, Row
<1>4. CASE FlushCommit
  <2>1. \A i \in Ids : /\ db[i] \in Row
                      /\ [db[i] EXCEPT !.life = flush.life[i]] \in Row
    BY DEF Row, Flush
  <2>2. db' \in [Ids -> Row]
    BY <1>4, <2>1 DEF FlushCommit
  <2> QED BY <1>4, <2>2 DEF FlushCommit, Flush
<1>5. CASE FlushFail
  BY <1>5 DEF FlushFail, Flush
<1>6. CASE FlushClear
  BY <1>6 DEF FlushClear, Flush
<1>7. ASSUME NEW o \in Operators, NEW i \in Ids, NEW edit \in {"life", "profile"},
             NEW new \in Row, Read(o, i, edit, new)
      PROVE  TypeOK'
  BY <1>7 DEF Read, TakenUp, Row, Op
<1>8. ASSUME NEW o \in Operators, NEW i \in Ids, NEW edit \in {"life", "profile"},
             NEW new \in Row, BatchUpdate(o, i, edit, new)
      PROVE  TypeOK'
  <2>1. op[o] \in Op
    OBVIOUS
  <2>2. op[o].id \in Ids /\ op[o].row \in Row
    BY <2>1 DEF Op
  <2>3. [op[o] EXCEPT !.stage = "saved", !.id = i,
                    !.edit = edit] \in Op
    BY <2>1, <2>2 DEF Op
  <2>4. op' \in [Operators -> Op]
    BY <2>3, <1>8 DEF BatchUpdate
  <2> QED BY <2>2, <2>4, <1>8 DEF BatchUpdate, TakenUp, Row
<1>9. ASSUME NEW o \in Operators, Save(o)
      PROVE  TypeOK'
  <2>1. op[o] \in Op
    OBVIOUS
  <2>2. op[o].id \in Ids /\ op[o].row \in Row
    BY <2>1 DEF Op
  <2>3. [op[o] EXCEPT !.stage = "saved"] \in Op
    BY <2>1, <2>2 DEF Op
  <2>4. op' \in [Operators -> Op]
    BY <2>3, <1>9 DEF Save
  <2> QED BY <2>2, <2>4, <1>9 DEF Save, Row
<1>10. ASSUME NEW o \in Operators, GiveUp(o)
      PROVE  TypeOK'
  <2>1. op[o] \in Op
    OBVIOUS
  <2>2. op[o].id \in Ids /\ op[o].row \in Row
    BY <2>1 DEF Op
  <2>3. [op[o] EXCEPT !.stage = "idle"] \in Op
    BY <2>1, <2>2 DEF Op
  <2>4. op' \in [Operators -> Op]
    BY <2>3, <1>10 DEF GiveUp
  <2> QED BY <2>2, <2>4, <1>10 DEF GiveUp
<1>11. ASSUME NEW o \in Operators, SyncRead(o)
      PROVE  TypeOK'
  <2>1. op[o] \in Op
    OBVIOUS
  <2>2. op[o].id \in Ids /\ op[o].row \in Row
    BY <2>1 DEF Op
  <2>3. [op[o] EXCEPT !.stage = "reread", !.row = db[op[o].id]] \in Op
    BY <2>1, <2>2 DEF Op
  <2>4. op' \in [Operators -> Op]
    BY <2>3, <1>11 DEF SyncRead
  <2> QED BY <2>2, <2>4, <1>11 DEF SyncRead
<1>12. ASSUME NEW o \in Operators, SyncFail(o)
      PROVE  TypeOK'
  <2>1. op[o] \in Op
    OBVIOUS
  <2>2. op[o].id \in Ids /\ op[o].row \in Row
    BY <2>1 DEF Op
  <2>3. [op[o] EXCEPT !.stage = "idle"] \in Op
    BY <2>1, <2>2 DEF Op
  <2>4. op' \in [Operators -> Op]
    BY <2>3, <1>12 DEF SyncFail
  <2> QED BY <2>2, <2>4, <1>12 DEF SyncFail
<1>13. ASSUME NEW o \in Operators, SyncSwap(o)
      PROVE  TypeOK'
  <2>1. op[o] \in Op
    OBVIOUS
  <2>2. op[o].id \in Ids /\ op[o].row \in Row
    BY <2>1 DEF Op
  <2>3. [op[o] EXCEPT !.stage = "idle"] \in Op
    BY <2>1, <2>2 DEF Op
  <2>4. op' \in [Operators -> Op]
    BY <2>3, <1>13 DEF SyncSwap
  <2> QED BY <2>2, <2>4, <1>13 DEF SyncSwap
<1>14. ASSUME NEW o \in Operators, NEW i \in Ids, Delete(o, i)
      PROVE  TypeOK'
  <2>1. op[o] \in Op
    OBVIOUS
  <2>2. op[o].id \in Ids /\ op[o].row \in Row
    BY <2>1 DEF Op
  <2>3. [op[o] EXCEPT !.stage = "deleted", !.id = i] \in Op
    BY <2>1, <2>2 DEF Op
  <2>4. op' \in [Operators -> Op]
    BY <2>3, <1>14 DEF Delete
  <2> QED BY <2>2, <2>4, <1>14 DEF Delete, TakenUp
<1>15. ASSUME NEW o \in Operators, RemoveFromPool(o)
      PROVE  TypeOK'
  <2>1. op[o] \in Op
    OBVIOUS
  <2>2. op[o].id \in Ids /\ op[o].row \in Row
    BY <2>1 DEF Op
  <2>3. [op[o] EXCEPT !.stage = "idle"] \in Op
    BY <2>1, <2>2 DEF Op
  <2>4. op' \in [Operators -> Op]
    BY <2>3, <1>15 DEF RemoveFromPool
  <2> QED BY <2>2, <2>4, <1>15 DEF RemoveFromPool
<1>16. ASSUME NEW o \in Operators, NEW i \in Ids, NEW row \in Row, Create(o, i, row)
      PROVE  TypeOK'
  <2>1. op[o] \in Op
    OBVIOUS
  <2>2. op[o].id \in Ids /\ op[o].row \in Row
    BY <2>1 DEF Op
  <2>3. [op[o] EXCEPT !.stage = "created", !.id = i,
                    !.row = row] \in Op
    BY <2>1, <2>2 DEF Op
  <2>4. op' \in [Operators -> Op]
    BY <2>3, <1>16 DEF Create
  <2> QED BY <2>2, <2>4, <1>16 DEF Create, Row
<1>17. ASSUME NEW o \in Operators, AddToPool(o)
      PROVE  TypeOK'
  <2>1. op[o] \in Op
    OBVIOUS
  <2>2. op[o].id \in Ids /\ op[o].row \in Row
    BY <2>1 DEF Op
  <2>3. [op[o] EXCEPT !.stage = "idle"] \in Op
    BY <2>1, <2>2 DEF Op
  <2>4. op' \in [Operators -> Op]
    BY <2>3, <1>17 DEF AddToPool
  <2> QED BY <2>2, <2>4, <1>17 DEF AddToPool
<1>18. CASE Restart
  BY <1>18, IdleTypes DEF Restart, NoFlush
<1>19. CASE UNCHANGED vars
  BY <1>19 DEF vars
<1> HIDE DEF TypeOK, history
<1> QED
  BY <1>1, <1>2, <1>3, <1>4, <1>5, <1>6, <1>7, <1>8, <1>9, <1>10, <1>11,
     <1>12, <1>13, <1>14, <1>15, <1>16, <1>17, <1>18, <1>19
     DEF Next, FlushStep, AdminStep

\* The rows, the copies and the database keep their types.
THEOREM TypeCorrect == Spec => []TypeOK
  BY InitTypes, TypeStep, PTL DEF Spec

-----------------------------------------------------------------------------
(* No change is lost but by an overlap.                                    *)

\* What is put into memory is on its way there.
Settling(i) ==
    \E o \in Operators :
        /\ op[o].id = i
        /\ \/ op[o].stage = "created"
           \/ op[o].stage \in {"saved", "reread"} /\ op[o].edit = "life"

\* The row is either changed or in one request's hands.
OneAtATime(i) ==
    /\ ~(Pending(i) /\ Working(i))
    /\ \A o, p \in Operators :
          /\ op[o].stage # "idle" /\ op[o].id = i
          /\ op[p].stage # "idle" /\ op[p].id = i
          => o = p

MemoryKnows(i) == i \in live /\ ~Settling(i) => mem[i].life = newest[i]

TableKnows(i) == i \notin gone /\ ~Pending(i) => db[i].life = newest[i]

\* A copy is of the newest life, and marked until it is stored.
CopyKnows(i) ==
    /\ flush.stage = "copied" /\ i \in flush.ids =>
          flush.life[i] = newest[i] /\ i \in live /\ i \in dirty
    /\ flush.stage = "stored" /\ i \in flush.ids \ gone =>
          db[i].life = newest[i]

\* A row in a request's hands has the newest life, unless that is the edit.
HandKnows(i) ==
    \A o \in Operators :
        /\ op[o].id = i
        /\ \/ op[o].stage = "read" /\ op[o].edit = "profile"
           \/ op[o].stage \in {"reread", "created"}
        => op[o].row.life = newest[i]

Accounted(i) == /\ OneAtATime(i) /\ MemoryKnows(i) /\ TableKnows(i)
                /\ CopyKnows(i) /\ HandKnows(i)

OverlapInv == \A i \in Ids \ excused : Accounted(i)

\* Nothing is in flight at the start, and memory is the database.
LEMMA OverlapInit == Init => OverlapInv
  BY DEF Init, OverlapInv, Accounted, OneAtATime, MemoryKnows, TableKnows,
         CopyKnows, HandKnows, Pending, Working, Flushing, NoFlush, Idle

\* A step that leaves an id out of every overlap keeps account of it.
LEMMA OverlapStep == TypeOK /\ OverlapInv /\ [Next]_vars => OverlapInv'
<1> SUFFICES ASSUME TypeOK, OverlapInv, [Next]_vars,
                    NEW j \in Ids, j \notin excused'
             PROVE  Accounted(j)'
  BY DEF OverlapInv
<1> USE DEF TypeOK, history
<1>1. ASSUME NEW i \in Ids, NEW l \in Lives, Change(i, l)
      PROVE  Accounted(j)'
  <2>1. CASE i = j
    <3>1. ~Flushing(j) /\ ~Working(j)
      BY <1>1, <2>1 DEF Change
    <3>2. newest'[j] = l /\ mem'[j].life = l /\ j \in live' /\ j \in dirty'
      BY <1>1, <2>1 DEF Change, Row
    <3>3. UNCHANGED <<flush, op, gone>>
      BY <1>1 DEF Change
    <3> QED
      BY <3>1, <3>2, <3>3
         DEF Accounted, OneAtATime, MemoryKnows, TableKnows, CopyKnows, HandKnows,
             Pending, Working, Flushing, Flush
  <2>2. CASE i # j
    <3>1. Accounted(j) /\ newest'[j] = newest[j]
      BY <1>1, <2>2 DEF Change, OverlapInv
    <3>2. mem'[j] = mem[j] /\ (j \in dirty' <=> j \in dirty)
      BY <1>1, <2>2 DEF Change
    <3>3. UNCHANGED <<flush, op, gone, live, db>>
      BY <1>1 DEF Change
    <3>5. OneAtATime(j)'
      BY <2>2, <3>1, <3>2, <3>3 DEF Accounted, OneAtATime, Pending, Working, Flushing
    <3>6. MemoryKnows(j)'
      BY <2>2, <3>1, <3>2, <3>3 DEF Accounted, MemoryKnows, Settling
    <3>7. TableKnows(j)'
      BY <2>2, <3>1, <3>2, <3>3 DEF Accounted, TableKnows, Pending, Flushing
    <3>8. CopyKnows(j)'
      BY <2>2, <3>1, <3>2, <3>3 DEF Accounted, CopyKnows
    <3>9. HandKnows(j)'
      BY <2>2, <3>1, <3>2, <3>3 DEF Accounted, HandKnows
    <3> QED
      BY <3>5, <3>6, <3>7, <3>8, <3>9 DEF Accounted
  <2> QED BY <2>1, <2>2
<1>2. ASSUME NEW i \in Ids, StrayMark(i)
      PROVE  Accounted(j)'
  <2>1. Accounted(j)
    BY <1>2 DEF StrayMark, OverlapInv
  <2>3. OneAtATime(j)'
    BY <1>2, <2>1
       DEF StrayMark, Accounted, OneAtATime, Pending, Working, Flushing
  <2>4. MemoryKnows(j)'
    BY <1>2, <2>1
       DEF StrayMark, Accounted, MemoryKnows, Settling
  <2>5. TableKnows(j)'
    BY <1>2, <2>1
       DEF StrayMark, Accounted, TableKnows, Pending, Flushing
  <2>6. CopyKnows(j)'
    BY <1>2, <2>1
       DEF StrayMark, Accounted, CopyKnows
  <2>7. HandKnows(j)'
    BY <1>2, <2>1
       DEF StrayMark, Accounted, HandKnows
  <2> QED BY <2>3, <2>4, <2>5, <2>6, <2>7 DEF Accounted
<1>3. CASE FlushCopy
  <2>1. Accounted(j)
    BY <1>3 DEF FlushCopy, OverlapInv
  <2>3. OneAtATime(j)'
    BY <1>3, <2>1
       DEF FlushCopy, Accounted, OneAtATime, Pending, Working, Flushing
  <2>4. MemoryKnows(j)'
    BY <1>3, <2>1
       DEF FlushCopy, Accounted, MemoryKnows, Settling
  <2>5. TableKnows(j)'
    BY <1>3, <2>1
       DEF FlushCopy, Accounted, TableKnows, Pending, Flushing
  <2>6. CopyKnows(j)'
    BY <1>3, <2>1
       DEF FlushCopy, Accounted, CopyKnows, OneAtATime, MemoryKnows, Pending, Working, Settling
  <2>7. HandKnows(j)'
    BY <1>3, <2>1
       DEF FlushCopy, Accounted, HandKnows
  <2> QED BY <2>3, <2>4, <2>5, <2>6, <2>7 DEF Accounted
<1>4. CASE FlushCommit
  <2>1. Accounted(j)
    BY <1>4 DEF FlushCommit, OverlapInv
  <2>3. OneAtATime(j)'
    BY <1>4, <2>1
       DEF FlushCommit, Accounted, OneAtATime, Pending, Working, Flushing
  <2>4. MemoryKnows(j)'
    BY <1>4, <2>1
       DEF FlushCommit, Accounted, MemoryKnows, Settling
  <2>5. TableKnows(j)'
    BY <1>4, <2>1
       DEF FlushCommit, Accounted, TableKnows, Pending, Flushing
  <2>6. CopyKnows(j)'
    BY <1>4, <2>1
       DEF FlushCommit, Accounted, CopyKnows
  <2>7. HandKnows(j)'
    BY <1>4, <2>1
       DEF FlushCommit, Accounted, HandKnows
  <2> QED BY <2>3, <2>4, <2>5, <2>6, <2>7 DEF Accounted
<1>5. CASE FlushFail
  <2>1. Accounted(j)
    BY <1>5 DEF FlushFail, OverlapInv
  <2>3. OneAtATime(j)'
    BY <1>5, <2>1
       DEF FlushFail, Accounted, OneAtATime, Pending, Working, Flushing
  <2>4. MemoryKnows(j)'
    BY <1>5, <2>1
       DEF FlushFail, Accounted, MemoryKnows, Settling
  <2>5. TableKnows(j)'
    BY <1>5, <2>1
       DEF FlushFail, Accounted, TableKnows, CopyKnows, Pending, Flushing
  <2>6. CopyKnows(j)'
    BY <1>5, <2>1
       DEF FlushFail, CopyKnows
  <2>7. HandKnows(j)'
    BY <1>5, <2>1
       DEF FlushFail, Accounted, HandKnows
  <2> QED BY <2>3, <2>4, <2>5, <2>6, <2>7 DEF Accounted
<1>6. CASE FlushClear
  <2>1. Accounted(j)
    BY <1>6 DEF FlushClear, OverlapInv
  <2>3. OneAtATime(j)'
    BY <1>6, <2>1
       DEF FlushClear, Accounted, OneAtATime, Pending, Working, Flushing
  <2>4. MemoryKnows(j)'
    BY <1>6, <2>1
       DEF FlushClear, Accounted, MemoryKnows, Settling
  <2>5. TableKnows(j)'
    BY <1>6, <2>1
       DEF FlushClear, Accounted, TableKnows, CopyKnows, Pending, Flushing
  <2>6. CopyKnows(j)'
    BY <1>6, <2>1
       DEF FlushClear, CopyKnows
  <2>7. HandKnows(j)'
    BY <1>6, <2>1
       DEF FlushClear, Accounted, HandKnows
  <2> QED BY <2>3, <2>4, <2>5, <2>6, <2>7 DEF Accounted
<1>7. ASSUME NEW o \in Operators, NEW i \in Ids, NEW edit \in {"life", "profile"},
             NEW new \in Row, Read(o, i, edit, new)
      PROVE  Accounted(j)'
  <2>1. Accounted(j)
    BY <1>7 DEF Read, OverlapInv, TakenUp
  <2>2. /\ \A p \in Operators \ {o} : op'[p] = op[p]
        /\ op'[o].stage = "read" /\ op'[o].id = i /\ op'[o].edit = edit
    BY <1>7 DEF Read, Op
  <2>8. i = j => ~Pending(j) /\ ~Working(j)
    BY <1>7 DEF Read, TakenUp
  <2>3. OneAtATime(j)'
    BY <1>7, <2>1, <2>2, <2>8
       DEF Read, Accounted, OneAtATime, Pending, Working, Flushing
  <2>4. MemoryKnows(j)'
    BY <1>7, <2>1, <2>2, <2>8
       DEF Read, Accounted, MemoryKnows, Settling
  <2>5. TableKnows(j)'
    BY <1>7, <2>1, <2>2, <2>8
       DEF Read, Accounted, TableKnows, Pending, Flushing
  <2>6. CopyKnows(j)'
    BY <1>7, <2>1, <2>2, <2>8
       DEF Read, Accounted, CopyKnows
  <2>7. HandKnows(j)'
    BY <1>7, <2>1, <2>2, <2>8
       DEF Read, Accounted, HandKnows, TableKnows
  <2> QED BY <2>3, <2>4, <2>5, <2>6, <2>7 DEF Accounted
<1>8. ASSUME NEW o \in Operators, NEW i \in Ids, NEW edit \in {"life", "profile"},
             NEW new \in Row, BatchUpdate(o, i, edit, new)
      PROVE  Accounted(j)'
  <2>1. Accounted(j)
    BY <1>8 DEF BatchUpdate, OverlapInv, TakenUp
  <2>2. /\ \A p \in Operators \ {o} : op'[p] = op[p]
        /\ op'[o].stage = "saved" /\ op'[o].id = i /\ op'[o].edit = edit
    BY <1>8 DEF BatchUpdate, Op
  <2>8. i = j => ~Pending(j) /\ ~Working(j)
    BY <1>8 DEF BatchUpdate, TakenUp
  <2>3. OneAtATime(j)'
    BY <1>8, <2>1, <2>2, <2>8
       DEF BatchUpdate, Accounted, OneAtATime, Pending, Working, Flushing
  <2>4. MemoryKnows(j)'
    BY <1>8, <2>1, <2>2, <2>8
       DEF BatchUpdate, Accounted, MemoryKnows, Settling
  <2>5. TableKnows(j)'
    BY <1>8, <2>1, <2>2, <2>8
       DEF BatchUpdate, Accounted, TableKnows, Pending, Flushing
  <2>6. CopyKnows(j)'
    BY <1>8, <2>1, <2>2, <2>8
       DEF BatchUpdate, Accounted, CopyKnows, Pending
  <2>7. HandKnows(j)'
    BY <1>8, <2>1, <2>2, <2>8
       DEF BatchUpdate, Accounted, HandKnows, Working
  <2> QED BY <2>3, <2>4, <2>5, <2>6, <2>7 DEF Accounted
<1>9. ASSUME NEW o \in Operators, Save(o)
      PROVE  Accounted(j)'
  <2>1. Accounted(j)
    BY <1>9 DEF Save, OverlapInv
  <2>2. /\ \A p \in Operators \ {o} : op'[p] = op[p]
        /\ op'[o] = [op[o] EXCEPT !.stage = "saved"]
    BY <1>9 DEF Save, Op
  <2>8. op[o] \in Op /\ op[o].stage # "idle"
    BY <1>9 DEF Save, Op
  <2>9. op[o].id = j => ~Pending(j)
    BY <2>1, <2>8 DEF Accounted, OneAtATime, Working
  <2>3. OneAtATime(j)'
    BY <1>9, <2>1, <2>2, <2>8, <2>9
       DEF Save, Accounted, OneAtATime, Pending, Working, Flushing
  <2>4. MemoryKnows(j)'
    BY <1>9, <2>1, <2>2, <2>8, <2>9
       DEF Save, Accounted, MemoryKnows, Settling
  <2>5. TableKnows(j)'
    BY <1>9, <2>1, <2>2, <2>8, <2>9
       DEF Save, Accounted, TableKnows, HandKnows, Pending, Flushing, Op
  <2>6. CopyKnows(j)'
    BY <1>9, <2>1, <2>2, <2>8, <2>9
       DEF Save, Accounted, CopyKnows, Pending, Flushing
  <2>7. HandKnows(j)'
    BY <1>9, <2>1, <2>2, <2>8, <2>9
       DEF Save, Accounted, HandKnows, OneAtATime
  <2> QED BY <2>3, <2>4, <2>5, <2>6, <2>7 DEF Accounted
<1>10. ASSUME NEW o \in Operators, GiveUp(o)
      PROVE  Accounted(j)'
  <2>1. Accounted(j)
    BY <1>10 DEF GiveUp, OverlapInv
  <2>2. /\ \A p \in Operators \ {o} : op'[p] = op[p]
        /\ op'[o].stage = "idle"
    BY <1>10 DEF GiveUp, Op
  <2>8. op[o] \in Op /\ op[o].stage # "idle"
    BY <1>10 DEF GiveUp, Op
  <2>9. op[o].id = j => ~Pending(j)
    BY <2>1, <2>8 DEF Accounted, OneAtATime, Working
  <2>3. OneAtATime(j)'
    BY <1>10, <2>1, <2>2, <2>8, <2>9
       DEF GiveUp, Accounted, OneAtATime, Pending, Working, Flushing
  <2>4. MemoryKnows(j)'
    BY <1>10, <2>1, <2>2, <2>8, <2>9
       DEF GiveUp, Accounted, MemoryKnows, Settling
  <2>5. TableKnows(j)'
    BY <1>10, <2>1, <2>2, <2>8, <2>9
       DEF GiveUp, Accounted, TableKnows, Pending, Flushing
  <2>6. CopyKnows(j)'
    BY <1>10, <2>1, <2>2, <2>8, <2>9
       DEF GiveUp, Accounted, CopyKnows
  <2>7. HandKnows(j)'
    BY <1>10, <2>1, <2>2, <2>8, <2>9
       DEF GiveUp, Accounted, HandKnows
  <2> QED BY <2>3, <2>4, <2>5, <2>6, <2>7 DEF Accounted
<1>11. ASSUME NEW o \in Operators, SyncRead(o)
      PROVE  Accounted(j)'
  <2>1. Accounted(j)
    BY <1>11 DEF SyncRead, OverlapInv
  <2>2. /\ \A p \in Operators \ {o} : op'[p] = op[p]
        /\ op'[o] = [op[o] EXCEPT !.stage = "reread", !.row = db[op[o].id]]
    BY <1>11 DEF SyncRead, Op
  <2>8. op[o] \in Op /\ op[o].stage # "idle"
    BY <1>11 DEF SyncRead, Op
  <2>9. op[o].id = j => ~Pending(j)
    BY <2>1, <2>8 DEF Accounted, OneAtATime, Working
  <2>3. OneAtATime(j)'
    BY <1>11, <2>1, <2>2, <2>8, <2>9
       DEF SyncRead, Accounted, OneAtATime, Pending, Working, Flushing
  <2>4. MemoryKnows(j)'
    BY <1>11, <2>1, <2>2, <2>8, <2>9
       DEF SyncRead, Accounted, MemoryKnows, Settling
  <2>5. TableKnows(j)'
    BY <1>11, <2>1, <2>2, <2>8, <2>9
       DEF SyncRead, Accounted, TableKnows, Pending, Flushing
  <2>6. CopyKnows(j)'
    BY <1>11, <2>1, <2>2, <2>8, <2>9
       DEF SyncRead, Accounted, CopyKnows
  <2>7. HandKnows(j)'
    BY <1>11, <2>1, <2>2, <2>8, <2>9
       DEF SyncRead, Accounted, HandKnows, TableKnows
  <2> QED BY <2>3, <2>4, <2>5, <2>6, <2>7 DEF Accounted
<1>12. ASSUME NEW o \in Operators, SyncFail(o)
      PROVE  Accounted(j)'
  <2>1. Accounted(j)
    BY <1>12 DEF SyncFail, OverlapInv
  <2>2. /\ \A p \in Operators \ {o} : op'[p] = op[p]
        /\ op'[o].stage = "idle"
    BY <1>12 DEF SyncFail, Op
  <2>8. op[o] \in Op /\ op[o].stage # "idle"
    BY <1>12 DEF SyncFail, Op
  <2>9. op[o].id = j => ~Pending(j)
    BY <2>1, <2>8 DEF Accounted, OneAtATime, Working
  <2>3. OneAtATime(j)'
    BY <1>12, <2>1, <2>2, <2>8, <2>9
       DEF SyncFail, Accounted, OneAtATime, Pending, Working, Flushing
  <2>4. MemoryKnows(j)'
    BY <1>12, <2>1, <2>2, <2>8, <2>9
       DEF SyncFail, Accounted, MemoryKnows, Settling
  <2>5. TableKnows(j)'
    BY <1>12, <2>1, <2>2, <2>8, <2>9
       DEF SyncFail, Accounted, TableKnows, Pending, Flushing
  <2>6. CopyKnows(j)'
    BY <1>12, <2>1, <2>2, <2>8, <2>9
       DEF SyncFail, Accounted, CopyKnows
  <2>7. HandKnows(j)'
    BY <1>12, <2>1, <2>2, <2>8, <2>9
       DEF SyncFail, Accounted, HandKnows
  <2> QED BY <2>3, <2>4, <2>5, <2>6, <2>7 DEF Accounted
<1>13. ASSUME NEW o \in Operators, SyncSwap(o)
      PROVE  Accounted(j)'
  <2>1. Accounted(j)
    BY <1>13 DEF SyncSwap, OverlapInv
  <2>2. /\ \A p \in Operators \ {o} : op'[p] = op[p]
        /\ op'[o].stage = "idle"
    BY <1>13 DEF SyncSwap, Op
  <2>8. op[o] \in Op /\ op[o].stage # "idle"
    BY <1>13 DEF SyncSwap, Op
  <2>9. op[o].id = j => ~Pending(j)
    BY <2>1, <2>8 DEF Accounted, OneAtATime, Working
  <2>3. OneAtATime(j)'
    BY <1>13, <2>1, <2>2, <2>8, <2>9
       DEF SyncSwap, Accounted, OneAtATime, Pending, Working, Flushing
  <2>4. MemoryKnows(j)'
    BY <1>13, <2>1, <2>2, <2>8, <2>9
       DEF SyncSwap, Accounted, MemoryKnows, HandKnows, Settling
  <2>5. TableKnows(j)'
    BY <1>13, <2>1, <2>2, <2>8, <2>9
       DEF SyncSwap, Accounted, TableKnows, Pending, Flushing
  <2>6. CopyKnows(j)'
    BY <1>13, <2>1, <2>2, <2>8, <2>9
       DEF SyncSwap, Accounted, CopyKnows, Pending
  <2>7. HandKnows(j)'
    BY <1>13, <2>1, <2>2, <2>8, <2>9
       DEF SyncSwap, Accounted, HandKnows
  <2> QED BY <2>3, <2>4, <2>5, <2>6, <2>7 DEF Accounted
<1>14. ASSUME NEW o \in Operators, NEW i \in Ids, Delete(o, i)
      PROVE  Accounted(j)'
  <2>1. Accounted(j)
    BY <1>14 DEF Delete, OverlapInv, TakenUp
  <2>2. /\ \A p \in Operators \ {o} : op'[p] = op[p]
        /\ op'[o].stage = "deleted" /\ op'[o].id = i
    BY <1>14 DEF Delete, Op
  <2>8. i = j => ~Pending(j) /\ ~Working(j)
    BY <1>14 DEF Delete, TakenUp
  <2>3. OneAtATime(j)'
    BY <1>14, <2>1, <2>2, <2>8
       DEF Delete, Accounted, OneAtATime, Pending, Working, Flushing
  <2>4. MemoryKnows(j)'
    BY <1>14, <2>1, <2>2, <2>8
       DEF Delete, Accounted, MemoryKnows, Settling
  <2>5. TableKnows(j)'
    BY <1>14, <2>1, <2>2, <2>8
       DEF Delete, Accounted, TableKnows, Pending, Flushing
  <2>6. CopyKnows(j)'
    BY <1>14, <2>1, <2>2, <2>8
       DEF Delete, Accounted, CopyKnows
  <2>7. HandKnows(j)'
    BY <1>14, <2>1, <2>2, <2>8
       DEF Delete, Accounted, HandKnows
  <2> QED BY <2>3, <2>4, <2>5, <2>6, <2>7 DEF Accounted
<1>15. ASSUME NEW o \in Operators, RemoveFromPool(o)
      PROVE  Accounted(j)'
  <2>1. Accounted(j)
    BY <1>15 DEF RemoveFromPool, OverlapInv
  <2>2. /\ \A p \in Operators \ {o} : op'[p] = op[p]
        /\ op'[o].stage = "idle"
    BY <1>15 DEF RemoveFromPool, Op
  <2>8. op[o] \in Op /\ op[o].stage # "idle"
    BY <1>15 DEF RemoveFromPool, Op
  <2>9. op[o].id = j => ~Pending(j)
    BY <2>1, <2>8 DEF Accounted, OneAtATime, Working
  <2>3. OneAtATime(j)'
    BY <1>15, <2>1, <2>2, <2>8, <2>9
       DEF RemoveFromPool, Accounted, OneAtATime, Pending, Working, Flushing
  <2>4. MemoryKnows(j)'
    BY <1>15, <2>1, <2>2, <2>8, <2>9
       DEF RemoveFromPool, Accounted, MemoryKnows, Settling
  <2>5. TableKnows(j)'
    BY <1>15, <2>1, <2>2, <2>8, <2>9
       DEF RemoveFromPool, Accounted, TableKnows, Pending, Flushing
  <2>6. CopyKnows(j)'
    BY <1>15, <2>1, <2>2, <2>8, <2>9
       DEF RemoveFromPool, Accounted, CopyKnows, Pending
  <2>7. HandKnows(j)'
    BY <1>15, <2>1, <2>2, <2>8, <2>9
       DEF RemoveFromPool, Accounted, HandKnows
  <2> QED BY <2>3, <2>4, <2>5, <2>6, <2>7 DEF Accounted
<1>16. ASSUME NEW o \in Operators, NEW i \in Ids, NEW row \in Row, Create(o, i, row)
      PROVE  Accounted(j)'
  <2>1. CASE i = j
    <3>1. /\ ~Flushing(j) /\ j \notin live
          /\ \A p \in Operators : op[p].stage # "idle" => op[p].id # j
      BY <1>16, <2>1 DEF Create
    <3>2. /\ \A p \in Operators \ {o} : op'[p] = op[p]
          /\ op'[o].stage = "created" /\ op'[o].id = j /\ op'[o].row = row
      BY <1>16, <2>1 DEF Create, Op
    <3>3. newest'[j] = row.life /\ db'[j] = row
      BY <1>16, <2>1 DEF Create, Row
    <3>4. UNCHANGED <<flush, live, dirty>>
      BY <1>16 DEF Create
    <3>5. OneAtATime(j)'
      BY <3>1, <3>2, <3>4 DEF OneAtATime, Pending, Working, Flushing
    <3>6. MemoryKnows(j)' /\ TableKnows(j)'
      BY <3>1, <3>3, <3>4 DEF MemoryKnows, TableKnows
    <3>7. CopyKnows(j)'
      BY <3>1, <3>4 DEF CopyKnows, Flushing
    <3>8. HandKnows(j)'
      BY <3>1, <3>2, <3>3 DEF HandKnows
    <3> QED
      BY <3>5, <3>6, <3>7, <3>8 DEF Accounted
  <2>2. CASE i # j
    <3>1. Accounted(j) /\ newest'[j] = newest[j]
      BY <1>16, <2>2 DEF Create, OverlapInv
    <3>2. db'[j] = db[j] /\ (j \in gone' <=> j \in gone)
      BY <1>16, <2>2 DEF Create
    <3>3. UNCHANGED <<flush, live, dirty, mem>>
      BY <1>16 DEF Create
    <3>4. /\ \A p \in Operators \ {o} : op'[p] = op[p]
          /\ op'[o].id = i /\ op[o].stage = "idle"
      BY <1>16, <2>2 DEF Create, Op
    <3>5. OneAtATime(j)'
      BY <2>2, <3>1, <3>2, <3>3, <3>4 DEF Accounted, OneAtATime, Pending, Working, Flushing
    <3>6. MemoryKnows(j)'
      BY <2>2, <3>1, <3>2, <3>3, <3>4 DEF Accounted, MemoryKnows, Settling
    <3>7. TableKnows(j)'
      BY <2>2, <3>1, <3>2, <3>3, <3>4 DEF Accounted, TableKnows, Pending, Flushing
    <3>8. CopyKnows(j)'
      BY <2>2, <3>1, <3>2, <3>3, <3>4 DEF Accounted, CopyKnows
    <3>9. HandKnows(j)'
      BY <2>2, <3>1, <3>2, <3>3, <3>4 DEF Accounted, HandKnows
    <3> QED
      BY <3>5, <3>6, <3>7, <3>8, <3>9 DEF Accounted
  <2> QED BY <2>1, <2>2
<1>17. ASSUME NEW o \in Operators, AddToPool(o)
      PROVE  Accounted(j)'
  <2>1. Accounted(j)
    BY <1>17 DEF AddToPool, OverlapInv
  <2>2. /\ \A p \in Operators \ {o} : op'[p] = op[p]
        /\ op'[o].stage = "idle"
    BY <1>17 DEF AddToPool, Op
  <2>8. op[o] \in Op /\ op[o].stage # "idle"
    BY <1>17 DEF AddToPool, Op
  <2>9. op[o].id = j => ~Pending(j)
    BY <2>1, <2>8 DEF Accounted, OneAtATime, Working
  <2>3. OneAtATime(j)'
    BY <1>17, <2>1, <2>2, <2>8, <2>9
       DEF AddToPool, Accounted, OneAtATime, Pending, Working, Flushing
  <2>4. MemoryKnows(j)'
    BY <1>17, <2>1, <2>2, <2>8, <2>9
       DEF AddToPool, Accounted, MemoryKnows, HandKnows, Settling
  <2>5. TableKnows(j)'
    BY <1>17, <2>1, <2>2, <2>8, <2>9
       DEF AddToPool, Accounted, TableKnows, Pending, Flushing
  <2>6. CopyKnows(j)'
    BY <1>17, <2>1, <2>2, <2>8, <2>9
       DEF AddToPool, Accounted, CopyKnows
  <2>7. HandKnows(j)'
    BY <1>17, <2>1, <2>2, <2>8, <2>9
       DEF AddToPool, Accounted, HandKnows
  <2> QED BY <2>3, <2>4, <2>5, <2>6, <2>7 DEF Accounted
<1>18. CASE Restart
  <2>1. Accounted(j) /\ ~Pending(j) /\ ~Working(j)
    BY <1>18 DEF Restart, OverlapInv
  <2>2. j \notin gone => db[j].life = newest[j]
    BY <2>1 DEF Accounted, TableKnows
  <2>3. /\ op' = Idle /\ flush' = NoFlush /\ dirty' = {} /\ mem' = db
        /\ live' = Ids \ gone /\ UNCHANGED <<db, gone, newest>>
    BY <1>18 DEF Restart
  <2> QED
    BY <2>2, <2>3 DEF Accounted, OneAtATime, MemoryKnows, TableKnows, CopyKnows,
       HandKnows, Pending, Working, Flushing, NoFlush, Idle
<1>19. CASE UNCHANGED vars
  BY <1>19 DEF vars, OverlapInv, Accounted, OneAtATime, MemoryKnows, TableKnows,
     CopyKnows, HandKnows, Pending, Working, Flushing, Settling
<1> HIDE DEF TypeOK, history
<1> QED
  BY <1>1, <1>2, <1>3, <1>4, <1>5, <1>6, <1>7, <1>8, <1>9, <1>10, <1>11,
     <1>12, <1>13, <1>14, <1>15, <1>16, <1>17, <1>18, <1>19
     DEF Next, FlushStep, AdminStep

\* A token's newest life is in memory, and in the database unless a mark says it
\* is not, but where two changes, flushes or requests met on it.
THEOREM OnlyOverlaps == Spec => []OnlyOverlapsLoseChanges
<1>1. TypeOK /\ OverlapInv => OnlyOverlapsLoseChanges
  <2> SUFFICES ASSUME TypeOK, OverlapInv, NEW i \in live \ (gone \cup excused),
                      ~Working(i)
               PROVE  /\ mem[i].life = newest[i]
                      /\ Pending(i) \/ db[i].life = newest[i]
    BY DEF OnlyOverlapsLoseChanges
  <2> QED
    BY DEF OverlapInv, Accounted, MemoryKnows, TableKnows, Settling, Working, TypeOK
<1> QED
  BY <1>1, InitTypes, TypeStep, OverlapInit, OverlapStep, PTL DEF Spec
-----------------------------------------------------------------------------
(* What holds when admin requests come one after another.                  *)

OneByOne == \A o, p \in Operators : o = p

\* The row a request has read is still there, with the profile last saved if
\* that is not what the request edits.
HeldInv ==
    \A o \in Operators :
        /\ op[o].stage \in {"read", "reread", "created"} => op[o].id \notin gone
        /\ op[o].stage = "read" /\ op[o].edit = "life" =>
              op[o].row.profile = acked[op[o].id]

\* At the start nothing is read, and every profile is the one saved last.
LEMMA EditsInit == Init => HeldInv /\ ProfileEditsSurvive
  BY DEF Init, HeldInv, ProfileEditsSurvive, Idle

\* With one request at a time no step takes its row away.
LEMMA EditsStep ==
    ASSUME OneByOne, TypeOK, HeldInv, ProfileEditsSurvive, [Next]_vars
    PROVE  HeldInv' /\ ProfileEditsSurvive'
<1> USE DEF TypeOK, history, HeldInv, ProfileEditsSurvive
<1>1. ASSUME NEW i \in Ids, NEW l \in Lives, Change(i, l)
      PROVE  HeldInv' /\ ProfileEditsSurvive'
  BY <1>1 DEF Change
<1>2. ASSUME NEW i \in Ids, StrayMark(i)
      PROVE  HeldInv' /\ ProfileEditsSurvive'
  BY <1>2 DEF StrayMark
<1>3. CASE FlushCopy
  BY <1>3 DEF FlushCopy
<1>4. CASE FlushCommit
  <2>1. \A i \in Ids : db'[i].profile = db[i].profile
    BY <1>4 DEF FlushCommit, Row
  <2> QED BY <1>4, <2>1 DEF FlushCommit
<1>5. CASE FlushFail
  BY <1>5 DEF FlushFail
<1>6. CASE FlushClear
  BY <1>6 DEF FlushClear
<1>7. ASSUME NEW o \in Operators, NEW i \in Ids, NEW edit \in {"life", "profile"},
             NEW new \in Row, Read(o, i, edit, new)
      PROVE  HeldInv' /\ ProfileEditsSurvive'
  <2>1. op'[o].stage = "read" /\ op'[o].id = i /\ op'[o].edit = edit
    BY <1>7 DEF Read
  <2>2. edit = "life" => op'[o].row.profile = db[i].profile
    BY <1>7 DEF Read, Row
  <2>3. \A p \in Operators : p = o
    BY DEF OneByOne
  <2> QED BY <1>7, <2>1, <2>2, <2>3 DEF Read
<1>8. ASSUME NEW o \in Operators, NEW i \in Ids, NEW edit \in {"life", "profile"},
             NEW new \in Row, BatchUpdate(o, i, edit, new)
      PROVE  HeldInv' /\ ProfileEditsSurvive'
  <2>1. op'[o].stage = "saved" /\ \A p \in Operators : p = o
    BY <1>8 DEF BatchUpdate, Op, OneByOne
  <2>2. db'[i].profile = acked'[i]
    BY <1>8 DEF BatchUpdate, Row
  <2>3. \A j \in Ids \ {i} : db'[j] = db[j] /\ acked'[j] = acked[j]
    BY <1>8 DEF BatchUpdate
  <2> QED BY <1>8, <2>1, <2>2, <2>3 DEF BatchUpdate
<1>9. ASSUME NEW o \in Operators, Save(o)
      PROVE  HeldInv' /\ ProfileEditsSurvive'
  <2>1. op'[o].stage = "saved" /\ \A p \in Operators : p = o
    BY <1>9 DEF Save, Op, OneByOne
  <2>2. op[o].id \in Ids /\ op[o].edit \in {"life", "profile"}
    BY DEF Op
  <2>3. db'[op[o].id].profile = acked'[op[o].id]
    BY <1>9, <2>2 DEF Save
  <2>4. \A j \in Ids \ {op[o].id} : db'[j] = db[j] /\ acked'[j] = acked[j]
    BY <1>9, <2>2 DEF Save
  <2>5. gone' \subseteq gone /\ \A j \in Ids \ {op[o].id} : j \in gone' <=> j \in gone
    BY <1>9 DEF Save
  <2> QED BY <2>1, <2>2, <2>3, <2>4, <2>5
<1>10. ASSUME NEW o \in Operators,
              \/ GiveUp(o) \/ SyncFail(o) \/ SyncSwap(o) \/ RemoveFromPool(o)
              \/ AddToPool(o)
       PROVE  HeldInv' /\ ProfileEditsSurvive'
  <2>1. op' = [op EXCEPT ![o].stage = "idle"] /\ UNCHANGED <<db, gone, acked>>
    BY <1>10 DEF GiveUp, SyncFail, SyncSwap, RemoveFromPool, AddToPool
  <2>2. op'[o].stage = "idle" /\ \A p \in Operators : p = o
    BY <2>1 DEF Op, OneByOne
  <2> QED BY <2>1, <2>2
<1>11. ASSUME NEW o \in Operators, SyncRead(o)
       PROVE  HeldInv' /\ ProfileEditsSurvive'
  <2>1. /\ op'[o].stage = "reread" /\ op'[o].id = op[o].id
        /\ \A p \in Operators : p = o
    BY <1>11 DEF SyncRead, Op, OneByOne
  <2> QED BY <1>11, <2>1 DEF SyncRead
<1>12. ASSUME NEW o \in Operators, NEW i \in Ids, Delete(o, i)
       PROVE  HeldInv' /\ ProfileEditsSurvive'
  <2>1. op'[o].stage = "deleted" /\ \A p \in Operators : p = o
    BY <1>12 DEF Delete, Op, OneByOne
  <2> QED BY <1>12, <2>1 DEF Delete
<1>13. ASSUME NEW o \in Operators, NEW i \in Ids, NEW row \in Row, Create(o, i, row)
       PROVE  HeldInv' /\ ProfileEditsSurvive'
  <2>1. /\ op'[o].stage = "created" /\ op'[o].id = i
        /\ \A p \in Operators : p = o
    BY <1>13 DEF Create, Op, OneByOne
  <2>2. db'[i].profile = acked'[i]
    BY <1>13 DEF Create
  <2>3. \A j \in Ids \ {i} : db'[j] = db[j] /\ acked'[j] = acked[j]
    BY <1>13 DEF Create
  <2> QED BY <1>13, <2>1, <2>2, <2>3 DEF Create
<1>14. CASE Restart
  BY <1>14 DEF Restart, Idle
<1>15. CASE UNCHANGED vars
  BY <1>15 DEF vars
<1> QED
  BY <1>1, <1>2, <1>3, <1>4, <1>5, <1>6, <1>7, <1>8, <1>9, <1>10, <1>11, <1>12,
     <1>13, <1>14, <1>15 DEF Next, FlushStep, AdminStep

\* While admin requests come one by one, an edit that was saved survives every
\* flush, reload and restart, for any tokens and columns.
THEOREM EditsSurvive ==
    ASSUME OneByOne
    PROVE  Spec => []ProfileEditsSurvive
<1>1. TypeOK /\ (HeldInv /\ ProfileEditsSurvive) /\ [Next]_vars
      => (HeldInv /\ ProfileEditsSurvive)'
  BY EditsStep
<1> QED BY EditsInit, <1>1, TypeCorrect, PTL DEF Spec

\* A deleted token: a step brings it back only by an import.
StaysGone ==
    \A i \in gone :
        /\ i \in gone' \/ \E o \in Operators, row \in Row : Create(o, i, row)
        /\ i \in live' => i \in live

\* Every step keeps deleted tokens deleted, but for an import.
LEMMA GoneStep ==
    ASSUME TypeOK, HeldInv, [Next]_vars
    PROVE  StaysGone
<1> USE DEF TypeOK, history, HeldInv
<1>1. ASSUME NEW i \in Ids, StrayMark(i) \/ \E l \in Lives : Change(i, l)
      PROVE  StaysGone
  BY <1>1 DEF Change, StrayMark, StaysGone
<1>2. CASE FlushStep
  BY <1>2 DEF FlushStep, FlushCopy, FlushCommit, FlushFail, FlushClear, StaysGone
<1>3. ASSUME NEW o \in Operators, NEW i \in Ids, NEW edit \in {"life", "profile"},
             NEW new \in Row, Read(o, i, edit, new) \/ BatchUpdate(o, i, edit, new)
      PROVE  StaysGone
  BY <1>3 DEF Read, BatchUpdate, StaysGone
<1>4. ASSUME NEW o \in Operators,
             \/ GiveUp(o) \/ SyncRead(o) \/ SyncFail(o) \/ RemoveFromPool(o)
      PROVE  StaysGone
  BY <1>4 DEF GiveUp, SyncRead, SyncFail, RemoveFromPool, StaysGone
<1>5. ASSUME NEW o \in Operators, Save(o) PROVE StaysGone
  BY <1>5 DEF Save, StaysGone
<1>6. ASSUME NEW o \in Operators, SyncSwap(o) \/ AddToPool(o) PROVE StaysGone
  BY <1>6 DEF SyncSwap, AddToPool, StaysGone
<1>7. ASSUME NEW o \in Operators, NEW i \in Ids, Delete(o, i) PROVE StaysGone
  BY <1>7 DEF Delete, StaysGone
<1>8. ASSUME NEW o \in Operators, NEW i \in Ids, NEW row \in Row, Create(o, i, row)
      PROVE  StaysGone
  <2>1. gone' = gone \ {i} /\ live' = live
    BY <1>8 DEF Create
  <2>2. \E p \in Operators, r \in Row : Create(p, i, r)
    BY <1>8
  <2> QED BY <2>1, <2>2 DEF StaysGone
<1>9. CASE Restart
  BY <1>9 DEF Restart, StaysGone
<1>10. CASE UNCHANGED vars
  BY <1>10 DEF vars, StaysGone
<1>11. ASSUME NEW o \in Operators, AdminStep(o) PROVE StaysGone
  BY <1>3, <1>4, <1>5, <1>6, <1>7, <1>8, <1>11 DEF AdminStep
<1>12. CASE Next
  BY <1>1, <1>2, <1>9, <1>11, <1>12 DEF Next
<1> QED BY <1>10, <1>12

\* While admin requests come one by one, nothing but an import brings a deleted
\* token back, to the table or to memory.
THEOREM DeletedStaysDeleted ==
    ASSUME OneByOne
    PROVE  Spec => DeletedStaysGone
<1>1. TypeOK /\ (HeldInv /\ ProfileEditsSurvive) /\ [Next]_vars
      => (HeldInv /\ ProfileEditsSurvive)'
  BY EditsStep
<1>2. TypeOK /\ HeldInv /\ [Next]_vars => [StaysGone]_vars
  BY GoneStep
<1>3. [][StaysGone]_vars => DeletedStaysGone
  BY PTL DEF StaysGone, DeletedStaysGone
<1> QED BY EditsInit, <1>1, <1>2, <1>3, TypeCorrect, PTL DEF Spec
=============================================================================
