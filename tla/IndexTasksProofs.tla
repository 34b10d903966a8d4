--------------------------- MODULE IndexTasksProofs ---------------------------
(***************************************************************************)
(* Proofs about IndexTasks, for any nodes, documents and batch size.        *)
(*                                                                          *)
(* The locks (InvLocks) show that no two workers have the same task.  That  *)
(* nothing is forgotten rests on InvKnown, which says that a deletion is    *)
(* written only when its document is gone for good, so that no worker takes *)
(* a living document out of the search store or its metadata from under it, *)
(* and on InvWork, which says what the batch of a worker has achieved at    *)
(* each of its steps for the tasks that have not failed.                    *)
(***************************************************************************)
EXTENDS IndexTasks, TLAPS

Known(t) == t.doc \in created /\ (t.op = "delete" => t.doc \notin alive)
InvKnown ==
  /\ \A t \in tasks : Known(t)
  /\ \A n \in Nodes : \A t \in chan[n] \cup todo[n] \cup held[n] : Known(t)
  /\ \A n \in Nodes : docs[n] \subseteq created /\ gone[n] \subseteq created \ alive
  /\ alive \subseteq meta

InvLocks == \A n \in Nodes : \A t \in held[n] : LockKey(t) \in locks

Living(n) == {t \in held[n] \ failed[n] : t.op = "insert" /\ t.doc \in alive}
WorkOK(n) ==
  /\ pc[n] = "build" => \A t \in Living(n) \ todo[n] : t.doc \in docs[n]
  /\ pc[n] = "index" => \A t \in Living(n) : t.doc \in docs[n]
  /\ pc[n] \in {"unindex", "clear"} => \A t \in Living(n) : t.doc \in search
InvWork == \A n \in Nodes : WorkOK(n)

(* A deleted document was taken out of the search store, or will be.        *)
InvUnindexed ==
  \A n \in Nodes :
    pc[n] = "clear" => \A t \in held[n] \ failed[n] : t.op = "delete" => t.doc \in unindexed
InvGone ==
  \A d \in created \ alive : d \in unindexed \/ \E t \in tasks : t.doc = d /\ t.op = "delete"

LockInv == TypeOK /\ InvKnown /\ InvLocks /\ OneWorkerPerTask
WorkInv == LockInv /\ InvWork /\ NothingForgotten
GoneInv == LockInv /\ InvUnindexed /\ InvGone

-----------------------------------------------------------------------------
(* Steps *)

LEMMA TaskFacts ==
  ASSUME NEW d \in Docs, NEW due \in 0..1
  PROVE  Insert(d, due) \in Task /\ Delete(d, due) \in Task
BY DEF Task, Insert, Delete

LEMMA KeyFacts ==
  ASSUME NEW t \in Task
  PROVE  LockKey(t) \in Key
BY DEF Task, LockKey, Key

LEMMA TypeStep ==
  ASSUME TypeOK, InvKnown, [Next]_vars
  PROVE  TypeOK'
<1>1. ASSUME NEW d \in Docs, Ingest(d) PROVE TypeOK'
  BY <1>1, TaskFacts DEF TypeOK, Ingest, queue, stores, worker, batch, Fault, NoFault, PcStates
<1>2. ASSUME NEW d \in Docs, DeleteDocument(d) PROVE TypeOK'
  BY <1>2, TaskFacts DEF TypeOK, DeleteDocument, queue, stores, worker, batch, Fault, NoFault, PcStates, Docs
<1>3. CASE ReindexList
  BY <1>3 DEF TypeOK, ReindexList, queue, stores, worker, batch, Fault, NoFault, PcStates
<1>4. CASE ReindexWrite
  <2>1. \A due \in 0..1 : {Insert(e, due) : e \in listed} \subseteq Task
    BY TaskFacts DEF TypeOK
  <2>2. tasks' \subseteq Task
    BY <1>4, <2>1, ReindexDueAssumption DEF ReindexWrite, TypeOK
  <2>3. QED
    BY <1>4, <2>2 DEF TypeOK, ReindexWrite, queue, stores, worker, batch, Fault, NoFault, PcStates
<1>5. ASSUME NEW n \in Nodes, Scan(n) PROVE TypeOK'
  BY <1>5 DEF TypeOK, Scan, queue, stores, worker, batch, Fault, NoFault, PcStates
<1>6. ASSUME NEW n \in Nodes, Receive(n) PROVE TypeOK'
  BY <1>6 DEF TypeOK, Receive, queue, stores, worker, batch, Fault, NoFault, PcStates
<1>7. ASSUME NEW n \in Nodes, TryLock(n) PROVE TypeOK'
  <2>1. locks' \subseteq Key
    BY <1>7, KeyFacts DEF TypeOK, TryLock
  <2>2. held' \in [Nodes -> SUBSET Task]
    BY <1>7 DEF TypeOK, TryLock
  <2>3. todo' \in [Nodes -> SUBSET Task]
    <3>1. PICK t \in todo[n] :
            todo' = [todo EXCEPT ![n] = IF @ = {t} THEN held'[n] ELSE @ \ {t}]
      BY <1>7 DEF TryLock
    <3>2. held'[n] \in SUBSET Task /\ todo[n] \ {t} \in SUBSET Task
      BY <2>2 DEF TypeOK
    <3>3. QED
      BY <3>1, <3>2 DEF TypeOK
  <2>4. pc' \in [Nodes -> PcStates]
    BY <1>7 DEF TypeOK, TryLock, PcStates
  <2>5. faulted' \in Nat
    BY <1>7 DEF TypeOK, TryLock, Fault, NoFault
  <2>6. QED
    BY <1>7, <2>1, <2>2, <2>3, <2>4, <2>5 DEF TypeOK, TryLock, queue, stores
<1>8. ASSUME NEW n \in Nodes, Build(n) PROVE TypeOK'
  <2>1. PICK t \in todo[n] :
            /\ todo' = [todo EXCEPT ![n] = @ \ {t}]
            /\ \/ /\ docs' = [docs EXCEPT ![n] = @ \cup
                                IF t.op = "insert" THEN {t.doc} \cap meta ELSE {}]
                  /\ gone' = [gone EXCEPT ![n] = @ \cup
                                IF t.op = "delete" THEN {t.doc} \cap meta \cap Emails ELSE {}]
                  /\ UNCHANGED failed /\ NoFault
               \/ /\ failed' = [failed EXCEPT ![n] = @ \cup {t}]
                  /\ UNCHANGED <<docs, gone>> /\ Fault("build")
    BY <1>8 DEF Build
  <2>2. t \in Task /\ t.doc \in Docs
    BY DEF TypeOK, Task
  <2>3. todo' \in [Nodes -> SUBSET Task] /\ failed' \in [Nodes -> SUBSET Task]
    BY <2>1, <2>2 DEF TypeOK
  <2>4. docs' \in [Nodes -> SUBSET Docs] /\ gone' \in [Nodes -> SUBSET Docs]
    BY <2>1, <2>2 DEF TypeOK
  <2>5. faulted' \in Nat
    BY <2>1 DEF TypeOK, Fault, NoFault
  <2>6. QED
    BY <1>8, <2>3, <2>4, <2>5 DEF TypeOK, Build, queue, stores
<1>9. ASSUME NEW n \in Nodes, Commit(n) PROVE TypeOK'
  BY <1>9 DEF TypeOK, Commit, queue, stores, worker, batch, Fault, NoFault, PcStates, Deletions
<1>10. ASSUME NEW n \in Nodes, IndexDocuments(n) PROVE TypeOK'
  BY <1>10 DEF TypeOK, IndexDocuments, queue, stores, worker, batch, Fault, NoFault, PcStates, Insertions, InvKnown
<1>11. ASSUME NEW n \in Nodes, Unindex(n) PROVE TypeOK'
  <2>1. {t.doc : t \in Deletions(n) \ failed[n]} \subseteq created
    BY DEF InvKnown, Known, Deletions, TypeOK
  <2>2. search' \subseteq created /\ unindexed' \subseteq created
    BY <1>11, <2>1 DEF TypeOK, Unindex
  <2>3. failed' \in [Nodes -> SUBSET Task] /\ faulted' \in Nat
    BY <1>11 DEF TypeOK, Unindex, Deletions, Fault, NoFault
  <2>4. QED
    BY <1>11, <2>2, <2>3 DEF TypeOK, Unindex, queue, PcStates
<1>12. ASSUME NEW n \in Nodes, Clear(n) PROVE TypeOK'
  BY <1>12 DEF TypeOK, Clear, queue, stores, worker, batch, Fault, NoFault, PcStates
<1>13. ASSUME NEW n \in Nodes, Unlock(n) PROVE TypeOK'
  BY <1>13 DEF TypeOK, Unlock, queue, stores, worker, batch, Fault, NoFault, PcStates
<1>14. ASSUME NEW n \in Nodes, Finish(n) PROVE TypeOK'
  BY <1>14 DEF TypeOK, Finish, queue, stores, worker, batch, Fault, NoFault, PcStates
<1>15. ASSUME NEW n \in Nodes, Crash(n) PROVE TypeOK'
  BY <1>15 DEF TypeOK, Crash, queue, stores, worker, batch, Fault, NoFault, PcStates
<1>16. ASSUME NEW k \in Key, Lapse(k) PROVE TypeOK'
  BY <1>16 DEF TypeOK, Lapse, queue, stores, worker, batch, Fault, NoFault, PcStates
<1>17. CASE UNCHANGED vars
  BY <1>17 DEF TypeOK, vars, queue, stores, worker, batch
<1>18. QED
  BY <1>1, <1>2, <1>3, <1>4, <1>5, <1>6, <1>7, <1>8,
     <1>9, <1>10, <1>11, <1>12, <1>13, <1>14,
     <1>15, <1>16, <1>17 DEF Next, WorkerStep

LEMMA KnownStep ==
  ASSUME InvKnown, TypeOK, [Next]_vars
  PROVE  InvKnown'
<1>1. ASSUME NEW d \in Docs, Ingest(d) PROVE InvKnown'
  BY <1>1 DEF InvKnown, Known, TypeOK, Ingest, queue, stores, worker, batch, Fault, NoFault, PcStates, Insert
<1>2. ASSUME NEW d \in Docs, DeleteDocument(d) PROVE InvKnown'
  BY <1>2, DocsAssumption DEF InvKnown, Known, TypeOK, DeleteDocument, queue, stores, worker, batch, Fault, NoFault, PcStates, Delete, Docs
<1>3. CASE ReindexList
  BY <1>3 DEF InvKnown, Known, TypeOK, ReindexList, queue, stores, worker, batch, Fault, NoFault, PcStates
<1>4. CASE ReindexWrite
  BY <1>4 DEF InvKnown, Known, TypeOK, ReindexWrite, queue, stores, worker, batch, Fault, NoFault, PcStates, Insert
<1>5. ASSUME NEW n \in Nodes, Scan(n) PROVE InvKnown'
  BY <1>5 DEF InvKnown, Known, TypeOK, Scan, queue, stores, worker, batch, Fault, NoFault, PcStates
<1>6. ASSUME NEW n \in Nodes, Receive(n) PROVE InvKnown'
  BY <1>6 DEF InvKnown, Known, TypeOK, Receive, queue, stores, worker, batch, Fault, NoFault, PcStates
<1>7. ASSUME NEW n \in Nodes, TryLock(n) PROVE InvKnown'
  <2>1. \A m \in Nodes : held'[m] \subseteq held[m] \cup todo[m]
    BY <1>7 DEF TryLock, TypeOK
  <2>2. \A m \in Nodes : todo'[m] \subseteq held[m] \cup todo[m]
    <3>1. PICK t \in todo[n] :
            todo' = [todo EXCEPT ![n] = IF @ = {t} THEN held'[n] ELSE @ \ {t}]
      BY <1>7 DEF TryLock
    <3>2. QED
      BY <2>1, <3>1 DEF TypeOK
  <2>3. QED
    BY <1>7, <2>1, <2>2 DEF InvKnown, Known, TryLock, queue, stores
<1>8. ASSUME NEW n \in Nodes, Build(n) PROVE InvKnown'
  <2>1. PICK t \in todo[n] :
            /\ todo' = [todo EXCEPT ![n] = @ \ {t}]
            /\ \/ /\ docs' = [docs EXCEPT ![n] = @ \cup
                                IF t.op = "insert" THEN {t.doc} \cap meta ELSE {}]
                  /\ gone' = [gone EXCEPT ![n] = @ \cup
                                IF t.op = "delete" THEN {t.doc} \cap meta \cap Emails ELSE {}]
               \/ UNCHANGED <<docs, gone>>
    BY <1>8 DEF Build
  <2>2. Known(t)
    BY DEF InvKnown
  <2>3. \A m \in Nodes : docs'[m] \subseteq created /\ gone'[m] \subseteq created \ alive
    BY <2>1, <2>2 DEF InvKnown, Known, TypeOK
  <2>4. \A m \in Nodes : todo'[m] \subseteq todo[m]
    BY <2>1 DEF TypeOK
  <2>5. QED
    BY <1>8, <2>3, <2>4 DEF InvKnown, Known, Build, queue, stores
<1>9. ASSUME NEW n \in Nodes, Commit(n) PROVE InvKnown'
  BY <1>9 DEF InvKnown, Known, TypeOK, Commit, queue, stores, worker, batch, Fault, NoFault, PcStates
<1>10. ASSUME NEW n \in Nodes, IndexDocuments(n) PROVE InvKnown'
  BY <1>10 DEF InvKnown, Known, TypeOK, IndexDocuments, queue, stores, worker, batch, Fault, NoFault, PcStates
<1>11. ASSUME NEW n \in Nodes, Unindex(n) PROVE InvKnown'
  BY <1>11 DEF InvKnown, Known, TypeOK, Unindex, queue, stores, worker, batch, Fault, NoFault, PcStates
<1>12. ASSUME NEW n \in Nodes, Clear(n) PROVE InvKnown'
  BY <1>12 DEF InvKnown, Known, TypeOK, Clear, queue, stores, worker, batch, Fault, NoFault, PcStates
<1>13. ASSUME NEW n \in Nodes, Unlock(n) PROVE InvKnown'
  BY <1>13 DEF InvKnown, Known, TypeOK, Unlock, queue, stores, worker, batch, Fault, NoFault, PcStates
<1>14. ASSUME NEW n \in Nodes, Finish(n) PROVE InvKnown'
  BY <1>14 DEF InvKnown, Known, TypeOK, Finish, queue, stores, worker, batch, Fault, NoFault, PcStates
<1>15. ASSUME NEW n \in Nodes, Crash(n) PROVE InvKnown'
  BY <1>15 DEF InvKnown, Known, TypeOK, Crash, queue, stores, worker, batch, Fault, NoFault, PcStates
<1>16. ASSUME NEW k \in Key, Lapse(k) PROVE InvKnown'
  BY <1>16 DEF InvKnown, Known, TypeOK, Lapse, queue, stores, worker, batch, Fault, NoFault, PcStates
<1>17. CASE UNCHANGED vars
  BY <1>17 DEF InvKnown, Known, vars, queue, stores, worker, batch
<1>18. QED
  BY <1>1, <1>2, <1>3, <1>4, <1>5, <1>6, <1>7, <1>8,
     <1>9, <1>10, <1>11, <1>12, <1>13, <1>14,
     <1>15, <1>16, <1>17 DEF Next, WorkerStep

LEMMA LocksStep ==
  ASSUME InvLocks, OneWorkerPerTask, TypeOK, [Next]_vars
  PROVE  InvLocks'
<1>1. ASSUME NEW d \in Docs, Ingest(d) PROVE InvLocks'
  BY <1>1 DEF InvLocks, Ingest, queue, stores, worker, batch, Fault, NoFault, PcStates
<1>2. ASSUME NEW d \in Docs, DeleteDocument(d) PROVE InvLocks'
  BY <1>2 DEF InvLocks, DeleteDocument, queue, stores, worker, batch, Fault, NoFault, PcStates
<1>3. CASE ReindexList
  BY <1>3 DEF InvLocks, ReindexList, queue, stores, worker, batch, Fault, NoFault, PcStates
<1>4. CASE ReindexWrite
  BY <1>4 DEF InvLocks, ReindexWrite, queue, stores, worker, batch, Fault, NoFault, PcStates
<1>5. ASSUME NEW n \in Nodes, Scan(n) PROVE InvLocks'
  BY <1>5 DEF InvLocks, Scan, queue, stores, worker, batch, Fault, NoFault, PcStates
<1>6. ASSUME NEW n \in Nodes, Receive(n) PROVE InvLocks'
  BY <1>6 DEF InvLocks, Receive, queue, stores, worker, batch, Fault, NoFault, PcStates
<1>7. ASSUME NEW n \in Nodes, TryLock(n) PROVE InvLocks'
  BY <1>7 DEF InvLocks, TypeOK, TryLock
<1>8. ASSUME NEW n \in Nodes, Build(n) PROVE InvLocks'
  BY <1>8 DEF InvLocks, Build, queue, stores, worker, batch, Fault, NoFault, PcStates
<1>9. ASSUME NEW n \in Nodes, Commit(n) PROVE InvLocks'
  BY <1>9 DEF InvLocks, Commit, queue, stores, worker, batch, Fault, NoFault, PcStates
<1>10. ASSUME NEW n \in Nodes, IndexDocuments(n) PROVE InvLocks'
  BY <1>10 DEF InvLocks, IndexDocuments, queue, stores, worker, batch, Fault, NoFault, PcStates
<1>11. ASSUME NEW n \in Nodes, Unindex(n) PROVE InvLocks'
  BY <1>11 DEF InvLocks, Unindex, queue, stores, worker, batch, Fault, NoFault, PcStates
<1>12. ASSUME NEW n \in Nodes, Clear(n) PROVE InvLocks'
  BY <1>12 DEF InvLocks, Clear, queue, stores, worker, batch, Fault, NoFault, PcStates
<1>13. ASSUME NEW n \in Nodes, Unlock(n) PROVE InvLocks'
  <2>1. PICK t \in Done(n) :
          /\ held' = [held EXCEPT ![n] = @ \ {t}]
          /\ locks \ {LockKey(t)} \subseteq locks'
    BY <1>13 DEF Unlock
  <2> SUFFICES ASSUME NEW m \in Nodes, NEW s \in held'[m] PROVE LockKey(s) \in locks'
    BY DEF InvLocks, LockKey
  <2>2. s \in held[m] /\ (m = n => s # t)
    BY <2>1 DEF TypeOK
  <2>3. LockKey(s) \in locks
    BY <2>2 DEF InvLocks
  <2>4. LockKey(s) # LockKey(t)
    BY <2>1, <2>2 DEF OneWorkerPerTask, Done
  <2>5. QED
    BY <2>1, <2>3, <2>4
<1>14. ASSUME NEW n \in Nodes, Finish(n) PROVE InvLocks'
  BY <1>14 DEF InvLocks, TypeOK, Finish
<1>15. ASSUME NEW n \in Nodes, Crash(n) PROVE InvLocks'
  BY <1>15 DEF InvLocks, TypeOK, Crash
<1>16. ASSUME NEW k \in Key, Lapse(k) PROVE InvLocks'
  BY <1>16 DEF InvLocks, TypeOK, Lapse, worker, batch
<1>17. CASE UNCHANGED vars
  BY <1>17 DEF InvLocks, vars, queue, stores, worker, batch
<1>18. QED
  BY <1>1, <1>2, <1>3, <1>4, <1>5, <1>6, <1>7, <1>8,
     <1>9, <1>10, <1>11, <1>12, <1>13, <1>14,
     <1>15, <1>16, <1>17 DEF Next, WorkerStep

LEMMA WorkerStepLock ==
  ASSUME OneWorkerPerTask, InvLocks, TypeOK, [Next]_vars
  PROVE  OneWorkerPerTask'
<1>1. ASSUME NEW d \in Docs, Ingest(d) PROVE OneWorkerPerTask'
  BY <1>1 DEF OneWorkerPerTask, Ingest, queue, stores, worker, batch, Fault, NoFault, PcStates
<1>2. ASSUME NEW d \in Docs, DeleteDocument(d) PROVE OneWorkerPerTask'
  BY <1>2 DEF OneWorkerPerTask, DeleteDocument, queue, stores, worker, batch, Fault, NoFault, PcStates
<1>3. CASE ReindexList
  BY <1>3 DEF OneWorkerPerTask, ReindexList, queue, stores, worker, batch, Fault, NoFault, PcStates
<1>4. CASE ReindexWrite
  BY <1>4 DEF OneWorkerPerTask, ReindexWrite, queue, stores, worker, batch, Fault, NoFault, PcStates
<1>5. ASSUME NEW n \in Nodes, Scan(n) PROVE OneWorkerPerTask'
  BY <1>5 DEF OneWorkerPerTask, Scan, queue, stores, worker, batch, Fault, NoFault, PcStates
<1>6. ASSUME NEW n \in Nodes, Receive(n) PROVE OneWorkerPerTask'
  BY <1>6 DEF OneWorkerPerTask, Receive, queue, stores, worker, batch, Fault, NoFault, PcStates
<1>7. ASSUME NEW n \in Nodes, TryLock(n) PROVE OneWorkerPerTask'
  <2>1. PICK t \in todo[n] :
            \/ LockKey(t) \notin locks /\ held' = [held EXCEPT ![n] = @ \cup {t}]
            \/ held' = held
    BY <1>7 DEF TryLock
  <2>2. CASE held' = held
    BY <2>2 DEF OneWorkerPerTask
  <2>3. CASE LockKey(t) \notin locks /\ held' = [held EXCEPT ![n] = @ \cup {t}]
    <3>1. \A m \in Nodes : \A s \in held[m] : LockKey(s) # LockKey(t)
      BY <2>3 DEF InvLocks
    <3>2. \A m \in Nodes : \A s \in held'[m] : s \in held[m] \/ (s = t /\ m = n)
      BY <2>3 DEF TypeOK
    <3>3. QED
      BY <3>1, <3>2 DEF OneWorkerPerTask
  <2>4. QED
    BY <2>1, <2>2, <2>3
<1>8. ASSUME NEW n \in Nodes, Build(n) PROVE OneWorkerPerTask'
  BY <1>8 DEF OneWorkerPerTask, Build, queue, stores, worker, batch, Fault, NoFault, PcStates
<1>9. ASSUME NEW n \in Nodes, Commit(n) PROVE OneWorkerPerTask'
  BY <1>9 DEF OneWorkerPerTask, Commit, queue, stores, worker, batch, Fault, NoFault, PcStates
<1>10. ASSUME NEW n \in Nodes, IndexDocuments(n) PROVE OneWorkerPerTask'
  BY <1>10 DEF OneWorkerPerTask, IndexDocuments, queue, stores, worker, batch, Fault, NoFault, PcStates
<1>11. ASSUME NEW n \in Nodes, Unindex(n) PROVE OneWorkerPerTask'
  BY <1>11 DEF OneWorkerPerTask, Unindex, queue, stores, worker, batch, Fault, NoFault, PcStates
<1>12. ASSUME NEW n \in Nodes, Clear(n) PROVE OneWorkerPerTask'
  BY <1>12 DEF OneWorkerPerTask, Clear, queue, stores, worker, batch, Fault, NoFault, PcStates
<1>13. ASSUME NEW n \in Nodes, Unlock(n) PROVE OneWorkerPerTask'
  BY <1>13 DEF OneWorkerPerTask, TypeOK, Unlock
<1>14. ASSUME NEW n \in Nodes, Finish(n) PROVE OneWorkerPerTask'
  BY <1>14 DEF OneWorkerPerTask, TypeOK, Finish
<1>15. ASSUME NEW n \in Nodes, Crash(n) PROVE OneWorkerPerTask'
  BY <1>15 DEF OneWorkerPerTask, TypeOK, Crash
<1>16. ASSUME NEW k \in Key, Lapse(k) PROVE OneWorkerPerTask'
  BY <1>16 DEF OneWorkerPerTask, Lapse, queue, stores, worker, batch, Fault, NoFault, PcStates
<1>17. CASE UNCHANGED vars
  BY <1>17 DEF OneWorkerPerTask, vars, queue, stores, worker, batch
<1>18. QED
  BY <1>1, <1>2, <1>3, <1>4, <1>5, <1>6, <1>7, <1>8,
     <1>9, <1>10, <1>11, <1>12, <1>13, <1>14,
     <1>15, <1>16, <1>17 DEF Next, WorkerStep

LEMMA WorkStep ==
  ASSUME InvWork, InvKnown, TypeOK, "commit" \notin Faults, [Next]_vars
  PROVE  InvWork'
<1>1. ASSUME NEW d \in Docs, Ingest(d) PROVE InvWork'
  <2> SUFFICES ASSUME NEW m \in Nodes PROVE WorkOK(m)'
    BY DEF InvWork
  <2>0. WorkOK(m)
    BY DEF InvWork
  <2>1. Living(m)' \subseteq Living(m)
    BY <1>1 DEF Ingest, Living, InvKnown, Known, worker, batch
  <2>2. QED
    BY <1>1, <2>0, <2>1 DEF Ingest, WorkOK, worker, batch
<1>2. ASSUME NEW d \in Docs, DeleteDocument(d) PROVE InvWork'
  <2> SUFFICES ASSUME NEW m \in Nodes PROVE WorkOK(m)'
    BY DEF InvWork
  <2>0. WorkOK(m)
    BY DEF InvWork
  <2>1. Living(m)' \subseteq Living(m)
    BY <1>2 DEF DeleteDocument, Living, worker, batch
  <2>2. QED
    BY <1>2, <2>0, <2>1 DEF DeleteDocument, WorkOK, worker, batch
<1>3. CASE ReindexList
  <2> SUFFICES ASSUME NEW m \in Nodes PROVE WorkOK(m)'
    BY DEF InvWork
  <2>0. WorkOK(m)
    BY DEF InvWork
  <2>1. QED
    BY <1>3, <2>0 DEF ReindexList, WorkOK, Living, queue, stores, worker, batch, Fault, NoFault, PcStates
<1>4. CASE ReindexWrite
  <2> SUFFICES ASSUME NEW m \in Nodes PROVE WorkOK(m)'
    BY DEF InvWork
  <2>0. WorkOK(m)
    BY DEF InvWork
  <2>1. QED
    BY <1>4, <2>0 DEF ReindexWrite, WorkOK, Living, queue, stores, worker, batch, Fault, NoFault, PcStates
<1>5. ASSUME NEW n \in Nodes, Scan(n) PROVE InvWork'
  <2> SUFFICES ASSUME NEW m \in Nodes PROVE WorkOK(m)'
    BY DEF InvWork
  <2>0. WorkOK(m)
    BY DEF InvWork
  <2>1. QED
    BY <1>5, <2>0 DEF Scan, WorkOK, Living, queue, stores, worker, batch, Fault, NoFault, PcStates
<1>6. ASSUME NEW n \in Nodes, Receive(n) PROVE InvWork'
  <2> SUFFICES ASSUME NEW m \in Nodes PROVE WorkOK(m)'
    BY DEF InvWork
  <2>0. WorkOK(m)
    BY DEF InvWork
  <2>1. CASE m = n
    BY <1>6, <2>1 DEF Receive, WorkOK, TypeOK
  <2>2. CASE m # n
    <3>1. /\ pc'[m] = pc[m] /\ held'[m] = held[m] /\ failed'[m] = failed[m]
          /\ todo'[m] = todo[m] /\ docs'[m] = docs[m] /\ alive' = alive
      BY <1>6, <2>2 DEF Receive, TypeOK, queue, stores, worker, batch, Fault, NoFault, PcStates
    <3>2. search \subseteq search'
      BY <1>6 DEF Receive, queue, stores, worker, batch, Fault, NoFault, PcStates
    <3>3. QED
      BY <2>0, <3>1, <3>2 DEF WorkOK, Living
  <2>3. QED
    BY <2>1, <2>2
<1>7. ASSUME NEW n \in Nodes, TryLock(n) PROVE InvWork'
  <2> SUFFICES ASSUME NEW m \in Nodes PROVE WorkOK(m)'
    BY DEF InvWork
  <2>0. WorkOK(m)
    BY DEF InvWork
  <2>1. CASE m = n
    <3>1. pc'[n] \in {"lock", "idle", "build"}
      BY <1>7 DEF TryLock, TypeOK
    <3>2. pc'[n] = "build" => held'[n] \subseteq todo'[n]
      BY <1>7 DEF TryLock, TypeOK
    <3>3. QED
      BY <2>1, <3>1, <3>2 DEF WorkOK, Living
  <2>2. CASE m # n
    <3>1. /\ pc'[m] = pc[m] /\ held'[m] = held[m] /\ failed'[m] = failed[m]
          /\ todo'[m] = todo[m] /\ docs'[m] = docs[m] /\ alive' = alive
      BY <1>7, <2>2 DEF TryLock, TypeOK, queue, stores, worker, batch, Fault, NoFault, PcStates
    <3>2. search \subseteq search'
      BY <1>7 DEF TryLock, queue, stores, worker, batch, Fault, NoFault, PcStates
    <3>3. QED
      BY <2>0, <3>1, <3>2 DEF WorkOK, Living
  <2>3. QED
    BY <2>1, <2>2
<1>8. ASSUME NEW n \in Nodes, Build(n) PROVE InvWork'
  <2> SUFFICES ASSUME NEW m \in Nodes PROVE WorkOK(m)'
    BY DEF InvWork
  <2>0. WorkOK(m)
    BY DEF InvWork
  <2>1. CASE m = n
    <3>1. PICK t \in todo[n] :
            /\ todo' = [todo EXCEPT ![n] = @ \ {t}]
            /\ \/ /\ docs' = [docs EXCEPT ![n] = @ \cup
                                IF t.op = "insert" THEN {t.doc} \cap meta ELSE {}]
                  /\ failed' = failed
               \/ /\ failed' = [failed EXCEPT ![n] = @ \cup {t}]
                  /\ docs' = docs
      BY <1>8 DEF Build
    <3>2. held' = held /\ alive' = alive /\ pc' = pc /\ pc[n] = "build"
      BY <1>8 DEF Build, queue
    <3>3. \A s \in Living(n)' \ todo'[n] : s.doc \in docs'[n]
      <4> SUFFICES ASSUME NEW s \in Living(n)' \ todo'[n] PROVE s.doc \in docs'[n]
        OBVIOUS
      <4>1. docs[n] \subseteq docs'[n] /\ failed[n] \subseteq failed'[n]
        BY <3>1 DEF TypeOK
      <4>2. s \in Living(n) /\ s.doc \in meta /\ s.op = "insert"
        BY <3>2, <4>1 DEF Living, InvKnown
      <4>3. CASE s # t
        BY <2>0, <2>1, <3>1, <3>2, <4>1, <4>2, <4>3 DEF WorkOK, TypeOK
      <4>4. CASE s = t
        <5>1. t \notin failed'[n]
          BY <4>4 DEF Living
        <5>2. docs'[n] = docs[n] \cup {t.doc}
          BY <3>1, <4>2, <4>4, <5>1 DEF TypeOK
        <5>3. QED
          BY <4>4, <5>2
      <4>5. QED
        BY <4>3, <4>4
    <3>4. QED
      BY <2>1, <3>2, <3>3 DEF WorkOK
  <2>2. CASE m # n
    <3>1. /\ pc'[m] = pc[m] /\ held'[m] = held[m] /\ failed'[m] = failed[m]
          /\ todo'[m] = todo[m] /\ docs'[m] = docs[m] /\ alive' = alive
      BY <1>8, <2>2 DEF Build, TypeOK, queue, stores, worker, batch, Fault, NoFault, PcStates
    <3>2. search \subseteq search'
      BY <1>8 DEF Build, queue, stores, worker, batch, Fault, NoFault, PcStates
    <3>3. QED
      BY <2>0, <3>1, <3>2 DEF WorkOK, Living
  <2>3. QED
    BY <2>1, <2>2
<1>9. ASSUME NEW n \in Nodes, Commit(n) PROVE InvWork'
  <2> SUFFICES ASSUME NEW m \in Nodes PROVE WorkOK(m)'
    BY DEF InvWork
  <2>0. WorkOK(m)
    BY DEF InvWork
  <2>1. CASE m = n
    <3>1. pc[n] = "build" /\ todo[n] = {} /\ pc' = [pc EXCEPT ![n] = "index"] /\ failed' = failed
      BY <1>9 DEF Commit, Fault
    <3>2. held' = held /\ alive' = alive /\ docs' = docs
      BY <1>9 DEF Commit, queue
    <3>3. QED
      BY <2>0, <2>1, <3>1, <3>2 DEF WorkOK, Living, TypeOK
  <2>2. CASE m # n
    <3>1. /\ pc'[m] = pc[m] /\ held'[m] = held[m] /\ failed'[m] = failed[m]
          /\ todo'[m] = todo[m] /\ docs'[m] = docs[m] /\ alive' = alive
      BY <1>9, <2>2 DEF Commit, TypeOK, queue, stores, worker, batch, Fault, NoFault, PcStates
    <3>2. search \subseteq search'
      BY <1>9 DEF Commit, queue, stores, worker, batch, Fault, NoFault, PcStates
    <3>3. QED
      BY <2>0, <3>1, <3>2 DEF WorkOK, Living
  <2>3. QED
    BY <2>1, <2>2
<1>10. ASSUME NEW n \in Nodes, IndexDocuments(n) PROVE InvWork'
  <2> SUFFICES ASSUME NEW m \in Nodes PROVE WorkOK(m)'
    BY DEF InvWork
  <2>0. WorkOK(m)
    BY DEF InvWork
  <2>1. CASE m = n
    <3>1. held' = held /\ alive' = alive /\ docs' = docs /\ pc[n] = "index"
      BY <1>10 DEF IndexDocuments, queue
    <3>2. CASE search' = search \cup docs[n] /\ pc' = [pc EXCEPT ![n] = "unindex"] /\ failed' = failed
      BY <2>0, <2>1, <3>1, <3>2 DEF WorkOK, Living, TypeOK
    <3>3. CASE /\ failed' = [failed EXCEPT ![n] = @ \cup Insertions(n)]
               /\ pc' = [pc EXCEPT ![n] = "clear"]
      <4>1. Living(n)' = {}
        BY <2>0, <2>1, <3>1, <3>3 DEF WorkOK, Living, Insertions, TypeOK
      <4>2. QED
        BY <2>1, <3>3, <4>1 DEF WorkOK, TypeOK
    <3>4. QED
      BY <1>10, <3>2, <3>3 DEF IndexDocuments
  <2>2. CASE m # n
    <3>1. /\ pc'[m] = pc[m] /\ held'[m] = held[m] /\ failed'[m] = failed[m]
          /\ todo'[m] = todo[m] /\ docs'[m] = docs[m] /\ alive' = alive
      BY <1>10, <2>2 DEF IndexDocuments, TypeOK, queue, stores, worker, batch, Fault, NoFault, PcStates
    <3>2. search \subseteq search'
      BY <1>10 DEF IndexDocuments, queue, stores, worker, batch, Fault, NoFault, PcStates
    <3>3. QED
      BY <2>0, <3>1, <3>2 DEF WorkOK, Living
  <2>3. QED
    BY <2>1, <2>2
<1>11. ASSUME NEW n \in Nodes, Unindex(n) PROVE InvWork'
  <2> SUFFICES ASSUME NEW m \in Nodes PROVE WorkOK(m)'
    BY DEF InvWork
  <2>0. WorkOK(m)
    BY DEF InvWork
  <2>1. held' = held /\ alive' = alive /\ docs' = docs /\ todo' = todo
    BY <1>11 DEF Unindex, queue
  <2>2. failed[m] \subseteq failed'[m]
    BY <1>11 DEF Unindex, TypeOK
  <2>3. \A t \in Deletions(n) : t.doc \notin alive
    BY DEF Deletions, InvKnown, Known
  <2>4. search \cap alive \subseteq search'
    BY <1>11, <2>3 DEF Unindex
  <2>5. Living(m)' \subseteq Living(m)
    BY <2>1, <2>2 DEF Living
  <2>6. pc'[m] = pc[m] \/ (pc[m] = "unindex" /\ pc'[m] = "clear")
    BY <1>11 DEF Unindex, TypeOK
  <2>7. \A t \in Living(m) : t.doc \in search => t.doc \in search'
    BY <2>4 DEF Living
  <2>8. QED
    BY <2>0, <2>1, <2>5, <2>6, <2>7 DEF WorkOK
<1>12. ASSUME NEW n \in Nodes, Clear(n) PROVE InvWork'
  <2> SUFFICES ASSUME NEW m \in Nodes PROVE WorkOK(m)'
    BY DEF InvWork
  <2>0. WorkOK(m)
    BY DEF InvWork
  <2>1. CASE m = n
    BY <1>12, <2>1 DEF Clear, WorkOK, TypeOK
  <2>2. CASE m # n
    <3>1. /\ pc'[m] = pc[m] /\ held'[m] = held[m] /\ failed'[m] = failed[m]
          /\ todo'[m] = todo[m] /\ docs'[m] = docs[m] /\ alive' = alive
      BY <1>12, <2>2 DEF Clear, TypeOK, queue, stores, worker, batch, Fault, NoFault, PcStates
    <3>2. search \subseteq search'
      BY <1>12 DEF Clear, queue, stores, worker, batch, Fault, NoFault, PcStates
    <3>3. QED
      BY <2>0, <3>1, <3>2 DEF WorkOK, Living
  <2>3. QED
    BY <2>1, <2>2
<1>13. ASSUME NEW n \in Nodes, Unlock(n) PROVE InvWork'
  <2> SUFFICES ASSUME NEW m \in Nodes PROVE WorkOK(m)'
    BY DEF InvWork
  <2>0. WorkOK(m)
    BY DEF InvWork
  <2>1. CASE m = n
    BY <1>13, <2>1 DEF Unlock, WorkOK, TypeOK
  <2>2. CASE m # n
    <3>1. /\ pc'[m] = pc[m] /\ held'[m] = held[m] /\ failed'[m] = failed[m]
          /\ todo'[m] = todo[m] /\ docs'[m] = docs[m] /\ alive' = alive
      BY <1>13, <2>2 DEF Unlock, TypeOK, queue, stores, worker, batch, Fault, NoFault, PcStates
    <3>2. search \subseteq search'
      BY <1>13 DEF Unlock, queue, stores, worker, batch, Fault, NoFault, PcStates
    <3>3. QED
      BY <2>0, <3>1, <3>2 DEF WorkOK, Living
  <2>3. QED
    BY <2>1, <2>2
<1>14. ASSUME NEW n \in Nodes, Finish(n) PROVE InvWork'
  <2> SUFFICES ASSUME NEW m \in Nodes PROVE WorkOK(m)'
    BY DEF InvWork
  <2>0. WorkOK(m)
    BY DEF InvWork
  <2>1. CASE m = n
    BY <1>14, <2>1 DEF Finish, WorkOK, TypeOK
  <2>2. CASE m # n
    <3>1. /\ pc'[m] = pc[m] /\ held'[m] = held[m] /\ failed'[m] = failed[m]
          /\ todo'[m] = todo[m] /\ docs'[m] = docs[m] /\ alive' = alive
      BY <1>14, <2>2 DEF Finish, TypeOK, queue, stores, worker, batch, Fault, NoFault, PcStates
    <3>2. search \subseteq search'
      BY <1>14 DEF Finish, queue, stores, worker, batch, Fault, NoFault, PcStates
    <3>3. QED
      BY <2>0, <3>1, <3>2 DEF WorkOK, Living
  <2>3. QED
    BY <2>1, <2>2
<1>15. ASSUME NEW n \in Nodes, Crash(n) PROVE InvWork'
  <2> SUFFICES ASSUME NEW m \in Nodes PROVE WorkOK(m)'
    BY DEF InvWork
  <2>0. WorkOK(m)
    BY DEF InvWork
  <2>1. CASE m = n
    BY <1>15, <2>1 DEF Crash, WorkOK, TypeOK
  <2>2. CASE m # n
    <3>1. /\ pc'[m] = pc[m] /\ held'[m] = held[m] /\ failed'[m] = failed[m]
          /\ todo'[m] = todo[m] /\ docs'[m] = docs[m] /\ alive' = alive
      BY <1>15, <2>2 DEF Crash, TypeOK, queue, stores, worker, batch, Fault, NoFault, PcStates
    <3>2. search \subseteq search'
      BY <1>15 DEF Crash, queue, stores, worker, batch, Fault, NoFault, PcStates
    <3>3. QED
      BY <2>0, <3>1, <3>2 DEF WorkOK, Living
  <2>3. QED
    BY <2>1, <2>2
<1>16. ASSUME NEW k \in Key, Lapse(k) PROVE InvWork'
  <2> SUFFICES ASSUME NEW m \in Nodes PROVE WorkOK(m)'
    BY DEF InvWork
  <2>0. WorkOK(m)
    BY DEF InvWork
  <2>1. QED
    BY <1>16, <2>0 DEF Lapse, WorkOK, Living, queue, stores, worker, batch, Fault, NoFault, PcStates
<1>17. CASE UNCHANGED vars
  BY <1>17 DEF InvWork, WorkOK, Living, vars, queue, stores, worker, batch
<1>18. QED
  BY <1>1, <1>2, <1>3, <1>4, <1>5, <1>6, <1>7, <1>8,
     <1>9, <1>10, <1>11, <1>12, <1>13, <1>14,
     <1>15, <1>16, <1>17 DEF Next, WorkerStep

LEMMA ForgottenStep ==
  ASSUME NothingForgotten, InvWork, InvKnown, TypeOK, [Next]_vars
  PROVE  NothingForgotten'
<1>1. ASSUME NEW d \in Docs, Ingest(d) PROVE NothingForgotten'
  <2>1. Insert(d, 0).doc = d /\ Insert(d, 0).op = "insert"
    BY DEF Insert
  <2>2. QED
    BY <1>1, <2>1 DEF NothingForgotten, Ingest
<1>2. ASSUME NEW d \in Docs, DeleteDocument(d) PROVE NothingForgotten'
  BY <1>2 DEF NothingForgotten, DeleteDocument, queue, stores, worker, batch, Fault, NoFault, PcStates
<1>3. CASE ReindexList
  BY <1>3 DEF NothingForgotten, ReindexList, queue, stores, worker, batch, Fault, NoFault, PcStates
<1>4. CASE ReindexWrite
  BY <1>4 DEF NothingForgotten, ReindexWrite, queue, stores, worker, batch, Fault, NoFault, PcStates
<1>5. ASSUME NEW n \in Nodes, Scan(n) PROVE NothingForgotten'
  BY <1>5 DEF NothingForgotten, Scan, queue, stores, worker, batch, Fault, NoFault, PcStates
<1>6. ASSUME NEW n \in Nodes, Receive(n) PROVE NothingForgotten'
  BY <1>6 DEF NothingForgotten, Receive, queue, stores, worker, batch, Fault, NoFault, PcStates
<1>7. ASSUME NEW n \in Nodes, TryLock(n) PROVE NothingForgotten'
  BY <1>7 DEF NothingForgotten, TryLock, queue, stores, worker, batch, Fault, NoFault, PcStates
<1>8. ASSUME NEW n \in Nodes, Build(n) PROVE NothingForgotten'
  BY <1>8 DEF NothingForgotten, Build, queue, stores, worker, batch, Fault, NoFault, PcStates
<1>9. ASSUME NEW n \in Nodes, Commit(n) PROVE NothingForgotten'
  BY <1>9 DEF NothingForgotten, Commit, queue, stores, worker, batch, Fault, NoFault, PcStates
<1>10. ASSUME NEW n \in Nodes, IndexDocuments(n) PROVE NothingForgotten'
  BY <1>10 DEF NothingForgotten, IndexDocuments, queue, stores, worker, batch, Fault, NoFault, PcStates
<1>11. ASSUME NEW n \in Nodes, Unindex(n) PROVE NothingForgotten'
  <2>1. \A t \in Deletions(n) : t.doc \notin alive
    BY DEF Deletions, InvKnown, Known
  <2>2. search \cap alive \subseteq search' /\ alive' = alive /\ tasks' = tasks
    BY <1>11, <2>1 DEF Unindex, queue
  <2>3. QED
    BY <2>2 DEF NothingForgotten
<1>12. ASSUME NEW n \in Nodes, Clear(n) PROVE NothingForgotten'
  <2> SUFFICES ASSUME NEW d \in alive, d \notin search
               PROVE  \E t \in tasks' : t.doc = d /\ t.op = "insert"
    BY <1>12 DEF NothingForgotten, Clear, stores
  <2>1. PICK t \in tasks : t.doc = d /\ t.op = "insert"
    BY DEF NothingForgotten
  <2>2. t \notin Done(n)
    <3>1. pc[n] = "clear" /\ WorkOK(n)
      BY <1>12 DEF Clear, InvWork
    <3>2. t \in Done(n) => t \in Living(n)
      BY <2>1 DEF Done, Living
    <3>3. QED
      BY <2>1, <3>1, <3>2 DEF WorkOK
  <2>3. QED
    BY <1>12, <2>1, <2>2 DEF Clear
<1>13. ASSUME NEW n \in Nodes, Unlock(n) PROVE NothingForgotten'
  BY <1>13 DEF NothingForgotten, Unlock, queue, stores, worker, batch, Fault, NoFault, PcStates
<1>14. ASSUME NEW n \in Nodes, Finish(n) PROVE NothingForgotten'
  BY <1>14 DEF NothingForgotten, Finish, queue, stores, worker, batch, Fault, NoFault, PcStates
<1>15. ASSUME NEW n \in Nodes, Crash(n) PROVE NothingForgotten'
  BY <1>15 DEF NothingForgotten, Crash, queue, stores, worker, batch, Fault, NoFault, PcStates
<1>16. ASSUME NEW k \in Key, Lapse(k) PROVE NothingForgotten'
  BY <1>16 DEF NothingForgotten, Lapse, queue, stores, worker, batch, Fault, NoFault, PcStates
<1>17. CASE UNCHANGED vars
  BY <1>17 DEF NothingForgotten, vars, queue, stores, worker, batch
<1>18. QED
  BY <1>1, <1>2, <1>3, <1>4, <1>5, <1>6, <1>7, <1>8,
     <1>9, <1>10, <1>11, <1>12, <1>13, <1>14,
     <1>15, <1>16, <1>17 DEF Next, WorkerStep

LEMMA UnindexedStep ==
  ASSUME InvUnindexed, TypeOK, "commit" \notin Faults, "search" \notin Faults, [Next]_vars
  PROVE  InvUnindexed'
<1>1. ASSUME NEW d \in Docs, Ingest(d) PROVE InvUnindexed'
  BY <1>1 DEF InvUnindexed, Ingest, TypeOK, queue, stores, worker, batch, Fault, NoFault, PcStates
<1>2. ASSUME NEW d \in Docs, DeleteDocument(d) PROVE InvUnindexed'
  BY <1>2 DEF InvUnindexed, DeleteDocument, TypeOK, queue, stores, worker, batch, Fault, NoFault, PcStates
<1>3. CASE ReindexList
  BY <1>3 DEF InvUnindexed, ReindexList, TypeOK, queue, stores, worker, batch, Fault, NoFault, PcStates
<1>4. CASE ReindexWrite
  BY <1>4 DEF InvUnindexed, ReindexWrite, TypeOK, queue, stores, worker, batch, Fault, NoFault, PcStates
<1>5. ASSUME NEW n \in Nodes, Scan(n) PROVE InvUnindexed'
  BY <1>5 DEF InvUnindexed, Scan, TypeOK, queue, stores, worker, batch, Fault, NoFault, PcStates
<1>6. ASSUME NEW n \in Nodes, Receive(n) PROVE InvUnindexed'
  BY <1>6 DEF InvUnindexed, Receive, TypeOK, queue, stores, worker, batch, Fault, NoFault, PcStates
<1>7. ASSUME NEW n \in Nodes, TryLock(n) PROVE InvUnindexed'
  BY <1>7 DEF InvUnindexed, TryLock, TypeOK, queue, stores, worker, batch, Fault, NoFault, PcStates
<1>8. ASSUME NEW n \in Nodes, Build(n) PROVE InvUnindexed'
  BY <1>8 DEF InvUnindexed, Build, TypeOK, queue, stores, worker, batch, Fault, NoFault, PcStates
<1>9. ASSUME NEW n \in Nodes, Commit(n) PROVE InvUnindexed'
  <2>1. pc' = [pc EXCEPT ![n] = "index"] /\ failed' = failed
    BY <1>9 DEF Commit, Fault
  <2>2. QED
    BY <1>9, <2>1 DEF InvUnindexed, Commit, TypeOK
<1>10. ASSUME NEW n \in Nodes, IndexDocuments(n) PROVE InvUnindexed'
  <2>1. pc' = [pc EXCEPT ![n] = "unindex"] /\ failed' = failed
    BY <1>10 DEF IndexDocuments, Fault
  <2>2. QED
    BY <1>10, <2>1 DEF InvUnindexed, IndexDocuments, TypeOK
<1>11. ASSUME NEW n \in Nodes, Unindex(n) PROVE InvUnindexed'
  <2> SUFFICES ASSUME NEW m \in Nodes, pc'[m] = "clear",
                      NEW t \in held'[m] \ failed'[m], t.op = "delete"
               PROVE  t.doc \in unindexed'
    BY DEF InvUnindexed
  <2>1. unindexed \subseteq unindexed' /\ held' = held
    BY <1>11 DEF Unindex
  <2>2. CASE m # n
    <3>1. pc'[m] = pc[m] /\ failed'[m] = failed[m]
      BY <1>11, <2>2 DEF Unindex, TypeOK
    <3>2. QED
      BY <2>1, <3>1 DEF InvUnindexed
  <2>3. CASE m = n
    <3>1. t \in Deletions(n)
      BY <2>1, <2>3 DEF Deletions
    <3>2. failed' # [failed EXCEPT ![n] = @ \cup Deletions(n)]
      BY <2>3, <3>1 DEF TypeOK
    <3>3. failed' = failed /\ unindexed' = unindexed \cup {s.doc : s \in Deletions(n) \ failed[n]}
      BY <1>11, <3>2 DEF Unindex
    <3>4. QED
      BY <2>3, <3>1, <3>3
  <2>4. QED
    BY <2>2, <2>3
<1>12. ASSUME NEW n \in Nodes, Clear(n) PROVE InvUnindexed'
  BY <1>12 DEF InvUnindexed, Clear, TypeOK, queue, stores, worker, batch, Fault, NoFault, PcStates
<1>13. ASSUME NEW n \in Nodes, Unlock(n) PROVE InvUnindexed'
  BY <1>13 DEF InvUnindexed, Unlock, TypeOK, queue, stores, worker, batch, Fault, NoFault, PcStates
<1>14. ASSUME NEW n \in Nodes, Finish(n) PROVE InvUnindexed'
  BY <1>14 DEF InvUnindexed, Finish, TypeOK, queue, stores, worker, batch, Fault, NoFault, PcStates
<1>15. ASSUME NEW n \in Nodes, Crash(n) PROVE InvUnindexed'
  BY <1>15 DEF InvUnindexed, Crash, TypeOK, queue, stores, worker, batch, Fault, NoFault, PcStates
<1>16. ASSUME NEW k \in Key, Lapse(k) PROVE InvUnindexed'
  BY <1>16 DEF InvUnindexed, Lapse, TypeOK, queue, stores, worker, batch, Fault, NoFault, PcStates
<1>17. CASE UNCHANGED vars
  BY <1>17 DEF InvUnindexed, vars, queue, stores, worker, batch
<1>18. QED
  BY <1>1, <1>2, <1>3, <1>4, <1>5, <1>6, <1>7, <1>8,
     <1>9, <1>10, <1>11, <1>12, <1>13, <1>14,
     <1>15, <1>16, <1>17 DEF Next, WorkerStep

LEMMA GoneStep ==
  ASSUME InvGone, InvUnindexed, TypeOK, [Next]_vars
  PROVE  InvGone'
<1>1. ASSUME NEW d \in Docs, Ingest(d) PROVE InvGone'
  BY <1>1 DEF InvGone, Ingest, queue, stores, worker, batch, Fault, NoFault, PcStates
<1>2. ASSUME NEW d \in Docs, DeleteDocument(d) PROVE InvGone'
  <2>1. \A due \in 0..1 : Delete(d, due).doc = d /\ Delete(d, due).op = "delete"
    BY DEF Delete
  <2>2. PICK due \in 0..1 : tasks' = tasks \cup {Delete(d, due)}
    BY <1>2 DEF DeleteDocument
  <2>3. QED
    BY <1>2, <2>1, <2>2 DEF InvGone, DeleteDocument
<1>3. CASE ReindexList
  BY <1>3 DEF InvGone, ReindexList, queue, stores, worker, batch, Fault, NoFault, PcStates
<1>4. CASE ReindexWrite
  BY <1>4 DEF InvGone, ReindexWrite, queue, stores, worker, batch, Fault, NoFault, PcStates
<1>5. ASSUME NEW n \in Nodes, Scan(n) PROVE InvGone'
  BY <1>5 DEF InvGone, Scan, queue, stores, worker, batch, Fault, NoFault, PcStates
<1>6. ASSUME NEW n \in Nodes, Receive(n) PROVE InvGone'
  BY <1>6 DEF InvGone, Receive, queue, stores, worker, batch, Fault, NoFault, PcStates
<1>7. ASSUME NEW n \in Nodes, TryLock(n) PROVE InvGone'
  BY <1>7 DEF InvGone, TryLock, queue, stores, worker, batch, Fault, NoFault, PcStates
<1>8. ASSUME NEW n \in Nodes, Build(n) PROVE InvGone'
  BY <1>8 DEF InvGone, Build, queue, stores, worker, batch, Fault, NoFault, PcStates
<1>9. ASSUME NEW n \in Nodes, Commit(n) PROVE InvGone'
  BY <1>9 DEF InvGone, Commit, queue, stores, worker, batch, Fault, NoFault, PcStates
<1>10. ASSUME NEW n \in Nodes, IndexDocuments(n) PROVE InvGone'
  BY <1>10 DEF InvGone, IndexDocuments, queue, stores, worker, batch, Fault, NoFault, PcStates
<1>11. ASSUME NEW n \in Nodes, Unindex(n) PROVE InvGone'
  BY <1>11 DEF InvGone, Unindex, queue, stores, worker, batch, Fault, NoFault, PcStates
<1>12. ASSUME NEW n \in Nodes, Clear(n) PROVE InvGone'
  <2> SUFFICES ASSUME NEW d \in created \ alive, d \notin unindexed
               PROVE  \E t \in tasks' : t.doc = d /\ t.op = "delete"
    BY <1>12 DEF InvGone, Clear, stores
  <2>1. PICK t \in tasks : t.doc = d /\ t.op = "delete"
    BY DEF InvGone
  <2>2. t \notin Done(n)
    BY <1>12, <2>1 DEF Clear, InvUnindexed, Done
  <2>3. QED
    BY <1>12, <2>1, <2>2 DEF Clear
<1>13. ASSUME NEW n \in Nodes, Unlock(n) PROVE InvGone'
  BY <1>13 DEF InvGone, Unlock, queue, stores, worker, batch, Fault, NoFault, PcStates
<1>14. ASSUME NEW n \in Nodes, Finish(n) PROVE InvGone'
  BY <1>14 DEF InvGone, Finish, queue, stores, worker, batch, Fault, NoFault, PcStates
<1>15. ASSUME NEW n \in Nodes, Crash(n) PROVE InvGone'
  BY <1>15 DEF InvGone, Crash, queue, stores, worker, batch, Fault, NoFault, PcStates
<1>16. ASSUME NEW k \in Key, Lapse(k) PROVE InvGone'
  BY <1>16 DEF InvGone, Lapse, queue, stores, worker, batch, Fault, NoFault, PcStates
<1>17. CASE UNCHANGED vars
  BY <1>17 DEF InvGone, vars, queue, stores, worker, batch
<1>18. QED
  BY <1>1, <1>2, <1>3, <1>4, <1>5, <1>6, <1>7, <1>8,
     <1>9, <1>10, <1>11, <1>12, <1>13, <1>14,
     <1>15, <1>16, <1>17 DEF Next, WorkerStep

-----------------------------------------------------------------------------
(* Theorems *)

LEMMA LockInit == Init => LockInv
<1> SUFFICES ASSUME Init PROVE LockInv
  OBVIOUS
<1>1. TypeOK
  BY DEF Init, TypeOK, PcStates
<1>2. InvKnown /\ InvLocks /\ OneWorkerPerTask
  BY DEF Init, InvKnown, InvLocks, OneWorkerPerTask
<1>3. QED
  BY <1>1, <1>2 DEF LockInv

LEMMA LockStep == LockInv /\ [Next]_vars => LockInv'
BY TypeStep, KnownStep, LocksStep, WorkerStepLock DEF LockInv

LEMMA LockInvariance == Spec => []LockInv
BY LockInit, LockStep, PTL DEF Spec

(* Queue, stores and workers keep their types, for any number of nodes and  *)
(* documents and all kinds of faults.                                       *)
THEOREM TypeCorrect == Spec => []TypeOK
<1>1. LockInv => TypeOK
  BY DEF LockInv
<1>2. QED
  BY <1>1, LockInvariance, PTL

(* However many nodes hand out a task, at most one worker works on it, with *)
(* crashes and a failing lock store: try_lock_task excludes as long as      *)
(* workers are done before their locks lapse.                               *)
THEOREM TaskLockHolds == Spec => []OneWorkerPerTask
<1>1. LockInv => OneWorkerPerTask
  BY DEF LockInv
<1>2. QED
  BY <1>1, LockInvariance, PTL

(* If the deletion batch can be committed, no stored document is missed by  *)
(* the search index: its insertion stays in the task queue until it is      *)
(* indexed, for any nodes, batches, reindexing, crashes and other faults.   *)
(* With a failing commit index() loses insertions: MCIndexLost.             *)
THEOREM IndexComplete ==
  ASSUME "commit" \notin Faults
  PROVE  Spec => []NothingForgotten
<1>1. Init => WorkInv
  <2> SUFFICES ASSUME Init PROVE WorkInv
    OBVIOUS
  <2>1. InvWork /\ NothingForgotten
    BY DEF Init, InvWork, WorkOK, Living, NothingForgotten
  <2>2. QED
    BY <2>1, LockInit DEF WorkInv
<1>2. WorkInv /\ [Next]_vars => WorkInv'
  <2> SUFFICES ASSUME WorkInv, [Next]_vars PROVE WorkInv'
    OBVIOUS
  <2>1. LockInv'
    BY LockStep DEF WorkInv
  <2>2. InvWork' /\ NothingForgotten'
    BY WorkStep, ForgottenStep DEF WorkInv, LockInv
  <2>3. QED
    BY <2>1, <2>2 DEF WorkInv
<1>3. WorkInv => NothingForgotten
  BY DEF WorkInv
<1>4. QED
  BY <1>1, <1>2, <1>3, PTL DEF Spec

(* If index() does not return early, a deleted document that is still in    *)
(* the search store has its deletion in the task queue, or was unindexed    *)
(* once already.                                                            *)
THEOREM DeletionsReachIndex ==
  ASSUME "commit" \notin Faults, "search" \notin Faults
  PROVE  Spec => []NoGhost
<1>1. Init => GoneInv
  <2> SUFFICES ASSUME Init PROVE GoneInv
    OBVIOUS
  <2>1. InvUnindexed /\ InvGone
    BY DEF Init, InvUnindexed, InvGone
  <2>2. QED
    BY <2>1, LockInit DEF GoneInv
<1>2. GoneInv /\ [Next]_vars => GoneInv'
  <2> SUFFICES ASSUME GoneInv, [Next]_vars PROVE GoneInv'
    OBVIOUS
  <2>1. LockInv'
    BY LockStep DEF GoneInv
  <2>2. InvUnindexed' /\ InvGone'
    BY UnindexedStep, GoneStep DEF GoneInv, LockInv
  <2>3. QED
    BY <2>1, <2>2 DEF GoneInv
<1>3. GoneInv => NoGhost
  BY DEF GoneInv, LockInv, InvGone, NoGhost, TypeOK
<1>4. QED
  BY <1>1, <1>2, <1>3, PTL DEF Spec
=============================================================================
