-------------------------- MODULE QueueManagerProofs --------------------------
(***************************************************************************)
(* For any keys, queues, threads, tasks and bounds: in_flight counts the   *)
(* tasks that the manager has started and not yet heard of, a scan keeps   *)
(* to the threads of a queue, and a loop that is not paused wakes up in    *)
(* time for every event.                                                   *)
(***************************************************************************)
EXTENDS QueueManager, FiniteSetTheorems, WellFoundedInduction, TLAPS

(* What the proofs need of the types.                                       *)
Types ==
  /\ task \in [Tasks -> Task]
  /\ inbox \in Seq(QueueEvent)
  /\ inflight \in [Queues -> Nat]
  /\ limit \in [Queues -> Nat]
  /\ \A t \in Tasks : Running(t) => task[t].key \in Keys

(* A report in the channel is the only one of its task, which has nothing   *)
(* left to do.                                                              *)
IsReport(i, t) == inbox[i].type = "WorkerDone" /\ inbox[i].task = t
Reports ==
  \A t \in Tasks : \A i \in 1..Len(inbox) : IsReport(i, t) =>
    /\ task[t].pc = "sent"
    /\ \A j \in 1..Len(inbox) : IsReport(j, t) => i = j

(* in_flight, after a shutdown too: then a task may end unheard.            *)
Counted ==
  \A q \in Queues :
    /\ Cardinality(TasksOf(q)) <= inflight[q]
    /\ ~closed => inflight[q] = Cardinality(TasksOf(q))

Accounts == Types /\ Reports /\ Counted

-----------------------------------------------------------------------------
(* Facts about the operators *)

(* The tasks of a queue can be counted.                                     *)
LEMMA TasksFinite ==
  ASSUME NEW q \in Queues
  PROVE  IsFiniteSet(TasksOf(q)) /\ Cardinality(TasksOf(q)) \in Nat
<1>1. TasksOf(q) \in SUBSET Tasks
  BY DEF TasksOf
<1> QED BY <1>1, TasksAssumption, FS_Subset, FS_CardinalityType

(* The less of two numbers.                                                 *)
LEMMA MinOfTwo ==
  ASSUME NEW a \in Int, NEW b \in Int
  PROVE  Min({a, b}) <= a /\ Min({a, b}) \in Int
<1>1. \E x \in {a, b} : \A y \in {a, b} : x <= y
  OBVIOUS
<1>2. /\ Min({a, b}) \in {a, b}
      /\ \A y \in {a, b} : Min({a, b}) <= y
  BY <1>1 DEF Min
<1> QED BY <1>2

(* A function that tells the elements of S apart has as many values.        *)
LEMMA ImageCount ==
  ASSUME NEW D, NEW T, NEW f \in Injection(D, T), NEW S \in SUBSET D, IsFiniteSet(S)
  PROVE  /\ IsFiniteSet({f[k] : k \in S})
         /\ Cardinality({f[k] : k \in S}) = Cardinality(S)
<1> DEFINE I == {f[k] : k \in S}
           g == [k \in S |-> f[k]]
<1>1. f \in [D -> T] /\ \A a, b \in D : f[a] = f[b] => a = b
  BY DEF Injection, IsInjective
<1>2. g \in Injection(S, I)
  BY <1>1 DEF Injection, IsInjective
<1>3. g \in Surjection(S, I)
  BY DEF Surjection
<1>4. g \in Bijection(S, I)
  BY <1>2, <1>3 DEF Bijection
<1>5. ExistsBijection(S, I)
  BY <1>4 DEF ExistsBijection
<1> QED BY <1>5, FS_Bijection
-----------------------------------------------------------------------------
(* Steps that start no task and end none *)

(* Nothing of the accounts has changed.                                     *)
LEMMA AccountsKept ==
  ASSUME Accounts, UNCHANGED <<task, inbox, inflight, limit, closed>>
  PROVE  Accounts'
BY DEF Accounts, Types, Reports, IsReport, Counted, TasksOf, Running

(* A request, a refresh, a reload or a shutdown is put into the channel.    *)
LEMMA AccountsSend ==
  ASSUME Accounts, NEW e \in QueueEvent, e.type # "WorkerDone", Send(e),
         UNCHANGED <<task, inflight, limit, closed>>
  PROVE  Accounts'
<1>1. CASE inbox' = inbox
  BY <1>1, AccountsKept
<1>2. CASE inbox' = Append(inbox, e)
  <2>1. inbox \in Seq(QueueEvent)
    BY DEF Accounts, Types
  <2>2. /\ inbox' \in Seq(QueueEvent) /\ Len(inbox') = Len(inbox) + 1
        /\ \A i \in 1..Len(inbox) : inbox'[i] = inbox[i]
        /\ inbox'[Len(inbox) + 1] = e
    BY <1>2, <2>1
  <2>3. Types'
    BY <2>2 DEF Accounts, Types, Running
  <2>4. ASSUME NEW t \in Tasks, NEW i \in 1..Len(inbox'), IsReport(i, t)'
        PROVE  i \in 1..Len(inbox) /\ IsReport(i, t)
    BY <2>1, <2>2, <2>4 DEF IsReport
  <2>5. Reports'
    BY <2>4 DEF Accounts, Reports
  <2>6. Counted'
    BY DEF Accounts, Counted, TasksOf, Running
  <2> QED BY <2>3, <2>5, <2>6 DEF Accounts
<1> QED BY <1>1, <1>2 DEF Send

(* A task takes a step on its way to its report.                            *)
LEMMA AccountsMove ==
  ASSUME Accounts, NEW t \in Tasks, NEW pc \in {"work", "unlock", "report"},
         NEW status \in Statuses \cup {"none"}, At(t, pc, status),
         task[t].pc \in {"start", "work", "unlock"},
         UNCHANGED <<inbox, inflight, limit, closed>>
  PROVE  Accounts'
<1>1. task \in [Tasks -> Task]
  BY DEF Accounts, Types
<1>2. /\ task' \in [Tasks -> Task]
      /\ \A u \in Tasks : u # t => task'[u] = task[u]
      /\ task'[t].pc = pc /\ task'[t].key = task[t].key
  BY <1>1 DEF At, Task
<1>3. \A u \in Tasks : Running(u)' = Running(u) /\ task'[u].key = task[u].key
  BY <1>2 DEF Running
<1>4. Types'
  BY <1>2, <1>3 DEF Accounts, Types
<1>5. Reports'
  BY <1>2 DEF Accounts, Reports, IsReport
<1>6. \A q \in Queues : TasksOf(q)' = TasksOf(q)
  BY <1>3 DEF TasksOf
<1>7. Counted'
  BY <1>6 DEF Accounts, Counted
<1> QED BY <1>4, <1>5, <1>7 DEF Accounts

-----------------------------------------------------------------------------
(* The end of a task *)

(* It reports, and is counted until the report is read; unless nobody will  *)
(* read it.                                                                 *)
LEMMA AccountsReport ==
  ASSUME Accounts, NEW t \in Tasks, Report(t)
  PROVE  Accounts'
<1> DEFINE e == [type |-> "WorkerDone", task |-> t]
<1>0. /\ task \in [Tasks -> Task] /\ inbox \in Seq(QueueEvent)
      /\ UNCHANGED <<inflight, limit, closed>>
  BY DEF Accounts, Types, Report, manager
<1>1. CASE closed
  <2>1. task' = [task EXCEPT ![t] = NoTask] /\ inbox' = inbox
    BY <1>1 DEF Report, Send
  <2>2. NoTask \in Task
    BY DEF NoTask, Task
  <2>3. Types'
    BY <1>0, <2>1, <2>2 DEF Accounts, Types, Running, NoTask
  <2>4. task[t].pc = "report"
    BY DEF Report
  <2>5. Reports'
    BY <1>0, <2>1, <2>4 DEF Accounts, Reports, IsReport
  <2>6. ASSUME NEW q \in Queues
        PROVE  Cardinality(TasksOf(q)') <= inflight'[q]
    <3>1. TasksOf(q)' \in SUBSET TasksOf(q)
      BY <1>0, <2>1 DEF TasksOf, Running, NoTask
    <3>2. Cardinality(TasksOf(q)') <= Cardinality(TasksOf(q))
      BY <3>1, TasksFinite, FS_Subset
    <3>3. Cardinality(TasksOf(q)') \in Nat
      BY <3>1, TasksFinite, FS_Subset, FS_CardinalityType
    <3> QED BY <1>0, <3>2, <3>3, TasksFinite DEF Accounts, Types, Counted
  <2>7. Counted'
    BY <1>0, <1>1, <2>6 DEF Counted
  <2> QED BY <2>3, <2>5, <2>7 DEF Accounts
<1>2. CASE ~closed
  <2>1. /\ task' = [task EXCEPT ![t] = [@ EXCEPT !.pc = "sent"]]
        /\ inbox' = Append(inbox, e)
        /\ task[t].pc = "report"
    BY <1>2 DEF Report, Send
  <2>2. e \in QueueEvent
    BY DEF QueueEvent
  <2>3. /\ inbox' \in Seq(QueueEvent) /\ Len(inbox') = Len(inbox) + 1
        /\ \A i \in 1..Len(inbox) : inbox'[i] = inbox[i]
        /\ inbox'[Len(inbox) + 1] = e
    BY <1>0, <2>1, <2>2
  <2>4. /\ task' \in [Tasks -> Task]
        /\ \A u \in Tasks : u # t => task'[u] = task[u]
        /\ task'[t].pc = "sent" /\ task'[t].key = task[t].key
    BY <1>0, <2>1 DEF Task
  <2>5. \A u \in Tasks : Running(u)' = Running(u) /\ task'[u].key = task[u].key
    BY <2>1, <2>4 DEF Running
  <2>6. Types'
    BY <1>0, <2>3, <2>4, <2>5 DEF Accounts, Types
  <2>7. ASSUME NEW u \in Tasks, NEW i \in 1..Len(inbox'), IsReport(i, u)'
        PROVE  \/ i \in 1..Len(inbox) /\ IsReport(i, u)
               \/ i = Len(inbox) + 1 /\ u = t
    BY <1>0, <2>3, <2>7 DEF IsReport
  <2>8. \A i \in 1..Len(inbox) : ~IsReport(i, t)
    BY <2>1 DEF Accounts, Reports
  <2>9. Reports'
    BY <2>4, <2>7, <2>8 DEF Accounts, Reports
  <2>10. \A q \in Queues : TasksOf(q)' = TasksOf(q)
    BY <2>5 DEF TasksOf
  <2>11. Counted'
    BY <1>0, <2>10 DEF Accounts, Counted
  <2> QED BY <2>6, <2>9, <2>11 DEF Accounts
<1> QED BY <1>1, <1>2

(* What is left in the channel when its first event is taken.               *)
LEMMA ReportsTail ==
  ASSUME Accounts, inbox # << >>, inbox' = Tail(inbox)
  PROVE  /\ inbox' \in Seq(QueueEvent)
         /\ Head(inbox) \in QueueEvent
         /\ \A t \in Tasks : \A i \in 1..Len(inbox') :
              IsReport(i, t)' => i + 1 \in 1..Len(inbox) /\ IsReport(i + 1, t)
<1>1. inbox \in Seq(QueueEvent)
  BY DEF Accounts, Types
<1>2. /\ inbox' \in Seq(QueueEvent) /\ Len(inbox') = Len(inbox) - 1
      /\ \A i \in 1..Len(inbox') : inbox'[i] = inbox[i + 1]
      /\ Head(inbox) = inbox[1] /\ Len(inbox) \in Nat \ {0}
  BY <1>1
<1>3. Head(inbox) \in QueueEvent
  BY <1>1, <1>2
<1> QED BY <1>2, <1>3 DEF IsReport

(* The manager reads a report: one task less, and one in_flight less.       *)
LEMMA AccountsWorkerDone ==
  ASSUME Accounts, inbox # << >>, inbox' = Tail(inbox), UNCHANGED <<limit, closed>>,
         Head(inbox).type = "WorkerDone", WorkerDone(Head(inbox).task)
  PROVE  Accounts'
<1> DEFINE t == Head(inbox).task
           k == task[t].key
           o == QueueOf[k]
<1>1. t \in Tasks
  BY ReportsTail DEF QueueEvent
<1>2. 1 \in 1..Len(inbox) /\ IsReport(1, t)
  <2>1. inbox \in Seq(QueueEvent)
    BY DEF Accounts, Types
  <2> QED BY <2>1 DEF IsReport
<1>3. task[t].pc = "sent" /\ \A j \in 1..Len(inbox) : IsReport(j, t) => j = 1
  BY <1>1, <1>2 DEF Accounts, Reports
<1>4. k \in Keys /\ o \in Queues
  BY <1>1, <1>3, QueueOfAssumption DEF Accounts, Types, Running
<1>5. /\ task' = [task EXCEPT ![t] = NoTask]
      /\ inflight' = [inflight EXCEPT ![o] = @ - 1]
  BY DEF WorkerDone
<1>6. /\ task \in [Tasks -> Task] /\ inflight \in [Queues -> Nat]
      /\ limit \in [Queues -> Nat]
  BY DEF Accounts, Types
<1> HIDE DEF t, k, o
<1>7. t \in TasksOf(o)
  BY <1>1, <1>3 DEF TasksOf, Running, k, o
<1>8. \A q \in Queues : TasksOf(q)' = IF q = o THEN TasksOf(q) \ {t} ELSE TasksOf(q)
  BY <1>1, <1>5, <1>6 DEF TasksOf, Running, NoTask, k, o
<1>9. /\ Cardinality(TasksOf(o) \ {t}) = Cardinality(TasksOf(o)) - 1
      /\ Cardinality(TasksOf(o) \ {t}) \in Nat
  BY <1>4, <1>7, TasksFinite, FS_RemoveElement, FS_CardinalityType
<1>10. inflight[o] - 1 \in Nat
  BY <1>4, <1>6, <1>9, TasksFinite DEF Accounts, Counted
<1>11. inflight' \in [Queues -> Nat]
  BY <1>5, <1>6, <1>10
<1>12. NoTask \in Task
  BY DEF NoTask, Task
<1>13. Types'
  BY <1>1, <1>5, <1>6, <1>11, <1>12, ReportsTail DEF Accounts, Types, Running, NoTask
<1>14. ASSUME NEW u \in Tasks, NEW i \in 1..Len(inbox'), IsReport(i, u)'
       PROVE  u # t /\ i + 1 \in 1..Len(inbox) /\ IsReport(i + 1, u)
  <2>1. i + 1 \in 1..Len(inbox) /\ IsReport(i + 1, u)
    BY <1>14, ReportsTail
  <2>2. i \in Nat \ {0}
    OBVIOUS
  <2>3. ~(i + 1 = 1)
    BY <2>2
  <2> QED BY <1>3, <2>1, <2>3
<1>15. Reports'
  <2> SUFFICES ASSUME NEW u \in Tasks, NEW i \in 1..Len(inbox'), IsReport(i, u)'
               PROVE  /\ task'[u].pc = "sent"
                      /\ \A j \in 1..Len(inbox') : IsReport(j, u)' => i = j
    BY DEF Reports, IsReport
  <2>1. task'[u].pc = "sent"
    BY <1>5, <1>6, <1>14 DEF Accounts, Reports
  <2>2. ASSUME NEW j \in 1..Len(inbox'), IsReport(j, u)' PROVE i = j
    <3>1. i + 1 = j + 1
      BY <1>14, <2>2 DEF Accounts, Reports
    <3> QED BY <3>1
  <2> QED BY <2>1, <2>2
<1>16. ASSUME NEW q \in Queues
       PROVE  /\ Cardinality(TasksOf(q)') <= inflight'[q]
              /\ ~closed => inflight'[q] = Cardinality(TasksOf(q)')
  <2>1. CASE q = o
    <3>1. /\ Cardinality(TasksOf(o)) <= inflight[o]
          /\ ~closed => inflight[o] = Cardinality(TasksOf(o))
      BY <1>4 DEF Accounts, Counted
    <3>2. Cardinality(TasksOf(q)') = Cardinality(TasksOf(o)) - 1
      BY <1>8, <1>9, <2>1
    <3>3. inflight'[q] = inflight[o] - 1 /\ inflight[o] \in Nat
      BY <1>5, <1>6, <2>1
    <3>4. Cardinality(TasksOf(o)) \in Nat
      BY <1>4, TasksFinite
    <3> QED BY <3>1, <3>2, <3>3, <3>4
  <2>2. CASE q # o
    BY <1>5, <1>6, <1>8, <2>2 DEF Accounts, Counted
  <2> QED BY <2>1, <2>2
<1>17. Counted'
  BY <1>16 DEF Counted
<1> QED BY <1>13, <1>15, <1>17 DEF Accounts

(* Every other event leaves the tasks alone.                                *)
LEMMA AccountsReceive ==
  ASSUME Accounts, Receive
  PROVE  Accounts'
<1> DEFINE e == Head(inbox)
<1>1. inbox # << >> /\ inbox' = Tail(inbox)
  BY DEF Receive, HandleEvent
<1>2. CASE e.type = "WorkerDone" /\ WorkerDone(e.task) /\ UNCHANGED <<limit, closed>>
  BY <1>1, <1>2, AccountsWorkerDone
<1>3. CASE /\ UNCHANGED <<task, inflight>> /\ limit' \in [Queues -> Nat]
           /\ closed' = TRUE \/ closed' = closed
  <2>1. Types'
    BY <1>1, <1>3, ReportsTail DEF Accounts, Types, Running
  <2>2. Reports'
    <3> SUFFICES ASSUME NEW u \in Tasks, NEW i \in 1..Len(inbox'), IsReport(i, u)'
                 PROVE  /\ task'[u].pc = "sent"
                        /\ \A j \in 1..Len(inbox') : IsReport(j, u)' => i = j
      BY DEF Reports, IsReport
    <3>1. task'[u].pc = "sent"
      BY <1>1, <1>3, ReportsTail DEF Accounts, Reports
    <3>2. ASSUME NEW j \in 1..Len(inbox'), IsReport(j, u)' PROVE i = j
      <4>1. i + 1 = j + 1
        BY <1>1, <3>2, ReportsTail DEF Accounts, Reports
      <4> QED BY <4>1
    <3> QED BY <3>1, <3>2
  <2>3. Counted'
    BY <1>3 DEF Accounts, Counted, TasksOf, Running
  <2> QED BY <2>1, <2>2, <2>3 DEF Accounts
<1>4. limit \in [Queues -> Nat]
  BY DEF Accounts, Types
<1>5. e.type = "ReloadSettings" => e.threads \in [Queues -> Nat]
  BY <1>1, ReportsTail, ThreadsAssumption DEF QueueEvent
<1> QED BY <1>2, <1>3, <1>4, <1>5 DEF Receive, HandleEvent

-----------------------------------------------------------------------------
(* The scan *)

(* A scan starts at most as many tasks of a queue as it has threads free,   *)
(* and none of a queue without.                                             *)
LEMMA StartableFits ==
  ASSUME Accounts, NEW D \in Startable, NEW q \in Queues
  PROVE  /\ D \in SUBSET Keys
         /\ IsFiniteSet(D \cap KeysOf(q))
         /\ Cardinality(D \cap KeysOf(q)) \in Nat
         /\ Cardinality(D \cap KeysOf(q)) > 0 =>
              inflight[q] + Cardinality(D \cap KeysOf(q)) <= limit[q]
<1>1. D \in SUBSET Found
  BY DEF Startable
<1>2. D \in SUBSET Keys /\ \A k \in D : HasCapacity(QueueOf[k])
  BY <1>1 DEF Found, Visited
<1>3. IsFiniteSet(D \cap KeysOf(q)) /\ Cardinality(D \cap KeysOf(q)) \in Nat
  BY <1>2, TasksAssumption, FS_Subset, FS_Intersection, FS_CardinalityType
<1>4. inflight[q] \in Nat /\ limit[q] \in Nat
  BY DEF Accounts, Types
<1>5. CASE HasCapacity(q)
  <2> DEFINE n == Cardinality(Found \cap KeysOf(q))
  <2>1. Found \in SUBSET Keys
    BY DEF Found, Visited
  <2>2. n \in Nat
    BY <2>1, TasksAssumption, FS_Subset, FS_Intersection, FS_CardinalityType
  <2>3. Cardinality(D \cap KeysOf(q)) = Min({limit[q] - inflight[q], n})
    BY <1>5 DEF Startable
  <2> HIDE DEF n
  <2>4. limit[q] - inflight[q] \in Int
    BY <1>4
  <2>5. Cardinality(D \cap KeysOf(q)) <= limit[q] - inflight[q]
    BY <2>2, <2>3, <2>4, MinOfTwo
  <2> QED BY <1>2, <1>3, <1>4, <2>5
<1>6. CASE ~HasCapacity(q)
  <2>1. D \cap KeysOf(q) = {}
    BY <1>2, <1>6 DEF KeysOf
  <2> QED BY <1>2, <1>3, <2>1, FS_EmptySet
<1> QED BY <1>5, <1>6

(* It starts one task for each key, none of them in use.                    *)
LEMMA AccountsScan ==
  ASSUME Accounts, Scan, UNCHANGED <<inbox, limit, closed>>
  PROVE  Accounts'
<1> DEFINE Free == {t \in Tasks : ~Running(t)}
<1>1. PICK D \in Startable : \E f \in Injection(D, Free) :
         /\ task' = [t \in Tasks |-> IF \E k \in D : f[k] = t
                        THEN [NoTask EXCEPT !.pc = "start", !.key = CHOOSE k \in D : f[k] = t]
                        ELSE task[t]]
         /\ inflight' = [q \in Queues |-> inflight[q] + Cardinality(D \cap KeysOf(q))]
  BY DEF Scan
<1>2. PICK f \in Injection(D, Free) :
         /\ task' = [t \in Tasks |-> IF \E k \in D : f[k] = t
                        THEN [NoTask EXCEPT !.pc = "start", !.key = CHOOSE k \in D : f[k] = t]
                        ELSE task[t]]
         /\ inflight' = [q \in Queues |-> inflight[q] + Cardinality(D \cap KeysOf(q))]
  BY <1>1
<1>3. /\ f \in [D -> Free]
      /\ \A a, b \in D : f[a] = f[b] => a = b
  BY DEF Injection, IsInjective
<1>4. \A k \in D : /\ f[k] \in Tasks /\ ~Running(f[k])
                   /\ task'[f[k]] = [NoTask EXCEPT !.pc = "start", !.key = k]
  <2> TAKE k \in D
  <2>1. f[k] \in Tasks /\ ~Running(f[k])
    BY <1>3
  <2>2. (CHOOSE x \in D : f[x] = f[k]) = k
    BY <1>3
  <2> QED BY <1>2, <2>1, <2>2
<1>5. \A t \in Tasks : (\A k \in D : f[k] # t) => task'[t] = task[t]
  BY <1>2
<1>6. /\ task \in [Tasks -> Task] /\ inflight \in [Queues -> Nat]
      /\ limit \in [Queues -> Nat]
      /\ inbox \in Seq(QueueEvent)
  BY DEF Accounts, Types
<1>7. \A k \in D : /\ k \in Keys
                   /\ task'[f[k]].pc = "start" /\ task'[f[k]].key = k
                   /\ task'[f[k]] \in Task
  <2>1. \A k \in D : k \in Keys
    BY DEF Startable, Found, Visited
  <2> QED BY <1>4, <2>1 DEF NoTask, Task
<1>8. \A t \in Tasks : /\ task'[t] \in Task
                       /\ Running(t)' => task'[t].key \in Keys
  <2> TAKE t \in Tasks
  <2>1. CASE \E k \in D : f[k] = t
    BY <1>7, <2>1
  <2>2. CASE \A k \in D : f[k] # t
    <3>1. task'[t] = task[t] /\ (Running(t)' <=> Running(t))
      BY <1>5, <2>2 DEF Running
    <3> QED BY <1>6, <3>1 DEF Accounts, Types
  <2> QED BY <2>1, <2>2
<1>9. Types'
  <2>1. task' \in [Tasks -> Task]
    BY <1>2, <1>8
  <2>2. inflight' \in [Queues -> Nat]
    <3>1. \A q \in Queues : inflight[q] + Cardinality(D \cap KeysOf(q)) \in Nat
      <4> TAKE q \in Queues
      <4>1. inflight[q] \in Nat /\ Cardinality(D \cap KeysOf(q)) \in Nat
        BY <1>6, StartableFits
      <4> QED BY <4>1
    <3> QED BY <1>2, <3>1
  <2> QED BY <1>6, <1>8, <2>1, <2>2 DEF Types
<1>10. Reports'
  <2>1. \A t \in Tasks : task[t].pc = "sent" => task'[t] = task[t]
    BY <1>4, <1>5 DEF Running
  <2> QED BY <2>1 DEF Accounts, Reports, IsReport
<1>11. ASSUME NEW q \in Queues
       PROVE  /\ Cardinality(TasksOf(q)') <= inflight'[q]
              /\ ~closed => inflight'[q] = Cardinality(TasksOf(q)')
  <2> DEFINE S == D \cap KeysOf(q)
             I == {f[k] : k \in S}
  <2>1. TasksOf(q)' = TasksOf(q) \cup I
    <3>1. ASSUME NEW t \in Tasks, \A k \in D : f[k] # t
          PROVE  t \in TasksOf(q)' <=> t \in TasksOf(q) \cup I
      BY <1>5, <3>1 DEF TasksOf, Running
    <3>2. ASSUME NEW k \in D
          PROVE  f[k] \in TasksOf(q)' <=> f[k] \in TasksOf(q) \cup I
      <4>1. f[k] \in TasksOf(q)' <=> QueueOf[k] = q
        BY <1>4, <1>7 DEF TasksOf, Running
      <4>2. f[k] \notin TasksOf(q)
        BY <1>4 DEF TasksOf
      <4>3. f[k] \in I <=> QueueOf[k] = q
        BY <1>3, <1>7 DEF KeysOf
      <4> QED BY <4>1, <4>2, <4>3
    <3>3. TasksOf(q)' \in SUBSET Tasks /\ TasksOf(q) \in SUBSET Tasks /\ I \in SUBSET Tasks
      BY <1>4 DEF TasksOf
    <3> QED BY <3>1, <3>2, <3>3
  <2>2. TasksOf(q) \cap I = {}
    BY <1>4 DEF TasksOf
  <2>3. /\ IsFiniteSet(S) /\ Cardinality(S) \in Nat
    BY StartableFits
  <2>4. IsFiniteSet(I) /\ Cardinality(I) = Cardinality(S)
    BY <2>3, ImageCount
  <2> HIDE DEF S, I
  <2>5. Cardinality(TasksOf(q) \cup I) = Cardinality(TasksOf(q)) + Cardinality(S)
    <3>1. Cardinality(TasksOf(q) \cap I) = 0
      BY <2>2, FS_EmptySet
    <3>2. Cardinality(TasksOf(q) \cup I) =
            Cardinality(TasksOf(q)) + Cardinality(I) - Cardinality(TasksOf(q) \cap I)
      BY <2>4, TasksFinite, FS_Union
    <3>3. Cardinality(TasksOf(q)) \in Nat
      BY TasksFinite
    <3> QED BY <2>3, <2>4, <3>1, <3>2, <3>3
  <2>6. inflight'[q] = inflight[q] + Cardinality(S)
    BY <1>2 DEF S
  <2> QED BY <1>6, <2>1, <2>3, <2>5, <2>6, TasksFinite DEF Accounts, Counted
<1>12. Counted'
  BY <1>11 DEF Counted
<1> QED BY <1>9, <1>10, <1>12 DEF Accounts

(* The loop, without its scan, only sleeps.                                 *)
LEMMA AccountsRun ==
  ASSUME Accounts, Run
  PROVE  Accounts'
<1>1. UNCHANGED <<inbox, limit, closed>>
  BY DEF Run
<1>2. CASE Scan
  BY <1>1, <1>2, AccountsScan
<1>3. CASE UNCHANGED <<task, inflight>>
  BY <1>1, <1>3, AccountsKept
<1> QED BY <1>2, <1>3 DEF Run

-----------------------------------------------------------------------------

LEMMA AccountsInit == Init => Accounts
<1> SUFFICES ASSUME Init PROVE Accounts
  OBVIOUS
<1>1. NoTask \in Task
  BY DEF NoTask, Task
<1>2. \A t \in Tasks : ~Running(t)
  BY DEF Init, Running, NoTask
<1>3. Types
  <2>1. task \in [Tasks -> Task] /\ inflight \in [Queues -> Nat] /\ limit \in [Queues -> Nat]
    BY <1>1, ThreadsAssumption DEF Init
  <2>2. inbox \in Seq(QueueEvent)
    BY DEF Init
  <2> QED BY <1>2, <2>1, <2>2 DEF Types
<1>4. Reports
  BY DEF Init, Reports
<1>5. \A q \in Queues : TasksOf(q) = {}
  BY <1>2 DEF TasksOf
<1>6. Counted
  <2>1. \A q \in Queues : Cardinality(TasksOf(q)) = 0 /\ inflight[q] = 0
    BY <1>5, FS_EmptySet DEF Init
  <2> QED BY <2>1 DEF Counted
<1> QED BY <1>3, <1>4, <1>6 DEF Accounts

(* Steps of a task.                                                         *)
LEMMA AccountsTask ==
  ASSUME Accounts, NEW t \in Tasks, TaskStep(t)
  PROVE  Accounts'
<1>1. CASE TryLock(t)
  <2>1. UNCHANGED <<inbox, inflight, limit, closed>> /\ task[t].pc = "start"
    BY <1>1 DEF TryLock, manager
  <2>2. At(t, "report", "locked") \/ At(t, "unlock", "completed") \/ At(t, "work", "none")
    BY <1>1 DEF TryLock
  <2> QED BY <2>1, <2>2, AccountsMove DEF Statuses
<1>2. CASE Deliver(t)
  <2>1. UNCHANGED <<inbox, inflight, limit, closed>> /\ task[t].pc = "work"
    BY <1>2 DEF Deliver, manager
  <2>2. At(t, "unlock", "completed") \/ At(t, "unlock", "deferred")
    BY <1>2 DEF Deliver
  <2> QED BY <2>1, <2>2, AccountsMove DEF Statuses
<1>3. CASE Unlock(t)
  <2>1. /\ UNCHANGED <<inbox, inflight, limit, closed>> /\ task[t].pc = "unlock"
        /\ At(t, "report", task[t].status)
    BY <1>3 DEF Unlock, manager
  <2>2. task[t].status \in Statuses \cup {"none"}
    BY DEF Accounts, Types, Task
  <2> QED BY <2>1, <2>2, AccountsMove
<1> QED BY <1>1, <1>2, <1>3, AccountsReport DEF TaskStep

(* Steps of everybody else: the store, the channel.                         *)
LEMMA AccountsOthers ==
  ASSUME Accounts,
         \/ Timeout \/ Stopped \/ OtherDies \/ Reload \/ Shutdown \/ BulkRead \/ BulkStep \/ Tick
         \/ \E p \in BOOLEAN : SetPaused(p)
         \/ \E k \in Keys : \/ Enqueue(k) \/ SendRefresh(k) \/ OtherTakes(k) \/ OtherEnds(k)
                            \/ Reschedule(k) \/ DeleteOne(k)
  PROVE  Accounts'
<1> DEFINE Quiet == UNCHANGED <<task, inflight, limit, closed>>
<1>1. ASSUME Quiet, inbox' = inbox PROVE Accounts'
  BY <1>1, AccountsKept
<1>2. ASSUME Quiet, NEW e \in QueueEvent, e.type # "WorkerDone", Send(e) PROVE Accounts'
  BY <1>2, AccountsSend
<1>3. CASE Timeout \/ Stopped \/ OtherDies \/ BulkRead \/ BulkDelete \/ Tick
  BY <1>1, <1>3 DEF Timeout, Stopped, OtherDies, BulkRead, BulkDelete, Tick, manager
<1>4. ASSUME NEW k \in Keys,
             Enqueue(k) \/ OtherTakes(k) \/ OtherEnds(k) \/ Reschedule(k) \/ DeleteOne(k)
      PROVE  Accounts'
  BY <1>1, <1>4 DEF Enqueue, OtherTakes, OtherEnds, Reschedule, DeleteOne, manager
<1>5. ASSUME NEW p \in BOOLEAN
      PROVE  /\ [type |-> "Paused", paused |-> p] \in QueueEvent
             /\ [type |-> "Paused", paused |-> p].type # "WorkerDone"
  BY DEF QueueEvent
<1>6. ASSUME NEW p \in BOOLEAN, SetPaused(p) PROVE Accounts'
  BY <1>2, <1>5, <1>6 DEF SetPaused, manager
<1>7. CASE BulkPause
  BY <1>1, <1>2, <1>5, <1>7 DEF BulkPause, manager
<1>8. CASE BulkResume
  BY <1>1, <1>2, <1>5, <1>8 DEF BulkResume, manager
<1>9. \A x \in {"Refresh", "Stop"} : /\ [type |-> x] \in QueueEvent
                                     /\ [type |-> x].type # "WorkerDone"
  BY DEF QueueEvent
<1>10. ASSUME NEW k \in Keys, SendRefresh(k) PROVE Accounts'
  BY <1>2, <1>9, <1>10 DEF SendRefresh, manager
<1>11. CASE Shutdown
  BY <1>2, <1>9, <1>11 DEF Shutdown, manager
<1>12. CASE Reload
  <2>1. PICK l \in [Queues -> Threads] : Send([type |-> "ReloadSettings", threads |-> l])
    BY <1>12 DEF Reload
  <2>2. /\ [type |-> "ReloadSettings", threads |-> l] \in QueueEvent
        /\ [type |-> "ReloadSettings", threads |-> l].type # "WorkerDone"
    BY DEF QueueEvent
  <2> QED BY <1>2, <1>12, <2>1, <2>2 DEF Reload, manager
<1> HIDE DEF Quiet
<1> QED BY <1>3, <1>4, <1>6, <1>7, <1>8, <1>10, <1>11, <1>12 DEF BulkStep

LEMMA AccountsStep == Accounts /\ [Next]_vars => Accounts'
<1> SUFFICES ASSUME Accounts, [Next]_vars PROVE Accounts'
  OBVIOUS
<1>1. CASE UNCHANGED vars
  BY <1>1, AccountsKept DEF vars, manager
<1>2. CASE Next
  BY <1>2, AccountsReceive, AccountsRun, AccountsTask, AccountsOthers DEF Next, Loop
<1> QED BY <1>1, <1>2

(* in_flight is exact: for any number of queues, keys, tasks and threads,   *)
(* and whatever the order of reports, reloads, scans and pauses.            *)
THEOREM InFlightExactHolds == Spec => []InFlightExact
<1>1. Accounts => InFlightExact
  BY DEF Accounts, Counted, InFlightExact
<1> QED BY <1>1, AccountsInit, AccountsStep, PTL DEF Spec

-----------------------------------------------------------------------------

(* Only a scan adds to in_flight, and it keeps to the threads.              *)
LEMMA OnlyScansStart ==
  ASSUME Accounts, [Next]_vars, NEW q \in Queues, inflight'[q] > inflight[q]
  PROVE  inflight'[q] <= limit'[q]
<1>0. inflight \in [Queues -> Nat] /\ limit \in [Queues -> Nat]
  BY DEF Accounts, Types
<1>1. CASE inflight' = inflight
  BY <1>0, <1>1
<1>2. CASE Run /\ Scan
  <2>1. PICK D \in Startable :
          inflight' = [x \in Queues |-> inflight[x] + Cardinality(D \cap KeysOf(x))]
    BY <1>2 DEF Scan
  <2>2. inflight'[q] = inflight[q] + Cardinality(D \cap KeysOf(q)) /\ limit' = limit
    BY <1>2, <2>1 DEF Run
  <2>3. Cardinality(D \cap KeysOf(q)) > 0
    BY <1>0, <2>2, StartableFits
  <2> QED BY <2>2, <2>3, StartableFits
<1>3. CASE Receive
  <2>1. \/ inflight' = inflight
        \/ \E t : WorkerDone(t)
    BY <1>3 DEF Receive, HandleEvent
  <2>2. ASSUME NEW t, WorkerDone(t) PROVE ~(inflight'[q] > inflight[q])
    BY <1>0, <2>2 DEF WorkerDone
  <2> QED BY <1>0, <1>1, <2>1, <2>2
<1>4. CASE Run /\ ~Scan
  BY <1>1, <1>4 DEF Run
<1>5. ASSUME NEW t \in Tasks, TaskStep(t) PROVE inflight' = inflight
  BY <1>5 DEF TaskStep, TryLock, Deliver, Unlock, Report, manager
<1>6. ASSUME NEW k \in Keys,
             \/ Enqueue(k) \/ SendRefresh(k) \/ OtherTakes(k) \/ OtherEnds(k)
             \/ Reschedule(k) \/ DeleteOne(k)
      PROVE  inflight' = inflight
  BY <1>6 DEF Enqueue, SendRefresh, OtherTakes, OtherEnds, Reschedule, DeleteOne, manager
<1>7. CASE \/ Timeout \/ Stopped \/ OtherDies \/ Reload \/ Shutdown \/ BulkRead \/ BulkStep \/ Tick
           \/ \E p \in BOOLEAN : SetPaused(p)
  BY <1>1, <1>7 DEF Timeout, Stopped, OtherDies, Reload, Shutdown, BulkRead, BulkStep,
                    BulkPause, BulkDelete, BulkResume, Tick, SetPaused, manager
<1>8. CASE UNCHANGED vars
  BY <1>1, <1>8 DEF vars, manager
<1> QED BY <1>1, <1>2, <1>3, <1>4, <1>5, <1>6, <1>7, <1>8 DEF Next, Loop

(* A scan never starts more tasks of a queue than its threads, also after a *)
(* reload lowered them.                                                     *)
THEOREM WithinLimitsHolds == Spec => WithinLimits
<1> DEFINE Step == \A q \in Queues : inflight'[q] > inflight[q] => inflight'[q] <= limit'[q]
<1>1. Accounts /\ [Next]_vars => [Step]_vars
  BY OnlyScansStart
<1>2. WithinLimits <=> [][Step]_vars
  BY DEF WithinLimits
<1> QED BY <1>1, <1>2, AccountsInit, AccountsStep, PTL DEF Spec

-----------------------------------------------------------------------------
(* Type correctness *)

(* A set of times has an earliest one.                                      *)
LEMMA MinIsLeast ==
  ASSUME NEW S \in SUBSET Nat, S # {}
  PROVE  Min(S) \in S /\ \A n \in S : Min(S) <= n
<1>1. PICK x \in S : \A y \in S : ~(<<y, x>> \in OpToRel(<, Nat))
  BY WFMin, NatLessThanWellFounded
<1>2. ASSUME NEW y \in S PROVE x <= y
  <2>1. ~(y < x)
    BY <1>1 DEF OpToRel
  <2> QED BY <2>1
<1>3. \E z \in S : \A y \in S : z <= y
  BY <1>2
<1> QED BY <1>3 DEF Min

(* A second passes.                                                         *)
LEMMA ElapseType ==
  /\ \A n \in Nat : Elapse(n) \in Nat /\ Elapse(n) <= n
  /\ Elapse(None) = None
BY DEF Elapse, None, Forever

(* The scan answers with a time.                                            *)
LEMMA NextRefreshType ==
  ASSUME TypeOK
  PROVE  /\ NextRefresh \in Nat /\ NextRefresh <= QueueRefresh
         /\ \A k \in Keys : event[k] > 0 => NextRefresh <= event[k]
<1> DEFINE A == {locked[k] : k \in Visited \ Found}
           B == {event[k] : k \in {x \in Keys : event[x] > 0}}
           S == {QueueRefresh} \cup A \cup B
<1>1. QueueRefresh \in Nat
  BY TimesAssumption
<1>2. A \in SUBSET Nat
  BY DEF Found, Visited, TypeOK, None
<1>3. B \in SUBSET Nat
  BY DEF TypeOK, None
<1>4. S \in SUBSET Nat /\ QueueRefresh \in S /\ \A k \in Keys : event[k] > 0 => event[k] \in S
  BY <1>1, <1>2, <1>3
<1>5. NextRefresh = Min(S)
  BY DEF NextRefresh
<1> HIDE DEF S
<1>6. Min(S) \in S /\ \A n \in S : Min(S) <= n
  BY <1>4, MinIsLeast
<1> QED BY <1>4, <1>5, <1>6

(* The types of the store, of the loop and of everybody else.               *)
StoreType ==
  /\ event \in [Keys -> Nat \cup {None}]
  /\ lock \in [Keys -> Nat]
  /\ stage \in [Keys -> {"new", "stored", "queued"}]
  /\ other \subseteq Keys
LoopType ==
  /\ locked \in [Keys -> Nat \cup {None}]
  /\ limit \in [Queues -> Nat \ {0}]
  /\ paused \in BOOLEAN
  /\ wake \in Nat
  /\ closed \in BOOLEAN
  /\ mgr \in {"wait", "drain", "run", "stopped"}
  /\ refresh \in BOOLEAN
  /\ active \in BOOLEAN
RestType ==
  /\ bulk \in [pc : {"idle", "pause", "delete", "resume"}, active : BOOLEAN]
  /\ waspaused \in BOOLEAN
  /\ requests \in Nat

(* TypeOK, part by part.                                                    *)
LEMMA TypeParts == TypeOK <=> StoreType /\ LoopType /\ RestType
                      /\ task \in [Tasks -> Task] /\ inbox \in Seq(QueueEvent) /\ inflight \in [Queues -> Nat]
BY DEF TypeOK, StoreType, LoopType, RestType

(* An attempt rewrites the event.                                           *)
LEMMA RewrittenType ==
  ASSUME StoreType, requests \in Nat, NEW k \in Keys, NEW s, Rewritten(k, s)
  PROVE  /\ event' \in [Keys -> Nat \cup {None}]
         /\ requests' \in Nat
<1>1. requests' \in Nat
  BY DEF Rewritten
<1>2. CASE event' = [event EXCEPT ![k] = None]
  BY <1>1, <1>2 DEF StoreType
<1>3. CASE \E d \in Delays : event' = [event EXCEPT ![k] = d]
  BY <1>1, <1>3, TimesAssumption DEF StoreType
<1>4. CASE UNCHANGED event
  BY <1>1, <1>4 DEF StoreType
<1> QED BY <1>2, <1>3, <1>4 DEF Rewritten

(* The channel is read.                                                     *)
LEMMA ReceiveType ==
  ASSUME Accounts, LoopType, RestType, Receive
  PROVE  LoopType' /\ RestType'
<1> DEFINE e == Head(inbox)
<1>1. e \in QueueEvent
  <2>1. inbox \in Seq(QueueEvent) /\ inbox # << >>
    BY DEF Accounts, Types, Receive
  <2> QED BY <2>1
<1>2. mgr' = "drain" /\ waspaused' = (waspaused \/ paused') /\ UNCHANGED <<bulk, requests>>
  BY DEF Receive
<1> HIDE DEF e
<1>3. CASE e.type = "WorkerDone" /\ WorkerDone(e.task) /\ UNCHANGED <<limit, paused, closed, active>>
  <2> DEFINE k == task[e.task].key
  <2>1. refresh' \in BOOLEAN
    BY <1>3 DEF WorkerDone
  <2>2. locked' \in [Keys -> Nat \cup {None}] /\ wake' \in Nat
    <3>1. CASE locked' = [locked EXCEPT ![k] = None] /\ UNCHANGED wake
      BY <3>1 DEF LoopType
    <3>2. ASSUME NEW j \in Jitter, locked' = [locked EXCEPT ![k] = LockExpiry + j],
                 wake' = Min({wake, LockExpiry + j})
          PROVE  locked' \in [Keys -> Nat \cup {None}] /\ wake' \in Nat
      <4>1. LockExpiry + j \in Nat /\ wake \in Nat
        BY TimesAssumption DEF LoopType
      <4>2. wake' \in {wake, LockExpiry + j}
        BY <3>2, <4>1, MinIsLeast
      <4> QED BY <3>2, <4>1, <4>2 DEF LoopType
    <3> QED BY <1>3, <3>1, <3>2 DEF WorkerDone
  <2> QED BY <1>2, <1>3, <2>1, <2>2 DEF LoopType, RestType
<1>4. CASE e.type = "ReloadSettings" /\ limit' = e.threads
           /\ UNCHANGED <<locked, paused, wake, closed, refresh, active>>
  <2>1. e.threads \in [Queues -> Threads]
    BY <1>1, <1>4 DEF QueueEvent
  <2> QED BY <1>2, <1>4, <2>1, ThreadsAssumption DEF LoopType, RestType
<1>5. CASE e.type = "Paused" /\ paused' = e.paused /\ active' = ~e.paused
           /\ UNCHANGED <<locked, limit, wake, closed, refresh>>
  <2>1. e.paused \in BOOLEAN
    BY <1>1, <1>5 DEF QueueEvent
  <2> QED BY <1>2, <1>5, <2>1 DEF LoopType, RestType
<1>6. CASE refresh' = TRUE /\ UNCHANGED <<locked, limit, paused, wake, closed, active>>
  BY <1>2, <1>6 DEF LoopType, RestType
<1>7. CASE closed' = TRUE /\ paused' = TRUE /\ UNCHANGED <<locked, limit, wake, refresh, active>>
  BY <1>2, <1>7 DEF LoopType, RestType
<1> QED BY <1>3, <1>4, <1>5, <1>6, <1>7 DEF Receive, HandleEvent, e

(* The rest of the loop.                                                    *)
LEMMA RunType ==
  ASSUME TypeOK, Run
  PROVE  LoopType'
<1>1. mgr' = "wait" /\ refresh' = FALSE /\ UNCHANGED <<limit, paused, closed, active>>
  BY DEF Run
<1>2. CASE Scan
  <2>1. PICK D : locked' = [k \in Keys |-> IF k \in D THEN Forever
                                            ELSE IF k \in Visited \ Found THEN locked[k]
                                            ELSE None]
    BY <1>2 DEF Scan
  <2>2. wake' = NextRefresh
    BY <1>2 DEF Scan
  <2>3. locked' \in [Keys -> Nat \cup {None}]
    BY <2>1 DEF TypeOK, Forever
  <2> QED BY <1>1, <2>2, <2>3, NextRefreshType DEF TypeOK, LoopType
<1>3. CASE UNCHANGED locked /\ (UNCHANGED wake \/ wake' = PauseSleep)
  BY <1>1, <1>3, TimesAssumption DEF TypeOK, LoopType
<1> QED BY <1>2, <1>3 DEF Run

(* A task takes a step.                                                     *)
LEMMA TaskType ==
  ASSUME Accounts, StoreType, RestType, NEW t \in Tasks, TaskStep(t)
  PROVE  StoreType' /\ RestType'
<1>1. task[t].pc \in {"start", "work", "unlock", "report"} => task[t].key \in Keys
  BY DEF Accounts, Types, Running
<1>2. CASE TryLock(t)
  <2>1. lock' \in [Keys -> Nat]
    BY <1>1, <1>2, TimesAssumption DEF TryLock, StoreType
  <2> QED BY <1>2, <2>1 DEF TryLock, StoreType, RestType
<1>3. CASE Deliver(t)
  <2>1. PICK s : Rewritten(task[t].key, s)
    BY <1>3 DEF Deliver
  <2>2. /\ event' \in [Keys -> Nat \cup {None}]
        /\ requests' \in Nat
    BY <1>1, <1>3, <2>1, RewrittenType DEF Deliver, RestType
  <2> QED BY <1>3, <2>2 DEF Deliver, StoreType, RestType
<1>4. CASE Unlock(t)
  <2>1. lock' \in [Keys -> Nat]
    BY <1>1, <1>4 DEF Unlock, StoreType
  <2> QED BY <1>4, <2>1 DEF Unlock, StoreType, RestType
<1>5. CASE Report(t)
  BY <1>5 DEF Report, store, StoreType, RestType
<1> QED BY <1>2, <1>3, <1>4, <1>5 DEF TaskStep

(* A key is written to.                                                     *)
LEMMA KeyType ==
  ASSUME StoreType, RestType, NEW k \in Keys,
         \/ Enqueue(k) \/ SendRefresh(k) \/ OtherTakes(k) \/ OtherEnds(k)
         \/ Reschedule(k) \/ DeleteOne(k)
  PROVE  StoreType' /\ RestType'
<1>1. CASE Enqueue(k)
  BY <1>1, TimesAssumption DEF Enqueue, StoreType, RestType
<1>2. CASE SendRefresh(k)
  BY <1>2 DEF SendRefresh, StoreType, RestType
<1>3. CASE OtherTakes(k)
  BY <1>3, TimesAssumption DEF OtherTakes, StoreType, RestType
<1>4. CASE OtherEnds(k)
  <2>1. PICK s : Rewritten(k, s)
    BY <1>4 DEF OtherEnds
  <2>2. /\ event' \in [Keys -> Nat \cup {None}]
        /\ requests' \in Nat
    BY <2>1, RewrittenType DEF RestType
  <2> QED BY <1>4, <2>2 DEF OtherEnds, StoreType, RestType
<1>5. CASE Reschedule(k)
  <2>1. PICK d \in Delays \cup {0} : event' = [event EXCEPT ![k] = Min({event[k], d})]
    BY <1>5 DEF Reschedule
  <2>2. event[k] \in Nat /\ d \in Nat
    BY <1>5, TimesAssumption DEF Reschedule, StoreType
  <2>3. Min({event[k], d}) \in Nat
    <3>1. {event[k], d} \in SUBSET Nat /\ \A n \in {event[k], d} : n \in Nat
      BY <2>2
    <3> QED BY <3>1, MinIsLeast
  <2> QED BY <1>5, <2>1, <2>3 DEF Reschedule, StoreType, RestType
<1>6. CASE DeleteOne(k)
  BY <1>6 DEF DeleteOne, StoreType, RestType
<1> QED BY <1>1, <1>2, <1>3, <1>4, <1>5, <1>6

(* Every step keeps the types.                                              *)
LEMMA TypeStep == Accounts /\ TypeOK /\ [Next]_vars => TypeOK'
<1> SUFFICES ASSUME Accounts, TypeOK, [Next]_vars PROVE TypeOK'
  OBVIOUS
<1>0. /\ StoreType /\ LoopType /\ RestType
      /\ task' \in [Tasks -> Task] /\ inbox' \in Seq(QueueEvent) /\ inflight' \in [Queues -> Nat]
  BY TypeParts, AccountsStep DEF Accounts, Types
<1>1. CASE UNCHANGED vars
  BY <1>1 DEF vars, store, manager, TypeOK
<1>2. CASE Receive
  <2>1. LoopType' /\ RestType'
    BY <1>0, <1>2, ReceiveType
  <2> QED BY <1>0, <1>2, <2>1 DEF Receive, store, TypeOK, StoreType, LoopType, RestType
<1>3. CASE Run
  <2>1. LoopType'
    BY <1>3, RunType
  <2> QED BY <1>0, <1>3, <2>1 DEF Run, store, TypeOK, StoreType, LoopType, RestType
<1>4. CASE Timeout \/ Stopped
  BY <1>0, <1>4 DEF Timeout, Stopped, store, TypeOK
<1>5. ASSUME NEW t \in Tasks, TaskStep(t) PROVE TypeOK'
  <2>1. StoreType' /\ RestType'
    BY <1>0, <1>5, TaskType
  <2>2. UNCHANGED manager
    BY <1>5 DEF TaskStep, TryLock, Deliver, Unlock, Report
  <2> QED BY <1>0, <2>1, <2>2 DEF manager, TypeOK, StoreType, RestType
<1>6. ASSUME NEW k \in Keys,
             \/ Enqueue(k) \/ SendRefresh(k) \/ OtherTakes(k) \/ OtherEnds(k)
             \/ Reschedule(k) \/ DeleteOne(k)
      PROVE  TypeOK'
  <2>1. StoreType' /\ RestType'
    BY <1>0, <1>6, KeyType
  <2>2. UNCHANGED manager
    BY <1>6 DEF Enqueue, SendRefresh, OtherTakes, OtherEnds, Reschedule, DeleteOne
  <2> QED BY <1>0, <2>1, <2>2 DEF manager, TypeOK, StoreType, RestType
<1>7. CASE OtherDies \/ Reload \/ Shutdown \/ BulkRead \/ \E p \in BOOLEAN : SetPaused(p)
  <2>1. requests' = requests + 1 /\ UNCHANGED manager
    BY <1>7 DEF OtherDies, Reload, Shutdown, BulkRead, SetPaused
  <2>2. UNCHANGED <<event, lock, stage, waspaused>> /\ other' \in {other, {}}
    BY <1>7 DEF OtherDies, Reload, Shutdown, BulkRead, SetPaused, store
  <2>3. bulk' \in [pc : {"idle", "pause", "delete", "resume"}, active : BOOLEAN]
    <3>1. UNCHANGED bulk \/ (bulk' = [pc |-> "pause", active |-> active])
      BY <1>7 DEF OtherDies, Reload, Shutdown, BulkRead, SetPaused
    <3> QED BY <3>1 DEF TypeOK
  <2> QED BY <1>0, <2>1, <2>2, <2>3 DEF manager, TypeOK
<1>8. CASE BulkStep
  <2>1. UNCHANGED <<manager, lock, stage, other, waspaused, requests>>
    BY <1>8 DEF BulkStep, BulkPause, BulkDelete, BulkResume, store
  <2>2. event' \in [Keys -> Nat \cup {None}]
    BY <1>8 DEF BulkStep, BulkPause, BulkDelete, BulkResume, store, TypeOK
  <2>3. bulk' \in [pc : {"idle", "pause", "delete", "resume"}, active : BOOLEAN]
    <3>1. bulk' = NoBulk \/ \E x \in {"delete", "resume"} : bulk' = [bulk EXCEPT !.pc = x]
      BY <1>8, Zenon DEF BulkStep, BulkPause, BulkDelete, BulkResume
    <3>2. CASE bulk' = NoBulk
      BY <3>2 DEF NoBulk
    <3>3. ASSUME NEW x \in {"delete", "resume"}, bulk' = [bulk EXCEPT !.pc = x]
          PROVE  bulk' \in [pc : {"idle", "pause", "delete", "resume"}, active : BOOLEAN]
      <4>1. bulk \in [pc : {"idle", "pause", "delete", "resume"}, active : BOOLEAN]
        BY DEF TypeOK
      <4> QED BY <3>3, <4>1
    <3> QED BY <3>1, <3>2, <3>3
  <2> QED BY <1>0, <2>1, <2>2, <2>3 DEF manager, TypeOK
<1>9. CASE Tick
  <2>1. /\ event' \in [Keys -> Nat \cup {None}] /\ lock' \in [Keys -> Nat]
        /\ locked' \in [Keys -> Nat \cup {None}] /\ wake' \in Nat
    BY <1>9, ElapseType DEF Tick, TypeOK
  <2> QED BY <1>0, <1>9, <2>1 DEF Tick, TypeOK
<1> QED BY <1>1, <1>2, <1>3, <1>4, <1>5, <1>6, <1>7, <1>8, <1>9 DEF Next, Loop

(* The manager's state is well formed: the counts of QueueStats do not      *)
(* underflow, the loop wakes at a time, locked entries expire at one.       *)
THEOREM TypeCorrect == Spec => []TypeOK
<1>1. Init => TypeOK
  <2> SUFFICES ASSUME Init PROVE TypeOK
    OBVIOUS
  <2>1. task \in [Tasks -> Task] /\ inbox \in Seq(QueueEvent) /\ inflight \in [Queues -> Nat]
    BY AccountsInit DEF Accounts, Types
  <2> QED BY <2>1, ThreadsAssumption DEF Init, TypeOK, NoBulk
<1> QED BY <1>1, TypeStep, AccountsInit, AccountsStep, PTL DEF Spec

-----------------------------------------------------------------------------
(* The manager wakes up in time *)

(* A task that has sent its report is waiting for the manager to read it.   *)
Heard == \A t \in Tasks : task[t].pc = "sent" => \E i \in 1..Len(inbox) : IsReport(i, t)

(* Somebody has told the manager of a change, or is about to.               *)
Deferring(t) == task[t].status = "deferred" /\ task[t].pc \in {"unlock", "report", "sent"}
Told(k) ==
  \/ refresh
  \/ stage[k] = "stored"
  \/ \E i \in 1..Len(inbox) : inbox[i].type = "Refresh"
  \/ \E t \in Tasks : Deferring(t)
OnTime(k) == event[k] > 0 => wake <= event[k] \/ Told(k)

(* A loop that has never been paused sleeps past no event that it has not   *)
(* been told of; it scans before it sleeps when it has been.                *)
WakeInv ==
  /\ mgr = "wait" => ~refresh
  /\ other = {}
  /\ Heard
  /\ ~waspaused => /\ ~paused /\ ~closed
                   /\ wake <= QueueRefresh
                   /\ \A k \in Keys : OnTime(k)

(* What has been said is not unsaid.                                        *)
LEMMA ChannelGrows ==
  ASSUME inbox \in Seq(QueueEvent),
         inbox' = inbox \/ \E e \in QueueEvent : inbox' = Append(inbox, e)
  PROVE  /\ \A i \in 1..Len(inbox) : i \in 1..Len(inbox') /\ inbox'[i] = inbox[i]
         /\ \A e \in QueueEvent : inbox' = Append(inbox, e) =>
              Len(inbox) + 1 \in 1..Len(inbox') /\ inbox'[Len(inbox) + 1] = e
<1>1. CASE inbox' = inbox
  <2>1. \A e \in QueueEvent : inbox # Append(inbox, e)
    <3>1. ASSUME NEW e \in QueueEvent PROVE Len(Append(inbox, e)) # Len(inbox)
      OBVIOUS
    <3> QED BY <3>1
  <2> QED BY <1>1, <2>1
<1>2. ASSUME NEW e \in QueueEvent, inbox' = Append(inbox, e)
      PROVE  /\ \A i \in 1..Len(inbox) : i \in 1..Len(inbox') /\ inbox'[i] = inbox[i]
             /\ Len(inbox) + 1 \in 1..Len(inbox') /\ inbox'[Len(inbox) + 1] = e
  BY <1>2
<1> QED BY <1>1, <1>2

(* Steps that leave the loop alone.                                         *)
LEMMA WakeFrame ==
  ASSUME TypeOK, WakeInv, UNCHANGED <<refresh, waspaused, paused, closed, mgr, wake, other>>,
         inbox' = inbox \/ \E e \in QueueEvent : inbox' = Append(inbox, e),
         \A t \in Tasks : task'[t].pc = "sent" => task[t].pc = "sent" \/ inbox' = Append(inbox, [type |-> "WorkerDone", task |-> t]),
         \A t \in Tasks : Deferring(t) => Deferring(t)' \/ closed,
         \A k \in Keys : \/ event'[k] \in {event[k], None}
                         \/ stage'[k] = "stored"
                         \/ \E t \in Tasks : Deferring(t)',
         \A k \in Keys : \/ stage[k] = "stored" => stage'[k] = "stored"
                         \/ inbox' = Append(inbox, [type |-> "Refresh"])
                         \/ closed
  PROVE  WakeInv'
<1>1. /\ \A i \in 1..Len(inbox) : i \in 1..Len(inbox') /\ inbox'[i] = inbox[i]
      /\ \A e \in QueueEvent : inbox' = Append(inbox, e) =>
           Len(inbox) + 1 \in 1..Len(inbox') /\ inbox'[Len(inbox) + 1] = e
  BY ChannelGrows DEF TypeOK
<1>2. Heard'
  <2> SUFFICES ASSUME NEW t \in Tasks, task'[t].pc = "sent"
               PROVE  \E i \in 1..Len(inbox') : IsReport(i, t)'
    BY DEF Heard
  <2>1. CASE task[t].pc = "sent"
    BY <1>1, <2>1 DEF WakeInv, Heard, IsReport
  <2>2. CASE inbox' = Append(inbox, [type |-> "WorkerDone", task |-> t])
    <3>1. [type |-> "WorkerDone", task |-> t] \in QueueEvent
      BY DEF QueueEvent
    <3>2. PICK n \in 1..Len(inbox') : inbox'[n] = [type |-> "WorkerDone", task |-> t]
      BY <1>1, <2>2, <3>1
    <3> QED BY <3>2 DEF IsReport
  <2> QED BY <2>1, <2>2
<1>3. ASSUME ~waspaused, NEW k \in Keys PROVE OnTime(k)'
  <2>1. ~closed /\ OnTime(k)
    BY <1>3 DEF WakeInv
  <2>2. Told(k) => Told(k)'
    <3>1. CASE refresh
      BY <3>1 DEF Told
    <3>2. CASE \E i \in 1..Len(inbox) : inbox[i].type = "Refresh"
      BY <1>1, <3>2 DEF Told
    <3>3. CASE \E t \in Tasks : Deferring(t)
      BY <2>1, <3>3 DEF Told
    <3>4. CASE stage[k] = "stored"
      <4>1. CASE inbox' = Append(inbox, [type |-> "Refresh"])
        <5>1. [type |-> "Refresh"] \in QueueEvent
          BY DEF QueueEvent
        <5>2. inbox'[Len(inbox) + 1].type = "Refresh" /\ Len(inbox) + 1 \in 1..Len(inbox')
          BY <1>1, <4>1, <5>1
        <5> QED BY <5>2 DEF Told
      <4> QED BY <2>1, <3>4, <4>1 DEF Told
    <3> QED BY <3>1, <3>2, <3>3, <3>4 DEF Told
  <2>3. CASE event'[k] \in {event[k], None}
    BY <2>1, <2>2, <2>3 DEF OnTime, None
  <2>4. CASE stage'[k] = "stored" \/ \E t \in Tasks : Deferring(t)'
    BY <2>4 DEF OnTime, Told
  <2> QED BY <2>3, <2>4
<1> QED BY <1>2, <1>3 DEF WakeInv

(* The manager reads its channel.                                           *)
LEMMA WakeReceive ==
  ASSUME Accounts, TypeOK, WakeInv, Receive
  PROVE  WakeInv'
<1> DEFINE e == Head(inbox)
<1>1. /\ inbox # << >> /\ inbox' = Tail(inbox) /\ mgr' = "drain"
      /\ waspaused' = (waspaused \/ paused') /\ UNCHANGED <<event, stage, other>>
  BY DEF Receive, HandleEvent, store
<1>2. /\ e = inbox[1] /\ e \in QueueEvent
      /\ \A i \in 1..Len(inbox) : i # 1 => i - 1 \in 1..Len(inbox') /\ inbox'[i - 1] = inbox[i]
  <2>1. inbox \in Seq(QueueEvent) /\ Len(inbox) \in Nat \ {0}
    BY <1>1 DEF TypeOK
  <2> QED BY <1>1, <2>1
<1>3. \A t \in Tasks : task[t].pc = "sent" /\ ~(e.type = "WorkerDone" /\ e.task = t)
        => \E i \in 1..Len(inbox') : IsReport(i, t)'
  <2> TAKE t \in Tasks
  <2> HAVE task[t].pc = "sent" /\ ~(e.type = "WorkerDone" /\ e.task = t)
  <2>1. PICK i \in 1..Len(inbox) : IsReport(i, t)
    BY DEF WakeInv, Heard
  <2>2. i # 1
    BY <1>2, <2>1 DEF IsReport
  <2> QED BY <1>2, <2>1, <2>2 DEF IsReport
<1>4. \A i \in 1..Len(inbox) : inbox[i].type = "Refresh" =>
        e.type = "Refresh" \/ \E j \in 1..Len(inbox') : inbox'[j].type = "Refresh"
  BY <1>2
<1>5. ~waspaused' => /\ ~waspaused /\ ~paused' /\ ~paused /\ ~closed
                     /\ wake <= QueueRefresh /\ \A k \in Keys : OnTime(k)
  BY <1>1 DEF WakeInv
<1>6. wake \in Nat /\ QueueRefresh \in Nat /\ refresh \in BOOLEAN
      /\ \A k \in Keys : event[k] \in Nat \cup {None}
  BY TimesAssumption DEF TypeOK
<1> HIDE DEF e
<1>7. CASE e.type = "WorkerDone" /\ WorkerDone(e.task) /\ UNCHANGED <<limit, paused, closed, active>>
  <2> DEFINE t0 == e.task
  <2>1. t0 \in Tasks
    BY <1>2, <1>7 DEF QueueEvent
  <2>2. task' = [task EXCEPT ![t0] = NoTask]
    BY <1>7 DEF WorkerDone
  <2>3. \A t \in Tasks : t # t0 => task'[t] = task[t]
    BY <2>2 DEF TypeOK
  <2>4. task'[t0].pc = "idle"
    BY <2>1, <2>2 DEF TypeOK, NoTask
  <2>5. Heard'
    BY <1>3, <2>3, <2>4 DEF Heard
  <2>6. (refresh => refresh') /\ (task[t0].status = "deferred" => refresh')
    BY <1>7 DEF WorkerDone
  <2>7. wake' <= wake /\ wake' \in Nat
    <3>1. CASE UNCHANGED wake
      BY <1>6, <3>1
    <3>2. ASSUME NEW j \in Jitter, wake' = Min({wake, LockExpiry + j}) PROVE wake' <= wake /\ wake' \in Nat
      <4>1. {wake, LockExpiry + j} \in SUBSET Nat
        BY <1>6, TimesAssumption
      <4> QED BY <3>2, <4>1, MinIsLeast
    <3> QED BY <1>7, <3>1, <3>2 DEF WorkerDone
  <2>8. ASSUME ~waspaused', NEW k \in Keys PROVE OnTime(k)'
    <3>1. Told(k) => Told(k)'
      <4>1. CASE refresh
        BY <2>6, <4>1 DEF Told
      <4>2. CASE \E i \in 1..Len(inbox) : inbox[i].type = "Refresh"
        BY <1>4, <1>7, <4>2 DEF Told
      <4>3. ASSUME NEW t \in Tasks, Deferring(t) PROVE Told(k)'
        <5>1. CASE t = t0
          BY <2>6, <4>3, <5>1 DEF Told, Deferring
        <5>2. CASE t # t0
          BY <2>3, <4>3, <5>2 DEF Told, Deferring
        <5> QED BY <5>1, <5>2
      <4>4. CASE stage[k] = "stored"
        BY <1>1, <4>4 DEF Told
      <4> QED BY <4>1, <4>2, <4>3, <4>4 DEF Told
    <3>2. OnTime(k)
      BY <1>5, <2>8
    <3> QED BY <1>1, <1>6, <2>7, <3>1, <3>2 DEF OnTime, None
  <2> QED BY <1>1, <1>5, <1>6, <1>7, <2>5, <2>7, <2>8 DEF WakeInv
<1>8. CASE /\ e.type # "WorkerDone" /\ UNCHANGED <<task, wake>> /\ (refresh => refresh')
           /\ e.type = "Refresh" => refresh'
           /\ closed' => closed \/ paused'
  <2>1. Heard'
    BY <1>3, <1>8 DEF Heard
  <2>2. ASSUME ~waspaused', NEW k \in Keys PROVE OnTime(k)'
    <3>1. Told(k) => Told(k)'
      BY <1>1, <1>4, <1>8 DEF Told, Deferring
    <3>2. OnTime(k)
      BY <1>5, <2>2
    <3> QED BY <1>1, <1>8, <3>1, <3>2 DEF OnTime
  <2> QED BY <1>1, <1>5, <1>8, <2>1, <2>2 DEF WakeInv
<1> QED BY <1>7, <1>8 DEF Receive, HandleEvent, e

(* The rest of the loop: a scan has seen every event.                       *)
LEMMA WakeRun ==
  ASSUME Accounts, TypeOK, WakeInv, Run
  PROVE  WakeInv'
<1>1. mgr' = "wait" /\ refresh' = FALSE
      /\ UNCHANGED <<event, stage, other, inbox, paused, closed, waspaused>>
  BY DEF Run, store
<1>2. CASE Scan
  <2>1. \A t \in Tasks : task'[t].pc = "sent" => task[t].pc = "sent"
    <3>1. PICK D \in Startable : \E f \in Injection(D, {t \in Tasks : ~Running(t)}) :
            task' = [t \in Tasks |-> IF \E k \in D : f[k] = t
                       THEN [NoTask EXCEPT !.pc = "start", !.key = CHOOSE k \in D : f[k] = t]
                       ELSE task[t]]
      BY <1>2 DEF Scan
    <3> QED BY <3>1 DEF NoTask
  <2>2. Heard'
    BY <1>1, <2>1 DEF WakeInv, Heard, IsReport
  <2>3. wake' = NextRefresh
    BY <1>2 DEF Scan
  <2>4. \A k \in Keys : OnTime(k)'
    BY <1>1, <2>3, NextRefreshType DEF OnTime
  <2> QED BY <1>1, <2>2, <2>3, <2>4, NextRefreshType DEF WakeInv
<1>3. CASE ~refresh /\ UNCHANGED <<task, wake>>
  <2>1. Heard'
    BY <1>1, <1>3 DEF WakeInv, Heard, IsReport
  <2>2. \A k \in Keys : OnTime(k) => OnTime(k)'
    BY <1>1, <1>3 DEF OnTime, Told, Deferring
  <2> QED BY <1>1, <1>3, <2>1, <2>2 DEF WakeInv
<1>4. CASE paused /\ UNCHANGED task
  <2>1. Heard'
    BY <1>1, <1>4 DEF WakeInv, Heard, IsReport
  <2> QED BY <1>1, <1>4, <2>1 DEF WakeInv
<1> QED BY <1>2, <1>3, <1>4 DEF Run

(* A task takes a step: when it has moved an event it will report.          *)
LEMMA WakeTask ==
  ASSUME Accounts, TypeOK, WakeInv, NEW t \in Tasks, TaskStep(t)
  PROVE  WakeInv'
<1>1. task \in [Tasks -> Task] /\ UNCHANGED <<refresh, waspaused, paused, closed, mgr, wake, other, stage>>
  BY DEF TypeOK, TaskStep, TryLock, Deliver, Unlock, Report, manager, store
<1>2. ASSUME NEW pc \in {"work", "unlock", "report"}, NEW status \in Statuses \cup {"none"},
             At(t, pc, status)
      PROVE  /\ task'[t].pc = pc /\ task'[t].status = status
             /\ \A u \in Tasks : u # t => task'[u] = task[u]
  BY <1>1, <1>2 DEF At, Task
<1>3. CASE TryLock(t)
  <2>1. At(t, "report", "locked") \/ At(t, "unlock", "completed") \/ At(t, "work", "none")
    BY <1>3 DEF TryLock
  <2>2. task'[t].pc \in {"report", "unlock", "work"} /\ \A u \in Tasks : u # t => task'[u] = task[u]
    BY <1>2, <2>1 DEF Statuses
  <2>3. ~Deferring(t) /\ UNCHANGED <<inbox, event>>
    BY <1>3 DEF TryLock, Deferring
  <2>4. \A u \in Tasks : Deferring(u) => Deferring(u)'
    BY <2>2, <2>3 DEF Deferring
  <2> QED BY <1>1, <2>2, <2>3, <2>4, WakeFrame
<1>4. CASE Deliver(t)
  <2>1. PICK s \in {"completed", "deferred"} : Rewritten(task[t].key, s) /\ At(t, "unlock", s)
    BY <1>4 DEF Deliver
  <2>2. task'[t].pc = "unlock" /\ task'[t].status = s /\ \A u \in Tasks : u # t => task'[u] = task[u]
    BY <1>2, <2>1 DEF Statuses
  <2>3. ~Deferring(t) /\ UNCHANGED inbox
    BY <1>4 DEF Deliver, Deferring
  <2>4. \A u \in Tasks : Deferring(u) => Deferring(u)'
    BY <2>2, <2>3 DEF Deferring
  <2>5. \A k \in Keys : event'[k] \in {event[k], None} \/ \E u \in Tasks : Deferring(u)'
    <3>1. CASE s = "completed"
      BY <2>1, <3>1 DEF Rewritten, TypeOK
    <3>2. CASE s = "deferred"
      BY <2>2, <3>2 DEF Deferring
    <3> QED BY <3>1, <3>2
  <2> QED BY <1>1, <2>2, <2>3, <2>4, <2>5, WakeFrame
<1>5. CASE Unlock(t)
  <2>1. At(t, "report", task[t].status) /\ task[t].status \in Statuses \cup {"none"}
    BY <1>1, <1>5 DEF Unlock, Task
  <2>2. task'[t].pc = "report" /\ task'[t].status = task[t].status
        /\ \A u \in Tasks : u # t => task'[u] = task[u]
    BY <1>2, <2>1
  <2>3. UNCHANGED <<inbox, event>>
    BY <1>5 DEF Unlock
  <2>4. \A u \in Tasks : Deferring(u) => Deferring(u)'
    BY <2>2 DEF Deferring
  <2> QED BY <1>1, <2>2, <2>3, <2>4, WakeFrame
<1>6. CASE Report(t)
  <2>1. CASE closed
    <3>1. task' = [task EXCEPT ![t] = NoTask] /\ inbox' = inbox /\ UNCHANGED event
      BY <1>6, <2>1 DEF Report, Send, store
    <3>2. \A u \in Tasks : task'[u].pc = "sent" => task[u].pc = "sent"
      BY <1>1, <3>1 DEF NoTask
    <3> QED BY <1>1, <2>1, <3>1, <3>2, WakeFrame
  <2>2. CASE ~closed
    <3> DEFINE e == [type |-> "WorkerDone", task |-> t]
    <3>1. /\ task' = [task EXCEPT ![t] = [@ EXCEPT !.pc = "sent"]]
          /\ inbox' = Append(inbox, e) /\ UNCHANGED event
      BY <1>6, <2>2 DEF Report, Send, store
    <3>2. /\ task'[t].pc = "sent" /\ task'[t].status = task[t].status
          /\ \A u \in Tasks : u # t => task'[u] = task[u]
      BY <1>1, <3>1 DEF Task
    <3>3. e \in QueueEvent
      BY DEF QueueEvent
    <3>4. \A u \in Tasks : Deferring(u) => Deferring(u)'
      BY <3>2 DEF Deferring
    <3>5. \A u \in Tasks : task'[u].pc = "sent" =>
            task[u].pc = "sent" \/ inbox' = Append(inbox, [type |-> "WorkerDone", task |-> u])
      BY <3>1, <3>2
    <3> QED BY <1>1, <3>1, <3>3, <3>4, <3>5, WakeFrame
  <2> QED BY <2>1, <2>2
<1> QED BY <1>3, <1>4, <1>5, <1>6 DEF TaskStep

(* Somebody else takes a step: who moves an event will send Refresh.        *)
LEMMA WakeOthers ==
  ASSUME OtherKeys = {}, TypeOK, WakeInv,
         \/ OtherDies \/ Reload \/ Shutdown \/ BulkRead \/ BulkStep
         \/ \E p \in BOOLEAN : SetPaused(p)
         \/ \E k \in Keys : \/ Enqueue(k) \/ SendRefresh(k) \/ OtherTakes(k) \/ OtherEnds(k)
                            \/ Reschedule(k) \/ DeleteOne(k)
  PROVE  WakeInv'
<1>1. other = {} /\ event \in [Keys -> Nat \cup {None}] /\ stage \in [Keys -> {"new", "stored", "queued"}]
  BY DEF WakeInv, TypeOK
<1>2. ~OtherDies /\ \A k \in Keys : ~OtherTakes(k) /\ ~OtherEnds(k)
  BY <1>1 DEF OtherDies, OtherTakes, OtherEnds
<1>3. ASSUME NEW e \in QueueEvent, Send(e), UNCHANGED <<store, manager, task, waspaused>> PROVE WakeInv'
  <2>1. /\ inbox' = inbox \/ \E x \in QueueEvent : inbox' = Append(inbox, x)
        /\ UNCHANGED <<refresh, waspaused, paused, closed, mgr, wake, other, event, stage, task>>
    BY <1>3 DEF Send, store, manager
  <2> QED BY <2>1, WakeFrame DEF Deferring
<1>4. ASSUME UNCHANGED <<stage, other, manager, inbox, task, waspaused>>,
             \A k \in Keys : event'[k] \in {event[k], None}
      PROVE  WakeInv'
  BY <1>4, WakeFrame DEF manager, Deferring
<1>5. \A p \in BOOLEAN : [type |-> "Paused", paused |-> p] \in QueueEvent
  BY DEF QueueEvent
<1>6. [type |-> "Stop"] \in QueueEvent /\ [type |-> "Refresh"] \in QueueEvent
  BY DEF QueueEvent
<1>7. \A l \in [Queues -> Threads] : [type |-> "ReloadSettings", threads |-> l] \in QueueEvent
  BY DEF QueueEvent
<1>8. CASE Reload
  BY <1>3, <1>7, <1>8 DEF Reload
<1>9. CASE Shutdown
  BY <1>3, <1>6, <1>9 DEF Shutdown
<1>10. CASE BulkRead
  BY <1>4, <1>10 DEF BulkRead, store
<1>11. CASE BulkPause
  BY <1>3, <1>4, <1>5, <1>11 DEF BulkPause, store
<1>12. CASE BulkDelete
  BY <1>4, <1>12 DEF BulkDelete
<1>13. CASE BulkResume
  BY <1>3, <1>4, <1>5, <1>13 DEF BulkResume, store
<1>14. ASSUME NEW p \in BOOLEAN, SetPaused(p) PROVE WakeInv'
  BY <1>3, <1>5, <1>14 DEF SetPaused
<1>15. ASSUME NEW k \in Keys, Enqueue(k) \/ Reschedule(k) PROVE WakeInv'
  <2>1. /\ \E n : event' = [event EXCEPT ![k] = n]
        /\ stage' = [stage EXCEPT ![k] = "stored"] /\ UNCHANGED <<other, manager, inbox, task, waspaused>>
    BY <1>15 DEF Enqueue, Reschedule
  <2>2. \A x \in Keys : /\ event'[x] \in {event[x], None} \/ stage'[x] = "stored"
                        /\ stage[x] = "stored" => stage'[x] = "stored"
    BY <1>1, <2>1
  <2> QED BY <2>1, <2>2, WakeFrame DEF manager, Deferring
<1>16. ASSUME NEW k \in Keys, SendRefresh(k) PROVE WakeInv'
  <2>1. /\ (inbox' = inbox /\ closed) \/ inbox' = Append(inbox, [type |-> "Refresh"])
        /\ UNCHANGED <<event, other, manager, task, waspaused>>
    BY <1>16 DEF SendRefresh, Send
  <2> QED BY <1>6, <2>1, WakeFrame DEF manager, Deferring
<1>17. ASSUME NEW k \in Keys, DeleteOne(k) PROVE WakeInv'
  BY <1>1, <1>4, <1>17 DEF DeleteOne
<1> QED BY <1>2, <1>8, <1>9, <1>10, <1>11, <1>12, <1>13, <1>14, <1>15, <1>16, <1>17 DEF BulkStep

(* Time passes for the manager as for the events.                           *)
LEMMA WakeTick ==
  ASSUME TypeOK, WakeInv, Tick
  PROVE  WakeInv'
<1>1. /\ wake' = Elapse(wake) /\ event' = [k \in Keys |-> Elapse(event[k])]
      /\ UNCHANGED <<stage, other, paused, closed, mgr, refresh, inbox, task, waspaused>>
  BY DEF Tick
<1>2. wake \in Nat /\ QueueRefresh \in Nat /\ \A k \in Keys : event[k] \in Nat \cup {None}
  BY TimesAssumption DEF TypeOK
<1>3. ASSUME NEW k \in Keys, OnTime(k) PROVE OnTime(k)'
  <2>1. Told(k) => Told(k)'
    BY <1>1 DEF Told, Deferring
  <2>2. event'[k] = Elapse(event[k])
    BY <1>1
  <2>3. event'[k] > 0 => event[k] > 0
    BY <1>2, <2>2 DEF Elapse, None, Forever
  <2>4. wake <= event[k] /\ event'[k] > 0 => wake' <= event'[k]
    BY <1>1, <1>2, <2>2 DEF Elapse, None, Forever
  <2> QED BY <1>3, <2>1, <2>3, <2>4 DEF OnTime
<1>4. wake <= QueueRefresh => wake' <= QueueRefresh
  BY <1>1, <1>2, ElapseType
<1>5. Heard'
  BY <1>1 DEF WakeInv, Heard, IsReport
<1> QED BY <1>1, <1>3, <1>4, <1>5 DEF WakeInv

(* Every step keeps the manager alert.                                      *)
LEMMA WakeStep ==
  ASSUME OtherKeys = {}, Accounts, TypeOK, WakeInv, [Next]_vars
  PROVE  WakeInv'
<1>1. CASE UNCHANGED vars
  BY <1>1 DEF vars, store, manager, WakeInv, Heard, IsReport, OnTime, Told, Deferring
<1>2. CASE Timeout \/ Stopped
  <2>1. /\ UNCHANGED <<event, stage, other, paused, closed, wake, inbox, task, waspaused>>
        /\ mgr' \in {"run", "stopped"} /\ (refresh => refresh')
    BY <1>2 DEF Timeout, Stopped, store
  <2>2. Heard'
    BY <2>1 DEF WakeInv, Heard, IsReport
  <2>3. \A k \in Keys : OnTime(k) => OnTime(k)'
    BY <2>1 DEF OnTime, Told, Deferring
  <2> QED BY <2>1, <2>2, <2>3 DEF WakeInv
<1> QED BY <1>1, <1>2, WakeReceive, WakeRun, WakeTask, WakeOthers, WakeTick DEF Next, Loop

(* For any keys, queues, threads, tasks and times, on one node: as long as  *)
(* nobody pauses the loop, it never sleeps past an event of the store nor   *)
(* longer than QUEUE_REFRESH, whatever the order in which messages are      *)
(* queued, deferred, rescheduled and deleted, reports arrive, the settings  *)
(* are reloaded and the loop scans.                                         *)
THEOREM WakesUnlessPausedHolds ==
  ASSUME OtherKeys = {}
  PROVE  Spec => []WakesUnlessPaused
<1>1. Init => WakeInv
  <2> SUFFICES ASSUME Init PROVE WakeInv
    OBVIOUS
  <2>1. Heard
    BY DEF Init, Heard, NoTask
  <2>2. \A k \in Keys : OnTime(k)
    BY DEF Init, OnTime, None
  <2>3. 1 <= QueueRefresh
    BY TimesAssumption
  <2> QED BY <2>1, <2>2, <2>3 DEF Init, WakeInv
<1>2. Accounts /\ TypeOK /\ WakeInv /\ [Next]_vars => WakeInv'
  BY WakeStep
<1>3. WakeInv => WakesUnlessPaused
  <2> SUFFICES ASSUME WakeInv, ~waspaused, Silent, ~paused
               PROVE  wake <= QueueRefresh /\ \A k \in Keys : event[k] > 0 => wake <= event[k]
    BY DEF WakesUnlessPaused, WakesInTime
  <2>1. ASSUME NEW k \in Keys PROVE ~Told(k)
    <3>1. ~refresh /\ stage[k] # "stored" /\ inbox = << >>
      BY DEF WakeInv, Silent
    <3>2. \A t \in Tasks : ~Deferring(t)
      BY <3>1 DEF WakeInv, Heard, Silent, Deferring
    <3> QED BY <3>1, <3>2 DEF Told
  <2> QED BY <2>1 DEF WakeInv, OnTime
<1> QED BY <1>1, <1>2, <1>3, TypeCorrect, AccountsInit, AccountsStep, PTL DEF Spec
===============================================================================
