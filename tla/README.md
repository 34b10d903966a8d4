# Verification of the ymail mail server

TLA+ models of the mail server's outbound queue, its distributed lock, its blob
store, its search index and its conversations, TLC configurations that check them on small instances, and TLAPS
proofs of the results that matter most. Paths below are relative to
`src/mail-server/crates/` unless they say otherwise.

## 1. The system

The repository is a mail server in Rust (SMTP, JMAP, IMAP, POP3, ManageSieve,
DAV; about 240 000 lines) with a webmail client in TypeScript. Several nodes
may share one data store. What they do *together* is decided in a few places:

| Component | State it keeps | Operations | Talks to |
|---|---|---|---|
| Distributed lock (`store/src/dispatch/lookup.rs`, `store/src/backend/redis/lookup.rs`) | an expiry under a key | `try_lock`, `remove_lock`, `purge_in_memory_store` | everything that must run once in the cluster |
| Spool (`smtp/src/queue/spool.rs`, `quota.rs`) | per message: the message, one event per virtual queue, quota counters, a blob link | `queue`, `read_message`, `save_changes`, `remove` | data store, blob store |
| Queue manager (`smtp/src/queue/manager.rs`) | `locked`, `stats` (in-flight, threads), `next_refresh`, `is_paused`, one channel | the loop `start`, `handle_event`, the scan `next_event` | spool (scan), delivery tasks (spawn, `WorkerDone`), management API (`Paused`), configuration (`ReloadSettings`), listener (`Stop`) |
| Delivery task (`smtp/src/outbound/delivery.rs`) | a private copy of the message | `try_deliver`, `deliver_task` | lock, spool, notifications, remote hosts |
| Notifications (`smtp/src/queue/dsn.rs`) | flags and times in the message | `send_dsn`, `build_dsn` | spool (a notification is a message) |
| Management API (`http/src/management/queue.rs`) | none | reschedule, cancel, delete, bulk delete, stop, resume | spool, without a lock; queue manager |
| Task manager (`services/src/task_manager/`) | the task queue in the store; per node a lock table and a channel per worker | `process_tasks`, the indexing worker (`index`, `delete_tasks`), the merge worker (`merge_threads`), `reindex` | lock, data store, search store |
| Message ingest (`email/src/message/`) | archive, metadata and threading entry of a message | `email_ingest`, `find_thread_id`, `copy_message`, `emails_delete` | blob store, task queue |
| Blob store (`store/src/write/blob.rs`, `common/src/core.rs`) | blobs; per hash a commit key, links of documents and queued messages, temporary links and their companions | `put_temporary_blob`, `put_jmap_blob`, `blob_exists`, `blob_has_access`, `purge_blobs` | ingest, spool, JMAP; the housekeeper runs the purge |
| Report scheduler, housekeeper, push manager, cluster broadcast (`services/`, `smtp/src/reporting/`) | timers, subscriptions | | lock, store, channels |
| Protocol front ends, groupware, directory, spam filter, webmail | per session or request | | store |

What makes the queue hard: a message with recipients in several virtual queues
is worked on by several tasks, of several nodes, at once; each has a copy of the
*whole* message and writes it back later; locks are leases and lapse; tasks die;
batches fail and nobody hears of it; administrators rewrite messages without a
lock; wake-ups are messages that race the scan. The task queue has the same
trouble with batches of tasks that fail half-way. Blobs are shared by content, so
a purge must see every link, reservation and upload that is under way, with no
lock between them. A merge of threads is an optimistic transaction with retries.
`PROJECT.json` lists these under
`hazards`, each at its line, with the properties that would catch it.

What makes each part correct:

* lock: at most one caller inside an unexpired lease; taking it is atomic;
* spool and delivery: no recipient is lost silently, delivered twice, brought
  back after its end, or left without a queue event; quota and blob link follow
  the message; every message ends;
* manager: threads are counted exactly and respected; it never sleeps past an
  event; every event is served;
* task queue: what exists is in the search index or on its way there, what was
  deleted leaves it, and the queue drains;
* threads: archives and threading index agree, a merge brings nothing back, and
  messages that refer to each other share a thread;
* blobs: what is linked is stored, what nothing needs is deleted, and the purge can
  find everything.

## 2. The modules

```
AtomicLease        what try_lock / remove_lock promise
  ^ implemented by
LeaseLock          try_lock of a data store and of Redis,
                   purge, crashes                               LeaseLockProofs
  . (its promise is used as one atomic step by)
QueueSpool         one message: workers, management API, store  QueueSpoolProofs
  .                                                             QueueLossProofs
  .                                                             QueueEventProofs
QueueManager       one node's loop, its tasks, another node,
                   management API                               QueueManagerProofs
  . (the same lock, the same store)
IndexTasks         documents, task queue, indexing workers      IndexTasksProofs
ThreadMerge        messages, threading index, merge workers     ThreadMergeProofs
BlobPurge          requests for a content, links, the purge     BlobPurgeProofs
```

`MCLeaseLock`, `MCQueueSpool`, `MCQueueManager`, `MCIndexTasks`, `MCThreadMerge` and
`MCBlobPurge` give the constants values for TLC. The modules meet in what they
share: the lock is one atomic step in all of them, as `AtomicLease` promises;
`QueueSpool!linked` is the link of a queue message in `BlobPurge`; the deletion of
metadata in `IndexTasks!Commit` is `DeleteEntry` in `ThreadMerge` and `Unlink` in
`BlobPurge`. A definition whose comment begins "A version of ..." is a deliberately wrong
variant of the definition that follows it; the runs are shown to notice it
(`mutants` in `PROJECT.json`).

### LeaseLock and AtomicLease

One key. `Read`, `ClearCorrupt`, `Check`, `Write` are the store calls of
`try_lock` (a value an older release left is removed first); `Release` is
`remove_lock`; `Abandon` is a caller that dies or gives up after a store error;
`PurgeScan`/`PurgeClear` are the two halves of the purge; `Tick` is the clock.
`owner` and `stolen` are history. `backend` is the store that holds the lock, chosen
once: with Redis a call is the single step `Increment` (`INCR` and `EXPIRE` in one
transaction), there is nothing to purge, and every caller, a refused one too, sets
the expiry anew. `AtomicLease` takes the lease in one step; its `Prolong` is the refused
caller of Redis, which lengthens the entry and nobody's lease (`prolongs` tells
whether the store does so). `AtomicSpec` says that `LeaseLock` implements it, the holders being the callers
that were told `Ok(true)`.

### QueueSpool

State: the stored message (`exists`, `msg`), its `events`, the `lock` per virtual
queue, `usage` (what the message has added to the quota counters), `linked` (the
blob link); per worker its place in `try_deliver`, its event, its `copy` and
`is_multi_queue`; the management request in progress; and as history how often a
recipient was delivered or bounced and who was canceled. One action per store
call, in the order of the code:

| Action | Code |
|---|---|
| `Enqueue` | `MessageWrapper::queue`: message, events, quota and blob link in one batch |
| `Pick`, `TryLock`, `Read`, `ClearEvent` | `try_deliver` up to `deliver_task`, or a missing message |
| `Begin` | `deliver_task` up to its first `match`: expiry of recipients of all queues, notifications, then attempt, put back or remove |
| `Throttle`, `Attempt` | the rest: every due recipient of the queue gets a result |
| `Save`, `Remove`, `Unlock` | the final batch, which may fail unnoticed, and `unlock_event` |
| `Crash` | the worker is gone, its lock stays |
| `AdminRead`, `AdminReschedule`, `AdminCancel`, `AdminDelete` | `PATCH` and `DELETE` of messages |

`SaveBatch` and `MergeRcpts` translate `save_changes` with its merge function,
`RemoveBatch` translates `remove`, `NextEvents`, `EventTime`, `IsExpired` translate
`Message` and `Recipient`. What a next hop answers is nondeterministic; so is the
virtual queue a failed recipient is moved to (`RetryQueues`). That every due
recipient gets exactly one result (`Outcomes`) is assumed. One message is
enough: messages share only quota counters, and `usage` is this message's part.
`quota` has one key for the sender (`Sender`), held until the message is removed,
and one per recipient, which stands for its own and, if it is the first of its
domain, for the domain's: `release_quota` releases a domain when the first final
recipient of it is the one the key was registered under, that is, when that one
is final. Any batch of a worker (`WriteFails`) or of a request (`RequestFails`) may fail.
`NoticeQueue` is the queue whose list of delays `build_dsn` takes: it asks the
schedule again, which need not answer the queue the recipient is in (in
`spool_live` it does not).

### QueueManager

The loop of one node. A key is a (message, virtual queue) pair; its event is a
countdown to its due time, as are the distributed lock, the entries of `locked`
and `next_refresh`, so there is no clock and no bound on time. `Receive`
handles one event of the channel (`HandleEvent`, `WorkerDone`), `Timeout` is the
end of the wait, `Run` is the rest of an iteration (`Scan`, or sleeping while
paused), `Stopped` the end. `locked_revision` is not a variable: a scan keeps
exactly the entries it looked at. Tasks go through `TryLock` (which includes
`read_message`: an event whose message is gone is only cleared), `Deliver`,
`Unlock`, `Report`. `Rewritten` is what a task does to its event: it is removed, or
put off (also when somebody has deleted it meanwhile), or the batch fails and it
stays. `Startable` gives the result of the loop over the due events, not the loop. Around them: `Enqueue` followed by `SendRefresh`, another node
(`OtherTakes`, `OtherEnds`, `OtherDies`), and the management API (`SetPaused`,
`Reschedule`, `DeleteOne`, the four steps of a bulk delete, `Reload`, `Shutdown`).

### IndexTasks

Documents are e-mails, whose metadata is kept until their deletion task has run,
or events and contacts, which are deleted at once. `Ingest` and `DeleteDocument`
write the document and its task in one batch, `ReindexList`/`ReindexWrite` list
the documents and later write a task for each. Per node `Scan` sends tasks to
the channel, and the worker goes through `Receive`, `TryLock` (one task at a
time), `Build`, `Commit`, `IndexDocuments`, `Unindex`, `Clear`, `Unlock` (one task at
a time, and each removal of a lock may fail by itself) and `Finish`: one action
per store call of the worker loop, `index()` and `delete_tasks`. Each may fail as
the code handles it, and `Crash` ends the node's work anywhere. `due` keeps of a
task's time only whether it was written in the second of the ingestion: that is
what the lock key tells apart. The lock table (`ipc.locked`) is not a variable:
an entry expires whether or not its task has been executed, so a scan may send a
task again at any time. A worker is assumed to be done within `INDEX_EXPIRY`, as
in `QueueSpool` without the fault `overrun`. A task for `SearchIndex::File`, which
`index()` passes over so that it would stay in the queue for ever, does not occur:
nothing writes one.

### ThreadMerge

One account and one subject. `Find` is the lookup of `find_thread_id`
(`FindThread`, with the walk `HasMessageId` along both lists of message ids), `Store`
the batch that stores the message, its threading entry and perhaps a merge task.
`Change` stands for any request that rewrites the archive; `DeleteMessage` and
`DeleteEntry` are the two halves of a deletion. The worker takes a task (`Begin`),
collects the messages of its threads (`Scan`), reads the archives one by one
(`Visit`) and commits (`Commit`), which fails when an archive has changed.
`thread_merge` is `seen`, how often it lists each pair of thread and message, for
the code never clears it between rounds; `thread_index` is `entries`; the retry,
its bound and the panic of `unwrap` (`"dead"`) are as in the code. The lock of a task
(`locks`) stays when the worker dies, fails or cannot remove it, until it lapses
(`Lapse`); it may lapse under a worker that is slow, and then a second one begins
the same merge. `raced` records that a lookup overlapped another one or a merge,
or that a lock lapsed under a merge. A task is taken from the queue; a copy that
waited in a channel until its task was done finds fewer than two threads and
changes nothing.

### BlobPurge

Requests that bring or use a content: an upload by `put_temporary_blob` (`upload`,
`email_ingest`), an upload over JMAP that is imported later (`jmap`), a message
for the queue (`queue`), and a copy of an existing message (`copy`). `Reserve`,
`Exists`, `Put`, `CommitBlob`, `Access`, `Link` and `Unlink` are their store calls,
`Abandon` the failure or death of one. The purge is `Scan` (all of
`BlobPurgeState`), `DeleteBlob` per blob, `Clear` for the keys, and `Stop` where a
store fails. A temporary link is its key (hash, account, second) and its kind,
which is its value: writing a second kind under the same key replaces the
first. The code scans the hashes in ranges and splits a large batch of `Clear`; as
hashes do not interact, one scan and one batch stand for these. `tainted` records the hashes whose protection was defeated, one way each:
a reservation made after the scan had taken the hash; a scan that takes the hash
of a request whose reservation has expired, was shared with a request that ended
it, or never existed (a copy); a purge that stopped between deleting blobs and
clearing keys; a temporary link overwritten by one of another kind. The taint
ends when nothing is left of the hash. So the properties say that the protocol
is right except in these windows, and the windows are the code's own.

## 3. What TLC checks

Passing runs:

| Run | Instance | Shows |
|---|---|---|
| `lease` | 3 callers, a data store with an old-format entry, or Redis | mutual exclusion and refinement of `AtomicLease` |
| `spool_faults` | 1 queue, 2 workers, limiters, delay notifications, crashes or failed batches | `OneWorkerPerQueue`, `EventPerQueue`, `NoSilentLoss`, `BlobKept`, `OneFate`, `QuotaExact`, `FinalStaysFinal`, `RequeuedForLater` |
| `spool_multi` | 2 queues, 2 workers, rerouting | `NoStranded`, `NoSilentLoss`, `AtMostOnce`, `FinalStaysFinal`, `QuotaNeverLeaks` |
| `spool_admin` | 1 queue, 2 workers, a management request that may fail, attempts longer than the lock | `NoSilentLoss`, `QuotaNeverLeaks` |
| `spool_live` | 2 queues, rerouting, delay notifications, a crash or a failed batch | `EventuallyGone` |
| `manager` | 2 messages, 1 or 2 threads, one request, deferral, failed write, reload or shutdown | `InFlightExact`, `WithinLimits`, `WakesUnlessPaused` |
| `manager_live` | 2 messages, 1 thread, a second node that takes one of them, and one of: its death, a deferral, a failed write, a pause, a bulk delete, another request | `EventuallyServed` |
| `index` | 2 nodes, one e-mail, a reindex, one fault of five kinds | `NothingForgotten`, `NoGhost`, `OneWorkerPerTask`, `EventuallyDrained` |
| `threads` | 3 messages, the third of both conversations, 2 workers | `IndexAgrees`, `OneThread`, `DeletedStaysDeleted` |
| `blob` | 2 requests of any kinds for one content, a purge that may stop once | `LinkedStored`, `NoLeak`, `CompanionsHeld`, `ReservationRespected`, `EventuallyPurged` |

Runs that end in a counterexample, each a disagreement between the code and a
comment or document (`findings` in `PROJECT.json` has the details):

| Run | The code |
|---|---|
| `index_lost` | `index()` returns at its first failure, and tasks it has not come to count as done |
| `threads_retry` | the second round of a merge lists messages twice and panics |

The models show more of the same kind, which have no run of their own and limit
what the properties can claim (see the notes under `hazards`):

* with recipients in several queues the merge of `save_changes` keeps quota keys
  that were released, and they are released again, so that the counters fall
  below zero; the opposite, a quota that stays used up, is excluded
  (`QuotaNeverLeaks`);
* a worker that expires the recipients of other queues removes the message, and
  the worker of another queue writes it back; if that worker has moved its
  recipient to the queue of a third one that found the message gone, the third
  deletes the only event of the message, which no node looks at again (TLC shows
  it with rerouting, notification times and senders who want no delay reports);
* `read_message` takes a store error for a missing message, and the queue event of
  an existing message is deleted;
* a resume, or a bulk delete, leaves a loop asleep that was paused before;
* a node that defers a message tells no other node: another loop that sleeps until
  a later event finds the new one at its next refresh, so `WakesUnlessPaused` is
  about one node;
* a merge that meets a message which has moved to another thread starts over
  without a bound, and with the pair that made it start over;
* a merge that takes longer than `ALARM_EXPIRY` shares its task with a second one,
  and each keeps the thread that has more messages of those it has seen: the
  conversation may end up split (`Lapse` in `ThreadMerge`);
* `copy_message` does not sort the message ids that `has_message_id` walks as
  sorted lists;
* the purge deletes a lease that was taken after its scan (`stolen` in
  `LeaseLock`), so mutual exclusion is claimed only until that happens;
* a cancellation of recipients outside the default queue is dropped by the merge
  of `save_changes` (`AdminCancel` with `admin.multi`);
* a message for which nobody wants delay reports is put back due at once when
  its notification time has come; `RequeuedForLater` is checked for senders who
  want them;
* a bulk delete resumes a queue that an operator stopped while it was running;
* a scan while a queue has no thread left drops the entries of messages in
  delivery, and the next scan starts a second task for them, which finds the
  lock of its own node. `manager` includes such tasks.

**Bounds.** Two recipients, two queues and two workers are the smallest instance
with two copies of a message, a recipient in each queue and a merge; times to
live of 2 or 3 ticks with a retry every tick give each recipient two attempts
before it expires, and `LockExpiry` 2 makes a lock outlive one tick and lapse
before the clock ends. Two faults allow a crash and a failed batch in the same
history. `spool_live` has one worker: which of several takes a queue is a
matter of the lock, and a crash and its lock that lapses are included.
`spool_admin` has one queue, where two workers meet only because an attempt
outlives its lock, and of batches only that of the request fails; requests beside
several queues, crashes and failed batches of workers are covered by the theorems
`NothingLost` and `NoQuotaLeaks`. `MaxRequests` is 1 in the runs of the manager, for
their graphs are too large with 2; each deferral and each request alone can move
the next event. In the manager two messages and two threads are what a
full queue with a message in delivery takes, and delays of 1 and 3 lie on either
side of `QueueRefresh` 2. `QueueRefresh` is less than `PauseSleep` and, in `manager`,
than `LockExpiry`, as in the code (300 s, a day, 600 s); `manager_live` lets the
lock lapse after 1 and its entry in `locked` after 2, to keep the graph small.
`MaxRequests` bounds the attempts of a message, which its expiry does in the code,
and, as `MaxAdmin` and `MaxFaults` do, what nobody is obliged to do; `OtherKeys`
bounds what the other node comes to work on. Symmetry is used for workers, tasks, recipients and keys where no
constant tells them apart, and in no run with a liveness property.

In `index` one e-mail has up to three tasks, its insertion, its deletion and one
of a reindex, so that batches of two mix them and two nodes share them, and a
deletion in the second of the ingestion shares the lock key of the insertion;
the faults are those under which the properties hold. Events, which pass through
fewer steps, several documents and larger batches are covered by the theorems. In `threads` three messages are the fewest that make a merge, one
change makes one retry, and a second worker, a restart and a lock that lapses make
a second merge of the same task, during the first one too. The two workers are
interchangeable (`WorkerSymmetry`). In `blob` two requests of one account are what sharing a link,
copying a linked content and meeting the purge take; the times to live are 1 (a
reservation, an item kept for undelete) and 2 (an upload, a sample, a day), so
that every kind of link can expire, and a sample can be superseded, within
`MaxTime` 3. Hashes do not interact, so one is enough.

**Deadlock.** The spool stops when its message is gone and the clock has reached
`MaxTime`, threads when all is stored and merged, requests for a blob when all are
over: their runs switch the deadlock check off; the other runs do not.

**Fairness.** In `QueueSpool!LiveSpec` time passes and every worker that can take a
step takes one: the runtime polls every ready task, and the manager scans at
least every `QUEUE_REFRESH` (which `manager` and `manager_live` justify). In
`QueueManager!LiveSpec` the same holds for the loop, the tasks, the sender of
`Refresh`, a bulk delete under way and the clock. `IndexTasks!LiveSpec` assumes the
scans (at least every `QUEUE_REFRESH_INTERVAL`), the workers and the lapse of
locks; `BlobPurge!LiveSpec` that the housekeeper runs the purge again and again
and time passes. Nothing is assumed of
requests, administrators, clients, crashes or the other node.

## 4. What is proved

TLAPS proves the following for *every* value of the constants that satisfies
their assumptions: any set of recipients, queues, workers and callers, any
schedules and any combination of faults unless the theorem says otherwise.

* `LeaseLockProofs`: `TypeCorrect`, `MutualExclusion` (`MutexUnlessStolen`) and
  `Linearizable` (`AtomicSpec`). The inductive invariant relates each caller's
  lease to the entry: while nothing was stolen, a caller inside an unexpired
  lease owns the entry and the entry is its lease; a caller about to write has
  seen a value that had lapsed by then, so a successful assertion proves that
  nobody else is inside. With Redis the entry is that lease or longer, and no
  lease is longer than `Duration`, so a refused caller never shortens one.
* `QueueSpoolProofs`: `TypeCorrect`, and `QueueLockHolds` (`OneWorkerPerQueue`) if
  attempts end before `LOCK_EXPIRY`. The invariant adds that a worker past
  `TryLock` holds a lease that is in force and equals the stored lock
  (`HoldsLease`); without it exclusion is not inductive.
* `QueueLossProofs`:
  * `NothingLost` (`NoSilentLoss`) if notifications can be queued, under all other
    faults, management requests and rerouting. The invariant `LossInv` says that
    wherever a copy of a recipient is marked as final (in the store, in a worker's
    copy, in a management request) the recipient *is* delivered, bounced, canceled
    or not interested: copies may be stale but never claim an end that did not
    happen.
  * `NoQuotaLeaks` (`QuotaNeverLeaks`) in all settings. The counters grow only when the
    message is queued, and whoever has a copy holds at least what they contain
    (`LeakInv`), however stale the copy is: so a save leaves no more than it keeps
    and a removal leaves nothing.
  * `FinalityHolds` (`FinalStaysFinal`) if attempts end before `LOCK_EXPIRY` and there
    are no management requests (`Locked`), for any queues, rerouting and all other
    faults. The invariant `ClaimInv` says who is in charge of a recipient: the
    worker of its queue, or a worker whose copy has work for no other queue, as
    long as the recipient is pending in it. Whoever is in charge knows when the
    store has it as final, two workers are never in charge of one recipient
    (`OneInCharge`), and
    a worker that will replace the whole message has the store's word on
    everybody else; so no save undoes what another worker has saved.
  * `DeliveredOnce` (`AtMostOnce`) if besides no node crashes and no write fails.
    `OnceInv`: who is pending for the worker in charge, or in the store while
    nobody is in charge, has not been delivered to.
  * `QuotaBalanced`, `BlobStays` and `OneFateEach` (`QuotaExact`, `BlobKept`, `OneFate`) if
    also all recipients of a message go to one queue and stay there (`OneQueue`),
    with crashes and failed reads, writes and notifications. `SoloInv`: all events
    and workers are about that queue, so the lock leaves one copy at a time, which
    replaces the whole message and has its quota keys. For several queues `QuotaExact`
    and `OneFate` are false (section 3).
* `QueueEventProofs`: without overlong attempts, failed reads, management requests
  and rerouting (`Undisturbed`), for any number of queues and workers:
  * `EventsComplete` (`EventPerQueue`). The invariant says that a worker's copy agrees
    with the store on the recipients of the worker's own queue until it saves, so
    the events it writes for its own queue are right, and that events of other
    queues are only added.
  * `NeverStranded` (`NoStranded`), which is not a consequence: a message that was
    removed and written back may have no pending recipient, and then no event is
    due to it by `EventPerQueue`. `StrandInv` says that who is about to save has
    pending recipients (`WorkInv`), and that a message which is back while some
    worker has found it gone and may still clear an event lives on in one queue,
    which has an event and none of those workers (`Remnant`).
  * `RequeuesForLater` (`RequeuedForLater`), under all faults and requests, if all
    senders want delay reports and the clock ends before `Never`: after
    `has_pending_delivery` and `build_dsn` every time of a recipient that the
    worker keeps waiting is in the future.
* `QueueManagerProofs`: `TypeCorrect`, `InFlightExactHolds` (`InFlightExact`) and
  `WithinLimitsHolds` (`WithinLimits`) for any keys, queues, tasks and threads. The
  invariant `Accounts` says that each report in the channel is the only one of its
  task, that this task has sent it, and that `in_flight` is the number of tasks not
  yet accounted for (at least, once the loop has been told to stop). A scan starts
  as many tasks as it adds to the count, and no more than are free (`StartableFits`).
  `WakesUnlessPausedHolds` (`WakesUnlessPaused`) for one node: `WakeInv` says that for
  every event that the loop would sleep past somebody has told it of a change or is
  about to: a `Refresh` in the channel or about to be sent, or a task that has
  deferred a message and whose report has not been read (`Told`, `Heard`).
* `IndexTasksProofs`: `TypeCorrect`, `TaskLockHolds` (`OneWorkerPerTask`),
  `IndexComplete` (`NothingForgotten`, if the metadata batch can be committed) and
  `DeletionsReachIndex` (`NoGhost`, if besides the search store accepts
  documents); `index_lost` shows why. The invariant follows a batch: a locked
  task's key is in the lock store (`InvLocks`); what a worker that is past
  `IndexDocuments` holds and has not failed is in the search store, deleted, or
  has another task (`InvWork`); a deletion past `Unindex` was unindexed
  (`InvUnindexed`); metadata goes only with the document (`InvGone`).
* `ThreadMergeProofs`, for any messages, references, workers, changes and restarts:
  * `TypeCorrect`. That `merge_thread_id` answers a thread needs that it is asked
    about at least one (`PlanMade`, `SeenSome`) and that the order by which it
    chooses has a greatest element (`MergeThreadIdIsListed`).
  * `IndexAgreesHolds` (`IndexAgrees`) and `DeletedStaysDeletedHolds`
    (`DeletedStaysDeleted`): the two batches that name a thread write archive and
    index alike, and the assertion of a merge fails for an archive that is gone.
  * `OneThreadHolds` (`OneThread`). `MergeInv` says, as long as no lookup was
    overtaken: there is at most one merge task to do (`OneTask`), a worker at a task
    has its lock (`Claimed`), messages with an
    id in common are in one thread or in threads that this task is to merge
    (`Grouped`), what the lookup of a message has found still covers its
    conversation (`Planned`), and a message of a thread to merge is in the thread
    that is kept, has still to be visited or will be moved (`Merging`). TLC checked it on 3 and on 4 messages before it was proved.
    It rests on `HasMessageIdFinds`: the walk of `has_message_id` along two sorted
    lists finds an id if and only if they have one in common. The walk is a
    recursive function; the proof gives the function that satisfies its equation
    and, in place of an induction, refutes the counterexample with the shortest
    remaining walk (`LeastNumber`).
* `BlobPurgeProofs`: `TypeCorrect`, `ContentKept` (`LinkedStored`), `NothingLeaks`
  (`NoLeak`) and `CompanionsKept` (`CompanionsHeld`) for any contents, accounts,
  requests and times. The invariant says what each stage of a request relies on
  as long as its hash is untainted: from `ready` on the blob is stored (`InvUse`),
  a commit key implies the blob (`InvCommitted`), what the purge has taken is
  neither linked nor in use (`InvTaken`), its expired links are still those it
  has read (`InvExpired`, `InvSeen`), and keys are unique (`InvUnique`).
  `ReservationsHold` (`ReservationRespected`) adds that the link of a request that is
  under way is there until it expires, or was ended by another request that
  shared it (`InvHold`).

With these, every invariant and every action property of the passing runs has a
theorem. Out of reach of the prover and left to TLC: liveness under fairness
(`EventuallyGone`, `EventuallyServed`, `EventuallyDrained`, `EventuallyPurged`). The hypotheses
of the theorems are settings of the constants (which faults happen, whether
recipients are rerouted, whether there is a second node) that some run includes;
section 3 and the notes under `hazards` say what happens without them.

## 5. What is not modelled

* The wire: MX lookups, TLS policy, the SMTP dialogue. An attempt has a result.
* The databases: a batch is atomic and may fail; a read may fail.
* DELIVERBY, success notifications, the text of notifications, double bounces,
  the spam sample written by `queue`.
* The counters of the rate limiter, `has_quota` before a message is queued, and the
  locks of WebDAV (`dav/src/common/lock.rs`): see the plan.
* Alarms and iMIP messages, the restore of deleted items, the sums of upload
  quotas, a blob purge that takes longer than its lock of an hour, updates of
  events (an insertion like that of a reindex).
* A delivery task that panics (it would keep its thread and its entry in
  `locked`); no step of it is known to.
* The protocol front ends, groupware, directory, spam filter, tracing, command
  line tools and the webmail client: sequential request handling and parsing,
  listed in `PROJECT.json` with the reason.

## 6. Plan

1. *Done:* the lock, over a data store and over Redis; the spool with its workers
   and the management API; the manager; the index tasks, the merge of threads and
   the blob purge; their runs; the proofs of section 4.
2. *Next models:* one route of a delivery attempt (`deliver_task` between the
   grouping of recipients and their results: limiters, MX and policy lookups,
   hosts, addresses, TLS fallbacks), which `QueueSpool!Outcomes` stands for now,
   with the property that every recipient gets exactly one result; the rate
   limiter and `has_quota` with several messages; the locks of WebDAV (the
   read-modify-write of `LockData`, the conflict check, a `LOCK` that names the token
   of an ancestor's lock); alarms and iMIP tasks; the push manager's retries; a
   composition of manager and spool that replaces `QueueManager!Rewritten` by the
   spool's steps; DELIVERBY and success notifications in `QueueSpool`.
3. *Next proofs:* `NoStranded` and `EventPerQueue` with rerouting, under the
   condition that no worker expires recipients of another queue; that the manager and the spool refine one
   abstract queue.
