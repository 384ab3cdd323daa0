-------------------------- MODULE SessionJobQueue --------------------------
(***************************************************************************)
(* The session job queue and the workers it starts:                        *)
(* server/application/jobs/sessionJobQueue.ts, the control flow of         *)
(* processSessionJob.ts, downloadSessionSource.ts and                      *)
(* downloadTorrentSource.ts that the queue can observe, and the guards of  *)
(* runtimeJobActions.ts and createRuntimeApp.ts that decide which calls    *)
(* reach the queue.                                                        *)
(*                                                                         *)
(* Everything runs on one event loop, so a handler is atomic up to its     *)
(* first await.  A worker is a call of processSessionJob; its pc names the *)
(* await it is suspended in.                                               *)
(*                                                                         *)
(* A definition introduced by FAULT is a plausible mistake in the          *)
(* definition that follows it.  Nothing uses it: each is put in place of   *)
(* the right one to show that a property notices the mistake.              *)
(***************************************************************************)
EXTENDS Naturals, FiniteSets, SequencesExt

CONSTANTS
  Jobs,      \* the identities of the jobs that can exist
  Torrents,  \* the jobs whose sourceKind is "torrent"; the others are "http"
  Large,     \* the jobs whose source is above CONFIRM_SIZE_BYTES
  Restored,  \* the jobs restored, paused, before the queue is created
  Slots,     \* room for the concurrent calls of processSessionJob
  NoJob,     \* the job of an idle slot
  NoSlot,    \* the controller of a job no worker can be aborted through
  DiskFails  \* whether the file system calls before the worker's try block fail

ASSUME QueueConstants ==
  /\ Torrents \subseteq Jobs /\ Large \subseteq Jobs /\ Restored \subseteq Jobs
  /\ IsFiniteSet(Jobs) /\ IsFiniteSet(Slots) /\ Slots # {}
  /\ NoJob \notin Jobs /\ NoSlot \notin Slots
  /\ DiskFails \in BOOLEAN

VARIABLES
  pending,       \* pendingSessionJobs, in the order they will start
  order,         \* jobOrder; its members are the keys of the jobs Map
  active,        \* the keys of activeItems
  pausing,       \* jobs asked to pause whose worker has not ended
  requeue,       \* requeueAfterActive
  maxConcurrent, \* the limit in force
  stopping,      \* set once by stopSessionJobs
  worker,        \* the running calls of processSessionJob
  controller,    \* per job, the worker its abortController aborts
  job,           \* the fields of SessionJob that guards read
  store,         \* the keys of the runtime's jobStore
  removing       \* jobs whose removal waits for the file system

schedVars == <<pending, active, worker>>
storeVars == <<store, removing>>
vars == <<pending, order, active, pausing, requeue, maxConcurrent, stopping,
          worker, controller, job, store, removing>>

Statuses == {"new", "queued", "downloading", "paused", "awaiting_selection",
             "awaiting_confirmation", "ready", "error", "cancelled"}
Phases == {"idle", "prelude", "setup", "probe", "transfer", "publish"}
Limits == 1..Cardinality(Slots)

\* The fields of a job: completedSha256 is held while verified, a torrent has
\* chosen files while selected, and archive says job.archive is set.
JobRecord ==
  [status: Statuses, canPause: BOOLEAN, canResume: BOOLEAN, pauseRequested: BOOLEAN,
   oversizeConfirmed: BOOLEAN, verified: BOOLEAN, selected: BOOLEAN, archive: BOOLEAN]

CreateJob ==
  [status |-> "new", canPause |-> FALSE, canResume |-> FALSE, pauseRequested |-> FALSE,
   oversizeConfirmed |-> FALSE, verified |-> FALSE, selected |-> FALSE, archive |-> FALSE]

WorkerRecord == [pc: Phases, job: Jobs \cup {NoJob}, confirmed: BOOLEAN, aborted: BOOLEAN]
IdleWorker == [pc |-> "idle", job |-> NoJob, confirmed |-> FALSE, aborted |-> FALSE]

Busy == {s \in Slots : worker[s].pc # "idle"}
-----------------------------------------------------------------------------
(* Order and scheduling *)

\* The position of a job in an order, 0 (JavaScript's -1) for one not in it.
IndexOf(ord, j) ==
  IF j \in Range(ord) THEN CHOOSE i \in DOMAIN ord : ord[i] = j ELSE 0

\* A list without its first entry of a job; equal entries are neighbours.
Without(q, j) == IF j \in Range(q) THEN RemoveAt(q, IndexOf(q, j)) ELSE q

\* sortPending's key: a job outside the order sorts last.
Rank(ord, j) == IF j \in Range(ord) THEN IndexOf(ord, j) ELSE Len(ord) + 1

Ascending(q, ord) ==
  \A i, k \in DOMAIN q : i < k => Rank(ord, q[i]) <= Rank(ord, q[k])

Rearrangements(q) ==
  {[i \in DOMAIN q |-> q[f[i]]] : f \in Bijection(DOMAIN q, DOMAIN q)}

\* The results sortPending can leave: one, up to entries of the same job.
SortPending(q, ord) == {p \in Rearrangements(q) : Ascending(p, ord)}

\* FAULT: the limit compared with > instead of >=.
StartCountOffByOne(length, running) ==
  IF stopping' \/ running > maxConcurrent' THEN 0
  ELSE IF length <= maxConcurrent' + 1 - running THEN length ELSE maxConcurrent' + 1 - running

\* How many entries the loop of scheduleSessionJobs shifts off a queue of this
\* length while this many workers run.
StartCount(length, running) ==
  IF stopping' \/ running >= maxConcurrent' THEN 0
  ELSE IF length <= maxConcurrent' - running THEN length ELSE maxConcurrent' - running

StartWorker(j) ==
  [pc |-> "prelude", job |-> j, confirmed |-> job'[j].oversizeConfirmed, aborted |-> FALSE]

\* scheduleSessionJobs on the queue, workers and active keys its caller leaves.
Schedule(q, w, act) ==
  LET free == {s \in Slots : w[s].pc = "idle"}
      n == StartCount(Len(q), Cardinality(Slots \ free))
  IN /\ pending' = SubSeq(q, n + 1, Len(q))
     /\ active' = act \cup {q[i] : i \in 1..n}
     /\ \E place \in Injection(1..n, free) :
          worker' = [s \in Slots |-> IF \E i \in 1..n : place[i] = s
                                     THEN StartWorker(q[CHOOSE i \in 1..n : place[i] = s])
                                     ELSE w[s]]

\* FAULT: the job is not looked up in activeItems.
EnqueueRunning(j) ==
  /\ order' = IF j \in Range(order) THEN order ELSE Append(order, j)
  /\ UNCHANGED requeue
  /\ \E q \in SortPending(IF j \in Range(pending) THEN pending
                          ELSE Append(pending, j), order') :
       Schedule(q, worker, active)

\* enqueueSessionJob: a job that runs is queued again when its worker ends, a
\* job that waits stays where it is.
Enqueue(j) ==
  /\ order' = IF j \in Range(order) THEN order ELSE Append(order, j)
  /\ IF j \in active
     THEN requeue' = requeue \cup {j} /\ UNCHANGED schedVars
     ELSE /\ UNCHANGED requeue
          /\ \E q \in SortPending(IF j \in Range(pending) THEN pending
                                  ELSE Append(pending, j), order') :
               Schedule(q, worker, active)

\* The tail of confirmSessionJob and selectTorrentFiles, which does not ask
\* whether the job already waits.
Push(j) ==
  IF j \in active
  THEN requeue' = requeue \cup {j} /\ UNCHANGED schedVars
  ELSE /\ UNCHANGED requeue
       /\ \E q \in SortPending(Append(pending, j), order) : Schedule(q, worker, active)

\* job.abortController?.abort()
Aborting(js) ==
  [s \in Slots |-> IF \E j \in js : controller[j] = s
                   THEN [worker[s] EXCEPT !.aborted = TRUE] ELSE worker[s]]

\* The pauseJob callback of runtimeComposition.ts.
PauseJob(j) ==
  /\ pausing' = pausing \cup {j}
  /\ worker' = Aborting({j})
  /\ job' = [job EXCEPT ![j].pauseRequested = TRUE, ![j].status = "paused",
                        ![j].canPause = FALSE]
-----------------------------------------------------------------------------
Init ==
  /\ pending = <<>> /\ active = {} /\ pausing = {} /\ requeue = {}
  /\ order \in Bijection(1..Cardinality(Restored), Restored)
  /\ maxConcurrent \in Limits
  /\ stopping = FALSE
  /\ worker = [s \in Slots |-> IdleWorker]
  /\ controller = [j \in Jobs |-> NoSlot]
  /\ job = [j \in Jobs |-> IF j \in Restored
                           THEN [CreateJob EXCEPT !.status = "paused", !.canResume = TRUE,
                                                  !.selected = j \in Torrents]
                           ELSE CreateJob]
  /\ store = Restored /\ removing = {}

(* Calls of the API *)

\* createJob and enqueueJob of one submitted link.
Submit(j, confirmOversize) ==
  /\ job[j].status = "new"
  /\ job' = [job EXCEPT ![j].status = "queued", ![j].oversizeConfirmed = confirmOversize]
  /\ store' = store \cup {j}
  /\ UNCHANGED <<pausing, maxConcurrent, stopping, controller, removing>>
  /\ Enqueue(j)

\* A torrent without a retained archive is retried as a new job, see Submit.
Retry(j) ==
  /\ j \in store
  /\ job[j].status \in {"error", "cancelled"}
  /\ j \notin Torrents \/ job[j].archive
  /\ job' = [job EXCEPT ![j].status = "queued"]
  /\ UNCHANGED <<pausing, maxConcurrent, stopping, controller, storeVars>>
  /\ Enqueue(j)

Cancel(j) ==
  /\ j \in store \cap Range(order)
  /\ job[j].status \notin {"ready", "error", "cancelled"}
  /\ pending' = Without(pending, j)
  /\ requeue' = requeue \ {j}
  /\ worker' = Aborting({j})
  /\ job' = [job EXCEPT ![j].pauseRequested = FALSE, ![j].status = "cancelled",
                        ![j].canPause = FALSE]
  /\ UNCHANGED <<order, active, pausing, maxConcurrent, stopping, controller, storeVars>>

Pause(j) ==
  /\ j \in active /\ job[j].canPause
  /\ PauseJob(j)
  /\ UNCHANGED <<pending, order, active, requeue, maxConcurrent, stopping, controller, storeVars>>

\* FAULT: a job resumed while its worker still ends is not queued again.
ResumeForgets(j) ==
  /\ j \in Range(order) /\ job[j].status = "paused"
  /\ job' = [job EXCEPT ![j].status = "queued", ![j].canPause = FALSE]
  /\ UNCHANGED <<order, pausing, requeue, maxConcurrent, stopping, controller, storeVars>>
  /\ \E q \in SortPending(IF j \in Range(pending) \cup active THEN pending
                          ELSE Append(pending, j), order) :
       Schedule(q, worker, active)

Resume(j) ==
  /\ j \in Range(order) /\ job[j].status = "paused"
  /\ job' = [job EXCEPT ![j].status = "queued", ![j].canPause = FALSE]
  /\ UNCHANGED <<order, pausing, maxConcurrent, stopping, controller, storeVars>>
  /\ IF j \in active
     THEN requeue' = requeue \cup {j} /\ Schedule(pending, worker, active)
     ELSE /\ UNCHANGED requeue
          /\ \E q \in SortPending(IF j \in Range(pending) THEN pending
                                  ELSE Append(pending, j), order) :
               Schedule(q, worker, active)

Confirm(j) ==
  /\ j \in Range(order) /\ job[j].status = "awaiting_confirmation"
  /\ job' = [job EXCEPT ![j].status = "queued", ![j].oversizeConfirmed = TRUE]
  /\ UNCHANGED <<order, pausing, maxConcurrent, stopping, controller, storeVars>>
  /\ Push(j)

\* The files of a torrent are known once its metadata was seen, which a
\* paused torrent can only have done with a selection.
SelectTorrentFiles(j) ==
  /\ j \in Range(order) \cap Torrents
  /\ job[j].status \in {"awaiting_selection", "ready", "paused"}
  /\ job[j].status = "awaiting_selection" \/ job[j].selected
  /\ job' = [job EXCEPT ![j].status = "queued", ![j].selected = TRUE]
  /\ UNCHANGED <<order, pausing, maxConcurrent, stopping, controller, storeVars>>
  /\ Push(j)

\* getZipSelection only reads files, and the guards are evaluated after it.
SelectArchiveFiles(j) ==
  /\ j \in Range(order) /\ job[j].archive
  /\ job[j].status \in {"awaiting_selection", "ready"}
  /\ job' = [job EXCEPT ![j].status = "queued", ![j].canPause = FALSE]
  /\ UNCHANGED <<pausing, maxConcurrent, stopping, controller, storeVars>>
  /\ Enqueue(j)

\* The active jobs reorderSessionJobs may preempt for the first waiting job.
Preemptible(q, ord) ==
  IF q = <<>> \/ Cardinality(active) < maxConcurrent THEN {}
  ELSE {j \in active \ pausing :
          job[j].canResume /\ IndexOf(ord, j) > IndexOf(ord, Head(q))}

\* FAULT: the order changes and the waiting jobs are left as they were.
ReorderUnsorted(ord) ==
  /\ order' = ord
  /\ UNCHANGED <<schedVars, pausing, requeue, maxConcurrent, stopping, controller, job, storeVars>>

Reorder(ord) ==
  /\ order' = ord
  /\ \E q \in SortPending(pending, ord) :
       /\ pending' = q
       /\ LET candidates == Preemptible(q, ord)
          IN \/ candidates = {} /\ UNCHANGED <<job, worker, pausing, requeue>>
             \/ \E j \in candidates :
                  /\ \A k \in candidates : IndexOf(ord, k) <= IndexOf(ord, j)
                  /\ requeue' = requeue \cup {j}
                  /\ PauseJob(j)
  /\ UNCHANGED <<active, maxConcurrent, stopping, controller, storeVars>>

\* FAULT: a higher limit starts no waiting job.
SetLimitOnly(n) ==
  /\ maxConcurrent' = n
  /\ UNCHANGED <<schedVars, order, pausing, requeue, stopping, controller, job, storeVars>>

SetLimit(n) ==
  /\ maxConcurrent' = n
  /\ UNCHANGED <<order, pausing, requeue, stopping, controller, job, storeVars>>
  /\ Schedule(pending, worker, active)

\* removeSessionJob up to the file system: the job leaves the queue, and the
\* jobStore once its files are gone.
RemoveJob(j) ==
  /\ j \in Range(order) /\ j \notin active /\ j \notin Range(pending)
  /\ order' = Without(order, j)
  /\ removing' = removing \cup ({j} \cap store)
  /\ job' = IF j \in store THEN job ELSE [job EXCEPT ![j] = CreateJob]
  /\ UNCHANGED <<schedVars, pausing, requeue, maxConcurrent, stopping, controller, store>>

\* cleanupJob after the files are gone.  A job no list holds any more is
\* forgotten, and its name free for a job submitted later.
FinishRemove(j) ==
  /\ j \in removing
  /\ store' = store \ {j} /\ removing' = removing \ {j}
  /\ job' = IF j \in Range(order) THEN job ELSE [job EXCEPT ![j] = CreateJob]
  /\ UNCHANGED <<schedVars, order, pausing, requeue, maxConcurrent, stopping, controller>>

\* stopSessionJobs, called once by the shutdown handler.
Stop ==
  /\ ~stopping /\ stopping' = TRUE
  /\ job' = [j \in Jobs |-> IF j \in active THEN [job[j] EXCEPT !.pauseRequested = TRUE]
                            ELSE job[j]]
  /\ worker' = Aborting(active)
  /\ UNCHANGED <<pending, order, active, pausing, requeue, maxConcurrent, controller, storeVars>>
-----------------------------------------------------------------------------
(* Steps of a worker *)

\* The worker goes on to another await.
Goto(s, pc) ==
  /\ worker' = [worker EXCEPT ![s].pc = pc]
  /\ UNCHANGED <<pending, order, active, pausing, requeue, maxConcurrent, stopping, storeVars>>

\* FAULT: requeueAfterActive is read and not cleared.
FinishKeepsMarks(s) ==
  LET j == worker[s].job
  IN /\ pausing' = pausing \ {j}
     /\ controller' = [controller EXCEPT
                        ![j] = IF @ = s \/ job'[j].status = "paused" THEN NoSlot ELSE @]
     /\ UNCHANGED <<requeue, order, maxConcurrent, stopping, storeVars>>
     /\ \E q \in IF j \in requeue THEN SortPending(Append(pending, j), order) ELSE {pending} :
          Schedule(q, [worker EXCEPT ![s] = IdleWorker], active \ {j})

\* FAULT: the slot is freed and no waiting job started.
FinishIdle(s) ==
  LET j == worker[s].job
      ended == [worker EXCEPT ![s] = IdleWorker]
  IN /\ pausing' = pausing \ {j} /\ requeue' = requeue \ {j}
     /\ controller' = [controller EXCEPT
                        ![j] = IF @ = s \/ job'[j].status = "paused" THEN NoSlot ELSE @]
     /\ UNCHANGED <<order, maxConcurrent, stopping, storeVars>>
     /\ pending' \in IF j \in requeue THEN SortPending(Append(pending, j), order) ELSE {pending}
     /\ worker' = ended /\ active' = active \ {j}

\* The promise settles and the finally handler of scheduleSessionJobs runs.
Finish(s) ==
  LET j == worker[s].job
  IN /\ pausing' = pausing \ {j} /\ requeue' = requeue \ {j}
     /\ controller' = [controller EXCEPT
                        ![j] = IF @ = s \/ job'[j].status = "paused" THEN NoSlot ELSE @]
     /\ UNCHANGED <<order, maxConcurrent, stopping, storeVars>>
     /\ \E q \in IF j \in requeue THEN SortPending(Append(pending, j), order) ELSE {pending} :
          Schedule(q, [worker EXCEPT ![s] = IdleWorker], active \ {j})

\* FAULT: the worker's controller is not stored in the job.
BeginUnreachable(s) ==
  LET j == worker[s].job
      probes == j \notin Torrents /\ ~job[j].verified
  IN /\ worker[s].pc = "prelude"
     /\ UNCHANGED controller
     /\ job' = [job EXCEPT ![j].pauseRequested = FALSE,
                           ![j].status = IF probes THEN "downloading" ELSE @]
     /\ Goto(s, IF probes THEN "probe" ELSE "setup")

\* mkdtemp, assertHttpWorkspace and mkdir are done: the worker installs its
\* controller.  A verified source is hashed, a torrent directory made, next.
Begin(s) ==
  LET j == worker[s].job
      probes == j \notin Torrents /\ ~job[j].verified
  IN /\ worker[s].pc = "prelude"
     /\ controller' = [controller EXCEPT ![j] = s]
     /\ job' = [job EXCEPT ![j].pauseRequested = FALSE,
                           ![j].status = IF probes THEN "downloading" ELSE @]
     /\ Goto(s, IF probes THEN "probe" ELSE "setup")

\* The awaits before the try block reject: the error is only logged.
PreludeFails(s) ==
  /\ DiskFails /\ worker[s].pc = "prelude"
  /\ UNCHANGED job
  /\ Finish(s)

\* The catch block on an AbortError, for a job whose fields are those of jb.
Aborted(s, jb) ==
  LET j == worker[s].job
  IN /\ worker[s].aborted
     /\ job' = IF jb[j].pauseRequested /\ jb[j].canResume
               THEN [jb EXCEPT ![j].status = "paused", ![j].canPause = FALSE,
                               ![j].pauseRequested = FALSE]
               ELSE [jb EXCEPT ![j].status = "cancelled"]
     /\ Finish(s)

\* The worker ends waiting for the user's confirmation of the size.
AskConfirmation(s, jb) ==
  LET j == worker[s].job
  IN /\ j \in Large /\ ~worker[s].confirmed
     /\ job' = [jb EXCEPT ![j].status = "awaiting_confirmation"]
     /\ Finish(s)

\* reuseVerifiedSource: the hash is not interrupted by an abort.
VerifySource(s) ==
  LET j == worker[s].job
  IN /\ worker[s].pc = "setup" /\ j \notin Torrents
     /\ \/ /\ job' = [job EXCEPT ![j].verified = FALSE, ![j].status = "downloading"]
           /\ UNCHANGED controller
           /\ Goto(s, "probe")
        \/ AskConfirmation(s, job)
        \/ /\ j \notin Large \/ worker[s].confirmed
           /\ \/ Aborted(s, job)
              \/ ~worker[s].aborted /\ UNCHANGED <<controller, job>> /\ Goto(s, "publish")

\* downloadTorrentSource up to its first await.
StartTorrent(s) ==
  LET j == worker[s].job
      resumable == [job EXCEPT ![j].canPause = TRUE, ![j].canResume = TRUE]
  IN /\ worker[s].pc = "setup" /\ j \in Torrents
     /\ \/ Aborted(s, resumable)
        \/ /\ ~worker[s].aborted
           /\ job' = [resumable EXCEPT ![j].status = "downloading"]
           /\ UNCHANGED controller
           /\ Goto(s, "probe")

\* fetchRemoteMetadata: an advertised size may need confirmation; whether the
\* origin takes range requests decides whether the download can be paused.
ProbeHttp(s) ==
  LET j == worker[s].job
  IN /\ worker[s].pc = "probe" /\ j \notin Torrents /\ ~worker[s].aborted
     /\ \/ AskConfirmation(s, job)
        \/ \E resumable \in BOOLEAN :
             /\ job' = [job EXCEPT ![j].canPause = resumable, ![j].canResume = resumable]
             /\ UNCHANGED controller
             /\ Goto(s, "transfer")

\* The torrent's metadata arrives.  A refusal of handleMetadata is delivered
\* after the torrent was destroyed, by when an abort is no longer heard.
ResolveTorrent(s) ==
  LET j == worker[s].job
  IN /\ worker[s].pc = "probe" /\ j \in Torrents
     /\ \/ /\ ~job[j].selected
           /\ job' = [job EXCEPT ![j].status = "awaiting_selection", ![j].canPause = FALSE,
                                 ![j].canResume = FALSE]
           /\ Finish(s)
        \/ job[j].selected /\ AskConfirmation(s, [job EXCEPT ![j].canPause = FALSE])
        \/ /\ job[j].selected /\ ~worker[s].aborted
           /\ j \notin Large \/ worker[s].confirmed
           /\ UNCHANGED <<controller, job>>
           /\ Goto(s, "transfer")

\* A checkpoint of an HTTP download is stored, also by a writer that is being
\* destroyed, and with it what the latest response says of range requests.
SaveCheckpoint(s) ==
  LET j == worker[s].job
  IN /\ worker[s].pc = "transfer" /\ j \notin Torrents
     /\ \E resumable \in BOOLEAN :
          job' = [job EXCEPT ![j].canPause = resumable, ![j].canResume = resumable]
     /\ UNCHANGED controller
     /\ Goto(s, "transfer")

\* The last byte arrives.  An HTTP source of unknown size is found too large
\* only now, by a check that does not look at the abort signal.
TransferDone(s) ==
  LET j == worker[s].job
      hashed == [job EXCEPT ![j].verified = TRUE]
  IN /\ worker[s].pc = "transfer"
     /\ \/ /\ j \in Torrents /\ ~worker[s].aborted
           /\ job' = [job EXCEPT ![j].canPause = FALSE]
           /\ UNCHANGED controller
           /\ Goto(s, "publish")
        \/ j \notin Torrents /\ (AskConfirmation(s, hashed) \/ AskConfirmation(s, job))
        \/ /\ j \notin Torrents /\ ~worker[s].aborted
           /\ j \notin Large \/ worker[s].confirmed
           /\ job' = hashed
           /\ UNCHANGED controller
           /\ Goto(s, "publish")

\* Extraction and completeSession, or the review of a ZIP's contents.
Publish(s) ==
  LET j == worker[s].job
  IN /\ worker[s].pc = "publish" /\ ~worker[s].aborted
     /\ \/ job' = [job EXCEPT ![j].status = "ready", ![j].canPause = FALSE]
        \/ job' = [job EXCEPT ![j].status = "awaiting_selection", ![j].canPause = FALSE,
                              ![j].canResume = FALSE, ![j].archive = TRUE]
     /\ Finish(s)

\* FAULT: a transfer stops at an abort and its promise never settles.
InterruptedUnheard(s) ==
  /\ worker[s].pc \in {"probe", "publish"}
  /\ Aborted(s, job)

\* An abort interrupts the await the worker is in.
Interrupted(s) ==
  /\ worker[s].pc \in {"probe", "transfer", "publish"}
  /\ Aborted(s, job)

\* emitFailure on any other error; an abort reason takes precedence over it.
Failed(s) ==
  /\ worker[s].pc \in {"setup", "probe", "transfer", "publish"}
  /\ ~worker[s].aborted
  /\ job' = [job EXCEPT ![worker[s].job].status = "error"]
  /\ Finish(s)

WorkerStep(s) ==
  \/ Begin(s) \/ PreludeFails(s) \/ VerifySource(s) \/ StartTorrent(s)
  \/ ProbeHttp(s) \/ ResolveTorrent(s) \/ SaveCheckpoint(s) \/ TransferDone(s)
  \/ Publish(s) \/ Interrupted(s) \/ Failed(s)

ApiCall ==
  \/ \E j \in Jobs :
       \/ \E confirmOversize \in {FALSE, (j \in Large)} : Submit(j, confirmOversize)
       \/ Retry(j) \/ Cancel(j) \/ Pause(j) \/ Resume(j) \/ Confirm(j)
       \/ SelectTorrentFiles(j) \/ SelectArchiveFiles(j) \/ RemoveJob(j)
  \/ \E ord \in Bijection(DOMAIN order, Range(order)) : Reorder(ord)
  \/ \E n \in Limits : SetLimit(n)
  \/ Stop

Next ==
  \/ ApiCall
  \/ \E j \in Jobs : FinishRemove(j)
  \/ \E s \in Slots : WorkerStep(s)

Spec == Init /\ [][Next]_vars
-----------------------------------------------------------------------------
(* Properties *)

\* Every variable holds a value of the kind the code stores in it.
TypeOK ==
  /\ pending \in Seq(Jobs) /\ order \in Seq(Jobs)
  /\ active \subseteq Jobs /\ pausing \subseteq Jobs /\ requeue \subseteq Jobs
  /\ maxConcurrent \in Limits /\ stopping \in BOOLEAN
  /\ worker \in [Slots -> WorkerRecord]
  /\ controller \in [Jobs -> Slots \cup {NoSlot}]
  /\ job \in [Jobs -> JobRecord]
  /\ store \subseteq Jobs /\ removing \subseteq Jobs

\* No two workers run one job, whose files they would both write: "waits for a
\* cancelled worker to release its files before retrying the same job"
\* (tests/unit/server/application/jobs/sessionJobQueue.test.ts:103).
OneWorkerPerJob == \A s, t \in Busy : worker[s].job = worker[t].job => s = t

\* At most one worker runs a job, and a job waits at most once and never while
\* it runs (the checks of enqueueSessionJob and resumeSessionJob).
SingleWorker ==
  /\ IsInjective(pending)
  /\ active \cap Range(pending) = {}
  /\ OneWorkerPerJob

\* A job some worker still runs is in activeItems, which is all that keeps
\* removeSessionJob from deleting the files under that worker.
WorkersAreActive == \A s \in Busy : worker[s].job \in active

\* No slot is left idle while a job waits: every handler that adds a job, ends
\* a worker or raises the limit runs scheduleSessionJobs.
WorkConserving ==
  pending # <<>> /\ ~stopping => Cardinality(Busy) >= maxConcurrent

\* The queue that will be shifted is always in the order the user gave.
PendingInOrder == Ascending(pending, order)

\* A job to be requeued, or being paused, has a worker whose end will do it:
\* a stale mark would start the job a second time after its next run.
MarksAreActive == requeue \cup pausing \subseteq active

\* The controller of a job aborts the worker that runs it, from the moment
\* that worker installed it: cancel, pause and shutdown reach every transfer.
AbortReachesWorker ==
  \A s \in Busy : worker[s].pc # "prelude" => controller[worker[s].job] = s

\* scheduleSessionJobs starts no worker beyond the limit in force, not even
\* when the limit was lowered below the number of workers that run.
StartsWithinLimit ==
  [][\A s \in Slots : worker[s].pc = "idle" /\ worker'[s].pc = "prelude"
       => Cardinality(Busy') <= maxConcurrent' /\ ~stopping']_vars

\* scheduleSessionJobs leaves no slot idle while a job waits, and starts no worker
\* beyond the limit in force, lowered below the workers that run or not.
SlotsAreUsed == []WorkConserving /\ StartsWithinLimit

\* A cancelled job stays cancelled until it is retried: "Cancel interrupts
\* probing, streaming and retry waits." (docs/guides/downloads.md:26).
CancelSticks ==
  [][\A j \in Jobs : job[j].status = "cancelled"
       => job'[j].status \in {"cancelled", "queued"}]_vars
=============================================================================
