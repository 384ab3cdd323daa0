---------------------------- MODULE RetainedJobs ----------------------------
(***************************************************************************)
(* The jobs of a server that stops and starts again: the store in memory     *)
(* (application/jobs/jobManager.ts), the SQLite store                        *)
(* (repositories/retainedTorrents.ts), the restoration of both kinds of jobs *)
(* at start and the shutdown.  Every save may fail, and the machine may stop *)
(* between any two steps.  How workers are scheduled is SessionJobQueue, what *)
(* they write HttpDownload, TorrentTransfer and Publication.                 *)
(***************************************************************************)
EXTENDS Naturals, FiniteSets

CONSTANTS
  Jobs,
  Torrents,    \* the jobs with a torrent source; the others are HTTP downloads
  MaxFaults,   \* crashes and failed saves
  None

VARIABLES
  server,      \* the process
  job,         \* jobStore
  row,         \* the rows of torrents and http_downloads
  data,        \* the files of the source in the job's workspace
  view,        \* the jobs whose session is in sessionStore
  pending, worker, aborted,  \* the queue, its workers, those whose signal is aborted
  removing,    \* jobs in the awaits of their removal: "files", then "row"
  todo,        \* the rows that restoration has still to look at
  faults

vars == <<server, job, row, data, view, pending, worker, aborted, removing, todo, faults>>
memory == <<pending, worker, aborted, removing>>

Statuses == {"queued", "downloading", "paused", "ready", "awaiting", "cancelled", "error"}
\* What a snapshot and a job have in common: jobSchema.parse.
Snapshot == [status : Statuses, session : BOOLEAN]

Init ==
  /\ server = "serving" /\ job = [j \in Jobs |-> None] /\ row = [j \in Jobs |-> None]
  /\ data = [j \in Jobs |-> "none"] /\ view = {} /\ pending = {} /\ worker = {} /\ aborted = {}
  /\ removing = [j \in Jobs |-> "no"] /\ todo = {} /\ faults = 0

Up == server \in {"serving", "stopping"}
Known(j) == job[j] # None /\ removing[j] = "no"

\* saveRetainedTorrent: the job is an error when its row cannot be written, and its
\* worker is told to stop.
Saved(j, snapshot) ==
  /\ job' = [job EXCEPT ![j] = snapshot] /\ row' = [row EXCEPT ![j] = snapshot]
  /\ UNCHANGED faults
\* A later save of the same handler may succeed.
SaveFails(j, snapshot) ==
  LET failed == [snapshot EXCEPT !.status = "error"] IN
  /\ faults < MaxFaults /\ faults' = faults + 1
  /\ job' = [job EXCEPT ![j] = failed] /\ row' \in {row, [row EXCEPT ![j] = failed]}

\* emitJob of a change that is no mere progress, with a signal of its worker to abort.
Emit(j, snapshot, abort) ==
  \/ Saved(j, snapshot) /\ aborted' = aborted \cup abort
  \/ SaveFails(j, snapshot) /\ aborted' = aborted \cup abort \cup ({j} \cap worker)
-----------------------------------------------------------------------------
\* createJob and enqueueSessionJob; also the retry of a torrent, which is a new job.
Create(j) ==
  /\ Up /\ job[j] = None /\ row[j] = None /\ data[j] = "none"
  /\ Emit(j, [status |-> "queued", session |-> FALSE], {})
  /\ pending' = pending \cup {j}
  /\ UNCHANGED <<server, data, view, worker, removing, todo>>

\* The scheduler starts the worker: processSessionJob makes its directories.
Begin(j) ==
  /\ server = "serving" /\ j \in pending
  /\ pending' = pending \ {j} /\ worker' = worker \cup {j}
  /\ data' = [data EXCEPT ![j] = IF @ = "none" THEN "partial" ELSE @]
  /\ \/ Saved(j, [job[j] EXCEPT !.status = "downloading"]) /\ aborted' = aborted \ {j}
     \/ SaveFails(j, job[j]) /\ aborted' = aborted \cup {j}
  /\ UNCHANGED <<server, view, removing, todo>>

\* The source is complete.  Progress is saved once a second at most: a row says
\* nothing of it.
Advance(j) ==
  /\ j \in worker \ aborted /\ data[j] = "partial"
  /\ data' = [data EXCEPT ![j] = "complete"]
  /\ UNCHANGED <<server, job, row, view, memory, todo, faults>>

\* FAULT: the worker goes on after the save of "ready" has failed, and closeJob
\* sets the status again.
CompletedAnyway(j) ==
  /\ job' = [job EXCEPT ![j] = [status |-> "ready", session |-> TRUE]]
  /\ \/ row' = [row EXCEPT ![j] = [status |-> "ready", session |-> TRUE]] /\ UNCHANGED faults
     \/ faults < MaxFaults /\ faults' = faults + 1 /\ UNCHANGED row

\* completeSession emits "ready", then looks whether the save has aborted it.
Completed(j) ==
  LET ready == [status |-> "ready", session |-> TRUE] IN Saved(j, ready) \/ SaveFails(j, ready)

\* The session is in the store before its job says so.
Complete(j) ==
  /\ j \in worker \ aborted /\ data[j] = "complete"
  /\ view' = view \cup {j} /\ Completed(j) /\ worker' = worker \ {j}
  /\ UNCHANGED <<server, data, pending, aborted, removing, todo>>

\* The worker ends otherwise: it asks the user, it fails, or it was told to stop.
\* A job that was cancelled or could not be saved keeps that status.
End(j) ==
  /\ j \in worker
  /\ \E s \in IF j \notin aborted THEN {"awaiting", "error"}
              ELSE {IF job[j].status = "downloading" THEN "paused" ELSE job[j].status} :
       Saved(j, [job[j] EXCEPT !.status = s]) \/ SaveFails(j, job[j])
  /\ worker' = worker \ {j} /\ aborted' = aborted \ {j}
  /\ UNCHANGED <<server, data, view, pending, removing, todo>>

\* pauseJob and cancelSessionJob.
Pause(j) ==
  /\ Up /\ j \in worker /\ job[j].status = "downloading"
  /\ Emit(j, [job[j] EXCEPT !.status = "paused"], {j})
  /\ UNCHANGED <<server, data, view, pending, worker, removing, todo>>

Cancel(j) ==
  /\ Up /\ Known(j) /\ job[j].status \notin {"ready", "error", "cancelled"}
  /\ pending' = pending \ {j}
  /\ Emit(j, [job[j] EXCEPT !.status = "cancelled"], {j} \cap worker)
  /\ UNCHANGED <<server, data, view, worker, removing, todo>>

\* Resume, retry, confirm, select: an HTTP job that failed or was cancelled is tried
\* again as itself.  SessionJobQueue has the calls that find a worker.
Requeue(j) ==
  /\ Up /\ Known(j) /\ j \notin worker \cup pending
  /\ job[j].status \in {"paused", "awaiting"} \cup (IF j \in Torrents THEN {} ELSE {"error", "cancelled"})
  /\ Emit(j, [job[j] EXCEPT !.status = "queued"], {})
  /\ pending' = pending \cup {j}
  /\ UNCHANGED <<server, data, view, worker, removing, todo>>

\* removeSessionJob and removeSession refuse a job with a worker; the session goes
\* first, then the files, then the job and its row.
Remove(j) ==
  /\ Up /\ Known(j) /\ j \notin worker \cup pending
  /\ removing' = [removing EXCEPT ![j] = "files"] /\ view' = view \ {j}
  /\ UNCHANGED <<server, job, row, data, pending, worker, aborted, todo, faults>>
RemoveFiles(j) ==
  /\ removing[j] = "files"
  /\ removing' = [removing EXCEPT ![j] = "row"] /\ data' = [data EXCEPT ![j] = "none"]
  /\ UNCHANGED <<server, job, row, view, pending, worker, aborted, todo, faults>>
Forget(j) ==
  /\ removing[j] = "row"
  /\ removing' = [removing EXCEPT ![j] = "no"]
  /\ job' = [job EXCEPT ![j] = None] /\ row' = [row EXCEPT ![j] = None]
  /\ UNCHANGED <<server, data, view, pending, worker, aborted, todo, faults>>
-----------------------------------------------------------------------------
\* stopSessionJobs, then cleanupJob "shutdown" of every job, then the services.
Shutdown ==
  /\ server = "serving" /\ server' = "stopping" /\ aborted' = worker
  /\ UNCHANGED <<job, row, data, view, pending, worker, removing, todo, faults>>

\* FAULT: shutdown waits for the queue to be empty too.
DrainedQueue == worker = {} /\ pending = {}

\* stopSessionJobs resolves when no worker is left; what waits is started no more.
Drained == worker = {}

Exit ==
  /\ server = "stopping" /\ Drained
  /\ server' = "down" /\ row' = [j \in Jobs |-> IF job[j] = None THEN row[j] ELSE job[j]]
  /\ job' = [j \in Jobs |-> None] /\ view' = {} /\ pending' = {} /\ aborted' = {}
  /\ removing' = [j \in Jobs |-> "no"]
  /\ UNCHANGED <<data, worker, todo, faults>>

Down ==
  /\ server' = "down" /\ job' = [j \in Jobs |-> None] /\ view' = {} /\ pending' = {} /\ worker' = {}
  /\ aborted' = {} /\ removing' = [j \in Jobs |-> "no"] /\ todo' = {}
  /\ UNCHANGED <<row, data>>

\* The machine stops, and with it the disk may have lost the files of a source.
Crash == server # "down" /\ faults < MaxFaults /\ faults' = faults + 1 /\ Down

\* A signal during restoration: createStartupServer closes the store and exits.
StopStartup == server = "restoring" /\ Down /\ UNCHANGED faults

\* The store is opened and read; the server answers 503 meanwhile.
Start ==
  /\ server = "down" /\ server' = "restoring" /\ todo' = {j \in Jobs : row[j] # None}
  /\ UNCHANGED <<job, row, data, view, memory, faults>>

\* FAULT: the status of the snapshot is restored as it is.
AtRestAsIs(status) == status

\* What is left of the status of a job that has no worker any more.
AtRest(status) == IF status \in {"awaiting", "error", "cancelled"} THEN status ELSE "paused"

\* FAULT: a retained session is only listed again when its job is resumed.
RestoredViewNone(j) == view

\* restoreTorrentSession, restorePublishedArchiveSession.
RestoredView(j) == view \cup {j}

\* The loop of restoreRetainedTorrents, torrents first: the files are checked, the
\* session of a job that had one and has a file left is restored, the status is that
\* of the snapshot if the files agree.  A file that cannot be checked is an error.
RestoreTorrent(j) ==
  /\ server = "restoring" /\ j \in todo \cap Torrents
  /\ todo' = todo \ {j}
  /\ \E lost \in BOOLEAN, failed \in BOOLEAN :
       LET whole == data[j] = "complete" /\ ~lost
           status == IF failed THEN "error"
                     ELSE IF row[j].status = "ready" /\ whole THEN "ready" ELSE AtRest(row[j].status)
           restored == row[j].session /\ data[j] # "none" /\ (whole \/ lost) /\ ~failed IN
       /\ data' = [data EXCEPT ![j] = IF lost /\ @ = "complete" THEN "partial" ELSE @]
       /\ view' = IF restored THEN RestoredView(j) ELSE view
       /\ Saved(j, [row[j] EXCEPT !.status = status]) \/ SaveFails(j, row[j])
  /\ UNCHANGED <<server, memory>>

\* The loop of restoreHttpDownloads, once no torrent is left.  A complete source is
\* processed again unless the job was stopped; otherwise its session is dropped, or
\* restored from the published files of a selection.
RestoreHttp(j) ==
  /\ server = "restoring" /\ j \in todo \ Torrents /\ todo \cap Torrents = {}
  /\ todo' = todo \ {j}
  /\ \E lost \in BOOLEAN, outcome \in {"ready", "awaiting", "error"}, published \in BOOLEAN :
       LET whole == data[j] = "complete" /\ ~lost
           again == whole /\ row[j].status \notin {"paused", "cancelled", "error"}
           status == CASE again -> outcome
                       [] ~again /\ outcome = "error" -> "error"
                       [] OTHER -> AtRest(row[j].status)
           session == (again /\ outcome = "ready") \/ (~again /\ whole /\ published /\ row[j].session /\ outcome # "error")
           next == [status |-> status, session |-> session] IN
       /\ data' = [data EXCEPT ![j] = IF lost /\ @ = "complete" THEN "partial" ELSE @]
       /\ view' = IF session THEN RestoredView(j) ELSE view
       /\ Saved(j, next) \/ SaveFails(j, next)
  /\ UNCHANGED <<server, memory>>

Serve ==
  /\ server = "restoring" /\ todo = {} /\ server' = "serving"
  /\ UNCHANGED <<job, row, data, view, memory, todo, faults>>

UserStep(j) == Create(j) \/ Pause(j) \/ Cancel(j) \/ Requeue(j) \/ Remove(j)
ServerStep(j) ==
  \/ Begin(j) \/ Advance(j) \/ Complete(j) \/ End(j) \/ RemoveFiles(j) \/ Forget(j)
  \/ RestoreTorrent(j) \/ RestoreHttp(j)

Next ==
  \/ \E j \in Jobs : UserStep(j) \/ ServerStep(j)
  \/ Shutdown \/ Exit \/ Crash \/ StopStartup \/ Start \/ Serve

\* Restoration and the ends of workers go on; nobody need shut the server down.
Spec == Init /\ [][Next]_vars
        /\ \A j \in Jobs : WF_vars(RestoreTorrent(j)) /\ WF_vars(RestoreHttp(j)) /\ WF_vars(End(j))
        /\ WF_vars(Serve) /\ WF_vars(Exit)
-----------------------------------------------------------------------------
\* State types.
TypeOK ==
  /\ server \in {"down", "restoring", "serving", "stopping"}
  /\ job \in [Jobs -> Snapshot \cup {None}] /\ row \in [Jobs -> Snapshot \cup {None}]
  /\ data \in [Jobs -> {"none", "partial", "complete"}]
  /\ view \subseteq Jobs /\ pending \subseteq Jobs /\ worker \subseteq Jobs /\ aborted \subseteq worker
  /\ removing \in [Jobs -> {"no", "files", "row"}] /\ todo \subseteq Jobs /\ faults \in 0 .. MaxFaults

\* A job that seems to run has a worker or a place in the queue, after a restart too:
\* the user can do something about every other.
NoGhosts == \A j \in Jobs :
  Up /\ Known(j) /\ job[j].status \in {"queued", "downloading"} => j \in worker \cup pending

\* A job that is ready has its session, on whatever road it became so.
ReadyIsBrowsable == \A j \in Jobs : Up /\ Known(j) /\ job[j].status = "ready" => j \in view

\* A job is not said to be ready unless a restart would say the same.
ReadyIsDurable == \A j \in Jobs : Up /\ Known(j) /\ job[j].status = "ready" => row[j] = job[j]

\* The server neither starts nor stops.
AtRestOrServing == server \in {"serving", "down"}
=============================================================================
