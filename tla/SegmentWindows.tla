--------------------------- MODULE SegmentWindows ---------------------------
(***************************************************************************)
(* The seek windows of one rendition of a long video: HlsWindows            *)
(* (server/infrastructure/media/hlsWindows.ts) between the requests that    *)
(* want windows, the process limiter, and the cache that evicts what they   *)
(* made.  A request is an HTTP request for a segment, pinned to its session *)
(* until its response closes, or a background preparation of the session.   *)
(*                                                                         *)
(* A job is named after the request that created it: a request creates one *)
(* at most.                                                                 *)
(***************************************************************************)
EXTENDS Naturals, FiniteSets

CONSTANTS Requests,    \* the calls of ensure
          Background,  \* those of the session's own preparation
          Windows,     \* the windows of the video
          Wants,       \* the window each request is for
          Limit,       \* permits of the process limiter
          None

VARIABLES
  request,    \* where each request is
  uses,       \* the job a request consumes, or waits to see the end of
  job,        \* the jobs
  current,    \* HlsWindows.jobs: the job of each window
  disk,       \* the windows published in the rendition's directory
  status,     \* rendition.status
  available,  \* rendition.availableSegments, in windows
  evicting,   \* DerivedMediaCache.evicting has the session
  closed,     \* the session's controller is aborted
  broken      \* jobs whose encoder, publication or eviction failed

vars == <<request, uses, job, current, disk, status, available, evicting, closed, broken>>

Phases == {"none", "check", "attempt", "waiting", "granted", "refused",
           "encode", "publish", "resolved", "rejected"}

NoJob == [phase |-> "none", background |-> FALSE, started |-> FALSE,
          aborted |-> FALSE, stale |-> FALSE]

\* createJob
NewJob(r) == [NoJob EXCEPT !.phase = "check", !.background = r \in Background]

Settled(j) == job[j].phase \in {"resolved", "rejected"}
Consumers(j) == {r \in Requests : request[r] = "consuming" /\ uses[r] = j}

\* pinMediaRequests: from the request's arrival to the close of its response.
Pinned(r) == r \notin Background /\ request[r] \in {"pinned", "awaiting", "consuming", "ready"}

\* trackVideoTask: what runVideoTask has not settled protects the session.
Tracked(j) == job[j].phase \in {"waiting", "granted", "refused", "encode", "publish"}

\* DerivedMediaCache.active.has(session.id)
Active == \E r \in Requests : Pinned(r) \/ Tracked(r)

Holders == {j \in Requests : job[j].phase \in {"granted", "refused", "encode", "publish"}}

\* #acquire's test, for a job of either class (see PermitPool).
HasRoom(background) ==
  /\ Cardinality(Holders) < Limit
  /\ background =>
       Cardinality({j \in Holders : job[j].background}) < (IF Limit > 1 THEN Limit - 1 ELSE 1)

\* The signal of the attempt under way: its own controller's or the session's.
AttemptAborted(j) == job[j].stale \/ job[j].aborted \/ closed

Init ==
  /\ request = [r \in Requests |-> "idle"]
  /\ uses = [r \in Requests |-> None]
  /\ job = [r \in Requests |-> NoJob]
  /\ current = [w \in Windows |-> None]
  /\ disk \in SUBSET Windows
  /\ status = "idle" /\ available = 0
  /\ evicting = FALSE /\ closed = FALSE /\ broken = {}
-----------------------------------------------------------------------------
(* The request.                                                             *)

\* An HTTP request is pinned and waits for an eviction under way.
Arrive(r) ==
  /\ r \notin Background /\ request[r] = "idle" /\ ~closed
  /\ request' = [request EXCEPT ![r] = "pinned"]
  /\ UNCHANGED <<uses, job, current, disk, status, available, evicting, closed, broken>>

\* FAULT: a handler does not wait for the eviction under way.
CallsUnpinned(r) ==
  \/ r \notin Background /\ request[r] = "pinned"
  \/ r \in Background /\ request[r] = "idle" /\ ~closed

\* The handler, or the preparation's loop, reaches ensure.
Calls(r) ==
  \/ r \notin Background /\ request[r] = "pinned" /\ ~evicting
  \/ r \in Background /\ request[r] = "idle" /\ ~closed

\* FAULT: the promoted job keeps the controller that was aborted.
PromotedAborted(j) ==
  [job EXCEPT ![j].background = FALSE, ![j].aborted = TRUE]

\* An interactive request takes over a background job that has not started: the
\* attempt that waits is aborted and the job goes on with another controller.
Promoted(j) ==
  [job EXCEPT ![j].background = FALSE, ![j].stale = job[j].phase \in {"waiting", "granted"}]

\* FAULT: a cancelled job is replaced while its encoder may still run.
EnsureReplaces(r) ==
  LET w == Wants[r] IN
  IF current[w] = None \/ job[current[w]].aborted
  THEN /\ job' = [job EXCEPT ![r] = NewJob(r)]
       /\ current' = [current EXCEPT ![w] = r]
       /\ uses' = [uses EXCEPT ![r] = r]
       /\ request' = [request EXCEPT ![r] = "consuming"]
       /\ status' = "queued"
  ELSE /\ request' = [request EXCEPT ![r] = "consuming"]
       /\ uses' = [uses EXCEPT ![r] = current[w]]
       /\ job' = job
       /\ UNCHANGED <<current, status>>

\* ensure, up to its await: a cancelled job is waited for; a window without a
\* job gets one; the others join the job there is, and may promote it.
Ensure(r) ==
  LET w == Wants[r]
      j == current[w]
  IN IF j = None
     THEN /\ job' = [job EXCEPT ![r] = NewJob(r)]
          /\ current' = [current EXCEPT ![w] = r]
          /\ uses' = [uses EXCEPT ![r] = r]
          /\ request' = [request EXCEPT ![r] = "consuming"]
          /\ status' = "queued"
     ELSE /\ uses' = [uses EXCEPT ![r] = j]
          /\ request' = [request EXCEPT ![r] = IF job[j].aborted THEN "awaiting" ELSE "consuming"]
          /\ job' = IF /\ ~job[j].aborted /\ r \notin Background
                       /\ job[j].background /\ ~job[j].started
                    THEN Promoted(j) ELSE job
          /\ UNCHANGED <<current, status>>

Call(r) ==
  /\ Calls(r) /\ Ensure(r)
  /\ UNCHANGED <<disk, available, evicting, closed, broken>>

\* The cancelled job has settled: ensure starts again, for a caller that stayed.
CallAgain(r) ==
  /\ request[r] = "awaiting" /\ Settled(uses[r])
  /\ IF closed /\ r \in Background
     THEN /\ request' = [request EXCEPT ![r] = "failed"]
          /\ UNCHANGED <<uses, job, current, status>>
     ELSE Ensure(r)
  /\ UNCHANGED <<disk, available, evicting, closed, broken>>

\* FAULT: the job is aborted when any consumer leaves it.
AfterLeavingFirst(r) == [job EXCEPT ![uses[r]].aborted = TRUE]

\* The finally block of consume: the last consumer aborts the job.
AfterLeaving(r) ==
  IF Consumers(uses[r]) = {r} THEN [job EXCEPT ![uses[r]].aborted = TRUE] ELSE job

\* consume returns, or throws what the job threw.
Resume(r) ==
  /\ request[r] = "consuming" /\ Settled(uses[r])
  /\ request' = [request EXCEPT ![r] = IF job[uses[r]].phase = "resolved" THEN "ready" ELSE "failed"]
  /\ job' = AfterLeaving(r)
  /\ UNCHANGED <<uses, current, disk, status, available, evicting, closed, broken>>

\* The client closes its connection, or has its file; a preparation ends when
\* the session's signal does.
Leave(r) ==
  /\ IF r \in Background THEN request[r] = "ready" \/ (closed /\ request[r] = "consuming")
     ELSE Pinned(r)
  /\ request' = [request EXCEPT ![r] = "left"]
  /\ job' = IF request[r] = "consuming" THEN AfterLeaving(r) ELSE job
  /\ UNCHANGED <<uses, current, disk, status, available, evicting, closed, broken>>
-----------------------------------------------------------------------------
(* The job.                                                                 *)

\* The job's promise settles and its finally callback runs: the window has no
\* job, and the last job of the rendition sets its status.  The encoder's
\* temporary directory is gone by then and its permit released.
SettleWith(j, phase, published) ==
  LET w == Wants[j] IN
  /\ job' = [job EXCEPT ![j].phase = phase]
  /\ current' = [current EXCEPT ![w] = None]
  /\ available' = published
  /\ status' = IF \E v \in Windows \ {w} : current[v] # None THEN status
               ELSE IF published >= Cardinality(Windows) THEN "done" ELSE "idle"

\* An attempt ends without a window.  One whose controller was replaced
\* meanwhile is made again, by the same promise.
FailWith(j, failed) ==
  IF job[j].stale
  THEN /\ job' = [job EXCEPT ![j].phase = "attempt", ![j].stale = FALSE]
       /\ UNCHANGED <<current, status, available, broken>>
  ELSE /\ SettleWith(j, "rejected", available)
       /\ broken' = IF failed THEN broken \cup {j} ELSE broken

\* cachedWindow; windowAvailability counts what is on disk when nothing is
\* counted yet.
Check(j) ==
  /\ job[j].phase = "check"
  /\ IF Wants[j] \in disk
     THEN SettleWith(j, "resolved", IF available = 0 THEN Cardinality(disk) ELSE available)
     ELSE /\ job' = [job EXCEPT ![j].phase = "attempt"]
          /\ UNCHANGED <<current, status, available>>
  /\ UNCHANGED <<request, uses, disk, evicting, closed, broken>>

\* The loop calls runTask: an aborted signal is refused, the others get a
\* permit or wait for one.
Attempt(j) ==
  /\ job[j].phase = "attempt"
  /\ IF job[j].aborted \/ closed
     THEN FailWith(j, FALSE)
     ELSE /\ job' = [job EXCEPT ![j].phase = IF HasRoom(job[j].background) THEN "granted" ELSE "waiting"]
          /\ UNCHANGED <<current, status, available, broken>>
  /\ UNCHANGED <<request, uses, disk, evicting, closed>>

\* #release hands its permit to a waiter.
Grant(j) ==
  /\ job[j].phase = "waiting" /\ ~AttemptAborted(j) /\ HasRoom(job[j].background)
  /\ job' = [job EXCEPT ![j].phase = "granted"]
  /\ UNCHANGED <<request, uses, current, disk, status, available, evicting, closed, broken>>

\* onAbort takes the waiter out of the queue.
Withdraw(j) ==
  /\ job[j].phase = "waiting" /\ AttemptAborted(j)
  /\ FailWith(j, FALSE)
  /\ UNCHANGED <<request, uses, disk, evicting, closed>>

\* FAULT: the task starts while the session's files are removed.
StartsInEviction(j) == job[j].phase = "granted"

\* start, after waitForEviction.
Starts(j) == job[j].phase = "granted" /\ ~evicting

\* The task runs unless its signal was aborted: encode.
Start(j) ==
  /\ Starts(j)
  /\ IF AttemptAborted(j)
     THEN FailWith(j, FALSE)
     ELSE /\ job' = [job EXCEPT ![j].phase = "encode", ![j].started = TRUE]
          /\ status' = "running"
          /\ UNCHANGED <<current, available, broken>>
  /\ UNCHANGED <<request, uses, disk, evicting, closed>>

\* The eviction the task waited for has failed.
Refuse(j) ==
  /\ job[j].phase = "refused" /\ FailWith(j, TRUE)
  /\ UNCHANGED <<request, uses, disk, evicting, closed>>

\* The encoder ends: it was killed by the abort, failed, or left a whole window,
\* which is published unless the signal was aborted.
Encoded(j) ==
  /\ job[j].phase = "encode"
  /\ \/ /\ ~AttemptAborted(j)
        /\ job' = [job EXCEPT ![j].phase = "publish"]
        /\ UNCHANGED <<current, status, available, broken>>
     \/ /\ AttemptAborted(j) /\ FailWith(j, FALSE)
     \/ /\ ~AttemptAborted(j) /\ FailWith(j, TRUE)
  /\ UNCHANGED <<request, uses, disk, evicting, closed>>

\* FAULT: the window is counted and its files left in the temporary directory.
PublishedOnDisk(w) == disk

\* publishWindow: the window's directory is replaced by the encoder's.
Published(w) == disk \cup {w}

Publish(j) ==
  /\ job[j].phase = "publish"
  /\ disk' = Published(Wants[j])
  /\ SettleWith(j, "resolved", available + 1)
  /\ UNCHANGED <<request, uses, evicting, closed, broken>>
-----------------------------------------------------------------------------
(* The session.                                                             *)

\* sweep: the directory of a rendition nobody uses is removed.
BeginEviction ==
  /\ ~evicting /\ ~closed /\ disk # {} /\ ~Active /\ status \notin {"queued", "running"}
  /\ evicting' = TRUE
  /\ UNCHANGED <<request, uses, job, current, disk, status, available, closed, broken>>

\* The removal ends, and with it the finally callback that resets the
\* rendition: whatever its status has become.  Its failure is that of the tasks
\* and of the requests that waited for it.
EndEviction ==
  /\ evicting
  /\ evicting' = FALSE /\ status' = "idle" /\ available' = 0
  /\ \/ disk' = {} /\ UNCHANGED <<job, request>>
     \/ /\ disk' \in (SUBSET disk) \ {{}}     \* rm failed
        /\ job' = [j \in Requests |-> IF job[j].phase = "granted"
                                      THEN [job[j] EXCEPT !.phase = "refused"] ELSE job[j]]
        /\ request' = [r \in Requests |-> IF request[r] = "pinned" THEN "refused" ELSE request[r]]
  /\ UNCHANGED <<uses, current, closed, broken>>

\* cleanupVideoSession
Close ==
  /\ ~closed /\ closed' = TRUE
  /\ UNCHANGED <<request, uses, job, current, disk, status, available, evicting, broken>>

JobStep(j) ==
  \/ Check(j) \/ Attempt(j) \/ Grant(j) \/ Withdraw(j) \/ Start(j)
  \/ Refuse(j) \/ Encoded(j) \/ Publish(j)

RequestStep(r) == Call(r) \/ CallAgain(r) \/ Resume(r)

Done ==
  /\ closed /\ ~evicting
  /\ \A r \in Requests : request[r] \in {"idle", "ready", "failed", "refused", "left"} /\ ~Tracked(r)
  /\ UNCHANGED vars

Next ==
  \/ \E r \in Requests : Arrive(r) \/ Leave(r) \/ RequestStep(r) \/ JobStep(r)
  \/ BeginEviction \/ EndEviction \/ Close \/ Done

\* Promises settle, encoders end and removals end; clients and the cache need
\* not do anything.
Fairness ==
  /\ \A r \in Requests : WF_vars(RequestStep(r)) /\ WF_vars(JobStep(r))
  /\ WF_vars(EndEviction)
  /\ \A r \in Background : WF_vars(Leave(r))

Spec == Init /\ [][Next]_vars /\ Fairness
-----------------------------------------------------------------------------
\* The state the types of hlsWindows.ts allow.
TypeOK ==
  /\ request \in [Requests -> {"idle", "pinned", "awaiting", "consuming", "ready", "failed", "refused", "left"}]
  /\ uses \in [Requests -> Requests \cup {None}]
  /\ job \in [Requests -> [phase : Phases, background : BOOLEAN, started : BOOLEAN,
                           aborted : BOOLEAN, stale : BOOLEAN]]
  /\ current \in [Windows -> Requests \cup {None}]
  /\ disk \subseteq Windows /\ status \in {"idle", "queued", "running", "done"}
  /\ available \in Nat /\ evicting \in BOOLEAN /\ closed \in BOOLEAN /\ broken \subseteq Requests

\* "A cancelled encoder must exit before a replacement may publish this window":
\* whatever is cancelled, joined or promoted, a window has one encoder.
OneEncoder ==
  \A i, j \in Requests :
    /\ {job[i].phase, job[j].phase} \subseteq {"granted", "encode", "publish"}
    /\ Wants[i] = Wants[j]
    => i = j

\* A viewer who is told that its window is ready finds it on disk for as long as
\* its response is open: neither the cache nor another viewer takes it away.
ReadyIsPublished ==
  \A r \in Requests \ Background : request[r] = "ready" => Wants[r] \in disk

\* A request that ensure has taken and that stays fails because an encoder or the
\* session ended, never because another left, was promoted or was cancelled.
FailureHasCause ==
  \A r \in Requests : request[r] = "failed" => closed \/ uses[r] \in broken

\* Nothing removes the session's files under an encoder that writes them.
NoEvictionUnderEncoder ==
  evicting => \A j \in Requests : job[j].phase \notin {"encode", "publish"}

\* Every request is answered, or its client has left; none asks a second time.
NobodyWaits == \A r \in Requests : request[r] \notin {"pinned", "awaiting", "consuming"}
=============================================================================
