----------------------- MODULE MCSessionJobQueueCalls ----------------------
(***************************************************************************)
(* SessionJobQueue with clients that make finitely many calls: for its     *)
(* liveness properties, and for instances too large to explore without.    *)
(***************************************************************************)
EXTENDS SessionJobQueue, TLC

CONSTANT MaxCalls  \* how many calls of the API a behaviour holds

VARIABLE calls
callsVars == <<vars, calls>>

CallsInit == Init /\ calls = 0
CallsNext ==
  \/ ApiCall /\ calls < MaxCalls /\ calls' = calls + 1
  \/ (\E j \in Jobs : FinishRemove(j)) /\ UNCHANGED calls
  \/ (\E s \in Slots : WorkerStep(s)) /\ UNCHANGED calls

\* A worker does not stay in one await for ever, storing checkpoints or not: file
\* system calls return, HTTP transfers end within their retry budget, and aborts
\* are heard.
WorkerFairness ==
  \A s \in Slots : WF_callsVars(WorkerStep(s) /\ worker' # worker /\ UNCHANGED calls)
CallsSpec == CallsInit /\ [][CallsNext]_callsVars /\ WorkerFairness

\* A job that waits is started, cancelled, or left to the next process: no order of
\* calls strands it behind an idle slot (scheduleSessionJobs).  One that says it is
\* queued gets a worker nobody has aborted, or is cancelled: a resume or a retry made
\* while the job's aborted worker still ends is not lost when that worker overwrites
\* the status (requeueAfterActive).
NoStarvation ==
  \A j \in Jobs :
    /\ j \in Range(pending) ~> (j \notin Range(pending) \/ stopping)
    /\ job[j].status = "queued" ~>
         \/ \E s \in Busy : worker[s].job = j /\ ~worker[s].aborted
         \/ job[j].status = "cancelled"
         \/ stopping

\* stopSessionJobs waits for every worker, and its wait comes to an end.
StopDrains == stopping ~> (Busy = {})
=============================================================================
