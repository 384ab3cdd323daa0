---------------------------- MODULE MediaProofs ----------------------------
(***************************************************************************)
(* Proofs about Media: an inductive invariant for each part, then the      *)
(* properties of the composition.                                          *)
(***************************************************************************)
EXTENDS Media, SequenceLemmas

-----------------------------------------------------------------------------
(* Windows.                                                                *)

\* What the constants are: every request is for a window, and None is no request.
WindowsConstants ==
  /\ Background \subseteq Requests /\ Wants \in [Requests -> Windows] /\ None \notin Requests

JobRecord == [phase : Seek!Phases, background : BOOLEAN, started : BOOLEAN, aborted : BOOLEAN, stale : BOOLEAN]

Live(j) == job[j].phase \notin {"none", "resolved", "rejected"}

\* The types the steps rely on.
Typed ==
  /\ request \in [Requests -> {"idle", "pinned", "awaiting", "consuming", "ready", "failed", "refused", "left"}]
  /\ uses \in [Requests -> Requests \cup {None}]
  /\ job \in [Requests -> JobRecord]
  /\ current \in [Windows -> Requests \cup {None}]
  /\ closed \in BOOLEAN /\ evicting \in BOOLEAN

\* HlsWindows.jobs holds exactly the jobs that have not settled.
MapIsLive ==
  /\ \A j \in Requests : Live(j) => current[Wants[j]] = j
  /\ \A w \in Windows : current[w] # None => Live(current[w]) /\ Wants[current[w]] = w

\* A request creates one job, and uses one of its window.
UsesItsWindow ==
  \A r \in Requests :
    /\ request[r] \in {"idle", "pinned", "awaiting"} => job[r].phase = "none"
    /\ request[r] \in {"awaiting", "consuming", "failed", "ready"} =>
         uses[r] \in Requests /\ Wants[uses[r]] = Wants[r] /\ job[uses[r]].phase # "none"

\* While the files are removed no viewer holds a job, and no encoder runs.
EvictionIsAlone ==
  evicting =>
    /\ \A r \in Requests \ Background : request[r] \notin {"awaiting", "consuming", "ready"}
    /\ \A j \in Requests : job[j].phase \notin {"encode", "publish"}

\* A job that resolved under a viewer left its window on disk.
ResolvedIsOnDisk ==
  \A r \in Requests \ Background :
    \/ request[r] = "ready"
    \/ request[r] = "consuming" /\ job[uses[r]].phase = "resolved"
    => Wants[r] \in disk

\* Nobody consumes a job that was aborted before it settled, so that one that is
\* rejected under a request was rejected for a cause.
RejectedHasCause ==
  \A r \in Requests : request[r] = "consuming" =>
    /\ Live(uses[r]) => ~job[uses[r]].aborted
    /\ job[uses[r]].phase = "rejected" => closed \/ uses[r] \in broken

WindowsInv ==
  /\ Typed /\ MapIsLive /\ UsesItsWindow /\ EvictionIsAlone
  /\ ResolvedIsOnDisk /\ RejectedHasCause /\ Seek!FailureHasCause
-----------------------------------------------------------------------------
\* ensure leaves the request with a job of its window that lives.
LEMMA EnsureKeeps ==
  ASSUME WindowsConstants, WindowsInv, NEW r \in Requests,
         request[r] \in {"idle", "pinned", "awaiting"}, r \in Background \/ ~evicting,
         Seek!Ensure(r), UNCHANGED <<disk, available, evicting, closed, broken>>
  PROVE  WindowsInv'
<1> DEFINE w == Wants[r]
<1>0. w \in Windows /\ current[w] \in Requests \cup {None}
  BY DEF WindowsConstants, WindowsInv, Typed
<1>1. CASE current[w] = None
  <2>1. /\ job' = [job EXCEPT ![r] = Seek!NewJob(r)]
        /\ current' = [current EXCEPT ![w] = r]
        /\ uses' = [uses EXCEPT ![r] = r]
        /\ request' = [request EXCEPT ![r] = "consuming"]
    BY <1>1 DEF Seek!Ensure
  <2>2. /\ Seek!NewJob(r) \in JobRecord /\ Seek!NewJob(r).phase = "check" /\ ~Seek!NewJob(r).aborted
    <3> DEFINE b == r \in Background
    <3>1. b \in BOOLEAN /\ "check" \in Seek!Phases
      BY DEF Seek!Phases
    <3>2. Seek!NewJob(r) = [Seek!NoJob EXCEPT !.phase = "check", !.background = b]
      BY Zenon DEF Seek!NewJob
    <3> HIDE DEF b
    <3>3. Seek!NewJob(r) = [phase |-> "check", background |-> b, started |-> FALSE,
                       aborted |-> FALSE, stale |-> FALSE]
      BY <3>2 DEF Seek!NoJob
    <3>4. QED
      BY <3>1, <3>3 DEF JobRecord
  <2>3. job[r].phase = "none"
    BY DEF WindowsInv, UsesItsWindow
  <2>4. Typed'
    BY <1>0, <2>1, <2>2 DEF WindowsInv, Typed
  <2>5. MapIsLive'
    <3>1. /\ job'[r].phase = "check" /\ \A i \in Requests \ {r} : job'[i] = job[i]
          /\ current'[w] = r /\ \A v \in Windows \ {w} : current'[v] = current[v]
      BY <1>0, <2>1, <2>2 DEF WindowsInv, Typed
    <3>2. ASSUME NEW i \in Requests, Live(i)' PROVE current'[Wants[i]] = i
      <4>1. CASE i # r
        BY <1>1, <3>1, <3>2, <4>1 DEF WindowsInv, MapIsLive, Live, WindowsConstants
      <4>2. QED
        BY <3>1, <4>1
    <3>3. (\A v \in Windows : current[v] # None => Live(current[v]) /\ Wants[current[v]] = v)'
      BY <2>3, <3>1 DEF WindowsInv, Typed, MapIsLive, Live
    <3>4. QED
      BY <3>2, <3>3 DEF MapIsLive, Live
  <2>6. UsesItsWindow'
    BY <1>0, <2>1, <2>2, <2>3 DEF WindowsInv, Typed, UsesItsWindow, WindowsConstants
  <2>7. EvictionIsAlone'
    BY <2>1, <2>2 DEF WindowsInv, Typed, EvictionIsAlone
  <2>8. ResolvedIsOnDisk'
    BY <2>1, <2>2, <2>3 DEF WindowsInv, Typed, ResolvedIsOnDisk, UsesItsWindow
  <2>9. RejectedHasCause' /\ Seek!FailureHasCause'
    BY <2>1, <2>2, <2>3 DEF WindowsInv, Typed, RejectedHasCause, Seek!FailureHasCause, UsesItsWindow, Live
  <2>10. QED
    BY <2>4, <2>5, <2>6, <2>7, <2>8, <2>9 DEF WindowsInv
<1>2. CASE current[w] # None
  <2> DEFINE j == current[w]
  <2>1. /\ uses' = [uses EXCEPT ![r] = j]
        /\ request' = [request EXCEPT ![r] = IF job[j].aborted THEN "awaiting" ELSE "consuming"]
        /\ UNCHANGED current
        /\ \/ UNCHANGED job
           \/ ~job[j].aborted /\ job' = Seek!Promoted(j)
    BY <1>2 DEF Seek!Ensure
  <2>2. j \in Requests /\ Live(j) /\ Wants[j] = w
    BY <1>0, <1>2 DEF WindowsInv, Typed, MapIsLive
  <2>3. /\ job' \in [Requests -> JobRecord]
        /\ \A i \in Requests : job'[i].phase = job[i].phase /\ job'[i].aborted = job[i].aborted
    <3>1. CASE UNCHANGED job
      BY <3>1 DEF WindowsInv, Typed
    <3>2. CASE job' = Seek!Promoted(j)
      <4> DEFINE st == job[j].phase \in {"waiting", "granted"}
      <4>0. st \in BOOLEAN /\ job[j] \in JobRecord
        BY <2>2 DEF WindowsInv, Typed
      <4>2. job' = [job EXCEPT ![j] = [job[j] EXCEPT !.background = FALSE, !.stale = st]]
        BY <3>2 DEF WindowsInv, Typed, Seek!Promoted
      <4> HIDE DEF st
      <4>1. [job[j] EXCEPT !.background = FALSE, !.stale = st] \in JobRecord
        BY <4>0 DEF JobRecord
      <4>3. QED
        BY <2>2, <4>1, <4>2 DEF WindowsInv, Typed, JobRecord
    <3>3. QED
      BY <2>1, <3>1, <3>2
  <2>4. Typed'
    BY <2>1, <2>2, <2>3 DEF WindowsInv, Typed
  <2>5. MapIsLive'
    BY <2>1, <2>3 DEF WindowsInv, Typed, MapIsLive, Live, WindowsConstants
  <2>6. UsesItsWindow'
    BY <2>1, <2>2, <2>3 DEF WindowsInv, Typed, UsesItsWindow, Live
  <2>7. EvictionIsAlone'
    BY <2>1, <2>3 DEF WindowsInv, Typed, EvictionIsAlone
  <2>8. ResolvedIsOnDisk'
    BY <2>1, <2>2, <2>3 DEF WindowsInv, Typed, ResolvedIsOnDisk, UsesItsWindow, Live
  <2>9. RejectedHasCause' /\ Seek!FailureHasCause'
    BY <2>1, <2>2, <2>3 DEF WindowsInv, Typed, RejectedHasCause, Seek!FailureHasCause, UsesItsWindow, Live
  <2>10. QED
    BY <2>4, <2>5, <2>6, <2>7, <2>8, <2>9 DEF WindowsInv
<1>3. QED
  BY <1>1, <1>2

\* A request that stops consuming aborts its job at most where nobody else
\* consumes it.
LEMMA LeavingKeeps ==
  ASSUME WindowsConstants, WindowsInv, NEW r \in Requests, NEW end \in {"ready", "failed", "left"},
         request[r] = "consuming", job' = Seek!AfterLeaving(r),
         request' = [request EXCEPT ![r] = end],
         end = "ready" => Seek!Settled(uses[r]) /\ job[uses[r]].phase = "resolved",
         end = "failed" => job[uses[r]].phase = "rejected",
         UNCHANGED <<uses, current, disk, status, available, evicting, closed, broken>>
  PROVE  WindowsInv'
<1>1. uses[r] \in Requests
  BY DEF WindowsInv, UsesItsWindow
<1>2. /\ job' \in [Requests -> JobRecord]
      /\ \A i \in Requests : job'[i].phase = job[i].phase
      /\ \A i \in Requests : i # uses[r] => job'[i].aborted = job[i].aborted
      /\ \A s \in Requests : s # r /\ request[s] = "consuming" /\ uses[s] = uses[r] => job' = job
  <2>1. CASE Seek!Consumers(uses[r]) = {r}
    <3>1. job' = [job EXCEPT ![uses[r]].aborted = TRUE]
      BY <2>1 DEF Seek!AfterLeaving
    <3>2. \A s \in Requests : ~(s # r /\ request[s] = "consuming" /\ uses[s] = uses[r])
      BY <2>1 DEF Seek!Consumers
    <3>3. [job[uses[r]] EXCEPT !.aborted = TRUE] \in JobRecord
      BY <1>1 DEF WindowsInv, Typed, JobRecord
    <3>4. job' = [job EXCEPT ![uses[r]] = [job[uses[r]] EXCEPT !.aborted = TRUE]]
      BY <3>1 DEF WindowsInv, Typed
    <3>5. job' \in [Requests -> JobRecord]
      BY <1>1, <3>3, <3>4 DEF WindowsInv, Typed
    <3>6. QED
      BY <1>1, <3>2, <3>4, <3>5 DEF WindowsInv, Typed, JobRecord
  <2>2. CASE Seek!Consumers(uses[r]) # {r}
    <3>1. job' = job
      BY <2>2 DEF Seek!AfterLeaving
    <3>2. QED
      BY <3>1 DEF WindowsInv, Typed
  <2>3. QED
    BY <2>1, <2>2
<1>3. Typed'
  BY <1>2 DEF WindowsInv, Typed
<1>4. MapIsLive'
  BY <1>2 DEF WindowsInv, Typed, MapIsLive, Live, WindowsConstants
<1>5. UsesItsWindow'
  BY <1>1, <1>2 DEF WindowsInv, Typed, UsesItsWindow
<1>6. EvictionIsAlone'
  BY <1>2 DEF WindowsInv, Typed, EvictionIsAlone
<1>7. ResolvedIsOnDisk'
  BY <1>1, <1>2 DEF WindowsInv, Typed, ResolvedIsOnDisk, UsesItsWindow
<1>8. RejectedHasCause'
  BY <1>1, <1>2 DEF WindowsInv, Typed, RejectedHasCause, UsesItsWindow, Live
<1>9. Seek!FailureHasCause'
  BY <1>1, <1>2 DEF WindowsInv, Typed, RejectedHasCause, Seek!FailureHasCause
<1>10. QED
  BY <1>3, <1>4, <1>5, <1>6, <1>7, <1>8, <1>9 DEF WindowsInv

\* A job that stays alive moves on, and writes only where nothing is removed.
LEMMA MovingKeeps ==
  ASSUME WindowsConstants, WindowsInv, job' \in [Requests -> JobRecord],
         \A i \in Requests : /\ Live(i) <=> Live(i)'
                             /\ ~Live(i) => job'[i].phase = job[i].phase
                             /\ job'[i].aborted = job[i].aborted
                             /\ evicting => job'[i].phase \notin {"encode", "publish"},
         UNCHANGED <<request, uses, current, disk, evicting, closed, broken>>
  PROVE  WindowsInv'
<1>1. Typed'
  BY DEF WindowsInv, Typed
<1>2. MapIsLive'
  <2>1. \A j \in Requests : Live(j)' => current'[Wants[j]] = j
    BY DEF WindowsInv, MapIsLive
  <2>2. (\A w \in Windows : current[w] # None => Live(current[w]) /\ Wants[current[w]] = w)'
    BY DEF WindowsInv, MapIsLive, Typed, Live
  <2>3. QED
    BY <2>1, <2>2 DEF MapIsLive, Live
<1>3. UsesItsWindow'
  BY DEF WindowsInv, UsesItsWindow, Live
<1>4. EvictionIsAlone'
  BY DEF WindowsInv, EvictionIsAlone
<1>5. ResolvedIsOnDisk'
  BY DEF WindowsInv, ResolvedIsOnDisk, UsesItsWindow, Live
<1>6. RejectedHasCause' /\ Seek!FailureHasCause'
  BY DEF WindowsInv, RejectedHasCause, Seek!FailureHasCause, UsesItsWindow, Live
<1>7. QED
  BY <1>1, <1>2, <1>3, <1>4, <1>5, <1>6 DEF WindowsInv

\* A job settles with its window on disk, or for a cause if anybody consumes it.
LEMMA SettlingKeeps ==
  ASSUME WindowsConstants, WindowsInv, NEW j \in Requests, NEW phase \in {"resolved", "rejected"},
         NEW published, Live(j), Seek!SettleWith(j, phase, published),
         disk \subseteq disk', phase = "resolved" => Wants[j] \in disk',
         broken \subseteq broken', phase = "rejected" => closed \/ job[j].aborted \/ j \in broken',
         UNCHANGED <<request, uses, evicting, closed>>
  PROVE  WindowsInv'
<1>1. /\ job' = [job EXCEPT ![j].phase = phase]
      /\ current' = [current EXCEPT ![Wants[j]] = None]
  BY DEF Seek!SettleWith
<1>2. /\ job' \in [Requests -> JobRecord]
      /\ \A i \in Requests : job'[i].aborted = job[i].aborted
      /\ \A i \in Requests \ {j} : job'[i] = job[i]
      /\ job'[j].phase = phase /\ ~Live(j)'
  BY <1>1 DEF WindowsInv, Typed, JobRecord, Seek!Phases, Live
<1>3. Wants[j] \in Windows /\ current[Wants[j]] = j
  BY DEF WindowsConstants, WindowsInv, MapIsLive
<1>4. Typed'
  BY <1>1, <1>2 DEF WindowsInv, Typed
<1>5. MapIsLive'
  <2>1. ASSUME NEW i \in Requests, Live(i)' PROVE current'[Wants[i]] = i
    <3>1. i # j /\ Live(i)
      BY <1>2, <2>1 DEF Live
    <3>2. current[Wants[i]] = i /\ Wants[i] # Wants[j]
      BY <1>3, <3>1 DEF WindowsInv, MapIsLive
    <3>3. QED
      BY <1>1, <1>3, <3>2 DEF WindowsConstants, WindowsInv, Typed
  <2>2. ASSUME NEW w \in Windows, current'[w] # None
        PROVE  (Live(current[w]) /\ Wants[current[w]] = w)'
    <3>1. w # Wants[j] /\ current'[w] = current[w]
      BY <1>1, <2>2 DEF WindowsInv, Typed
    <3>2. current[w] \in Requests \ {j} /\ Live(current[w]) /\ Wants[current[w]] = w
      BY <2>2, <3>1 DEF WindowsInv, Typed, MapIsLive
    <3>3. QED
      BY <1>2, <3>1, <3>2 DEF Live
  <2>3. QED
    BY <2>1, <2>2 DEF MapIsLive, Live
<1>6. UsesItsWindow'
  BY <1>2 DEF WindowsInv, UsesItsWindow, Live
<1>7. EvictionIsAlone'
  BY <1>2 DEF WindowsInv, EvictionIsAlone
<1>8. ResolvedIsOnDisk'
  BY <1>2 DEF WindowsInv, ResolvedIsOnDisk, UsesItsWindow
<1>9. RejectedHasCause' /\ Seek!FailureHasCause'
  BY <1>2 DEF WindowsInv, RejectedHasCause, Seek!FailureHasCause, UsesItsWindow, Live
<1>10. QED
  BY <1>4, <1>5, <1>6, <1>7, <1>8, <1>9 DEF WindowsInv

\* An attempt that ends without a window is made again or rejected for a cause.
LEMMA FailingKeeps ==
  ASSUME WindowsConstants, WindowsInv, NEW j \in Requests, NEW lost \in BOOLEAN,
         Live(j), Seek!FailWith(j, lost), lost \/ Seek!AttemptAborted(j),
         UNCHANGED <<request, uses, disk, evicting, closed>>
  PROVE  WindowsInv'
<1>1. CASE job[j].stale
  <2>1. /\ job' = [job EXCEPT ![j].phase = "attempt", ![j].stale = FALSE]
        /\ UNCHANGED <<current, broken>>
    BY <1>1 DEF Seek!FailWith
  <2>2. job' \in [Requests -> JobRecord]
    BY <2>1 DEF WindowsInv, Typed, JobRecord, Seek!Phases
  <2>3. \A i \in Requests : /\ Live(i) <=> Live(i)'
                            /\ ~Live(i) => job'[i].phase = job[i].phase
                            /\ job'[i].aborted = job[i].aborted
                            /\ evicting => job'[i].phase \notin {"encode", "publish"}
    BY <2>1 DEF WindowsInv, Typed, JobRecord, EvictionIsAlone, Live
  <2>4. QED
    BY <2>1, <2>2, <2>3, MovingKeeps
<1>2. CASE ~job[j].stale
  <2>1. Seek!SettleWith(j, "rejected", available) /\ broken' = IF lost THEN broken \cup {j} ELSE broken
    BY <1>2 DEF Seek!FailWith
  <2>2. closed \/ job[j].aborted \/ j \in broken'
    BY <1>2, <2>1 DEF Seek!AttemptAborted
  <2>3. QED
    BY <2>1, <2>2, SettlingKeeps
<1>3. QED
  BY <1>1, <1>2
-----------------------------------------------------------------------------
LEMMA JobStepKeeps ==
  ASSUME WindowsConstants, WindowsInv, NEW j \in Requests, Seek!JobStep(j)
  PROVE  WindowsInv'
<1>0. job[j] \in JobRecord
  BY DEF WindowsInv, Typed
<1>1. ASSUME NEW p \in {"attempt", "waiting", "granted", "encode", "publish"}, NEW s \in BOOLEAN,
             Live(j), p \in {"encode", "publish"} => ~evicting,
             job' = [job EXCEPT ![j].phase = p, ![j].started = s],
             UNCHANGED <<request, uses, current, disk, evicting, closed, broken>>
      PROVE  WindowsInv'
  <2>1. job' \in [Requests -> JobRecord]
    <3>1. p \in Seek!Phases
      BY DEF Seek!Phases
    <3>2. [job[j] EXCEPT !.phase = p, !.started = s] \in JobRecord
      BY <1>0, <3>1 DEF JobRecord
    <3>3. job' = [job EXCEPT ![j] = [job[j] EXCEPT !.phase = p, !.started = s]]
      BY <1>1 DEF WindowsInv, Typed
    <3>4. QED
      BY <3>2, <3>3 DEF WindowsInv, Typed
  <2>2. \A i \in Requests : /\ Live(i) <=> Live(i)'
                            /\ ~Live(i) => job'[i].phase = job[i].phase
                            /\ job'[i].aborted = job[i].aborted
                            /\ evicting => job'[i].phase \notin {"encode", "publish"}
    BY <1>1 DEF WindowsInv, Typed, JobRecord, EvictionIsAlone, Live
  <2>3. QED
    BY <1>1, <2>1, <2>2, MovingKeeps
<1>2. CASE Seek!Check(j)
  <2>1. Live(j)
    BY <1>2 DEF Seek!Check, Live
  <2>2. CASE Wants[j] \in disk
    BY <1>2, <2>1, <2>2, SettlingKeeps DEF Seek!Check
  <2>3. CASE Wants[j] \notin disk
    <3>1. job' = [job EXCEPT ![j].phase = "attempt", ![j].started = job[j].started]
      BY <1>0, <1>2, <2>3 DEF Seek!Check, WindowsInv, Typed, JobRecord
    <3>2. QED
      BY <1>0, <1>1, <1>2, <2>1, <2>3, <3>1 DEF Seek!Check, JobRecord
  <2>4. QED
    BY <2>2, <2>3
<1>3. CASE Seek!Attempt(j)
  <2>1. Live(j)
    BY <1>3 DEF Seek!Attempt, Live
  <2>2. CASE job[j].aborted \/ closed
    BY <1>3, <2>1, <2>2, FailingKeeps DEF Seek!Attempt, Seek!AttemptAborted
  <2>3. CASE ~(job[j].aborted \/ closed)
    <3> DEFINE p == IF Seek!HasRoom(job[j].background) THEN "granted" ELSE "waiting"
    <3>1. job' = [job EXCEPT ![j].phase = p, ![j].started = job[j].started]
      BY <1>0, <1>3, <2>3 DEF Seek!Attempt, WindowsInv, Typed, JobRecord
    <3>2. p \in {"granted", "waiting"}
      OBVIOUS
    <3> HIDE DEF p
    <3>3. QED
      BY <1>0, <1>1, <1>3, <2>1, <2>3, <3>1, <3>2 DEF Seek!Attempt, JobRecord
  <2>4. QED
    BY <2>2, <2>3
<1>4. CASE Seek!Grant(j)
  <2>1. job' = [job EXCEPT ![j].phase = "granted", ![j].started = job[j].started]
    BY <1>0, <1>4 DEF Seek!Grant, WindowsInv, Typed, JobRecord
  <2>2. QED
    BY <1>0, <1>1, <1>4, <2>1 DEF Seek!Grant, Live, JobRecord
<1>5. CASE Seek!Withdraw(j)
  BY <1>5, FailingKeeps DEF Seek!Withdraw, Live
<1>6. CASE Seek!Start(j)
  <2>1. job[j].phase = "granted" /\ ~evicting /\ Live(j)
    BY <1>6 DEF Seek!Start, Seek!Starts, Live
  <2>2. CASE Seek!AttemptAborted(j)
    BY <1>6, <2>1, <2>2, FailingKeeps DEF Seek!Start
  <2>3. CASE ~Seek!AttemptAborted(j)
    BY <1>1, <1>6, <2>1, <2>3 DEF Seek!Start
  <2>4. QED
    BY <2>2, <2>3
<1>7. CASE Seek!Refuse(j)
  BY <1>7, FailingKeeps DEF Seek!Refuse, Live
<1>8. CASE Seek!Encoded(j)
  <2>1. job[j].phase = "encode" /\ Live(j)
    BY <1>8 DEF Seek!Encoded, Live
  <2>2. ~evicting
    BY <2>1 DEF WindowsInv, EvictionIsAlone
  <2>3. CASE Seek!FailWith(j, FALSE) /\ Seek!AttemptAborted(j)
    BY <1>8, <2>1, <2>3, FailingKeeps DEF Seek!Encoded
  <2>4. CASE Seek!FailWith(j, TRUE)
    BY <1>8, <2>1, <2>4, FailingKeeps DEF Seek!Encoded
  <2>5. CASE job' = [job EXCEPT ![j].phase = "publish"] /\ UNCHANGED <<current, status, available, broken>>
    <3>1. job' = [job EXCEPT ![j].phase = "publish", ![j].started = job[j].started]
      BY <1>0, <2>5 DEF WindowsInv, Typed, JobRecord
    <3>2. QED
      BY <1>0, <1>1, <1>8, <2>1, <2>2, <2>5, <3>1 DEF Seek!Encoded, JobRecord
  <2>6. QED
    BY <1>8, <2>3, <2>4, <2>5 DEF Seek!Encoded
<1>9. CASE Seek!Publish(j)
  <2>1. Live(j) /\ disk' = disk \cup {Wants[j]}
    BY <1>9 DEF Seek!Publish, Seek!Published, Live
  <2>2. QED
    BY <1>9, <2>1, SettlingKeeps DEF Seek!Publish
<1>10. QED
  BY <1>2, <1>3, <1>4, <1>5, <1>6, <1>7, <1>8, <1>9 DEF Seek!JobStep

LEMMA RequestStepKeeps ==
  ASSUME WindowsConstants, WindowsInv, NEW r \in Requests, Seek!Arrive(r) \/ Seek!Leave(r) \/ Seek!RequestStep(r)
  PROVE  WindowsInv'
<1>1. ASSUME NEW to \in {"pinned", "left", "failed"},
             request' = [request EXCEPT ![r] = to],
             to = "pinned" => request[r] = "idle",
             to = "failed" => closed /\ request[r] = "awaiting",
             UNCHANGED <<uses, job, current, disk, evicting, closed, broken>>
      PROVE  WindowsInv'
  <2>1. Typed' /\ MapIsLive'
    BY <1>1 DEF WindowsInv, Typed, MapIsLive, Live
  <2>2. UsesItsWindow'
    BY <1>1 DEF WindowsInv, Typed, UsesItsWindow
  <2>3. EvictionIsAlone' /\ ResolvedIsOnDisk'
    BY <1>1 DEF WindowsInv, Typed, EvictionIsAlone, ResolvedIsOnDisk
  <2>4. RejectedHasCause' /\ Seek!FailureHasCause'
    BY <1>1 DEF WindowsInv, Typed, RejectedHasCause, Seek!FailureHasCause, Live
  <2>5. QED
    BY <2>1, <2>2, <2>3, <2>4 DEF WindowsInv
<1>2. CASE Seek!Arrive(r)
  BY <1>1, <1>2 DEF Seek!Arrive
<1>3. CASE Seek!Leave(r)
  <2>1. CASE request[r] = "consuming"
    BY <1>3, <2>1, LeavingKeeps DEF Seek!Leave
  <2>2. CASE request[r] # "consuming"
    BY <1>1, <1>3, <2>2 DEF Seek!Leave
  <2>3. QED
    BY <2>1, <2>2
<1>4. CASE Seek!Call(r)
  BY <1>4, EnsureKeeps DEF Seek!Call, Seek!Calls
<1>5. CASE Seek!CallAgain(r)
  <2>1. CASE closed /\ r \in Background
    BY <1>1, <1>5, <2>1 DEF Seek!CallAgain
  <2>2. CASE ~(closed /\ r \in Background)
    <3>1. r \in Background \/ ~evicting
      BY <1>5 DEF Seek!CallAgain, WindowsInv, EvictionIsAlone
    <3>2. QED
      BY <1>5, <2>2, <3>1, EnsureKeeps DEF Seek!CallAgain
  <2>3. QED
    BY <2>1, <2>2
<1>6. CASE Seek!Resume(r)
  <2> DEFINE end == IF job[uses[r]].phase = "resolved" THEN "ready" ELSE "failed"
  <2>1. /\ request[r] = "consuming" /\ Seek!Settled(uses[r]) /\ job' = Seek!AfterLeaving(r)
        /\ request' = [request EXCEPT ![r] = end]
        /\ UNCHANGED <<uses, current, disk, status, available, evicting, closed, broken>>
    BY <1>6 DEF Seek!Resume
  <2>2. /\ end \in {"ready", "failed", "left"}
        /\ end = "ready" => job[uses[r]].phase = "resolved"
        /\ end = "failed" => job[uses[r]].phase = "rejected"
    BY <2>1 DEF Seek!Settled
  <2> HIDE DEF end
  <2>3. QED
    BY <2>1, <2>2, LeavingKeeps
<1>7. QED
  BY <1>2, <1>3, <1>4, <1>5, <1>6 DEF Seek!RequestStep

LEMMA SessionStepKeeps ==
  ASSUME WindowsConstants, WindowsInv, Seek!BeginEviction \/ Seek!EndEviction \/ Seek!Close
  PROVE  WindowsInv'
<1>1. CASE Seek!BeginEviction
  <2>1. /\ evicting' = TRUE
        /\ UNCHANGED <<request, uses, job, current, disk, closed, broken>>
        /\ \A r \in Requests : ~Seek!Pinned(r) /\ ~Seek!Tracked(r)
    BY <1>1 DEF Seek!BeginEviction, Seek!Active
  <2>2. EvictionIsAlone'
    BY <2>1 DEF EvictionIsAlone, Seek!Pinned, Seek!Tracked
  <2>3. Typed' /\ MapIsLive' /\ UsesItsWindow'
    BY <2>1 DEF WindowsInv, Typed, MapIsLive, UsesItsWindow, Live
  <2>4. ResolvedIsOnDisk' /\ RejectedHasCause' /\ Seek!FailureHasCause'
    BY <2>1 DEF WindowsInv, ResolvedIsOnDisk, RejectedHasCause, Seek!FailureHasCause, Live
  <2>5. QED
    BY <2>2, <2>3, <2>4 DEF WindowsInv
<1>2. CASE Seek!EndEviction
  <2>1. /\ evicting /\ evicting' = FALSE
        /\ UNCHANGED <<uses, current, closed, broken>>
    BY <1>2 DEF Seek!EndEviction
  <2>2. /\ job' \in [Requests -> JobRecord]
        /\ \A i \in Requests : /\ Live(i) <=> Live(i)'
                               /\ ~Live(i) => job'[i].phase = job[i].phase
                               /\ job'[i].aborted = job[i].aborted
    <3>1. CASE UNCHANGED job
      BY <3>1 DEF WindowsInv, Typed, Live
    <3>2. CASE job' = [j \in Requests |-> IF job[j].phase = "granted"
                                          THEN [job[j] EXCEPT !.phase = "refused"] ELSE job[j]]
      BY <3>2 DEF WindowsInv, Typed, JobRecord, Seek!Phases, Live
    <3>3. QED
      BY <1>2, <3>1, <3>2 DEF Seek!EndEviction
  <2>3. /\ \A r \in Requests \ Background : request[r] \notin {"awaiting", "consuming", "ready"}
        /\ request' \in [Requests -> {"idle", "pinned", "awaiting", "consuming", "ready", "failed", "refused", "left"}]
        /\ \A r \in Requests : request'[r] \in {request[r], "refused"}
    BY <1>2, <2>1 DEF Seek!EndEviction, WindowsInv, Typed, EvictionIsAlone
  <2>4. Typed'
    BY <2>1, <2>2, <2>3 DEF WindowsInv, Typed
  <2>5. MapIsLive'
    <3>1. \A j \in Requests : Live(j)' => current'[Wants[j]] = j
      BY <2>1, <2>2 DEF WindowsInv, MapIsLive
    <3>2. (\A w \in Windows : current[w] # None => Live(current[w]) /\ Wants[current[w]] = w)'
      BY <2>1, <2>2 DEF WindowsInv, MapIsLive, Typed, Live
    <3>3. QED
      BY <3>1, <3>2 DEF MapIsLive, Live
  <2>6. UsesItsWindow'
    BY <2>1, <2>2, <2>3 DEF WindowsInv, UsesItsWindow, Live
  <2>7. EvictionIsAlone' /\ ResolvedIsOnDisk'
    BY <2>1, <2>3 DEF EvictionIsAlone, ResolvedIsOnDisk
  <2>8. RejectedHasCause' /\ Seek!FailureHasCause'
    BY <2>1, <2>2, <2>3 DEF WindowsInv, RejectedHasCause, Seek!FailureHasCause, UsesItsWindow, Live
  <2>9. QED
    BY <2>4, <2>5, <2>6, <2>7, <2>8 DEF WindowsInv
<1>3. CASE Seek!Close
  <2>1. closed' = TRUE /\ UNCHANGED <<request, uses, job, current, disk, evicting, broken>>
    BY <1>3 DEF Seek!Close
  <2>2. Typed' /\ MapIsLive' /\ UsesItsWindow' /\ EvictionIsAlone'
    BY <2>1 DEF WindowsInv, Typed, MapIsLive, UsesItsWindow, EvictionIsAlone, Live
  <2>3. ResolvedIsOnDisk' /\ RejectedHasCause' /\ Seek!FailureHasCause'
    BY <2>1 DEF WindowsInv, ResolvedIsOnDisk, RejectedHasCause, Seek!FailureHasCause, Live
  <2>4. QED
    BY <2>2, <2>3 DEF WindowsInv
<1>4. QED
  BY <1>1, <1>2, <1>3

LEMMA WindowsInvInductive == WindowsConstants /\ WindowsInv /\ [Seek!Next]_ofWindows => WindowsInv'
<1> SUFFICES ASSUME WindowsConstants, WindowsInv, [Seek!Next]_ofWindows PROVE WindowsInv'
  OBVIOUS
<1>1. CASE \E r \in Requests : Seek!Arrive(r) \/ Seek!Leave(r) \/ Seek!RequestStep(r)
  BY <1>1, RequestStepKeeps
<1>2. CASE \E r \in Requests : Seek!JobStep(r)
  BY <1>2, JobStepKeeps
<1>3. CASE Seek!BeginEviction \/ Seek!EndEviction \/ Seek!Close
  BY <1>3, SessionStepKeeps
<1>4. CASE UNCHANGED ofWindows
  <2>1. Typed' /\ MapIsLive' /\ UsesItsWindow' /\ EvictionIsAlone'
    BY <1>4 DEF WindowsInv, Typed, MapIsLive, UsesItsWindow, EvictionIsAlone, Live, ofWindows
  <2>2. ResolvedIsOnDisk' /\ RejectedHasCause' /\ Seek!FailureHasCause'
    BY <1>4 DEF WindowsInv, ResolvedIsOnDisk, RejectedHasCause, Seek!FailureHasCause, Live, ofWindows
  <2>3. QED
    BY <2>1, <2>2 DEF WindowsInv
<1>5. QED
  BY <1>1, <1>2, <1>3, <1>4 DEF Seek!Next, Seek!Done, Seek!vars, ofWindows

LEMMA WindowsInit == Seek!Init => WindowsInv
<1>1. SUFFICES ASSUME Seek!Init PROVE WindowsInv
  OBVIOUS
<1>2. Typed /\ MapIsLive /\ UsesItsWindow
  BY <1>1 DEF Seek!Init, Seek!NoJob, Typed, JobRecord, Seek!Phases, MapIsLive, UsesItsWindow, Live
<1>3. EvictionIsAlone /\ ResolvedIsOnDisk /\ RejectedHasCause /\ Seek!FailureHasCause
  BY <1>1 DEF Seek!Init, EvictionIsAlone, ResolvedIsOnDisk, RejectedHasCause, Seek!FailureHasCause
<1>4. QED
  BY <1>2, <1>3 DEF WindowsInv
-----------------------------------------------------------------------------
(* The encoder.                                                            *)

Makers == {"none", "old", "cpu", "hardware"}

\* What is in the output directory of a call, by where the call is: what it found
\* there before a process writes, the CPU's files among those while the CPU works,
\* and of the hardware's those that have been renamed.
OutputFollowsCall ==
  \A e \in Encodings :
    /\ call[e] \in {"idle", "probing", "hardware"} =>
         playlist[e].by \in {"none", "old"} /\ \A f \in Encoder!Files : output[e][f] \in {"none", "old"}
    /\ call[e] = "cpu" =>
         playlist[e].by \in {"none", "old", "cpu"} /\ \A f \in Encoder!Files : output[e][f] \in {"none", "old", "cpu"}
    /\ call[e] = "renaming" =>
         playlist[e].by \in {"none", "old"} /\ \A f \in Encoder!Files \ left[e] : output[e][f] = "hardware"

EncoderInv == Encoder!TypeOK /\ OutputFollowsCall /\ Encoder!PlaylistIsOwn
-----------------------------------------------------------------------------
LEMMA FilesOfPlaylist == 0 \in Encoder!Files /\ \A n \in Encoder!Files : 0..n \subseteq Encoder!Files
BY MediaConstants DEF Encoder!Files

\* One file of one directory changes.
Makes(e, f, by) == output' = [output EXCEPT ![e][f] = by]

LEMMA FileMade ==
  ASSUME Encoder!TypeOK, NEW e \in Encodings, NEW f \in Encoder!Files, NEW by \in {"cpu", "hardware"},
         Makes(e, f, by)
  PROVE  /\ output' \in [Encodings -> [Encoder!Files -> Makers]]
         /\ \A d \in Encodings \ {e} : output'[d] = output[d]
         /\ \A g \in Encoder!Files : output'[e][g] = IF g = f THEN by ELSE output[e][g]
<1>1. output \in [Encodings -> [Encoder!Files -> Makers]] /\ by \in Makers
  BY DEF Encoder!TypeOK, Makers
<1>2. output[e] \in [Encoder!Files -> Makers]
  BY <1>1
<1>3. output' = [output EXCEPT ![e] = [output[e] EXCEPT ![f] = by]]
  BY DEF Makes
<1>4. QED
  BY <1>1, <1>2, <1>3

\* A playlist is published.
LEMMA PlaylistMade ==
  ASSUME Encoder!TypeOK, NEW e \in Encodings, NEW by \in {"cpu", "hardware"}, NEW n \in Encoder!Files,
         playlist' = [playlist EXCEPT ![e] = Encoder!Playlist(by, n)]
  PROVE  /\ playlist' \in [Encodings -> [by : Makers, names : Encoder!Files]]
         /\ playlist'[e].by = by /\ playlist'[e].names = n
         /\ \A d \in Encodings \ {e} : playlist'[d] = playlist[d]
<1>1. Encoder!Playlist(by, n) \in [by : Makers, names : Encoder!Files]
  BY DEF Encoder!Playlist, Makers
<1>2. playlist \in [Encodings -> [by : Makers, names : Encoder!Files]]
  BY DEF Encoder!TypeOK, Makers
<1>3. playlist'[e] = Encoder!Playlist(by, n)
  BY <1>2
<1>4. QED
  BY <1>1, <1>2, <1>3 DEF Encoder!Playlist

LEMMA EncoderInit == Encoder!Init => EncoderInv
<1> SUFFICES ASSUME Encoder!Init PROVE EncoderInv
  OBVIOUS
<1>1. /\ output \in [Encodings -> [Encoder!Files -> Makers]]
      /\ \A e \in Encodings : \A f \in Encoder!Files : output[e][f] \in {"none", "old"}
  <2>1. output \in [Encodings -> [Encoder!Files -> {"none", "old"}]]
    BY DEF Encoder!Init
  <2>2. \A e \in Encodings : output[e] \in [Encoder!Files -> Makers]
    BY <2>1 DEF Makers
  <2>3. QED
    BY <2>1, <2>2
<1>2. /\ playlist \in [Encodings -> [by : Makers, names : Encoder!Files]]
      /\ \A e \in Encodings : playlist[e].by \in {"none", "old"}
  <2>1. \A n \in 1..Segments : n \in Encoder!Files
    BY MediaConstants DEF Encoder!Files
  <2>2. \A e \in Encodings : \/ playlist[e] = [by |-> "none", names |-> 0]
                             \/ \E n \in 1..Segments : playlist[e] = [by |-> "old", names |-> n]
    BY DEF Encoder!Init, Encoder!Playlist
  <2>3. ASSUME NEW e \in Encodings
        PROVE  playlist[e] \in [by : Makers, names : Encoder!Files] /\ playlist[e].by \in {"none", "old"}
    <3>1. CASE playlist[e] = [by |-> "none", names |-> 0]
      BY <3>1, FilesOfPlaylist DEF Makers
    <3>2. ASSUME NEW n \in 1..Segments, playlist[e] = [by |-> "old", names |-> n]
          PROVE  playlist[e] \in [by : Makers, names : Encoder!Files] /\ playlist[e].by \in {"none", "old"}
      BY <2>1, <3>2 DEF Makers
    <3>3. QED
      BY <2>2, <3>1, <3>2
  <2>4. playlist = [e \in Encodings |-> playlist[e]]
    BY DEF Encoder!Init
  <2>5. QED
    BY <2>3, <2>4
<1>3. Encoder!TypeOK
  BY <1>1, <1>2 DEF Encoder!Init, Encoder!TypeOK, Makers
<1>4. OutputFollowsCall /\ Encoder!PlaylistIsOwn
  BY <1>1, <1>2 DEF Encoder!Init, OutputFollowsCall, Encoder!PlaylistIsOwn
<1>5. QED
  BY <1>3, <1>4 DEF EncoderInv

\* A step of one call leaves the directories of the others alone.
LEMMA EncoderStep ==
  ASSUME EncoderInv, NEW e \in Encodings,
         \/ Encoder!Begin(e) \/ Encoder!EndProbe(e) \/ Encoder!WriteFile(e) \/ Encoder!ListSegments(e)
         \/ Encoder!EndCpu(e) \/ Encoder!EndHardware(e) \/ Encoder!Rename(e) \/ Encoder!Fail(e)
  PROVE  EncoderInv'
<1> USE DEF EncoderInv, Encoder!TypeOK, OutputFollowsCall, Encoder!PlaylistIsOwn
<1>0. \A d \in Encodings : \A n \in 0..playlist[d].names : n \in Encoder!Files
  BY FilesOfPlaylist
<1>1. CASE Encoder!Begin(e)
  BY <1>1 DEF Encoder!Begin
<1>2. CASE Encoder!EndProbe(e)
  <2>1. /\ call' = [call EXCEPT ![e] = "hardware"] \/ call' = [call EXCEPT ![e] = "cpu"]
             \/ call' = [call EXCEPT ![e] = "failed"]
        /\ selected' \in {"none", "cpu", "hardware"} /\ hardwareDisabled' \in BOOLEAN
    BY <1>2 DEF Encoder!EndProbe, Encoder!Probed, Encoder!GiveUp
  <2>2. call[e] = "probing" /\ UNCHANGED <<output, playlist, left>>
    BY <1>2 DEF Encoder!EndProbe
  <2>3. Encoder!TypeOK'
    BY <2>1, <2>2
  <2>4. OutputFollowsCall'
    BY <2>1, <2>2
  <2>5. Encoder!PlaylistIsOwn'
    BY <2>2
  <2>6. QED
    BY <2>3, <2>4, <2>5
<1>3. CASE Encoder!WriteFile(e)
  <2>1. PICK f \in Encoder!Files : output' = [output EXCEPT ![e][f] = "cpu"]
    BY <1>3 DEF Encoder!WriteFile, Encoder!WritesInPlace
  <2>2. call[e] = "cpu" /\ UNCHANGED <<selected, hardwareDisabled, call, playlist, left>>
    BY <1>3 DEF Encoder!WriteFile, Encoder!WritesInPlace
  <2>3. /\ output' \in [Encodings -> [Encoder!Files -> Makers]]
        /\ \A d \in Encodings \ {e} : output'[d] = output[d]
        /\ \A g \in Encoder!Files : output'[e][g] = IF g = f THEN "cpu" ELSE output[e][g]
    <3>1. Encoder!TypeOK /\ Makes(e, f, "cpu")
      BY <2>1 DEF Makes
    <3> HIDE DEF Encoder!TypeOK
    <3>2. QED
      BY <3>1, FileMade, Zenon
  <2>4. Encoder!TypeOK'
    BY <2>2, <2>3 DEF Makers
  <2>5. OutputFollowsCall'
    BY <2>2, <2>3
  <2>6. ASSUME NEW d \in Encodings, playlist[d].by \in {"cpu", "hardware"}, NEW g \in 0..playlist[d].names
        PROVE  output'[d][g] = playlist[d].by
    <3>1. g \in Encoder!Files /\ output[d][g] = playlist[d].by
      BY <1>0, <2>6
    <3>2. d = e => playlist[d].by = "cpu"
      BY <2>2, <2>6
    <3>3. QED
      BY <2>3, <3>1, <3>2
  <2>7. QED
    BY <2>2, <2>4, <2>5, <2>6
<1>4. CASE Encoder!ListSegments(e)
  <2>1. PICK n \in 1..Segments : /\ Encoder!Made(e) = 0..n
                                 /\ playlist' = [playlist EXCEPT ![e] = Encoder!Playlist("cpu", n)]
    BY <1>4 DEF Encoder!ListSegments, Encoder!WritesInPlace
  <2>2. call[e] = "cpu" /\ UNCHANGED <<selected, hardwareDisabled, call, output, left>>
    BY <1>4 DEF Encoder!ListSegments, Encoder!WritesInPlace
  <2>3. n \in Encoder!Files
    BY MediaConstants DEF Encoder!Files
  <2>4. /\ playlist' \in [Encodings -> [by : Makers, names : Encoder!Files]]
        /\ playlist'[e].by = "cpu" /\ playlist'[e].names = n
        /\ \A d \in Encodings \ {e} : playlist'[d] = playlist[d]
    BY <2>1, <2>3, PlaylistMade
  <2>5. \A f \in 0..n : output[e][f] = "cpu"
    BY <2>1, <2>2 DEF Encoder!Made
  <2>6. Encoder!TypeOK'
    BY <2>2, <2>4 DEF Makers
  <2>7. OutputFollowsCall'
    BY <2>2, <2>4
  <2>8. ASSUME NEW d \in Encodings, playlist'[d].by \in {"cpu", "hardware"}, NEW g \in 0..playlist'[d].names
        PROVE  output'[d][g] = playlist'[d].by
    <3>1. CASE d = e
      BY <2>2, <2>4, <2>5, <2>8, <3>1
    <3>2. CASE d # e
      <4>1. playlist'[d] = playlist[d] /\ output' = output
        BY <2>2, <2>4, <3>2
      <4>2. QED
        BY <2>8, <4>1
    <3>3. QED
      BY <3>1, <3>2
  <2>9. QED
    BY <2>6, <2>7, <2>8
<1>5. CASE Encoder!EndCpu(e)
  BY <1>5 DEF Encoder!EndCpu
<1>6. CASE Encoder!EndHardware(e)
  <2>1. /\ call[e] = "hardware" /\ UNCHANGED <<output, playlist>>
        /\ \/ /\ call' = [call EXCEPT ![e] = "renaming"] /\ left' = [left EXCEPT ![e] = Encoder!Files]
              /\ UNCHANGED <<selected, hardwareDisabled>>
           \/ /\ call' = [call EXCEPT ![e] = "cpu"] /\ left' = left
              /\ Encoder!GiveUp
    BY <1>6 DEF Encoder!EndHardware
  <2>2. left' \in [Encodings -> SUBSET Encoder!Files]
    BY <2>1
  <2>3. selected' \in {"none", "cpu", "hardware"} /\ hardwareDisabled' \in BOOLEAN
    BY <2>1 DEF Encoder!GiveUp
  <2>4. Encoder!TypeOK'
    BY <2>1, <2>2, <2>3
  <2>5. OutputFollowsCall'
    BY <2>1
  <2>6. Encoder!PlaylistIsOwn'
    BY <2>1
  <2>7. QED
    BY <2>4, <2>5, <2>6
<1>7. CASE Encoder!Rename(e)
  <2>0. call[e] = "renaming" /\ UNCHANGED <<selected, hardwareDisabled>>
    BY <1>7 DEF Encoder!Rename
  <2>1. ASSUME NEW f \in left[e], output' = [output EXCEPT ![e][f] = "hardware"],
               left' = [left EXCEPT ![e] = @ \ {f}], UNCHANGED <<playlist, call>>
        PROVE  EncoderInv'
    <3>1. f \in Encoder!Files
      OBVIOUS
    <3>2. /\ output' \in [Encodings -> [Encoder!Files -> Makers]]
          /\ \A d \in Encodings \ {e} : output'[d] = output[d]
          /\ \A g \in Encoder!Files : output'[e][g] = IF g = f THEN "hardware" ELSE output[e][g]
      <4>1. Encoder!TypeOK /\ Makes(e, f, "hardware")
        BY <2>1 DEF Makes
      <4> HIDE DEF Encoder!TypeOK
      <4>2. QED
        BY <3>1, <4>1, FileMade, Zenon
    <3>3. /\ left' \in [Encodings -> SUBSET Encoder!Files]
          /\ \A d \in Encodings \ {e} : left'[d] = left[d]
          /\ left'[e] = left[e] \ {f}
      BY <2>1
    <3>4. Encoder!TypeOK'
      BY <2>0, <2>1, <3>2, <3>3 DEF Makers
    <3>5. OutputFollowsCall'
      BY <2>0, <2>1, <3>2, <3>3
    <3>6. Encoder!PlaylistIsOwn'
      BY <1>0, <2>0, <2>1, <3>2
    <3>7. QED
      BY <3>4, <3>5, <3>6
  <2>2. ASSUME Encoder!PlaylistTurn(e), playlist' = [playlist EXCEPT ![e] = Encoder!Playlist("hardware", Segments)],
               call' = [call EXCEPT ![e] = "done"], UNCHANGED <<output, left>>
        PROVE  EncoderInv'
    <3>1. Segments \in Encoder!Files /\ 0..Segments = Encoder!Files
      BY MediaConstants DEF Encoder!Files
    <3>2. /\ playlist' \in [Encodings -> [by : Makers, names : Encoder!Files]]
          /\ playlist'[e].by = "hardware" /\ playlist'[e].names = Segments
          /\ \A d \in Encodings \ {e} : playlist'[d] = playlist[d]
      BY <2>2, <3>1, PlaylistMade
    <3>3. \A f \in Encoder!Files : output[e][f] = "hardware"
      BY <2>0, <2>2 DEF Encoder!PlaylistTurn
    <3>4. Encoder!TypeOK'
      BY <2>0, <2>2, <3>2 DEF Makers
    <3>5. OutputFollowsCall'
      BY <2>0, <2>2, <3>2
    <3>6. ASSUME NEW d \in Encodings, playlist'[d].by \in {"cpu", "hardware"}, NEW g \in 0..playlist'[d].names
          PROVE  output'[d][g] = playlist'[d].by
      <4>1. CASE d = e
        BY <2>2, <3>1, <3>2, <3>3, <3>6, <4>1
      <4>2. CASE d # e
        <5>1. playlist'[d] = playlist[d] /\ output' = output
          BY <2>2, <3>2, <4>2
        <5>2. QED
          BY <3>6, <5>1
      <4>3. QED
        BY <4>1, <4>2
    <3>7. QED
      BY <3>4, <3>5, <3>6
  <2>3. QED
    BY <1>7, <2>1, <2>2 DEF Encoder!Rename
<1>8. CASE Encoder!Fail(e)
  BY <1>8 DEF Encoder!Fail
<1>9. QED
  BY <1>1, <1>2, <1>3, <1>4, <1>5, <1>6, <1>7, <1>8

LEMMA EncoderInvInductive == EncoderInv /\ [Encoder!Next]_ofEncoder => EncoderInv'
<1>1. ASSUME EncoderInv, Encoder!Next PROVE EncoderInv'
  BY <1>1, EncoderStep DEF Encoder!Next
<1>2. ASSUME EncoderInv, UNCHANGED ofEncoder PROVE EncoderInv'
  BY <1>2 DEF ofEncoder, EncoderInv, Encoder!TypeOK, OutputFollowsCall, Encoder!PlaylistIsOwn
<1>3. QED
  BY <1>1, <1>2

\* Only the end of a probe or of a hardware encoding changes the choice.
LEMMA StaysDisabledInductive ==
  Encoder!StaysDisabled /\ [Encoder!Next]_ofEncoder => Encoder!StaysDisabled'
<1> SUFFICES ASSUME Encoder!StaysDisabled, [Encoder!Next]_ofEncoder PROVE Encoder!StaysDisabled'
  OBVIOUS
<1>1. ASSUME NEW e \in Encodings, Encoder!EndProbe(e) PROVE Encoder!StaysDisabled'
  BY <1>1 DEF Encoder!EndProbe, Encoder!Probed, Encoder!GiveUp, Encoder!StaysDisabled
<1>2. ASSUME NEW e \in Encodings, Encoder!EndHardware(e) PROVE Encoder!StaysDisabled'
  BY <1>2 DEF Encoder!EndHardware, Encoder!GiveUp, Encoder!StaysDisabled
<1>3. ASSUME NEW e \in Encodings,
             \/ Encoder!Begin(e) \/ Encoder!WriteFile(e) \/ Encoder!ListSegments(e)
             \/ Encoder!EndCpu(e) \/ Encoder!Rename(e) \/ Encoder!Fail(e)
      PROVE  Encoder!StaysDisabled'
  BY <1>3 DEF Encoder!Begin, Encoder!WriteFile, Encoder!ListSegments, Encoder!EndCpu, Encoder!Rename,
              Encoder!Fail, Encoder!StaysDisabled
<1>4. QED
  BY <1>1, <1>2, <1>3 DEF Encoder!Next, ofEncoder, Encoder!StaysDisabled
-----------------------------------------------------------------------------
(* Files built on request.                                                 *)

\* The map of pending builds lets one request build at a time, so that the staging
\* file they share is its own.
OneBuilds == \A c \in Callers : step[c] # "none" => build = c

\* A build renames a whole file, and is done when there is one.
PublishesWhole ==
  /\ final # "part"
  /\ \A c \in Callers : /\ step[c] = "rename" => temp[Builds!Staged(c)] = "whole"
                        /\ step[c] = "done" => final = "whole"

BuildsInv == Builds!TypeOK /\ (kind # "image" => OneBuilds /\ PublishesWhole) /\ Builds!ServedWhole
-----------------------------------------------------------------------------
LEMMA StagedIsCaller == ASSUME NEW c \in Callers PROVE Builds!Staged(c) \in Callers
BY DEF Builds!Staged

LEMMA BuildsInit == Builds!Init => BuildsInv
BY MediaConstants DEF Builds!Init, BuildsInv, Builds!TypeOK, OneBuilds, PublishesWhole, Builds!ServedWhole

\* One request's step: another cannot build beside it.
LEMMA BuildsStep ==
  ASSUME BuildsInv, NEW c \in Callers,
         Builds!Ask(c) \/ Builds!Look(c) \/ Builds!Begin(c) \/ Builds!BuildStep(c) \/ Builds!Fail(c) \/ Builds!Answered(c)
  PROVE  BuildsInv'
<1> USE StagedIsCaller
<1> USE DEF BuildsInv, Builds!TypeOK, OneBuilds, PublishesWhole, Builds!ServedWhole
<1>1. CASE Builds!Ask(c) \/ Builds!Look(c) \/ Builds!Answered(c)
  BY <1>1 DEF Builds!Ask, Builds!Look, Builds!Answered, Builds!Staged
<1>2. CASE Builds!Begin(c)
  BY <1>2, MediaConstants DEF Builds!Begin, Builds!Joins, Builds!Staged
<1>3. CASE Builds!BuildLooks(c)
  BY <1>3 DEF Builds!BuildLooks, Builds!Staged
<1>4. CASE Builds!Write(c)
  BY <1>4 DEF Builds!Write, Builds!InPlace, Builds!Staged
<1>5. CASE Builds!Fill(c)
  BY <1>5 DEF Builds!Fill, Builds!InPlace, Builds!Staged
<1>6. CASE Builds!Publish(c)
  BY <1>6 DEF Builds!Publish, Builds!Renames, Builds!Staged
<1>7. CASE Builds!Done(c)
  BY <1>7 DEF Builds!Done, Builds!Staged
<1>8. CASE Builds!Fail(c)
  BY <1>8 DEF Builds!Fail, Builds!Leftover, Builds!Staged
<1>9. QED
  BY <1>1, <1>2, <1>3, <1>4, <1>5, <1>6, <1>7, <1>8 DEF Builds!BuildStep

\* A stop ends every build and keeps the files.
LEMMA RestartKeeps == ASSUME BuildsInv, Builds!Restart PROVE BuildsInv'
BY DEF BuildsInv, Builds!TypeOK, OneBuilds, PublishesWhole, Builds!ServedWhole, Builds!Restart

LEMMA BuildsInvInductive == BuildsInv /\ [Builds!Next]_ofBuilds => BuildsInv'
<1>1. ASSUME BuildsInv, Builds!Next PROVE BuildsInv'
  BY <1>1, BuildsStep, RestartKeeps DEF Builds!Next
<1>2. ASSUME BuildsInv, UNCHANGED ofBuilds PROVE BuildsInv'
  BY <1>2 DEF ofBuilds, BuildsInv, Builds!TypeOK, OneBuilds, PublishesWhole, Builds!ServedWhole, Builds!Staged
<1>3. QED
  BY <1>1, <1>2
-----------------------------------------------------------------------------
(* The cache.                                                              *)

\* What a task is: an encoding of a video level is in the background.
CacheTasks ==
  {t \in [of : SUBSET Cache!Renditions, background : BOOLEAN, phase : {"waiting", "granted", "running"}] :
     t.of \cap Cache!Video # {} => t.background}

Holds(t) == t.background /\ t.phase # "waiting"

\* The process limiter: one background task holds a permit, as there are two permits.
OneInBackground(ts) == \A i, k \in DOMAIN ts : Holds(ts[i]) /\ Holds(ts[k]) => i = k
NoneRuns(ts) == \A i \in DOMAIN ts : ts[i].phase # "running"

CacheTyped ==
  /\ video \in Videos
  /\ play \in [Plays -> {"idle", "pinned", "polling", "serving", "failed"}]
  /\ files \in [Cache!Renditions -> 0..2]
  /\ tasks \in Seq(CacheTasks)
  /\ removing \subseteq Cache!Renditions

\* While something is removed nothing encodes or plays: who came since waits.
RemovalIsAlone ==
  removing # {} => NoneRuns(tasks) /\ \A p \in Plays : play[p] \in {"idle", "pinned"}

ClearIsAlone == clear = "removing" => removing # {} /\ ~Cache!Preparing

CacheInv ==
  CacheTyped /\ OneInBackground(tasks) /\ RemovalIsAlone /\ ClearIsAlone /\ Cache!ServedStays
-----------------------------------------------------------------------------
\* Tasks that leave keep the others as they are; tasks that come wait.
LEMMA TasksLeave ==
  ASSUME NEW s \in Seq(CacheTasks), NEW q \in Seq(CacheTasks), NEW from,
         \A k \in DOMAIN q : from[k] \in DOMAIN s /\ q[k] = s[from[k]],
         \A k, n \in DOMAIN q : from[k] = from[n] => k = n,
         OneInBackground(s)
  PROVE  OneInBackground(q) /\ (NoneRuns(s) => NoneRuns(q))
BY DEF OneInBackground, NoneRuns

LEMMA TasksCome ==
  ASSUME NEW s \in Seq(CacheTasks), NEW new \in Seq(CacheTasks),
         \A k \in DOMAIN new : new[k].phase = "waiting",
         OneInBackground(s)
  PROVE  /\ s \o new \in Seq(CacheTasks) /\ OneInBackground(s \o new)
         /\ NoneRuns(s) => NoneRuns(s \o new)
<1>1. s \o new \in Seq(CacheTasks) /\ Len(s \o new) = Len(s) + Len(new)
  OBVIOUS
<1>2. \A i \in DOMAIN (s \o new) :
        \/ i \in DOMAIN s /\ (s \o new)[i] = s[i]
        \/ (s \o new)[i].phase = "waiting"
  <2> TAKE i \in DOMAIN (s \o new)
  <2>1. CASE i \in DOMAIN s
    BY <2>1
  <2>2. CASE i \notin DOMAIN s
    <3>1. i - Len(s) \in DOMAIN new /\ (s \o new)[i] = new[i - Len(s)]
      BY <1>1, <2>2
    <3>2. QED
      BY <3>1
  <2>3. QED
    BY <2>1, <2>2
<1>3. QED
  BY <1>1, <1>2 DEF OneInBackground, NoneRuns, Holds

LEMMA SameCardinality == \A S : Cache!Cardinality(S) = Cardinality(S)
BY DEF Cache!Cardinality, Cardinality

LEMMA TaskRemoved ==
  ASSUME NEW s \in Seq(CacheTasks), NEW i \in DOMAIN s, OneInBackground(s)
  PROVE  /\ Cache!RemoveAt(s, i) \in Seq(CacheTasks) /\ OneInBackground(Cache!RemoveAt(s, i))
         /\ NoneRuns(s) => NoneRuns(Cache!RemoveAt(s, i))
<1> DEFINE q == RemoveAt(s, i)
           from == [k \in DOMAIN q |-> IF k < i THEN k ELSE k + 1]
<1>1. /\ q \in Seq(CacheTasks) /\ DOMAIN q = 1..(Len(s) - 1)
      /\ \A k \in 1..(Len(s) - 1) : q[k] = IF k < i THEN s[k] ELSE s[k + 1]
  <2>1. i \in 1..Len(s)
    OBVIOUS
  <2>2. QED
    BY <2>1, RemoveAtShifts
<1>2. q = Cache!RemoveAt(s, i)
  BY DEF RemoveAt, Cache!RemoveAt
<1> HIDE DEF q
<1>3. \A k \in DOMAIN q : from[k] \in DOMAIN s /\ q[k] = s[from[k]]
  BY <1>1
<1>4. \A k, n \in DOMAIN q : from[k] = from[n] => k = n
  BY <1>1
<1> HIDE DEF from
<1>5. OneInBackground(q) /\ (NoneRuns(s) => NoneRuns(q))
  BY <1>1, <1>3, <1>4, TasksLeave, Zenon
<1>6. QED
  BY <1>1, <1>2, <1>5

\* A subsequence.
LEMMA TasksAt ==
  ASSUME NEW s \in Seq(CacheTasks), NEW indices \in SUBSET DOMAIN s, OneInBackground(s),
         NEW q \in Cache!At(s, indices)
  PROVE  q \in Seq(CacheTasks) /\ OneInBackground(q) /\ (NoneRuns(s) => NoneRuns(q))
<1> DEFINE n == Cardinality(indices)
<1>0. n \in Nat
  <2>1. IsFiniteSet(DOMAIN s)
    BY FS_Interval
  <2>2. QED
    BY <2>1, FS_Subset, FS_CardinalityType
<1>1. PICK rank \in [1..n -> indices] :
        /\ \A k, m \in 1..n : k < m => rank[k] < rank[m]
        /\ q = [k \in 1..n |-> s[rank[k]]]
  BY SameCardinality DEF Cache!At
<1> HIDE DEF n
<1>2. q \in Seq(CacheTasks) /\ DOMAIN q = 1..n
  <2>1. q \in [1..n -> CacheTasks]
    BY <1>0, <1>1
  <2>2. QED
    BY <1>0, <2>1, <1>1
<1>3. \A k \in DOMAIN q : rank[k] \in DOMAIN s /\ q[k] = s[rank[k]]
  BY <1>1, <1>2
<1>4. \A k, m \in DOMAIN q : rank[k] = rank[m] => k = m
  <2>1. \A k, m \in DOMAIN q : rank[k] \in Nat /\ rank[m] \in Nat /\ k \in Nat /\ m \in Nat
    BY <1>2, <1>3
  <2>2. QED
    BY <1>1, <1>2, <2>1
<1>5. QED
  BY <1>2, <1>3, <1>4, TasksLeave

\* A task that goes on keeps what it encodes and where.
LEMMA TaskMoves ==
  ASSUME NEW s \in Seq(CacheTasks), NEW i \in DOMAIN s, NEW phase \in {"granted", "running"},
         NEW q, q = [s EXCEPT ![i].phase = phase]
  PROVE  /\ q \in Seq(CacheTasks) /\ DOMAIN q = DOMAIN s
         /\ q[i].phase = phase /\ q[i].background = s[i].background
         /\ \A k \in DOMAIN s \ {i} : q[k] = s[k]
<1>1. s[i] \in CacheTasks
  OBVIOUS
<1>2. [s[i] EXCEPT !.phase = phase] \in CacheTasks
  BY <1>1 DEF CacheTasks
<1>3. q = [s EXCEPT ![i] = [s[i] EXCEPT !.phase = phase]]
  OBVIOUS
<1>4. q \in Seq(CacheTasks) /\ DOMAIN q = DOMAIN s
  BY <1>2, <1>3
<1>5. q[i] = [s[i] EXCEPT !.phase = phase] /\ \A k \in DOMAIN s \ {i} : q[k] = s[k]
  BY <1>3
<1>6. QED
  BY <1>1, <1>4, <1>5 DEF CacheTasks
-----------------------------------------------------------------------------
\* The renditions do not change.
LEMMA VideoStays ==
  ASSUME UNCHANGED video
  PROVE  /\ Cache!Renditions' = Cache!Renditions /\ Cache!Video' = Cache!Video
         /\ Cache!Wanted' = Cache!Wanted /\ CacheTasks' = CacheTasks
<1>1. Cache!Video' = Cache!Video /\ Cache!Audio' = Cache!Audio /\ Cache!Wanted' = Cache!Wanted
  BY DEF Cache!Video, Cache!Audio, Cache!Ladder, Cache!Range, Cache!Wanted
<1>2. Cache!Renditions' = Cache!Renditions
  BY <1>1 DEF Cache!Renditions
<1>3. QED
  BY <1>1, <1>2 DEF CacheTasks

\* The levels, the audio tracks, and what the requests want.
LEMMA VideoParts ==
  ASSUME video \in Videos
  PROVE  /\ Cache!Ladder \in Seq(Cache!Video) /\ 1 \in DOMAIN Cache!Ladder
         /\ Cache!Renditions = Cache!Video \cup Cache!Audio
         /\ Cache!Video \cap Cache!Audio = {}
         /\ Cache!Wanted \in [Plays -> Cache!Renditions]
         /\ Cache!Renditions # {}
<1>1. Cache!Video = {video.ladder[i] : i \in DOMAIN video.ladder}
  BY DEF Cache!Video, Cache!Ladder, Cache!Range
<1>2. Cache!Ladder \in Seq(Cache!Video) \ {<<>>}
  BY <1>1, MediaConstants, Zenon DEF Cache!Ladder
<1>3. 1 \in DOMAIN Cache!Ladder
  BY <1>2
<1>4. Cache!Video \cap Cache!Audio = {} /\ Cache!Wanted \in [Plays -> Cache!Video \cup Cache!Audio]
  BY <1>1, MediaConstants, Zenon DEF Cache!Audio, Cache!Wanted
<1>5. QED
  BY <1>2, <1>3, <1>4 DEF Cache!Renditions

\* The steps of the cache leave the tasks and the requests alone: a removal begins
\* while nothing is active, and what it removes nobody serves.
LEMMA SweepsKeep ==
  ASSUME CacheInv,
         \/ \E r \in Cache!Renditions : Cache!Consider(r)
         \/ Cache!EndSweep \/ Cache!Enforce \/ Cache!Age
         \/ Cache!AskClear \/ Cache!AfterPending \/ Cache!BeginClear
  PROVE  CacheInv'
<1>1. UNCHANGED <<video, tasks, play, files, prep>>
  BY DEF Cache!Consider, Cache!EndSweep, Cache!Enforce, Cache!Age, Cache!AskClear, Cache!AfterPending, Cache!BeginClear
<1>2. ~Cache!Active => NoneRuns(tasks) /\ \A p \in Plays : play[p] = "idle"
  BY DEF Cache!Active, NoneRuns
<1>3. /\ removing' \subseteq Cache!Renditions
      /\ removing' # {} /\ removing' # removing => ~Cache!Active
      /\ clear' = "removing" => removing' # {} /\ ~Cache!Preparing
  <2>1. CASE \E r \in Cache!Renditions : Cache!Consider(r)
    BY <2>1 DEF Cache!Consider, Cache!Evictable, CacheInv, CacheTyped, ClearIsAlone
  <2>2. CASE Cache!EndSweep \/ Cache!Enforce \/ Cache!Age \/ Cache!AskClear \/ Cache!AfterPending
    BY <2>2 DEF Cache!EndSweep, Cache!Enforce, Cache!Age, Cache!AskClear, Cache!AfterPending,
                CacheInv, CacheTyped, ClearIsAlone
  <2>3. CASE Cache!BeginClear
    BY <2>3, VideoParts DEF Cache!BeginClear, Cache!Clearable, CacheInv, CacheTyped, ClearIsAlone
  <2>4. QED
    BY <2>1, <2>2, <2>3
<1>4. CacheTyped' /\ OneInBackground(tasks)' /\ Cache!ServedStays'
  BY <1>1, <1>3, VideoStays DEF CacheInv, CacheTyped, OneInBackground, Cache!ServedStays
<1>5. RemovalIsAlone'
  BY <1>1, <1>2, <1>3 DEF CacheInv, RemovalIsAlone, NoneRuns
<1>6. ClearIsAlone'
  BY <1>1, <1>3 DEF ClearIsAlone, Cache!Preparing
<1>7. QED
  BY <1>4, <1>5, <1>6 DEF CacheInv

\* A removal ends.
LEMMA RemovalsKeep == ASSUME CacheInv, Cache!RemovalEnds PROVE CacheInv'
<1>1. /\ UNCHANGED video
      /\ play' \in [Plays -> {"idle", "pinned", "polling", "serving", "failed"}]
      /\ \A p \in Plays : play'[p] = play[p] \/ play'[p] = "failed"
      /\ removing # {} /\ removing' = {} /\ clear' # "removing"
      /\ files' \in [Cache!Renditions -> 0..2]
      /\ \/ UNCHANGED tasks
         \/ \E indices \in SUBSET DOMAIN tasks : tasks' \in Cache!At(tasks, indices)
  <2>1. CASE Cache!EndEviction
    BY <2>1 DEF Cache!EndEviction, CacheInv, CacheTyped
  <2>2. CASE Cache!EndClear
    BY <2>2 DEF Cache!EndClear, CacheInv, CacheTyped, ClearIsAlone
  <2>3. QED
    BY <2>1, <2>2 DEF Cache!RemovalEnds
<1>2. tasks' \in Seq(CacheTasks) /\ OneInBackground(tasks')
  BY <1>1, TasksAt DEF CacheInv, CacheTyped
<1>3. CacheTyped' /\ OneInBackground(tasks)'
  BY <1>1, <1>2, VideoStays DEF CacheInv, CacheTyped
<1>4. RemovalIsAlone' /\ ClearIsAlone'
  BY <1>1 DEF RemovalIsAlone, ClearIsAlone
<1>5. Cache!ServedStays'
  BY <1>1 DEF CacheInv, CacheTyped, RemovalIsAlone, Cache!ServedStays
<1>6. QED
  BY <1>3, <1>4, <1>5 DEF CacheInv

\* An encoding goes on: it starts while nothing is removed, and only adds files.
LEMMA EncodingsKeep ==
  ASSUME CacheInv, Limit \in 1..2, NEW i \in DOMAIN tasks,
         Cache!Grant(i) \/ Cache!Encode(i) \/ Cache!Progress(i) \/ Cache!EndEncoding(i)
  PROVE  CacheInv'
<1>1. UNCHANGED <<video, play, prep, removing, clear>>
  BY DEF Cache!Grant, Cache!Encode, Cache!Progress, Cache!EndEncoding
<1>2. /\ files' \in [Cache!Renditions -> 0..2]
      /\ \A r \in Cache!Renditions : files[r] > 0 => files'[r] > 0
  <2>1. CASE Cache!Grant(i) \/ Cache!Encode(i)
    BY <2>1 DEF Cache!Grant, Cache!Encode, CacheInv, CacheTyped
  <2>2. CASE Cache!Progress(i)
    <3>1. PICK r \in tasks[i].of : files' = [files EXCEPT ![r] = 1]
      BY <2>2 DEF Cache!Progress
    <3>2. files \in [Cache!Renditions -> 0..2]
      BY DEF CacheInv, CacheTyped
    <3>3. 1 \in 0..2 /\ 1 > 0
      OBVIOUS
    <3>4. /\ DOMAIN files' = Cache!Renditions
          /\ \A a \in Cache!Renditions : files'[a] = IF a = r THEN 1 ELSE files[a]
      BY <3>1, <3>2
    <3>5. files' = [a \in Cache!Renditions |-> files'[a]]
      BY <3>1, <3>2
    <3>6. QED
      BY <3>2, <3>3, <3>4, <3>5
  <2>3. CASE Cache!EndEncoding(i)
    BY <2>3 DEF Cache!EndEncoding, Cache!Whole, CacheInv, CacheTyped
  <2>4. QED
    BY <2>1, <2>2, <2>3
<1>3. /\ tasks' \in Seq(CacheTasks) /\ OneInBackground(tasks')
      /\ removing # {} => NoneRuns(tasks')
  <2>0. tasks \in Seq(CacheTasks) /\ OneInBackground(tasks) /\ (removing # {} => NoneRuns(tasks))
    BY DEF CacheInv, CacheTyped, RemovalIsAlone
  <2>1. CASE Cache!Grant(i)
    <3>1. tasks[i].phase = "waiting" /\ Cache!HasRoom(i) /\ tasks' = [tasks EXCEPT ![i].phase = "granted"]
      BY <2>1 DEF Cache!Grant
    <3> DEFINE others == {k \in Cache!Held : tasks[k].background}
    <3>2. tasks[i].background => others = {}
      <4> SUFFICES ASSUME tasks[i].background PROVE others = {}
        OBVIOUS
      <4>1. Cardinality(others) < 1
        <5>1. Cache!Cardinality(others) < (IF Limit > 1 THEN Limit - 1 ELSE 1)
          BY <3>1, Zenon DEF Cache!HasRoom
        <5>2. QED
          BY <5>1, SameCardinality
      <4>2. IsFiniteSet(others) /\ Cardinality(others) \in Nat
        <5>1. IsFiniteSet(DOMAIN tasks) /\ others \subseteq DOMAIN tasks
          BY <2>0, FS_Interval DEF Cache!Held
        <5>2. QED
          BY <5>1, FS_Subset, FS_CardinalityType
      <4>3. QED
        BY <4>1, <4>2, FS_EmptySet
    <3>3. \A k \in DOMAIN tasks : Holds(tasks[k]) => ~tasks[i].background
      BY <3>2 DEF Holds, Cache!Held
    <3>4. QED
      BY <2>0, <3>1, <3>3, TaskMoves DEF OneInBackground, NoneRuns, Holds
  <2>2. CASE Cache!Encode(i)
    BY <2>0, <2>2, TaskMoves DEF Cache!Encode, Cache!Starts, OneInBackground, Holds
  <2>3. CASE Cache!Progress(i)
    BY <2>0, <2>3 DEF Cache!Progress
  <2>4. CASE Cache!EndEncoding(i)
    BY <2>0, <2>4, TaskRemoved DEF Cache!EndEncoding
  <2>5. QED
    BY <2>1, <2>2, <2>3, <2>4
<1>4. CacheTyped' /\ OneInBackground(tasks)'
  BY <1>1, <1>2, <1>3, VideoStays DEF CacheInv, CacheTyped
<1>5. RemovalIsAlone' /\ ClearIsAlone'
  BY <1>1, <1>3 DEF CacheInv, RemovalIsAlone, ClearIsAlone, Cache!Preparing
<1>6. Cache!ServedStays'
  BY <1>1, <1>2, VideoStays, VideoParts DEF CacheInv, CacheTyped, Cache!ServedStays
<1>7. QED
  BY <1>4, <1>5, <1>6 DEF CacheInv

\* An encoding that a request or the preparation starts comes to the end of the queue.
LEMMA StartedKeeps ==
  ASSUME CacheInv, NEW r \in Cache!Renditions, NEW priority,
         r \in Cache!Audio \/ priority = "default" \/ priority = "background"
  PROVE  /\ Cache!Started(r, priority)[2] \in Seq(CacheTasks)
         /\ OneInBackground(Cache!Started(r, priority)[2])
         /\ NoneRuns(tasks) => NoneRuns(Cache!Started(r, priority)[2])
<1> DEFINE task == Cache!Task(Cache!Group(r), r, priority)
<1>0. tasks \in Seq(CacheTasks) /\ OneInBackground(tasks) /\ video \in Videos
  BY DEF CacheInv, CacheTyped
<1>1. task \in CacheTasks /\ task.phase = "waiting"
  <2>1. Cache!Group(r) \subseteq Cache!Renditions
    BY VideoParts, <1>0 DEF Cache!Group
  <2>2. Cache!Group(r) \cap Cache!Video # {} => r \in Cache!Video
    BY VideoParts, <1>0 DEF Cache!Group
  <2> DEFINE lane == Cache!InBackground(r, priority)
  <2>3. lane \in BOOLEAN /\ (r \in Cache!Video => lane)
    BY DEF Cache!InBackground
  <2>4. task = [of |-> Cache!Group(r), background |-> lane, phase |-> "waiting"]
    BY DEF Cache!Task
  <2> HIDE DEF lane, task
  <2>5. QED
    BY <2>1, <2>2, <2>3, <2>4 DEF CacheTasks
<1>2. Cache!Started(r, priority)[2] = tasks \/ Cache!Started(r, priority)[2] = Append(tasks, task)
  BY DEF Cache!Started
<1> HIDE DEF task
<1>3. Append(tasks, task) = tasks \o <<task>> /\ <<task>> \in Seq(CacheTasks)
  BY <1>0, <1>1
<1>4. \A k \in DOMAIN <<task>> : <<task>>[k].phase = "waiting"
  BY <1>1
<1>5. QED
  BY <1>0, <1>2, <1>3, <1>4, TasksCome

LEMMA StartedLadderKeeps ==
  ASSUME CacheInv, NEW r \in Cache!Renditions, NEW begun \in Cache!StartedLadder(r)
  PROVE  /\ begun[2] \in Seq(CacheTasks) /\ OneInBackground(begun[2])
         /\ NoneRuns(tasks) => NoneRuns(begun[2])
<1> DEFINE idle == {i \in Cache!UpTo(r) : Cache!Idle(Cache!Ladder[i])}
           n == Cardinality(idle)
<1>0. /\ tasks \in Seq(CacheTasks) /\ OneInBackground(tasks) /\ video \in Videos
      /\ Cache!Ladder \in Seq(Cache!Video)
  BY VideoParts DEF CacheInv, CacheTyped
<1>1. idle \subseteq DOMAIN Cache!Ladder /\ n \in Nat
  <2>1. idle \subseteq DOMAIN Cache!Ladder /\ IsFiniteSet(DOMAIN Cache!Ladder)
    BY <1>0, FS_Interval DEF Cache!UpTo
  <2>2. QED
    BY <2>1, FS_Subset, FS_CardinalityType
<1>2. PICK levels \in Cache!At(Cache!Ladder, idle) :
        begun[2] = tasks \o [k \in DOMAIN levels |-> Cache!Task({levels[k]}, levels[k], "default")]
  <2>1. PICK levels \in Cache!At(Cache!Ladder, idle) :
          begun = <<[a \in Cache!Renditions |->
                       IF \E i \in idle : Cache!Ladder[i] = a THEN "queued" ELSE rendition[a]],
                    tasks \o [k \in DOMAIN levels |-> Cache!Task({levels[k]}, levels[k], "default")]>>
    BY Zenon DEF Cache!StartedLadder
  <2>2. QED
    BY <2>1, Zenon
<1> HIDE DEF idle
<1>3. PICK rank \in [1..n -> idle] : levels = [k \in 1..n |-> Cache!Ladder[rank[k]]]
  BY <1>2, SameCardinality DEF Cache!At
<1> HIDE DEF n
<1>4. DOMAIN levels = 1..n /\ \A k \in 1..n : levels[k] \in Cache!Video
  BY <1>0, <1>1, <1>3
<1> DEFINE new == [k \in 1..n |-> Cache!Task({levels[k]}, levels[k], "default")]
<1>5. \A k \in 1..n : new[k] \in CacheTasks /\ new[k].phase = "waiting"
  <2> TAKE k \in 1..n
  <2>1. new[k] = [of |-> {levels[k]}, background |-> TRUE, phase |-> "waiting"]
    BY <1>4 DEF Cache!Task, Cache!InBackground
  <2>2. levels[k] \in Cache!Renditions
    BY <1>4 DEF Cache!Renditions
  <2> HIDE DEF new
  <2>3. QED
    BY <2>1, <2>2 DEF CacheTasks
<1>6. new \in Seq(CacheTasks) /\ DOMAIN new = 1..n
  <2>1. new \in [1..n -> CacheTasks]
    BY <1>5
  <2> HIDE DEF new
  <2>2. QED
    BY <1>1, <2>1, SeqDef
<1>7. begun[2] = tasks \o new
  BY <1>2, <1>4
<1> HIDE DEF new
<1>8. QED
  BY <1>0, <1>5, <1>6, <1>7, TasksCome

\* A request that plays begins while nothing is removed.
LEMMA RequestsKeep ==
  ASSUME CacheInv, NEW p \in Plays,
         Cache!Arrive(p) \/ Cache!Handle(p) \/ Cache!Poll(p) \/ Cache!Close(p)
  PROVE  CacheInv'
<1>1. UNCHANGED <<video, files, removing, clear>>
  BY DEF Cache!Arrive, Cache!Handle, Cache!Poll, Cache!Close
<1>2. /\ play' \in [Plays -> {"idle", "pinned", "polling", "serving", "failed"}]
      /\ removing # {} => \A q \in Plays : play'[q] \in {"idle", "pinned"}
      /\ \A q \in Plays : play'[q] = "serving" => files[Cache!Wanted[q]] > 0
  <2>1. CASE Cache!Handle(p)
    BY <2>1 DEF Cache!Handle, Cache!Handles, CacheInv, CacheTyped, RemovalIsAlone, Cache!ServedStays
  <2>2. CASE Cache!Poll(p)
    BY <2>2 DEF Cache!Poll, CacheInv, CacheTyped, RemovalIsAlone, Cache!ServedStays
  <2>3. CASE Cache!Arrive(p) \/ Cache!Close(p)
    BY <2>3 DEF Cache!Arrive, Cache!Close, CacheInv, CacheTyped, RemovalIsAlone, Cache!ServedStays
  <2>4. QED
    BY <2>1, <2>2, <2>3
<1>3. tasks' \in Seq(CacheTasks) /\ OneInBackground(tasks') /\ (NoneRuns(tasks) => NoneRuns(tasks'))
  <2>1. CASE Cache!Handle(p)
    <3>1. Cache!Wanted[p] \in Cache!Renditions
      BY VideoParts DEF CacheInv, CacheTyped
    <3>2. PICK begun \in IF Cache!Wanted[p] \in Cache!Audio THEN {Cache!Started(Cache!Wanted[p], "default")}
                         ELSE Cache!StartedLadder(Cache!Wanted[p]) :
            tasks' = begun[2]
      BY <2>1 DEF Cache!Handle
    <3>3. CASE Cache!Wanted[p] \in Cache!Audio
      BY <3>1, <3>2, <3>3, StartedKeeps
    <3>4. CASE Cache!Wanted[p] \notin Cache!Audio
      BY <3>1, <3>2, <3>4, StartedLadderKeeps
    <3>5. QED
      BY <3>3, <3>4
  <2>2. CASE Cache!Arrive(p) \/ Cache!Poll(p) \/ Cache!Close(p)
    BY <2>2 DEF Cache!Arrive, Cache!Poll, Cache!Close, CacheInv, CacheTyped
  <2>3. QED
    BY <2>1, <2>2
<1>4. CacheTyped' /\ OneInBackground(tasks)'
  BY <1>1, <1>2, <1>3, VideoStays DEF CacheInv, CacheTyped
<1>5. RemovalIsAlone' /\ Cache!ServedStays'
  BY <1>1, <1>2, <1>3, VideoStays DEF CacheInv, RemovalIsAlone, Cache!ServedStays
<1>6. ClearIsAlone'
  <2>1. clear = "removing" => prep' = prep
    BY DEF CacheInv, ClearIsAlone, Cache!Arrive, Cache!Handle, Cache!Handles, Cache!Poll, Cache!Close
  <2>2. QED
    BY <1>1, <2>1 DEF CacheInv, ClearIsAlone, Cache!Preparing
<1>7. QED
  BY <1>4, <1>5, <1>6 DEF CacheInv

\* The preparation goes on.
LEMMA PreparationKeeps == ASSUME CacheInv, Cache!Prepare PROVE CacheInv'
<1>1. UNCHANGED <<video, files, removing, clear, play>> /\ Cache!Preparing
  BY DEF Cache!Prepare, Cache!Preparing
<1>2. tasks' \in Seq(CacheTasks) /\ OneInBackground(tasks') /\ (NoneRuns(tasks) => NoneRuns(tasks'))
  <2>1. tasks' = tasks \/ \E r \in Cache!Renditions : tasks' = Cache!Started(r, "background")[2]
    <3>1. Cache!Ladder[1] \in Cache!Renditions /\ \A a \in Cache!Audio : a \in Cache!Renditions
      <4>1. /\ Cache!Ladder \in Seq(Cache!Video) /\ 1 \in DOMAIN Cache!Ladder
            /\ Cache!Renditions = Cache!Video \cup Cache!Audio
        BY VideoParts DEF CacheInv, CacheTyped
      <4>2. QED
        BY <4>1
    <3>2. QED
      BY <3>1, Zenon DEF Cache!Prepare, Cache!PrepStarts
  <2>2. QED
    BY <2>1, StartedKeeps DEF CacheInv, CacheTyped
<1>3. CacheTyped' /\ OneInBackground(tasks)'
  BY <1>1, <1>2, VideoStays DEF CacheInv, CacheTyped
<1>4. RemovalIsAlone' /\ ClearIsAlone' /\ Cache!ServedStays'
  BY <1>1, <1>2, VideoStays DEF CacheInv, RemovalIsAlone, ClearIsAlone, Cache!ServedStays
<1>5. QED
  BY <1>3, <1>4 DEF CacheInv

LEMMA CacheInit == Cache!Init => CacheInv
<1> SUFFICES ASSUME Cache!Init PROVE CacheInv
  OBVIOUS
<1>1. CacheTyped /\ OneInBackground(tasks)
  BY DEF Cache!Init, Cache!Whole, CacheTyped, OneInBackground
<1>2. RemovalIsAlone /\ ClearIsAlone /\ Cache!ServedStays
  BY DEF Cache!Init, RemovalIsAlone, ClearIsAlone, Cache!ServedStays
<1>3. QED
  BY <1>1, <1>2 DEF CacheInv

LEMMA CacheInvInductive == Limit \in 1..2 /\ CacheInv /\ [Cache!Next]_ofCache => CacheInv'
<1> SUFFICES ASSUME Limit \in 1..2, CacheInv, [Cache!Next]_ofCache PROVE CacheInv'
  OBVIOUS
<1>1. CASE \E i \in DOMAIN tasks : Cache!Grant(i) \/ Cache!Encode(i) \/ Cache!Progress(i) \/ Cache!EndEncoding(i)
  BY <1>1, EncodingsKeep
<1>2. CASE \E p \in Plays : Cache!Arrive(p) \/ Cache!Handle(p) \/ Cache!Poll(p) \/ Cache!Close(p)
  BY <1>2, RequestsKeep
<1>3. CASE Cache!Prepare \/ Cache!RemovalEnds
  BY <1>3, PreparationKeeps, RemovalsKeep
<1>4. CASE \/ Cache!SweepStep \/ Cache!Enforce \/ Cache!Age
           \/ Cache!AskClear \/ Cache!AfterPending \/ Cache!BeginClear
  BY <1>4, SweepsKeep DEF Cache!SweepStep
<1>5. CASE UNCHANGED ofCache
  BY <1>5, VideoStays DEF ofCache, CacheInv, CacheTyped, OneInBackground, RemovalIsAlone, NoneRuns,
                          ClearIsAlone, Cache!Preparing, Cache!ServedStays
<1>6. QED
  BY <1>1, <1>2, <1>3, <1>4, <1>5 DEF Cache!Next, Cache!TaskStep

\* Two video encodings would both be in the background.
LEMMA CacheUndisturbed == CacheInv => Cache!EncodersUndisturbed
<1> SUFFICES ASSUME CacheInv, NEW i \in DOMAIN tasks, tasks[i].phase = "running"
             PROVE  /\ removing = {}
                    /\ \A k \in DOMAIN tasks \ {i} :
                         tasks[k].phase = "running" => tasks[i].of \cap tasks[k].of \cap Cache!Video = {}
  BY DEF Cache!EncodersUndisturbed
<1>1. removing = {}
  BY DEF CacheInv, RemovalIsAlone, NoneRuns
<1>2. ASSUME NEW k \in DOMAIN tasks \ {i}, tasks[k].phase = "running",
             tasks[i].of \cap tasks[k].of \cap Cache!Video # {}
      PROVE  FALSE
  <2>1. tasks[i] \in CacheTasks /\ tasks[k] \in CacheTasks
    BY DEF CacheInv, CacheTyped
  <2>2. Holds(tasks[i]) /\ Holds(tasks[k])
    BY <1>2, <2>1 DEF CacheTasks, Holds
  <2>3. QED
    BY <1>2, <2>2 DEF CacheInv, OneInBackground
<1>3. QED
  BY <1>1, <1>2
-----------------------------------------------------------------------------
(* The composition.                                                        *)

\* A step of the whole is a step of one part and leaves the others alone.
LEMMA PartsMove ==
  [Next]_vars => /\ [Seek!Next]_ofWindows /\ [Cache!Next]_ofCache
                 /\ [Builds!Next]_ofBuilds /\ [Encoder!Next]_ofEncoder
BY DEF Next, vars, WindowsMove, CacheMoves, BuildsMove, EncoderMoves

\* hlsWindows.ts: "A cancelled encoder must exit before a replacement may publish
\* this window": for any requests and windows, a window has one encoder.
THEOREM MediaOneEncoder == Spec => []OneEncoder
<1>1. WindowsInv => OneEncoder
  BY DEF WindowsInv, MapIsLive, OneEncoder, Seek!OneEncoder, Live
<1>2. Init => WindowsInv
  BY WindowsInit DEF Init
<1>3. WindowsInv /\ [Next]_vars => WindowsInv'
  BY PartsMove, WindowsInvInductive, MediaConstants DEF WindowsConstants
<1>4. QED
  BY <1>1, <1>2, <1>3, PTL DEF Spec

\* A viewer who was told that its window is ready finds it on disk until its
\* response closes, and one that has a job fails only for an encoder or the session.
THEOREM MediaReadyIsPublished == Spec => []ReadyIsPublished
<1>1. WindowsInv => ReadyIsPublished
  BY DEF WindowsInv, ResolvedIsOnDisk, ReadyIsPublished, Seek!ReadyIsPublished
<1>2. Init => WindowsInv
  BY WindowsInit DEF Init
<1>3. WindowsInv /\ [Next]_vars => WindowsInv'
  BY PartsMove, WindowsInvInductive, MediaConstants DEF WindowsConstants
<1>4. QED
  BY <1>1, <1>2, <1>3, PTL DEF Spec

\* derivedMediaCache.ts: with the two permits of videoRuntime.ts:23, nothing is
\* removed under an encoder that writes it, and "the background lane is FIFO and runs
\* one sequential video encoder at a time".
THEOREM MediaEncodersUndisturbed == ASSUME Limit \in 1..2 PROVE Spec => []EncodersUndisturbed
<1>1. WindowsInv /\ CacheInv => EncodersUndisturbed
  BY CacheUndisturbed DEF WindowsInv, EvictionIsAlone, EncodersUndisturbed, Seek!NoEvictionUnderEncoder
<1>2. Init => WindowsInv /\ CacheInv
  BY WindowsInit, CacheInit DEF Init
<1>3. WindowsInv /\ CacheInv /\ [Next]_vars => (WindowsInv /\ CacheInv)'
  BY PartsMove, WindowsInvInductive, CacheInvInductive, MediaConstants DEF WindowsConstants
<1>4. QED
  BY <1>1, <1>2, <1>3, PTL DEF Spec

\* derivedMediaCache.ts: what a response serves stays until it is closed, and the
\* cache is not cleared under a preparation.
THEOREM MediaServedStays == ASSUME Limit \in 1..2 PROVE Spec => []ServedStays
<1>1. CacheInv => ServedStays
  BY DEF CacheInv, ClearIsAlone, ServedStays, Cache!PreparedIsKept
<1>2. Init => CacheInv
  BY CacheInit DEF Init
<1>3. CacheInv /\ [Next]_vars => CacheInv'
  BY PartsMove, CacheInvInductive
<1>4. QED
  BY <1>1, <1>2, <1>3, PTL DEF Spec

\* videoRemux.ts, thumbnailRoute.ts, videoStoryboard.ts: whoever asks while a file is
\* built, and wherever the server stops, what a rename publishes is served whole.
\* hlsEncoder.ts: whatever earlier encodings left in its directory, whichever encoder
\* fails and wherever the renames stop, the playlist an encoding publishes names only
\* files that are there, made by the encoder that wrote the playlist.
THEOREM MediaServedWhole == Spec => []ServedWhole
<1>1. BuildsInv /\ EncoderInv => ServedWhole
  BY DEF BuildsInv, EncoderInv, ServedWhole
<1>2. Init => BuildsInv /\ EncoderInv
  BY BuildsInit, EncoderInit DEF Init
<1>3. BuildsInv /\ EncoderInv /\ [Next]_vars => (BuildsInv /\ EncoderInv)'
  BY PartsMove, BuildsInvInductive, EncoderInvInductive
<1>4. QED
  BY <1>1, <1>2, <1>3, PTL DEF Spec

\* hlsEncoder.ts, hardwareDisabled: once hardware encoding has failed no call
\* selects it again, in whatever order the probes of any calls end.
THEOREM MediaStaysDisabled == Spec => []StaysDisabled
<1>1. Init => StaysDisabled
  BY DEF Init, Encoder!Init, Encoder!StaysDisabled, StaysDisabled
<1>2. StaysDisabled /\ [Next]_vars => StaysDisabled'
  BY PartsMove, StaysDisabledInductive DEF StaysDisabled
<1>3. QED
  BY <1>1, <1>2, PTL DEF Spec
=============================================================================
