----------------------- MODULE SessionJobQueueProofs -----------------------
(***************************************************************************)
(* Proofs about SessionJobQueue, for any number of jobs and slots.         *)
(***************************************************************************)
EXTENDS SessionJobQueue, SequenceLemmas

(* Lists of jobs *)

\* Array.indexOf finds an element that is there.
LEMMA IndexOfFinds ==
  ASSUME NEW q \in Seq(Jobs), NEW j \in Range(q)
  PROVE  IndexOf(q, j) \in DOMAIN q /\ q[IndexOf(q, j)] = j
<1>1. \E i \in DOMAIN q : q[i] = j
  BY DEF Range
<1> QED  BY <1>1 DEF IndexOf

\* The elements of a list of jobs are jobs.
LEMMA RangeInJobs == ASSUME NEW q \in Seq(Jobs) PROVE Range(q) \subseteq Jobs
BY DEF Range

\* Removing an entry leaves a list of jobs, and of a list without duplicates
\* just the others.
LEMMA WithoutProperties ==
  ASSUME NEW q \in Seq(Jobs), NEW j
  PROVE  /\ Without(q, j) \in Seq(Jobs)
         /\ IsInjective(q) => /\ IsInjective(Without(q, j))
                              /\ Range(Without(q, j)) = Range(q) \ {j}
<1>1. CASE j \in Range(q)
  <2>1. IndexOf(q, j) \in 1..Len(q) /\ q[IndexOf(q, j)] = j
    BY <1>1, IndexOfFinds
  <2>2. Without(q, j) = RemoveAt(q, IndexOf(q, j))
    BY <1>1 DEF Without
  <2>3. Without(q, j) \in Seq(Jobs)
    BY <2>1, <2>2, RemoveAtShifts
  <2> QED  BY <2>1, <2>2, <2>3, RemoveAtProperties
<1>2. CASE j \notin Range(q)
  BY <1>2 DEF Without
<1> QED  BY <1>1, <1>2

\* sortPending neither loses nor duplicates an entry.
LEMMA SortPendingProperties ==
  ASSUME NEW q \in Seq(Jobs), NEW ord, NEW p \in SortPending(q, ord)
  PROVE  /\ p \in Seq(Jobs)
         /\ Range(p) = Range(q)
         /\ IsInjective(q) => IsInjective(p)
<1>1. PICK f \in Bijection(DOMAIN q, DOMAIN q) : p = [i \in DOMAIN q |-> q[f[i]]]
  BY DEF SortPending, Rearrangements
<1>2. /\ f \in [DOMAIN q -> DOMAIN q]
      /\ \A a, b \in DOMAIN q : f[a] = f[b] => a = b
      /\ \A b \in DOMAIN q : \E a \in DOMAIN q : f[a] = b
  BY <1>1 DEF Bijection, Injection, Surjection, IsInjective
<1>3. Len(q) \in Nat /\ DOMAIN q = 1..Len(q) /\ \A i \in 1..Len(q) : q[i] \in Jobs
  OBVIOUS
<1>4. p \in Seq(Jobs)
  BY <1>1, <1>2, <1>3
<1>5. DOMAIN p = DOMAIN q /\ \A i \in DOMAIN q : p[i] = q[f[i]]
  BY <1>1
<1>6. Range(p) = Range(q)
  BY <1>2, <1>5 DEF Range
<1>7. IsInjective(q) => IsInjective(p)
  BY <1>2, <1>5 DEF IsInjective
<1> QED  BY <1>4, <1>6, <1>7
-----------------------------------------------------------------------------
(* scheduleSessionJobs *)

\* The workers, the active keys and the waiting jobs of a queue fit together:
\* every active job has one worker, and a waiting job none and one entry.
Consistent(q, w, act) ==
  /\ IsInjective(q) /\ act \cap Range(q) = {}
  /\ \A s \in Slots : w[s].pc # "idle" => w[s].job \in act
  /\ \A s, t \in Slots : w[s].pc # "idle" /\ w[t].pc # "idle" /\ w[s].job = w[t].job => s = t

\* The loop starts no more entries than the queue has.
LEMMA StartCountType ==
  ASSUME NEW length \in Nat, NEW running \in Nat, maxConcurrent' \in Nat
  PROVE  StartCount(length, running) \in 0..length
<1>1. CASE stopping' \/ running >= maxConcurrent'
  <2>1. StartCount(length, running) = 0
    BY <1>1 DEF StartCount
  <2> QED  BY <2>1
<1>2. CASE ~(stopping' \/ running >= maxConcurrent') /\ length <= maxConcurrent' - running
  <2>1. StartCount(length, running) = length
    BY <1>2 DEF StartCount
  <2> QED  BY <2>1
<1>3. CASE ~(stopping' \/ running >= maxConcurrent') /\ ~(length <= maxConcurrent' - running)
  <2>1. StartCount(length, running) = maxConcurrent' - running
    BY <1>3 DEF StartCount
  <2>2. maxConcurrent' - running \in 0..length
    <3> DEFINE m == maxConcurrent'
    <3>1. m \in Nat /\ ~(running >= m) /\ ~(length <= m - running)
      BY <1>3
    <3> HIDE DEF m
    <3>2. m - running \in 0..length
      BY <3>1
    <3> QED  BY <3>2 DEF m
  <2> QED  BY <2>1, <2>2
<1> QED  BY <1>1, <1>2, <1>3

\* Limits are numbers, and the slots can be counted.
LEMMA LimitsType == Limits \subseteq Nat /\ IsFiniteSet(Slots)
BY QueueConstants, FS_CardinalityType DEF Limits

\* A started worker is in its first awaits, and runs the job it was started for.
LEMMA StartWorkerType ==
  ASSUME NEW j \in Jobs, job' \in [Jobs -> JobRecord]
  PROVE  /\ StartWorker(j) \in WorkerRecord
         /\ StartWorker(j).pc = "prelude" /\ StartWorker(j).job = j
         /\ ~StartWorker(j).aborted
BY DEF StartWorker, WorkerRecord, JobRecord, Phases

\* The first n entries of the queue move to the idle slots they are placed in.
Moves(q, w, act, n, place) ==
  /\ IsInjective(place)
  /\ pending' = SubSeq(q, n + 1, Len(q))
  /\ active' = act \cup {q[i] : i \in 1..n}
  /\ \A s \in Slots : (\A i \in 1..n : place[i] # s) => worker'[s] = w[s]
  /\ \A i \in 1..n : worker'[place[i]] = StartWorker(q[i])
  /\ DOMAIN worker' = Slots /\ worker' = [s \in Slots |-> worker'[s]]

\* What the loop of scheduleSessionJobs does.
LEMMA ScheduleMoves ==
  ASSUME NEW q \in Seq(Jobs), NEW w, NEW act, maxConcurrent' \in Limits, Schedule(q, w, act)
  PROVE  \E n \in 0..Len(q) : \E place \in [1..n -> {s \in Slots : w[s].pc = "idle"}] :
           Moves(q, w, act, n, place)
<1> DEFINE free == {s \in Slots : w[s].pc = "idle"}
           n == StartCount(Len(q), Cardinality(Slots \ free))
<1>1. n \in 0..Len(q)
  <2>1. Cardinality(Slots \ free) \in Nat
    BY LimitsType, FS_Difference, FS_CardinalityType
  <2>2. Len(q) \in Nat /\ maxConcurrent' \in Nat
    BY LimitsType
  <2> QED  BY <2>1, <2>2, StartCountType
<1>2. /\ pending' = SubSeq(q, n + 1, Len(q))
      /\ active' = act \cup {q[i] : i \in 1..n}
  BY DEF Schedule
<1>3. PICK place \in Injection(1..n, free) :
        worker' = [s \in Slots |-> IF \E i \in 1..n : place[i] = s
                                   THEN StartWorker(q[CHOOSE i \in 1..n : place[i] = s])
                                   ELSE w[s]]
  BY DEF Schedule
<1> HIDE DEF n
<1>4. place \in [1..n -> free] /\ IsInjective(place) /\ DOMAIN place = 1..n
  BY <1>3 DEF Injection
<1>5. \A s \in Slots : (\A i \in 1..n : place[i] # s) => worker'[s] = w[s]
  BY <1>3
<1>6. ASSUME NEW i \in 1..n
      PROVE  worker'[place[i]] = StartWorker(q[i])
  <2>1. place[i] \in Slots
    BY <1>4
  <2>2. (CHOOSE k \in 1..n : place[k] = place[i]) = i
    BY <1>4 DEF IsInjective
  <2>3. worker'[place[i]] = StartWorker(q[CHOOSE k \in 1..n : place[k] = place[i]])
    BY <1>3, <2>1
  <2> QED  BY <2>2, <2>3
<1>7. DOMAIN worker' = Slots /\ worker' = [s \in Slots |-> worker'[s]]
  BY <1>3
<1>8. Moves(q, w, act, n, place)
  BY <1>2, <1>4, <1>5, <1>6, <1>7 DEF Moves
<1> QED  BY <1>1, <1>4, <1>8

\* The rest of the queue after n entries were shifted off.
LEMMA RestOfQueue ==
  ASSUME NEW q \in Seq(Jobs), NEW n \in 0..Len(q)
  PROVE  /\ SubSeq(q, n + 1, Len(q)) \in Seq(Jobs)
         /\ DOMAIN SubSeq(q, n + 1, Len(q)) = 1..(Len(q) - n)
         /\ \A k \in 1..(Len(q) - n) :
              SubSeq(q, n + 1, Len(q))[k] = q[k + n] /\ k + n \in 1..Len(q) /\ k + n > n
<1>1. /\ SubSeq(q, n + 1, Len(q)) \in Seq(Jobs)
      /\ DOMAIN SubSeq(q, n + 1, Len(q)) = 1..(Len(q) - n)
  BY SMT
<1>2. \A k \in 1..(Len(q) - n) : SubSeq(q, n + 1, Len(q))[k] = q[k + n]
  BY SMT
<1>3. Len(q) \in Nat
  OBVIOUS
<1> QED  BY <1>1, <1>2, <1>3

\* scheduleSessionJobs touches idle slots only, and takes no key away.
LEMMA ScheduleType ==
  ASSUME NEW q \in Seq(Jobs), NEW w \in [Slots -> WorkerRecord], NEW act \in SUBSET Jobs,
         maxConcurrent' \in Limits, job' \in [Jobs -> JobRecord], Schedule(q, w, act)
  PROVE  /\ pending' \in Seq(Jobs)
         /\ active' \in SUBSET Jobs /\ act \subseteq active'
         /\ worker' \in [Slots -> WorkerRecord]
         /\ \A s \in Slots : \/ worker'[s] = w[s]
                             \/ w[s].pc = "idle" /\ worker'[s].pc = "prelude"
<1>0. PICK n \in 0..Len(q) : \E place \in [1..n -> {s \in Slots : w[s].pc = "idle"}] :
        Moves(q, w, act, n, place)
  BY ScheduleMoves
<1>1. PICK place \in [1..n -> {s \in Slots : w[s].pc = "idle"}] :
        /\ IsInjective(place)
        /\ pending' = SubSeq(q, n + 1, Len(q))
        /\ active' = act \cup {q[i] : i \in 1..n}
        /\ \A s \in Slots : (\A i \in 1..n : place[i] # s) => worker'[s] = w[s]
        /\ \A i \in 1..n : worker'[place[i]] = StartWorker(q[i])
        /\ DOMAIN worker' = Slots /\ worker' = [s \in Slots |-> worker'[s]]
  BY <1>0 DEF Moves
<1>2. \A i \in 1..n : q[i] \in Jobs
  OBVIOUS
<1>3. ASSUME NEW s \in Slots
      PROVE  /\ worker'[s] \in WorkerRecord
             /\ \/ worker'[s] = w[s]
                \/ w[s].pc = "idle" /\ worker'[s].pc = "prelude"
  <2>1. CASE \A i \in 1..n : place[i] # s
    BY <1>1, <2>1
  <2>2. CASE \E i \in 1..n : place[i] = s
    <3>1. PICK i \in 1..n : place[i] = s
      BY <2>2
    <3>2. worker'[s] = StartWorker(q[i]) /\ w[s].pc = "idle"
      BY <1>1, <3>1
    <3> QED  BY <1>2, <3>2, StartWorkerType
  <2> QED  BY <2>1, <2>2
<1>4. worker' \in [Slots -> WorkerRecord]
  BY <1>1, <1>3
<1>5. pending' \in Seq(Jobs)
  BY <1>1, RestOfQueue
<1>6. active' \in SUBSET Jobs /\ act \subseteq active'
  BY <1>1, <1>2
<1> QED  BY <1>3, <1>4, <1>5, <1>6

\* scheduleSessionJobs keeps the queue consistent: the jobs it starts leave the
\* queue, and get a worker of their own.
LEMMA ScheduleConsistent ==
  ASSUME NEW q \in Seq(Jobs), NEW w \in [Slots -> WorkerRecord], NEW act \in SUBSET Jobs,
         maxConcurrent' \in Limits, job' \in [Jobs -> JobRecord], Schedule(q, w, act),
         Consistent(q, w, act)
  PROVE  Consistent(pending', worker', active')
<1>0. PICK n \in 0..Len(q) : \E place \in [1..n -> {s \in Slots : w[s].pc = "idle"}] :
        Moves(q, w, act, n, place)
  BY ScheduleMoves
<1>1. PICK place \in [1..n -> {s \in Slots : w[s].pc = "idle"}] :
        /\ IsInjective(place)
        /\ pending' = SubSeq(q, n + 1, Len(q))
        /\ active' = act \cup {q[i] : i \in 1..n}
        /\ \A s \in Slots : (\A i \in 1..n : place[i] # s) => worker'[s] = w[s]
        /\ \A i \in 1..n : worker'[place[i]] = StartWorker(q[i])
        /\ DOMAIN worker' = Slots /\ worker' = [s \in Slots |-> worker'[s]]
  BY <1>0 DEF Moves
<1>2. /\ n \in Nat /\ Len(q) \in Nat /\ DOMAIN q = 1..Len(q)
      /\ \A i \in 1..n : i \in 1..Len(q) /\ q[i] \in Jobs /\ q[i] \in Range(q)
  BY DEF Range
<1>3. \A i, k \in 1..Len(q) : q[i] = q[k] => i = k
  BY <1>2 DEF Consistent, IsInjective
<1>4. IsInjective(pending')
  BY <1>1, <1>2, <1>3, RestOfQueue DEF IsInjective
<1>5. active' \cap Range(pending') = {}
  <2> SUFFICES ASSUME NEW k \in 1..(Len(q) - n), q[k + n] \in active'
               PROVE  FALSE
    BY <1>1, RestOfQueue DEF Range
  <2>1. k + n \in 1..Len(q) /\ k + n > n
    BY RestOfQueue
  <2>2. q[k + n] \in Range(q)
    BY <1>2, <2>1 DEF Range
  <2>3. q[k + n] \notin act
    BY <2>2 DEF Consistent
  <2>4. PICK i \in 1..n : q[k + n] = q[i]
    BY <1>1, <2>3
  <2>5. k + n = i
    BY <1>2, <1>3, <2>1, <2>4
  <2> QED  BY <1>2, <2>1, <2>5
<1>6. ASSUME NEW s \in Slots, worker'[s].pc # "idle"
      PROVE  \/ \E i \in 1..n : place[i] = s /\ worker'[s].job = q[i]
             \/ worker'[s] = w[s]
  <2>1. CASE \A i \in 1..n : place[i] # s
    BY <1>1, <2>1
  <2>2. CASE \E i \in 1..n : place[i] = s
    <3>1. PICK i \in 1..n : place[i] = s
      BY <2>2
    <3> QED  BY <1>1, <1>2, <3>1, StartWorkerType
  <2> QED  BY <2>1, <2>2
<1>7. \A s \in Slots : worker'[s].pc # "idle" => worker'[s].job \in active'
  BY <1>1, <1>6 DEF Consistent
<1>8. ASSUME NEW s \in Slots, NEW t \in Slots, worker'[s].pc # "idle", worker'[t].pc # "idle",
             worker'[s].job = worker'[t].job
      PROVE  s = t
  <2>1. CASE worker'[s] = w[s] /\ worker'[t] = w[t]
    BY <1>8, <2>1 DEF Consistent
  <2>2. ASSUME NEW i \in 1..n, place[i] = s, worker'[s].job = q[i], worker'[t] = w[t]
        PROVE  FALSE
    <3>1. q[i] \in act
      BY <1>8, <2>2 DEF Consistent
    <3> QED  BY <1>2, <3>1 DEF Consistent
  <2>3. ASSUME NEW i \in 1..n, place[i] = t, worker'[t].job = q[i], worker'[s] = w[s]
        PROVE  FALSE
    <3>1. q[i] \in act
      BY <1>8, <2>3 DEF Consistent
    <3> QED  BY <1>2, <3>1 DEF Consistent
  <2>4. ASSUME NEW i \in 1..n, NEW k \in 1..n, place[i] = s, worker'[s].job = q[i],
               place[k] = t, worker'[t].job = q[k]
        PROVE  s = t
    BY <1>2, <1>3, <1>8, <2>4
  <2> QED  BY <1>6, <1>8, <2>1, <2>2, <2>3, <2>4
<1> QED  BY <1>4, <1>5, <1>7, <1>8 DEF Consistent
-----------------------------------------------------------------------------
(* Types *)

\* The part of TypeOK about the variables scheduleSessionJobs and its callers
\* assign together.
QueueTypes ==
  /\ pending \in Seq(Jobs) /\ order \in Seq(Jobs)
  /\ active \subseteq Jobs /\ requeue \subseteq Jobs
  /\ worker \in [Slots -> WorkerRecord]

\* A job added to the end of a list is one of its elements.
LEMMA AppendJob ==
  ASSUME NEW q \in Seq(Jobs), NEW j \in Jobs
  PROVE  /\ Append(q, j) \in Seq(Jobs)
         /\ Range(Append(q, j)) = Range(q) \cup {j}
         /\ IsInjective(q) /\ j \notin Range(q) => IsInjective(Append(q, j))
<1>1. /\ Append(q, j) \in Seq(Jobs) /\ DOMAIN Append(q, j) = 1..(Len(q) + 1)
      /\ \A k \in 1..Len(q) : Append(q, j)[k] = q[k]
      /\ Append(q, j)[Len(q) + 1] = j
  BY SMT
<1>2. Len(q) \in Nat /\ DOMAIN q = 1..Len(q)
  OBVIOUS
<1>3. \A k \in 1..(Len(q) + 1) : k \in 1..Len(q) \/ k = Len(q) + 1
  BY <1>2
<1>4. 1..Len(q) \subseteq 1..(Len(q) + 1) /\ Len(q) + 1 \in 1..(Len(q) + 1)
  BY <1>2
<1>5. Range(Append(q, j)) = Range(q) \cup {j}
  BY <1>1, <1>2, <1>3, <1>4 DEF Range
<1>6. IsInjective(q) /\ j \notin Range(q) => IsInjective(Append(q, j))
  BY <1>1, <1>2, <1>3, <1>4 DEF Range, IsInjective
<1> QED  BY <1>1, <1>5, <1>6

\* A queue with a job appended to it and sorted, started from.
LEMMA AppendedType ==
  ASSUME NEW p \in Seq(Jobs), NEW ord, NEW q \in SortPending(p, ord),
         NEW w \in [Slots -> WorkerRecord], NEW act \in SUBSET Jobs,
         maxConcurrent' \in Limits, job' \in [Jobs -> JobRecord], Schedule(q, w, act)
  PROVE  /\ pending' \in Seq(Jobs) /\ active' \subseteq Jobs /\ act \subseteq active'
         /\ worker' \in [Slots -> WorkerRecord]
<1>1. q \in Seq(Jobs)
  BY SortPendingProperties
<1> QED  BY <1>1, ScheduleType

\* enqueueSessionJob, resumeSessionJob and the calls that push a job keep the
\* types: they append a job to the queue, sort it and start what they can.
LEMMA EnqueueType ==
  ASSUME TypeOK, NEW j \in Jobs, maxConcurrent' \in Limits, job' \in [Jobs -> JobRecord],
         Enqueue(j)
  PROVE  QueueTypes' /\ active \subseteq active' /\ requeue' \subseteq requeue \cup active
<1>1. order' \in Seq(Jobs)
  BY AppendJob DEF TypeOK, Enqueue
<1>2. CASE j \in active
  BY <1>1, <1>2 DEF TypeOK, QueueTypes, Enqueue, schedVars
<1>3. CASE j \notin active
  <2> DEFINE p == IF j \in Range(pending) THEN pending ELSE Append(pending, j)
  <2>1. requeue' = requeue /\ p \in Seq(Jobs)
    BY <1>3, AppendJob DEF TypeOK, Enqueue
  <2>2. PICK q \in SortPending(p, order') : Schedule(q, worker, active)
    BY <1>3 DEF Enqueue
  <2> HIDE DEF p
  <2> QED  BY <1>1, <2>1, <2>2, AppendedType DEF TypeOK, QueueTypes
<1> QED  BY <1>2, <1>3

\* So do confirmSessionJob and selectTorrentFiles, which append unconditionally.
LEMMA PushType ==
  ASSUME TypeOK, NEW j \in Jobs, maxConcurrent' \in Limits, job' \in [Jobs -> JobRecord],
         order' = order, Push(j)
  PROVE  QueueTypes' /\ active \subseteq active' /\ requeue' \subseteq requeue \cup active
<1>1. CASE j \in active
  BY <1>1 DEF TypeOK, QueueTypes, Push, schedVars
<1>2. CASE j \notin active
  <2>1. requeue' = requeue /\ Append(pending, j) \in Seq(Jobs)
    BY <1>2, AppendJob DEF TypeOK, Push
  <2>2. PICK q \in SortPending(Append(pending, j), order) : Schedule(q, worker, active)
    BY <1>2 DEF Push
  <2> QED  BY <2>1, <2>2, AppendedType DEF TypeOK, QueueTypes
<1> QED  BY <1>1, <1>2

\* And resumeSessionJob.
LEMMA ResumeType ==
  ASSUME TypeOK, NEW j \in Jobs, Resume(j), job' \in [Jobs -> JobRecord]
  PROVE  QueueTypes' /\ active \subseteq active' /\ requeue' \subseteq requeue \cup active
<1>1. maxConcurrent' \in Limits /\ order' \in Seq(Jobs)
  BY DEF TypeOK, Resume
<1>2. CASE j \in active
  <2>1. requeue' = requeue \cup {j} /\ Schedule(pending, worker, active)
    BY <1>2 DEF Resume
  <2>2. pending \in Seq(Jobs) /\ worker \in [Slots -> WorkerRecord] /\ active \in SUBSET Jobs
    BY DEF TypeOK
  <2>3. /\ pending' \in Seq(Jobs) /\ active' \in SUBSET Jobs /\ active \subseteq active'
        /\ worker' \in [Slots -> WorkerRecord]
    BY <1>1, <2>1, <2>2, ScheduleType
  <2> QED  BY <1>1, <1>2, <2>1, <2>3 DEF TypeOK, QueueTypes
<1>3. CASE j \notin active
  <2> DEFINE p == IF j \in Range(pending) THEN pending ELSE Append(pending, j)
  <2>1. requeue' = requeue /\ p \in Seq(Jobs)
    BY <1>3, AppendJob DEF TypeOK, Resume
  <2>2. PICK q \in SortPending(p, order) : Schedule(q, worker, active)
    BY <1>3 DEF Resume
  <2> HIDE DEF p
  <2> QED  BY <1>1, <2>1, <2>2, AppendedType DEF TypeOK, QueueTypes
<1> QED  BY <1>2, <1>3

\* Aborting a controller only sets the flag of a worker.
LEMMA AbortingType ==
  ASSUME TypeOK, NEW js
  PROVE  /\ Aborting(js) \in [Slots -> WorkerRecord]
         /\ \A s \in Slots : Aborting(js)[s].pc = worker[s].pc /\ Aborting(js)[s].job = worker[s].job
<1>1. ASSUME NEW s \in Slots
      PROVE  /\ Aborting(js)[s] \in WorkerRecord
             /\ Aborting(js)[s].pc = worker[s].pc /\ Aborting(js)[s].job = worker[s].job
  <2>1. worker[s] \in WorkerRecord
    BY DEF TypeOK
  <2>2. Aborting(js)[s] \in {worker[s], [worker[s] EXCEPT !.aborted = TRUE]}
    BY DEF Aborting
  <2> QED  BY <2>1, <2>2 DEF WorkerRecord
<1>2. Aborting(js) = [s \in Slots |-> Aborting(js)[s]]
  BY DEF Aborting
<1> QED  BY <1>1, <1>2


\* The end of a worker takes its job's marks away with its key, and starts
\* what the freed slot allows.
LEMMA FinishType ==
  ASSUME TypeOK, NEW s \in Slots, job' \in [Jobs -> JobRecord], Finish(s)
  PROVE  TypeOK' /\ (MarksAreActive => MarksAreActive')
<1> DEFINE j == worker[s].job
           ended == [worker EXCEPT ![s] = IdleWorker]
           queues == IF j \in requeue THEN SortPending(Append(pending, j), order) ELSE {pending}
<1>1. /\ pausing' = pausing \ {j} /\ requeue' = requeue \ {j}
      /\ UNCHANGED <<order, maxConcurrent, stopping, storeVars>>
  BY DEF Finish
<1>2. controller' \in [Jobs -> Slots \cup {NoSlot}]
  BY DEF Finish, TypeOK
<1>3. PICK q \in queues : Schedule(q, ended, active \ {j})
  BY DEF Finish
<1>4. q \in Seq(Jobs)
  <2>1. pending \in Seq(Jobs) /\ requeue \subseteq Jobs
    BY DEF TypeOK
  <2>2. CASE j \in requeue
    <3>1. Append(pending, j) \in Seq(Jobs) /\ q \in SortPending(Append(pending, j), order)
      BY <1>3, <2>1, <2>2, AppendJob
    <3> QED  BY <3>1, SortPendingProperties
  <2>3. CASE j \notin requeue
    BY <1>3, <2>1, <2>3
  <2> QED  BY <2>2, <2>3
<1>5. ended \in [Slots -> WorkerRecord]
  BY DEF TypeOK, IdleWorker, WorkerRecord, Phases
<1>6. active \ {j} \in SUBSET Jobs /\ maxConcurrent' \in Limits
  BY <1>1 DEF TypeOK
<1> HIDE DEF ended, queues
<1>7. /\ pending' \in Seq(Jobs) /\ active' \in SUBSET Jobs /\ active \ {j} \subseteq active'
      /\ worker' \in [Slots -> WorkerRecord]
  BY <1>3, <1>4, <1>5, <1>6, ScheduleType
<1>8. TypeOK'
  BY <1>1, <1>2, <1>6, <1>7 DEF TypeOK, storeVars
<1>9. MarksAreActive => MarksAreActive'
  BY <1>1, <1>7 DEF MarksAreActive
<1> QED  BY <1>8, <1>9

\* Every job, restored or not, starts with fields of the right types.
LEMMA InitTypes == Init => TypeOK /\ MarksAreActive
<1> SUFFICES ASSUME Init PROVE TypeOK /\ MarksAreActive
  OBVIOUS
<1>1. order \in Seq(Jobs)
  <2>1. Cardinality(Restored) \in Nat /\ Restored \subseteq Jobs
    BY QueueConstants, FS_Subset, FS_CardinalityType
  <2>2. order \in [1..Cardinality(Restored) -> Restored]
    BY DEF Init, Bijection, Injection
  <2> QED  BY <2>1, <2>2
<1>2. pending \in Seq(Jobs)
  <2>1. <<>> \in Seq(Jobs) /\ pending = <<>>
    BY EmptySeq DEF Init
  <2> QED  BY <2>1
<1>3. job \in [Jobs -> JobRecord]
  <2>1. CreateJob \in JobRecord
    BY DEF CreateJob, JobRecord, Statuses
  <2>2. [CreateJob EXCEPT !.status = "paused"] \in JobRecord
    BY <2>1 DEF JobRecord, Statuses
  <2>3. [CreateJob EXCEPT !.status = "paused", !.canResume = TRUE] \in JobRecord
    BY <2>2 DEF JobRecord
  <2>4. \A b \in BOOLEAN : [CreateJob EXCEPT !.status = "paused", !.canResume = TRUE,
                                             !.selected = b] \in JobRecord
    BY <2>3 DEF JobRecord
  <2>5. \A j \in Jobs : (j \in Torrents) \in BOOLEAN
    OBVIOUS
  <2>6. ASSUME NEW j \in Jobs PROVE job[j] \in JobRecord
    <3>1. job[j] = IF j \in Restored
                   THEN [CreateJob EXCEPT !.status = "paused", !.canResume = TRUE,
                                          !.selected = j \in Torrents]
                   ELSE CreateJob
      BY DEF Init
    <3> QED  BY <2>1, <2>4, <2>5, <3>1
  <2>7. job = [j \in Jobs |-> job[j]]
    BY DEF Init
  <2> QED  BY <2>6, <2>7
<1>4. worker \in [Slots -> WorkerRecord]
  BY DEF Init, IdleWorker, WorkerRecord, Phases
<1>5. controller \in [Jobs -> Slots \cup {NoSlot}]
  BY DEF Init
<1>6. store \subseteq Jobs
  BY QueueConstants DEF Init
<1> QED  BY <1>1, <1>2, <1>3, <1>4, <1>5, <1>6 DEF Init, TypeOK, MarksAreActive

\* Writing a field of one job keeps every job's fields of the right types.
LEMMA FieldTypes ==
  ASSUME NEW jb \in [Jobs -> JobRecord], NEW j
  PROVE  /\ \A x \in Statuses : [jb EXCEPT ![j].status = x] \in [Jobs -> JobRecord]
         /\ \A b \in BOOLEAN : /\ [jb EXCEPT ![j].pauseRequested = b] \in [Jobs -> JobRecord]
                              /\ [jb EXCEPT ![j].canPause = b] \in [Jobs -> JobRecord]
                              /\ [jb EXCEPT ![j].canResume = b] \in [Jobs -> JobRecord]
                              /\ [jb EXCEPT ![j].verified = b] \in [Jobs -> JobRecord]
                              /\ [jb EXCEPT ![j].archive = b] \in [Jobs -> JobRecord]
<1>1. \A x \in Statuses : [jb EXCEPT ![j].status = x] \in [Jobs -> JobRecord]
  BY DEF JobRecord
<1>2. \A b \in BOOLEAN : [jb EXCEPT ![j].pauseRequested = b] \in [Jobs -> JobRecord]
  BY DEF JobRecord
<1>3. \A b \in BOOLEAN : [jb EXCEPT ![j].canPause = b] \in [Jobs -> JobRecord]
  BY DEF JobRecord
<1>4. \A b \in BOOLEAN : [jb EXCEPT ![j].canResume = b] \in [Jobs -> JobRecord]
  BY DEF JobRecord
<1>5. \A b \in BOOLEAN : [jb EXCEPT ![j].verified = b] \in [Jobs -> JobRecord]
  BY DEF JobRecord
<1>6. \A b \in BOOLEAN : [jb EXCEPT ![j].archive = b] \in [Jobs -> JobRecord]
  BY DEF JobRecord
<1> QED  BY <1>1, <1>2, <1>3, <1>4, <1>5, <1>6

\* The calls that put a job in the queue.
LEMMA QueueingTypes ==
  ASSUME TypeOK, NEW j \in Jobs,
         \/ \E confirmOversize \in BOOLEAN : Submit(j, confirmOversize)
         \/ Retry(j) \/ Resume(j) \/ Confirm(j) \/ SelectTorrentFiles(j) \/ SelectArchiveFiles(j)
  PROVE  TypeOK' /\ (MarksAreActive => MarksAreActive')
<1>1. job \in [Jobs -> JobRecord]
  BY DEF TypeOK
<1>2. /\ UNCHANGED <<pausing, maxConcurrent, stopping, controller, removing>>
      /\ store' \subseteq Jobs /\ maxConcurrent' \in Limits
  BY DEF TypeOK, Submit, Retry, Resume, Confirm, SelectTorrentFiles, SelectArchiveFiles, storeVars
<1>3. job' \in [Jobs -> JobRecord]
  BY <1>1 DEF Submit, Retry, Resume, Confirm, SelectTorrentFiles, SelectArchiveFiles,
               JobRecord, Statuses
<1>4. QueueTypes' /\ active \subseteq active' /\ requeue' \subseteq requeue \cup active
  <2>1. CASE \/ \E confirmOversize \in BOOLEAN : Submit(j, confirmOversize)
             \/ Retry(j) \/ SelectArchiveFiles(j)
    BY <1>2, <1>3, <2>1, EnqueueType DEF Submit, Retry, SelectArchiveFiles
  <2>2. CASE Confirm(j) \/ SelectTorrentFiles(j)
    BY <1>2, <1>3, <2>2, PushType DEF Confirm, SelectTorrentFiles
  <2>3. CASE Resume(j)
    BY <1>3, <2>3, ResumeType
  <2> QED  BY <2>1, <2>2, <2>3
<1>5. TypeOK'
  BY <1>2, <1>3, <1>4 DEF TypeOK, QueueTypes
<1>6. MarksAreActive => MarksAreActive'
  BY <1>2, <1>4 DEF MarksAreActive
<1> QED  BY <1>5, <1>6

\* The pauseJob callback writes three fields of its job.
LEMMA PauseJobType ==
  ASSUME job \in [Jobs -> JobRecord], NEW j, PauseJob(j)
  PROVE  job' \in [Jobs -> JobRecord]
<1> DEFINE asked == [job EXCEPT ![j].pauseRequested = TRUE]
           paused == [asked EXCEPT ![j].status = "paused"]
<1>1. asked \in [Jobs -> JobRecord]
  BY FieldTypes
<1>2. paused \in [Jobs -> JobRecord]
  BY <1>1, FieldTypes DEF Statuses
<1>3. job' = [paused EXCEPT ![j].canPause = FALSE]
  BY DEF PauseJob
<1> HIDE DEF paused
<1> QED  BY <1>2, <1>3, FieldTypes

\* The calls that take a job out of the queue or stop its worker.
LEMMA StoppingTypes ==
  ASSUME TypeOK,
         Stop \/ \E j \in Jobs : Cancel(j) \/ Pause(j) \/ RemoveJob(j) \/ FinishRemove(j)
  PROVE  TypeOK' /\ (MarksAreActive => MarksAreActive')
<1>1. job \in [Jobs -> JobRecord] /\ pending \in Seq(Jobs) /\ order \in Seq(Jobs)
  BY DEF TypeOK
<1>2. CASE Stop
  <2>1. job' \in [Jobs -> JobRecord]
    BY <1>1, <1>2 DEF Stop, JobRecord
  <2> QED  BY <1>2, <2>1, AbortingType DEF Stop, TypeOK, MarksAreActive, storeVars
<1>3. ASSUME NEW j \in Jobs, Cancel(j)
      PROVE  TypeOK' /\ (MarksAreActive => MarksAreActive')
  <2> DEFINE noPause == [job EXCEPT ![j].pauseRequested = FALSE]
             cancelled == [noPause EXCEPT ![j].status = "cancelled"]
  <2>a. noPause \in [Jobs -> JobRecord]
    BY <1>1, FieldTypes
  <2>b. cancelled \in [Jobs -> JobRecord]
    BY <2>a, FieldTypes DEF Statuses
  <2>c. job' = [cancelled EXCEPT ![j].canPause = FALSE]
    BY <1>3 DEF Cancel
  <2> HIDE DEF cancelled
  <2>1. job' \in [Jobs -> JobRecord]
    BY <2>b, <2>c, FieldTypes
  <2>2. pending' \in Seq(Jobs)
    BY <1>1, <1>3, WithoutProperties DEF Cancel
  <2> QED  BY <1>3, <2>1, <2>2, AbortingType DEF Cancel, TypeOK, MarksAreActive, storeVars
<1>4. ASSUME NEW j \in Jobs, Pause(j)
      PROVE  TypeOK' /\ (MarksAreActive => MarksAreActive')
  <2>1. job' \in [Jobs -> JobRecord]
    BY <1>1, <1>4, PauseJobType DEF Pause
  <2> QED  BY <1>4, <2>1, AbortingType DEF Pause, PauseJob, TypeOK, MarksAreActive, storeVars
<1>5. ASSUME NEW j \in Jobs, RemoveJob(j)
      PROVE  TypeOK' /\ (MarksAreActive => MarksAreActive')
  <2>1. job' \in [Jobs -> JobRecord]
    BY <1>1, <1>5 DEF RemoveJob, CreateJob, JobRecord, Statuses
  <2>2. order' \in Seq(Jobs)
    BY <1>1, <1>5, WithoutProperties DEF RemoveJob
  <2> QED  BY <1>5, <2>1, <2>2 DEF RemoveJob, TypeOK, MarksAreActive, schedVars
<1>6. ASSUME NEW j \in Jobs, FinishRemove(j)
      PROVE  TypeOK' /\ (MarksAreActive => MarksAreActive')
  <2>1. job' \in [Jobs -> JobRecord]
    BY <1>1, <1>6 DEF FinishRemove, CreateJob, JobRecord, Statuses
  <2> QED  BY <1>6, <2>1 DEF FinishRemove, TypeOK, MarksAreActive, schedVars
<1> QED  BY <1>2, <1>3, <1>4, <1>5, <1>6

\* A new order of the jobs is a list of jobs again, and a new limit a limit.
LEMMA OrderingTypes ==
  ASSUME TypeOK,
         \/ \E ord \in Bijection(DOMAIN order, Range(order)) : Reorder(ord)
         \/ \E n \in Limits : SetLimit(n)
  PROVE  TypeOK' /\ (MarksAreActive => MarksAreActive')
<1>1. /\ job \in [Jobs -> JobRecord] /\ pending \in Seq(Jobs) /\ order \in Seq(Jobs)
      /\ worker \in [Slots -> WorkerRecord] /\ active \in SUBSET Jobs
  BY DEF TypeOK
<1>2. ASSUME NEW n \in Limits, SetLimit(n)
      PROVE  TypeOK' /\ (MarksAreActive => MarksAreActive')
  <2>1. maxConcurrent' \in Limits /\ job' \in [Jobs -> JobRecord] /\ Schedule(pending, worker, active)
    BY <1>1, <1>2 DEF SetLimit
  <2>2. /\ pending' \in Seq(Jobs) /\ active' \in SUBSET Jobs /\ active \subseteq active'
        /\ worker' \in [Slots -> WorkerRecord]
    BY <1>1, <2>1, ScheduleType
  <2> QED  BY <1>2, <2>1, <2>2 DEF SetLimit, TypeOK, MarksAreActive, storeVars
<1>3. ASSUME NEW ord \in Bijection(DOMAIN order, Range(order)), Reorder(ord)
      PROVE  TypeOK' /\ (MarksAreActive => MarksAreActive')
  <2>1. order' \in Seq(Jobs)
    <3>1. ord \in [1..Len(order) -> Range(order)] /\ Len(order) \in Nat
      BY <1>1 DEF Bijection, Injection
    <3>2. Range(order) \subseteq Jobs
      BY <1>1, RangeInJobs
    <3> QED  BY <1>3, <3>1, <3>2 DEF Reorder
  <2>2. PICK q \in SortPending(pending, ord) :
          /\ pending' = q
          /\ \/ UNCHANGED <<job, worker, pausing, requeue>>
             \/ \E j \in Preemptible(q, ord) : requeue' = requeue \cup {j} /\ PauseJob(j)
    BY <1>3 DEF Reorder
  <2>3. pending' \in Seq(Jobs)
    BY <1>1, <2>2, SortPendingProperties
  <2>4. UNCHANGED <<active, maxConcurrent, stopping, controller, store, removing>>
    BY <1>3 DEF Reorder, storeVars
  <2>5. CASE UNCHANGED <<job, worker, pausing, requeue>>
    BY <2>1, <2>3, <2>4, <2>5 DEF TypeOK, MarksAreActive
  <2>6. ASSUME NEW j \in Preemptible(q, ord), requeue' = requeue \cup {j}, PauseJob(j)
        PROVE  TypeOK' /\ (MarksAreActive => MarksAreActive')
    <3>1. j \in active /\ j \in Jobs
      BY <1>1 DEF Preemptible
    <3>2. job' \in [Jobs -> JobRecord]
      BY <1>1, <2>6, PauseJobType
    <3> QED  BY <2>1, <2>3, <2>4, <2>6, <3>1, <3>2, AbortingType
             DEF PauseJob, TypeOK, MarksAreActive
  <2> QED  BY <2>2, <2>5, <2>6
<1> QED  BY <1>2, <1>3

\* A worker that goes on to its next await.
LEMMA GotoType ==
  ASSUME TypeOK, NEW s \in Slots, NEW pc \in Phases, Goto(s, pc),
         job' \in [Jobs -> JobRecord], controller' \in [Jobs -> Slots \cup {NoSlot}]
  PROVE  TypeOK' /\ (MarksAreActive => MarksAreActive')
<1>1. worker' \in [Slots -> WorkerRecord]
  BY DEF TypeOK, Goto, WorkerRecord
<1> QED  BY <1>1 DEF TypeOK, Goto, MarksAreActive, storeVars

\* A worker that ends at an abort.
LEMMA AbortedType ==
  ASSUME TypeOK, NEW s \in Slots, NEW jb \in [Jobs -> JobRecord], Aborted(s, jb)
  PROVE  TypeOK' /\ (MarksAreActive => MarksAreActive')
<1> DEFINE j == worker[s].job
           paused == [jb EXCEPT ![j].status = "paused"]
           stopped == [paused EXCEPT ![j].canPause = FALSE]
<1>1. paused \in [Jobs -> JobRecord]
  BY FieldTypes DEF Statuses
<1>2. stopped \in [Jobs -> JobRecord]
  BY <1>1, FieldTypes
<1>3. \/ job' = [stopped EXCEPT ![j].pauseRequested = FALSE]
      \/ job' = [jb EXCEPT ![j].status = "cancelled"]
  BY DEF Aborted
<1> HIDE DEF stopped, j
<1>4. job' \in [Jobs -> JobRecord]
  <2>1. [stopped EXCEPT ![j].pauseRequested = FALSE] \in [Jobs -> JobRecord]
    BY <1>2, FieldTypes
  <2>2. [jb EXCEPT ![j].status = "cancelled"] \in [Jobs -> JobRecord]
    BY FieldTypes DEF Statuses
  <2> QED  BY <1>3, <2>1, <2>2
<1>5. Finish(s)
  BY DEF Aborted
<1> QED  BY <1>4, <1>5, FinishType

\* A worker that ends asking for a confirmation.
LEMMA AskConfirmationType ==
  ASSUME TypeOK, NEW s \in Slots, NEW jb \in [Jobs -> JobRecord], AskConfirmation(s, jb)
  PROVE  TypeOK' /\ (MarksAreActive => MarksAreActive')
<1>1. job' \in [Jobs -> JobRecord]
  BY FieldTypes DEF AskConfirmation, Statuses
<1>2. Finish(s)
  BY DEF AskConfirmation
<1> QED  BY <1>1, <1>2, FinishType

\* Every step of a worker.
LEMMA WorkerStepTypes ==
  ASSUME TypeOK, NEW s \in Slots, WorkerStep(s)
  PROVE  TypeOK' /\ (MarksAreActive => MarksAreActive')
<1> DEFINE j == worker[s].job
<1>1. /\ job \in [Jobs -> JobRecord] /\ controller \in [Jobs -> Slots \cup {NoSlot}]
      /\ \A pc \in {"probe", "setup", "transfer", "publish"} : pc \in Phases
  BY DEF TypeOK, Phases
<1>2. CASE Begin(s)
  <2> DEFINE asked == [job EXCEPT ![j].pauseRequested = FALSE]
             status == IF j \notin Torrents /\ ~job[j].verified THEN "downloading"
                       ELSE asked[j].status
  <2>1. asked \in [Jobs -> JobRecord]
    BY <1>1, FieldTypes
  <2>2. job' = [asked EXCEPT ![j].status = status]
    BY <1>2 DEF Begin
  <2>3. CASE j \in Jobs
    <3>1. status \in Statuses
      BY <2>1, <2>3 DEF JobRecord, Statuses
    <3>2. job' \in [Jobs -> JobRecord]
      BY <2>1, <2>2, <3>1, FieldTypes
    <3>3. controller' \in [Jobs -> Slots \cup {NoSlot}]
      BY <1>1, <1>2 DEF Begin
    <3> QED  BY <1>1, <1>2, <3>2, <3>3, GotoType DEF Begin
  <2>4. CASE j \notin Jobs
    <3>1. job' = asked
      BY <2>1, <2>2, <2>4
    <3>2. controller' \in [Jobs -> Slots \cup {NoSlot}]
      BY <1>1, <1>2 DEF Begin
    <3> HIDE DEF asked
    <3> QED  BY <1>1, <1>2, <2>1, <3>1, <3>2, GotoType DEF Begin
  <2> QED  BY <2>3, <2>4
<1>3. CASE PreludeFails(s)
  BY <1>1, <1>3, FinishType DEF PreludeFails
<1>4. CASE VerifySource(s)
  <2> DEFINE unverified == [job EXCEPT ![j].verified = FALSE]
  <2>1. unverified \in [Jobs -> JobRecord]
    BY <1>1, FieldTypes
  <2>2. CASE /\ job' = [job EXCEPT ![j].verified = FALSE, ![j].status = "downloading"]
             /\ UNCHANGED controller
             /\ Goto(s, "probe")
    <3>1. job' = [unverified EXCEPT ![j].status = "downloading"]
      BY <2>2
    <3> HIDE DEF unverified
    <3>2. job' \in [Jobs -> JobRecord]
      BY <2>1, <3>1, FieldTypes DEF Statuses
    <3> QED  BY <1>1, <2>2, <3>2, GotoType
  <2>3. CASE AskConfirmation(s, job)
    BY <1>1, <2>3, AskConfirmationType
  <2>4. CASE Aborted(s, job)
    BY <1>1, <2>4, AbortedType
  <2>5. CASE UNCHANGED <<controller, job>> /\ Goto(s, "publish")
    BY <1>1, <2>5, GotoType
  <2> QED  BY <1>4, <2>2, <2>3, <2>4, <2>5 DEF VerifySource
<1>5. CASE StartTorrent(s)
  <2> DEFINE pausable == [job EXCEPT ![j].canPause = TRUE]
             resumable == [job EXCEPT ![j].canPause = TRUE, ![j].canResume = TRUE]
  <2>1. pausable \in [Jobs -> JobRecord]
    BY <1>1, FieldTypes
  <2>2. resumable = [pausable EXCEPT ![j].canResume = TRUE]
    OBVIOUS
  <2>3. \/ Aborted(s, resumable)
        \/ /\ job' = [resumable EXCEPT ![j].status = "downloading"]
           /\ UNCHANGED controller
           /\ Goto(s, "probe")
    BY <1>5 DEF StartTorrent
  <2> HIDE DEF pausable, resumable
  <2>4. resumable \in [Jobs -> JobRecord]
    BY <2>1, <2>2, FieldTypes
  <2>5. [resumable EXCEPT ![j].status = "downloading"] \in [Jobs -> JobRecord]
    BY <2>4, FieldTypes DEF Statuses
  <2> QED  BY <1>1, <2>3, <2>4, <2>5, AbortedType, GotoType
<1>6. ASSUME NEW resumable \in BOOLEAN,
               job' = [job EXCEPT ![j].canPause = resumable, ![j].canResume = resumable],
               UNCHANGED controller, Goto(s, "transfer")
       PROVE  TypeOK' /\ (MarksAreActive => MarksAreActive')
  <2> DEFINE pausable == [job EXCEPT ![j].canPause = resumable]
  <2>1. pausable \in [Jobs -> JobRecord]
    BY <1>1, FieldTypes
  <2>2. job' = [pausable EXCEPT ![j].canResume = resumable]
    BY <1>6
  <2> HIDE DEF pausable
  <2>3. job' \in [Jobs -> JobRecord]
    BY <2>1, <2>2, FieldTypes
  <2> QED  BY <1>1, <1>6, <2>3, GotoType
<1>7. CASE ProbeHttp(s)
  <2>1. CASE AskConfirmation(s, job)
    BY <1>1, <2>1, AskConfirmationType
  <2> QED  BY <1>7, <1>6, <2>1 DEF ProbeHttp
<1>8. CASE SaveCheckpoint(s)
  BY <1>6, <1>8 DEF SaveCheckpoint
<1>9. CASE ResolveTorrent(s)
  <2> DEFINE awaiting == [job EXCEPT ![j].status = "awaiting_selection"]
             stopped == [awaiting EXCEPT ![j].canPause = FALSE]
             unpausable == [job EXCEPT ![j].canPause = FALSE]
  <2>1. unpausable \in [Jobs -> JobRecord] /\ awaiting \in [Jobs -> JobRecord]
    BY <1>1, FieldTypes DEF Statuses
  <2>2. \/ job' = [stopped EXCEPT ![j].canResume = FALSE] /\ Finish(s)
        \/ AskConfirmation(s, unpausable)
        \/ UNCHANGED <<controller, job>> /\ Goto(s, "transfer")
    BY <1>9 DEF ResolveTorrent
  <2> HIDE DEF unpausable, awaiting
  <2>3. stopped \in [Jobs -> JobRecord]
    BY <2>1, FieldTypes
  <2>4. [stopped EXCEPT ![j].canResume = FALSE] \in [Jobs -> JobRecord]
    <3> HIDE DEF stopped
    <3> QED  BY <2>3, FieldTypes
  <2>5. CASE job' = [stopped EXCEPT ![j].canResume = FALSE] /\ Finish(s)
    BY <2>4, <2>5, FinishType
  <2>6. CASE AskConfirmation(s, unpausable)
    BY <2>1, <2>6, AskConfirmationType
  <2>7. CASE UNCHANGED <<controller, job>> /\ Goto(s, "transfer")
    BY <1>1, <2>7, GotoType
  <2> QED  BY <2>2, <2>5, <2>6, <2>7
<1>10. CASE TransferDone(s)
  <2> DEFINE hashed == [job EXCEPT ![j].verified = TRUE]
  <2>1. hashed \in [Jobs -> JobRecord] /\ [job EXCEPT ![j].canPause = FALSE] \in [Jobs -> JobRecord]
    BY <1>1, FieldTypes
  <2>2. \/ AskConfirmation(s, hashed) \/ AskConfirmation(s, job)
        \/ /\ job' = hashed \/ job' = [job EXCEPT ![j].canPause = FALSE]
           /\ UNCHANGED controller /\ Goto(s, "publish")
    BY <1>10 DEF TransferDone
  <2> HIDE DEF hashed
  <2>3. CASE AskConfirmation(s, hashed) \/ AskConfirmation(s, job)
    BY <1>1, <2>1, <2>3, AskConfirmationType
  <2>4. CASE /\ job' = hashed \/ job' = [job EXCEPT ![j].canPause = FALSE]
             /\ UNCHANGED controller /\ Goto(s, "publish")
    <3>1. job' \in [Jobs -> JobRecord]
      BY <2>1, <2>4
    <3> QED  BY <1>1, <2>4, <3>1, GotoType
  <2> QED  BY <2>2, <2>3, <2>4
<1>11. CASE Publish(s)
  <2> DEFINE ready == [job EXCEPT ![j].status = "ready"]
             awaiting == [job EXCEPT ![j].status = "awaiting_selection"]
             stopped == [awaiting EXCEPT ![j].canPause = FALSE]
             reviewed == [stopped EXCEPT ![j].canResume = FALSE]
  <2>1. ready \in [Jobs -> JobRecord] /\ awaiting \in [Jobs -> JobRecord]
    BY <1>1, FieldTypes DEF Statuses
  <2>2. /\ \/ job' = [ready EXCEPT ![j].canPause = FALSE]
           \/ job' = [reviewed EXCEPT ![j].archive = TRUE]
        /\ Finish(s)
    BY <1>11 DEF Publish
  <2> HIDE DEF ready, awaiting
  <2>3. stopped \in [Jobs -> JobRecord] /\ [ready EXCEPT ![j].canPause = FALSE] \in [Jobs -> JobRecord]
    BY <2>1, FieldTypes
  <2> HIDE DEF stopped
  <2>4. reviewed \in [Jobs -> JobRecord]
    BY <2>3, FieldTypes
  <2> HIDE DEF reviewed
  <2>5. [reviewed EXCEPT ![j].archive = TRUE] \in [Jobs -> JobRecord]
    BY <2>4, FieldTypes
  <2>6. job' \in [Jobs -> JobRecord]
    BY <2>2, <2>3, <2>5
  <2> QED  BY <2>2, <2>6, FinishType
<1>12. CASE Interrupted(s)
  BY <1>1, <1>12, AbortedType DEF Interrupted
<1>13. CASE Failed(s)
  <2>1. job' \in [Jobs -> JobRecord]
    BY <1>1, <1>13, FieldTypes DEF Failed, Statuses
  <2> QED  BY <1>13, <2>1, FinishType DEF Failed
<1> QED  BY <1>2, <1>3, <1>4, <1>5, <1>7, <1>8, <1>9, <1>10, <1>11, <1>12, <1>13 DEF WorkerStep

\* Every step keeps the types, and with them every mark on an active job.
LEMMA TypesInductive ==
  TypeOK /\ [Next]_vars => TypeOK' /\ (MarksAreActive => MarksAreActive')
<1> SUFFICES ASSUME TypeOK, [Next]_vars
             PROVE  TypeOK' /\ (MarksAreActive => MarksAreActive')
  OBVIOUS
<1>1. CASE UNCHANGED vars
  BY <1>1 DEF vars, TypeOK, MarksAreActive
<1>2. CASE \E j \in Jobs :
             \/ \E confirmOversize \in {FALSE, (j \in Large)} : Submit(j, confirmOversize)
             \/ Retry(j) \/ Resume(j) \/ Confirm(j) \/ SelectTorrentFiles(j)
             \/ SelectArchiveFiles(j)
  <2>1. \A j \in Jobs : {FALSE, (j \in Large)} \subseteq BOOLEAN
    OBVIOUS
  <2> QED  BY <1>2, <2>1, QueueingTypes
<1>3. CASE Stop \/ \E j \in Jobs : Cancel(j) \/ Pause(j) \/ RemoveJob(j) \/ FinishRemove(j)
  BY <1>3, StoppingTypes
<1>4. CASE \/ \E ord \in Bijection(DOMAIN order, Range(order)) : Reorder(ord)
           \/ \E n \in Limits : SetLimit(n)
  BY <1>4, OrderingTypes
<1>5. CASE \E s \in Slots : WorkerStep(s)
  BY <1>5, WorkerStepTypes
<1> QED  BY <1>1, <1>2, <1>3, <1>4, <1>5 DEF Next, ApiCall
-----------------------------------------------------------------------------
\* Every variable of the queue, its workers and its jobs keeps the type it is
\* declared with, whatever the calls and however the awaits interleave.
THEOREM QueueTypeOK == Spec => []TypeOK
<1>1. Init => TypeOK
  BY InitTypes
<1>2. TypeOK /\ [Next]_vars => TypeOK'
  BY TypesInductive
<1> QED  BY <1>1, <1>2, PTL DEF Spec

\* A mark to requeue or to pause a job exists only while a worker holds the
\* job's key, so the end of that worker always clears it: no job is started a
\* second time by a mark left over from an earlier run.
THEOREM QueueMarksAreActive == Spec => []MarksAreActive
<1>1. Init => TypeOK /\ MarksAreActive
  BY InitTypes
<1>2. TypeOK /\ MarksAreActive /\ [Next]_vars => (TypeOK /\ MarksAreActive)'
  BY TypesInductive
<1> QED  BY <1>1, <1>2, PTL DEF Spec
-----------------------------------------------------------------------------
(* One worker per job *)

\* Without torrents and without files above the confirmation threshold nothing
\* calls Push, which queues a job without asking whether it already waits.
HttpOnly == Torrents = {} /\ Large = {}

NoneAwaits == \A j \in Jobs : job[j].status # "awaiting_confirmation"

\* A worker keeps its state, gets aborted, or is one just started.
Continued(w) ==
  \A s \in Slots : \/ worker'[s].pc = w[s].pc /\ worker'[s].job = w[s].job
                   \/ w[s].pc = "idle" /\ worker'[s].pc = "prelude"

\* Aborting workers changes nothing Consistent looks at.
LEMMA ConsistentAborting ==
  ASSUME TypeOK, NEW js, NEW q, NEW act, Consistent(q, worker, act)
  PROVE  Consistent(q, Aborting(js), act)
BY AbortingType DEF Consistent

\* Sorting the queue of a consistent state, then starting what the limit allows.
LEMMA SortedConsistent ==
  ASSUME NEW p \in Seq(Jobs), NEW ord, NEW q \in SortPending(p, ord),
         NEW w \in [Slots -> WorkerRecord], NEW act \in SUBSET Jobs,
         maxConcurrent' \in Limits, job' \in [Jobs -> JobRecord], Schedule(q, w, act),
         Consistent(p, w, act)
  PROVE  Consistent(pending', worker', active') /\ Continued(w)
<1>1. q \in Seq(Jobs) /\ Consistent(q, w, act)
  BY SortPendingProperties DEF Consistent
<1> QED  BY <1>1, ScheduleType, ScheduleConsistent DEF Continued

\* A job that neither runs nor waits is appended, one that does is not.
LEMMA AppendedConsistent ==
  ASSUME TypeOK, Consistent(pending, worker, active), NEW j \in Jobs, j \notin active
  PROVE  LET p == IF j \in Range(pending) THEN pending ELSE Append(pending, j)
         IN  p \in Seq(Jobs) /\ Consistent(p, worker, active)
<1> DEFINE p == IF j \in Range(pending) THEN pending ELSE Append(pending, j)
<1>1. pending \in Seq(Jobs)
  BY DEF TypeOK
<1>2. CASE j \in Range(pending)
  BY <1>1, <1>2
<1>3. CASE j \notin Range(pending)
  <2>1. /\ p \in Seq(Jobs) /\ Range(p) = Range(pending) \cup {j}
        /\ IsInjective(pending) => IsInjective(p)
    BY <1>1, <1>3, AppendJob
  <2> HIDE DEF p
  <2>2. p \in Seq(Jobs) /\ Consistent(p, worker, active)
    BY <2>1 DEF Consistent
  <2> QED  BY <2>2 DEF p
<1> QED  BY <1>2, <1>3

\* enqueueSessionJob keeps the queue consistent.
LEMMA EnqueueConsistent ==
  ASSUME TypeOK, Consistent(pending, worker, active), NEW j \in Jobs,
         maxConcurrent' \in Limits, job' \in [Jobs -> JobRecord], Enqueue(j)
  PROVE  Consistent(pending', worker', active') /\ Continued(worker)
<1>1. worker \in [Slots -> WorkerRecord] /\ active \in SUBSET Jobs
  BY DEF TypeOK
<1>2. CASE j \in active
  BY <1>2 DEF Enqueue, schedVars, Continued
<1>3. CASE j \notin active
  <2> DEFINE p == IF j \in Range(pending) THEN pending ELSE Append(pending, j)
  <2>1. p \in Seq(Jobs) /\ Consistent(p, worker, active)
    BY <1>3, AppendedConsistent
  <2>2. PICK q \in SortPending(p, order') : Schedule(q, worker, active)
    BY <1>3 DEF Enqueue
  <2> HIDE DEF p
  <2> QED  BY <1>1, <2>1, <2>2, SortedConsistent
<1> QED  BY <1>2, <1>3

\* And so does resumeSessionJob.
LEMMA ResumeConsistent ==
  ASSUME TypeOK, Consistent(pending, worker, active), NEW j \in Jobs,
         job' \in [Jobs -> JobRecord], Resume(j)
  PROVE  Consistent(pending', worker', active') /\ Continued(worker)
<1>1. /\ worker \in [Slots -> WorkerRecord] /\ active \in SUBSET Jobs /\ pending \in Seq(Jobs)
      /\ maxConcurrent' \in Limits
  BY DEF TypeOK, Resume
<1>2. CASE j \in active
  <2>1. Schedule(pending, worker, active)
    BY <1>2 DEF Resume
  <2> QED  BY <1>1, <2>1, ScheduleType, ScheduleConsistent DEF Continued
<1>3. CASE j \notin active
  <2> DEFINE p == IF j \in Range(pending) THEN pending ELSE Append(pending, j)
  <2>1. p \in Seq(Jobs) /\ Consistent(p, worker, active)
    BY <1>3, AppendedConsistent
  <2>2. PICK q \in SortPending(p, order) : Schedule(q, worker, active)
    BY <1>3 DEF Resume
  <2> HIDE DEF p
  <2> QED  BY <1>1, <2>1, <2>2, SortedConsistent
<1> QED  BY <1>2, <1>3

\* The end of a worker frees its job, which goes back to the queue if it was
\* marked: no other worker had it, and it was not waiting.
LEMMA FinishConsistent ==
  ASSUME TypeOK, Consistent(pending, worker, active), NEW s \in Slots, worker[s].pc # "idle",
         job' \in [Jobs -> JobRecord], Finish(s)
  PROVE  /\ Consistent(pending', worker', active')
         /\ Continued([worker EXCEPT ![s] = IdleWorker])
         /\ \A t \in Slots \ {s} : worker[t].pc # "idle" =>
              controller'[worker[t].job] = controller[worker[t].job]
<1> DEFINE j == worker[s].job
           ended == [worker EXCEPT ![s] = IdleWorker]
<1>1. /\ worker \in [Slots -> WorkerRecord] /\ active \in SUBSET Jobs /\ pending \in Seq(Jobs)
      /\ maxConcurrent' \in Limits /\ controller \in [Jobs -> Slots \cup {NoSlot}]
  BY DEF TypeOK, Finish
<1>2. j \in active /\ j \in Jobs /\ j \notin Range(pending)
  BY <1>1 DEF Consistent
<1>3. \A t \in Slots \ {s} : worker[t].pc # "idle" => worker[t].job # j
  BY DEF Consistent
<1>4. /\ ended \in [Slots -> WorkerRecord]
      /\ ended[s].pc = "idle" /\ \A t \in Slots \ {s} : ended[t] = worker[t]
  BY <1>1 DEF IdleWorker, WorkerRecord, Phases
<1>5. PICK q \in IF j \in requeue THEN SortPending(Append(pending, j), order) ELSE {pending} :
        Schedule(q, ended, active \ {j})
  BY DEF Finish
<1>6. controller' = [controller EXCEPT
                      ![j] = IF @ = s \/ job'[j].status = "paused" THEN NoSlot ELSE @]
  BY DEF Finish
<1> HIDE DEF ended, j
<1>7. CASE j \in requeue
  <2>1. /\ Append(pending, j) \in Seq(Jobs)
        /\ Range(Append(pending, j)) = Range(pending) \cup {j}
        /\ IsInjective(Append(pending, j))
    BY <1>1, <1>2, AppendJob DEF Consistent
  <2>2. Consistent(Append(pending, j), ended, active \ {j})
    BY <1>3, <1>4, <2>1 DEF Consistent
  <2>3. q \in SortPending(Append(pending, j), order) /\ active \ {j} \in SUBSET Jobs
    BY <1>1, <1>5, <1>7
  <2> QED
    <3>1. Consistent(pending', worker', active') /\ Continued(ended)
      BY <1>1, <1>4, <1>5, <2>1, <2>2, <2>3, SortedConsistent
    <3> QED  BY <1>1, <1>3, <1>6, <3>1 DEF ended
<1>8. CASE j \notin requeue
  <2>1. q = pending /\ active \ {j} \in SUBSET Jobs
    BY <1>1, <1>5, <1>8
  <2>2. Consistent(q, ended, active \ {j})
    BY <1>3, <1>4, <2>1 DEF Consistent
  <2>3. Consistent(pending', worker', active')
    BY <1>1, <1>4, <1>5, <2>1, <2>2, ScheduleConsistent
  <2>4. Continued(ended)
    BY <1>1, <1>4, <1>5, <2>1, ScheduleType DEF Continued
  <2> QED  BY <1>1, <1>3, <1>6, <2>3, <2>4 DEF ended
<1> QED  BY <1>7, <1>8

\* Every status a step writes is another one than awaiting_confirmation, which
\* only AskConfirmation writes, for a large source.
LEMMA NoneAwaitsInductive ==
  ASSUME HttpOnly, TypeOK, NoneAwaits, Next
  PROVE  NoneAwaits'
<1>1. job \in [Jobs -> JobRecord]
  BY DEF TypeOK
<1>2. ASSUME NEW j \in Jobs, \E confirmOversize \in BOOLEAN : Submit(j, confirmOversize)
      PROVE  NoneAwaits'
  BY <1>1, <1>2 DEF NoneAwaits, Submit, JobRecord
<1>3. ASSUME NEW j \in Jobs, \/ Retry(j) \/ Resume(j) \/ Confirm(j)
                             \/ SelectTorrentFiles(j) \/ SelectArchiveFiles(j)
      PROVE  NoneAwaits'
  BY <1>1, <1>3 DEF NoneAwaits, Retry, Resume, Confirm, SelectTorrentFiles,
                    SelectArchiveFiles, JobRecord
<1>4. ASSUME NEW j \in Jobs, Cancel(j)
      PROVE  NoneAwaits'
  BY <1>1, <1>4 DEF NoneAwaits, Cancel, JobRecord
<1>5. ASSUME NEW j \in Jobs, PauseJob(j)
      PROVE  NoneAwaits'
  BY <1>1, <1>5 DEF NoneAwaits, PauseJob, JobRecord
<1>6. ASSUME NEW j \in Jobs, RemoveJob(j) \/ FinishRemove(j)
      PROVE  NoneAwaits'
  BY <1>1, <1>6 DEF NoneAwaits, RemoveJob, FinishRemove, CreateJob, JobRecord
<1>7. CASE Stop
  BY <1>1, <1>7 DEF NoneAwaits, Stop, JobRecord
<1>8. ASSUME NEW ord, Reorder(ord)
      PROVE  NoneAwaits'
  BY <1>5, <1>8 DEF NoneAwaits, Reorder, Preemptible, TypeOK
<1>9. ASSUME NEW n, SetLimit(n)
      PROVE  NoneAwaits'
  BY <1>9 DEF NoneAwaits, SetLimit
<1>10. ASSUME NEW s \in Slots, WorkerStep(s)
       PROVE  NoneAwaits'
  <2> DEFINE j == worker[s].job
  <2>1. j \notin Torrents /\ j \notin Large
    BY DEF HttpOnly
  <2>2. CASE Begin(s)
    BY <1>1, <2>2 DEF NoneAwaits, Begin, JobRecord
  <2>3. CASE PreludeFails(s)
    BY <2>3 DEF NoneAwaits, PreludeFails
  <2>4. ASSUME Aborted(s, job) PROVE NoneAwaits'
    BY <1>1, <2>4 DEF NoneAwaits, Aborted, JobRecord
  <2>5. CASE VerifySource(s)
    BY <1>1, <2>1, <2>4, <2>5 DEF NoneAwaits, VerifySource, AskConfirmation, JobRecord
  <2>6. ~StartTorrent(s) /\ ~ResolveTorrent(s)
    BY <2>1 DEF StartTorrent, ResolveTorrent
  <2>7. CASE ProbeHttp(s) \/ SaveCheckpoint(s)
    <3>1. PICK resumable \in BOOLEAN :
            job' = [job EXCEPT ![j].canPause = resumable, ![j].canResume = resumable]
      BY <2>1, <2>7 DEF ProbeHttp, SaveCheckpoint, AskConfirmation
    <3>2. ASSUME NEW k \in Jobs PROVE job'[k].status = job[k].status
      BY <1>1, <3>1 DEF JobRecord
    <3> QED  BY <3>2 DEF NoneAwaits
  <2>8. CASE TransferDone(s)
    BY <1>1, <2>1, <2>8 DEF NoneAwaits, TransferDone, AskConfirmation, JobRecord
  <2>9. CASE Publish(s)
    BY <1>1, <2>9 DEF NoneAwaits, Publish, JobRecord
  <2>10. CASE Interrupted(s)
    BY <2>4, <2>10 DEF Interrupted
  <2>11. CASE Failed(s)
    BY <1>1, <2>11 DEF NoneAwaits, Failed, JobRecord
  <2> QED  BY <1>10, <2>2, <2>3, <2>5, <2>6, <2>7, <2>8, <2>9, <2>10, <2>11 DEF WorkerStep
<1>11. \A j \in Jobs : {FALSE, (j \in Large)} \subseteq BOOLEAN
  OBVIOUS
<1>12. ASSUME NEW j \in Jobs, Pause(j)
       PROVE  NoneAwaits'
  BY <1>5, <1>12 DEF Pause
<1> QED
  BY <1>2, <1>3, <1>4, <1>6, <1>7, <1>8, <1>9, <1>10, <1>11, <1>12 DEF Next, ApiCall

\* The inductive invariant.  A worker finds its controller only while it is the
\* one worker of its job, and that it is needs the whole of Consistent: a job
\* that waits twice, or waits and runs, would be started beside itself.
HttpInv ==
  /\ TypeOK /\ NoneAwaits
  /\ Consistent(pending, worker, active)
  /\ AbortReachesWorker

\* Nothing runs or waits at the start.
LEMMA InitHttp == Init => HttpInv
<1> SUFFICES ASSUME Init PROVE HttpInv
  OBVIOUS
<1>1. TypeOK
  BY InitTypes
<1>2. NoneAwaits
  BY DEF Init, NoneAwaits, CreateJob
<1>3. \A s \in Slots : worker[s].pc = "idle"
  BY DEF Init, IdleWorker
<1>4. IsInjective(pending) /\ active \cap Range(pending) = {}
  <2>1. pending \in Seq(Jobs) /\ active = {} /\ pending = <<>>
    BY <1>1 DEF Init, TypeOK
  <2>2. DOMAIN pending = {}
    BY <2>1, EmptySeq
  <2> QED  BY <2>1, <2>2 DEF IsInjective
<1>5. Consistent(pending, worker, active)
  BY <1>3, <1>4 DEF Consistent
<1>6. AbortReachesWorker
  BY <1>3 DEF AbortReachesWorker, Busy
<1> QED  BY <1>1, <1>2, <1>5, <1>6 DEF HttpInv

\* Workers that go on are reached as before, and new ones need not be yet.
LEMMA ReachContinued ==
  ASSUME AbortReachesWorker, Continued(worker), UNCHANGED controller
  PROVE  AbortReachesWorker'
BY DEF AbortReachesWorker, Continued, Busy

\* The end of a worker keeps every other worker's controller.
LEMMA FinishReaches ==
  ASSUME HttpInv, NEW s \in Slots, worker[s].pc # "idle",
         job' \in [Jobs -> JobRecord], Finish(s)
  PROVE  Consistent(pending', worker', active') /\ AbortReachesWorker'
<1>1. /\ Consistent(pending', worker', active')
      /\ Continued([worker EXCEPT ![s] = IdleWorker])
      /\ \A t \in Slots \ {s} : worker[t].pc # "idle" =>
           controller'[worker[t].job] = controller[worker[t].job]
  BY FinishConsistent DEF HttpInv
<1>2. ASSUME NEW t \in Slots, worker'[t].pc # "idle", worker'[t].pc # "prelude"
      PROVE  controller'[worker'[t].job] = t
  <2>1. worker \in [Slots -> WorkerRecord]
    BY DEF HttpInv, TypeOK
  <2>2. t # s
    BY <1>1, <1>2, <2>1 DEF Continued, IdleWorker
  <2>3. worker'[t].pc = worker[t].pc /\ worker'[t].job = worker[t].job
    BY <1>1, <1>2, <2>1, <2>2 DEF Continued
  <2> QED  BY <1>1, <1>2, <2>2, <2>3 DEF HttpInv, AbortReachesWorker, Busy
<1> QED  BY <1>1, <1>2 DEF AbortReachesWorker, Busy

\* A worker that goes on to its next await is the one its job aborts, when it
\* was before or installs its controller now.
LEMMA GotoReaches ==
  ASSUME HttpInv, NEW s \in Slots, NEW pc, worker[s].pc # "idle", Goto(s, pc),
         \/ UNCHANGED controller /\ worker[s].pc # "prelude"
         \/ controller' = [controller EXCEPT ![worker[s].job] = s]
  PROVE  Consistent(pending', worker', active') /\ AbortReachesWorker'
<1>1. /\ worker \in [Slots -> WorkerRecord] /\ controller \in [Jobs -> Slots \cup {NoSlot}]
      /\ active \subseteq Jobs
  BY DEF HttpInv, TypeOK
<1>2. /\ worker'[s].job = worker[s].job
      /\ \A t \in Slots \ {s} : worker'[t] = worker[t]
      /\ pending' = pending /\ active' = active
  BY <1>1 DEF Goto, WorkerRecord
<1>3. Consistent(pending, worker, active) /\ AbortReachesWorker
  BY DEF HttpInv
<1>4. \A t \in Slots : worker'[t].pc # "idle" => worker[t].pc # "idle" /\ worker'[t].job = worker[t].job
  BY <1>2
<1>5. Consistent(pending', worker', active')
  BY <1>2, <1>3, <1>4 DEF Consistent
<1>6. worker[s].job \in Jobs /\ \A t \in Slots \ {s} : worker[t].pc # "idle" => worker[t].job # worker[s].job
  BY <1>1, <1>3 DEF Consistent
<1>7. ASSUME NEW t \in Slots, worker'[t].pc # "idle", worker'[t].pc # "prelude"
      PROVE  controller'[worker'[t].job] = t
  <2>1. CASE t = s
    BY <1>1, <1>2, <1>3, <1>6, <2>1 DEF AbortReachesWorker, Busy
  <2>2. CASE t # s
    <3>1. worker'[t] = worker[t] /\ controller[worker[t].job] = t
      BY <1>2, <1>3, <1>7, <2>2 DEF AbortReachesWorker, Busy
    <3>2. controller'[worker[t].job] = controller[worker[t].job]
      <4>1. worker[t].job \in Jobs /\ worker[t].job # worker[s].job
        BY <1>1, <1>3, <1>4, <1>6, <1>7, <2>2 DEF Consistent
      <4> QED  BY <1>1, <4>1
    <3> QED  BY <3>1, <3>2
  <2> QED  BY <2>1, <2>2
<1> QED  BY <1>5, <1>7 DEF AbortReachesWorker, Busy

\* Every step of a worker of an HTTP job.
LEMMA WorkerStepReaches ==
  ASSUME HttpOnly, HttpInv, NEW s \in Slots, WorkerStep(s)
  PROVE  Consistent(pending', worker', active') /\ AbortReachesWorker'
<1> DEFINE j == worker[s].job
<1>1. j \notin Torrents /\ j \notin Large
  BY DEF HttpOnly
<1>2. job' \in [Jobs -> JobRecord]
  BY WorkerStepTypes DEF HttpInv, TypeOK
<1>3. worker[s].pc # "idle"
  BY DEF WorkerStep, Begin, PreludeFails, VerifySource, StartTorrent, ProbeHttp, ResolveTorrent,
         SaveCheckpoint, TransferDone, Publish, Interrupted, Failed
<1>4. \/ Finish(s)
      \/ \E pc \in Phases :
           /\ Goto(s, pc)
           /\ \/ UNCHANGED controller /\ worker[s].pc # "prelude"
              \/ controller' = [controller EXCEPT ![j] = s]
  <2>1. CASE Begin(s)
    BY <1>1, <2>1 DEF Begin, Phases
  <2>2. CASE PreludeFails(s) \/ Publish(s) \/ Interrupted(s) \/ Failed(s)
    BY <2>2 DEF PreludeFails, Publish, Interrupted, Failed, Aborted
  <2>3. CASE VerifySource(s)
    BY <1>1, <2>3 DEF VerifySource, AskConfirmation, Aborted, Phases
  <2>4. CASE ProbeHttp(s) \/ SaveCheckpoint(s)
    BY <1>1, <2>4 DEF ProbeHttp, SaveCheckpoint, AskConfirmation, Phases
  <2>5. CASE TransferDone(s)
    BY <1>1, <2>5 DEF TransferDone, AskConfirmation, Phases
  <2>6. ~StartTorrent(s) /\ ~ResolveTorrent(s)
    BY <1>1 DEF StartTorrent, ResolveTorrent
  <2> QED  BY <2>1, <2>2, <2>3, <2>4, <2>5, <2>6 DEF WorkerStep
<1> QED  BY <1>2, <1>3, <1>4, FinishReaches, GotoReaches

\* Every call of the API and the removal's end.
LEMMA CallReaches ==
  ASSUME HttpOnly, HttpInv, ApiCall \/ \E j \in Jobs : FinishRemove(j)
  PROVE  Consistent(pending', worker', active') /\ AbortReachesWorker'
<1>1. TypeOK /\ Consistent(pending, worker, active) /\ AbortReachesWorker
  BY DEF HttpInv
<1>2. TypeOK'
  <2>1. Next
    BY DEF Next
  <2> QED  BY <1>1, <2>1, TypesInductive
<1>3. job' \in [Jobs -> JobRecord] /\ maxConcurrent' \in Limits
  BY <1>2 DEF TypeOK
<1>4. ASSUME NEW j \in Jobs, \/ \E confirmOversize \in BOOLEAN : Submit(j, confirmOversize)
                             \/ Retry(j) \/ SelectArchiveFiles(j)
      PROVE  Consistent(pending', worker', active') /\ AbortReachesWorker'
  <2>1. Enqueue(j) /\ UNCHANGED controller
    BY <1>4 DEF Submit, Retry, SelectArchiveFiles
  <2> QED  BY <1>1, <1>3, <2>1, EnqueueConsistent, ReachContinued
<1>5. ASSUME NEW j \in Jobs, Resume(j)
      PROVE  Consistent(pending', worker', active') /\ AbortReachesWorker'
  <2>1. UNCHANGED controller
    BY <1>5 DEF Resume
  <2> QED  BY <1>1, <1>3, <1>5, <2>1, ResumeConsistent, ReachContinued
<1>6. ASSUME NEW j \in Jobs PROVE ~Confirm(j) /\ ~SelectTorrentFiles(j)
  BY DEF HttpInv, NoneAwaits, HttpOnly, Confirm, SelectTorrentFiles
<1>7. ASSUME NEW js, worker' = Aborting(js), UNCHANGED controller, active' = active,
             pending' \in Seq(Jobs), Range(pending') \subseteq Range(pending), IsInjective(pending')
      PROVE  Consistent(pending', worker', active') /\ AbortReachesWorker'
  <2>1. Consistent(pending', worker, active)
    BY <1>1, <1>7 DEF Consistent
  <2>2. Consistent(pending', worker', active')
    BY <1>1, <1>7, <2>1, ConsistentAborting
  <2>3. Continued(worker)
    BY <1>1, <1>7, AbortingType DEF Continued
  <2> QED  BY <1>1, <1>7, <2>2, <2>3, ReachContinued
<1>8. pending \in Seq(Jobs) /\ IsInjective(pending)
  BY <1>1 DEF TypeOK, Consistent
<1>9. ASSUME NEW j \in Jobs, Cancel(j)
      PROVE  Consistent(pending', worker', active') /\ AbortReachesWorker'
  <2>1. /\ pending' = Without(pending, j) /\ worker' = Aborting({j})
        /\ UNCHANGED controller /\ active' = active
    BY <1>9 DEF Cancel
  <2>2. /\ pending' \in Seq(Jobs) /\ IsInjective(pending')
        /\ Range(pending') \subseteq Range(pending)
    BY <1>8, <2>1, WithoutProperties
  <2> QED  BY <1>7, <2>1, <2>2
<1>10. ASSUME NEW j \in Jobs, Pause(j)
       PROVE  Consistent(pending', worker', active') /\ AbortReachesWorker'
  <2>1. worker' = Aborting({j}) /\ UNCHANGED <<pending, active, controller>>
    BY <1>10 DEF Pause, PauseJob
  <2> QED  BY <1>7, <1>8, <2>1
<1>11. CASE Stop
  <2>1. worker' = Aborting(active) /\ UNCHANGED <<pending, active, controller>>
    BY <1>11 DEF Stop
  <2> QED  BY <1>7, <1>8, <2>1
<1>12. ASSUME NEW j \in Jobs, RemoveJob(j) \/ FinishRemove(j)
       PROVE  Consistent(pending', worker', active') /\ AbortReachesWorker'
  <2>1. UNCHANGED <<pending, active, worker, controller>>
    BY <1>12 DEF RemoveJob, FinishRemove, schedVars
  <2> QED  BY <1>1, <2>1, ReachContinued DEF Continued
<1>13. ASSUME NEW n \in Limits, SetLimit(n)
       PROVE  Consistent(pending', worker', active') /\ AbortReachesWorker'
  <2>1. Schedule(pending, worker, active) /\ UNCHANGED controller
    BY <1>13 DEF SetLimit
  <2>2. worker \in [Slots -> WorkerRecord] /\ active \in SUBSET Jobs
    BY <1>1 DEF TypeOK
  <2>3. Consistent(pending', worker', active') /\ Continued(worker)
    BY <1>1, <1>3, <1>8, <2>1, <2>2, ScheduleType, ScheduleConsistent DEF Continued
  <2> QED  BY <1>1, <2>1, <2>3, ReachContinued
<1>14. ASSUME NEW ord, Reorder(ord)
       PROVE  Consistent(pending', worker', active') /\ AbortReachesWorker'
  <2>1. /\ pending' \in SortPending(pending, ord) /\ UNCHANGED <<active, controller>>
        /\ worker' = worker \/ \E j : worker' = Aborting({j})
    BY <1>14 DEF Reorder, PauseJob
  <2>2. pending' \in Seq(Jobs) /\ IsInjective(pending') /\ Range(pending') = Range(pending)
    BY <1>8, <2>1, SortPendingProperties
  <2>3. CASE worker' = worker
    BY <1>1, <2>1, <2>2, <2>3, ReachContinued DEF Consistent, Continued
  <2>4. CASE \E j : worker' = Aborting({j})
    BY <1>7, <2>1, <2>2, <2>4
  <2> QED  BY <2>1, <2>3, <2>4
<1>15. \A j \in Jobs : {FALSE, (j \in Large)} \subseteq BOOLEAN
  OBVIOUS
<1> QED
  BY <1>4, <1>5, <1>6, <1>9, <1>10, <1>11, <1>12, <1>13, <1>14, <1>15 DEF ApiCall

\* Every step of an HTTP-only system keeps the invariant.
LEMMA HttpInvInductive == HttpOnly /\ HttpInv /\ [Next]_vars => HttpInv'
<1> SUFFICES ASSUME HttpOnly, HttpInv, [Next]_vars PROVE HttpInv'
  OBVIOUS
<1>1. CASE UNCHANGED vars
  <2>1. Consistent(pending', worker', active')
    BY <1>1 DEF vars, HttpInv
  <2> QED  BY <1>1, <2>1 DEF vars, HttpInv, TypeOK, NoneAwaits, AbortReachesWorker, Busy
<1>2. CASE Next
  <2>1. TypeOK' /\ NoneAwaits'
    BY <1>2, TypesInductive, NoneAwaitsInductive DEF HttpInv
  <2>2. Consistent(pending', worker', active') /\ AbortReachesWorker'
    BY <1>2, WorkerStepReaches, CallReaches DEF Next
  <2> QED  BY <2>1, <2>2 DEF HttpInv
<1> QED  BY <1>1, <1>2

\* What the invariant gives.
LEMMA HttpInvImplies == HttpInv => SingleWorker /\ WorkersAreActive /\ AbortReachesWorker
BY DEF HttpInv, Consistent, SingleWorker, OneWorkerPerJob, WorkersAreActive, Busy
-----------------------------------------------------------------------------
\* When every download is an HTTP one below the confirmation threshold, no job
\* ever has two workers, whatever calls arrive while it runs or stops: cancel
\* and retry, pause and resume, reorder and select.
THEOREM HttpSingleWorker ==
  ASSUME HttpOnly
  PROVE  Spec => []SingleWorker
<1>1. Init => HttpInv
  BY InitHttp
<1>2. HttpInv /\ [Next]_vars => HttpInv'
  BY HttpInvInductive
<1>3. HttpInv => SingleWorker
  BY HttpInvImplies
<1> QED  BY <1>1, <1>2, <1>3, PTL DEF Spec

\* Then a job with a running worker always keeps its key in activeItems, which
\* is what stops removeSessionJob from deleting the files under it.
THEOREM HttpWorkersAreActive ==
  ASSUME HttpOnly
  PROVE  Spec => []WorkersAreActive
<1>1. Init => HttpInv
  BY InitHttp
<1>2. HttpInv /\ [Next]_vars => HttpInv'
  BY HttpInvInductive
<1>3. HttpInv => WorkersAreActive
  BY HttpInvImplies
<1> QED  BY <1>1, <1>2, <1>3, PTL DEF Spec

\* And cancel, pause and shutdown always reach the worker that runs the job,
\* once that worker has installed its controller.
THEOREM HttpAbortReachesWorker ==
  ASSUME HttpOnly
  PROVE  Spec => []AbortReachesWorker
<1>1. Init => HttpInv
  BY InitHttp
<1>2. HttpInv /\ [Next]_vars => HttpInv'
  BY HttpInvInductive
<1>3. HttpInv => AbortReachesWorker
  BY HttpInvImplies
<1> QED  BY <1>1, <1>2, <1>3, PTL DEF Spec
-----------------------------------------------------------------------------
(* The order the user gave *)

\* A queue and a set of keys follow an order: it lists all their jobs, and the
\* queue is sorted by it.
Follows(q, act, ord) ==
  /\ Range(q) \cup act \subseteq Range(ord)
  /\ Ascending(q, ord)

\* In a list without duplicates a job has one position.
LEMMA IndexOfUnique ==
  ASSUME NEW q \in Seq(Jobs), IsInjective(q), NEW i \in DOMAIN q
  PROVE  q[i] \in Range(q) /\ IndexOf(q, q[i]) = i
<1>1. q[i] \in Range(q)
  BY DEF Range
<1>2. IndexOf(q, q[i]) \in DOMAIN q /\ q[IndexOf(q, q[i])] = q[i]
  BY <1>1, IndexOfFinds
<1> QED  BY <1>1, <1>2 DEF IsInjective

\* The loop shifts entries off the front, so what is left is still sorted.
LEMMA ScheduleFollows ==
  ASSUME NEW q \in Seq(Jobs), NEW w, NEW act, NEW ord, maxConcurrent' \in Limits,
         Schedule(q, w, act), Follows(q, act, ord)
  PROVE  Follows(pending', active', ord)
<1>1. PICK n \in 0..Len(q) : /\ pending' = SubSeq(q, n + 1, Len(q))
                             /\ active' = act \cup {q[i] : i \in 1..n}
  BY ScheduleMoves DEF Moves
<1>2. n \in Nat /\ Len(q) \in Nat /\ DOMAIN q = 1..Len(q) /\ \A i \in 1..n : i \in 1..Len(q)
  OBVIOUS
<1>3. /\ DOMAIN pending' = 1..(Len(q) - n)
      /\ \A k \in 1..(Len(q) - n) : pending'[k] = q[k + n] /\ k + n \in 1..Len(q)
  BY <1>1, RestOfQueue
<1>4. Range(pending') \cup active' \subseteq Range(ord)
  <2>1. \A i \in 1..Len(q) : q[i] \in Range(ord)
    BY <1>2 DEF Follows, Range
  <2>2. \A k \in 1..(Len(q) - n) : pending'[k] \in Range(ord)
    BY <1>3, <2>1
  <2>3. Range(pending') \subseteq Range(ord)
    BY <1>3, <2>2 DEF Range
  <2>4. active' \subseteq Range(ord)
    BY <1>1, <1>2, <2>1 DEF Follows
  <2> QED  BY <2>3, <2>4
<1>5. Ascending(pending', ord)
  <2> SUFFICES ASSUME NEW i \in 1..(Len(q) - n), NEW k \in 1..(Len(q) - n), i < k
               PROVE  Rank(ord, pending'[i]) <= Rank(ord, pending'[k])
    BY <1>3 DEF Ascending
  <2>1. i + n < k + n
    BY <1>2
  <2> QED  BY <1>2, <1>3, <2>1 DEF Follows, Ascending
<1> QED  BY <1>4, <1>5 DEF Follows

\* A queue that is sorted before the loop runs need not have been before.
LEMMA SortedFollows ==
  ASSUME NEW p \in Seq(Jobs), NEW ord, NEW q \in SortPending(p, ord), NEW act,
         Range(p) \cup act \subseteq Range(ord)
  PROVE  q \in Seq(Jobs) /\ Follows(q, act, ord)
<1>1. q \in Seq(Jobs) /\ Range(q) = Range(p)
  BY SortPendingProperties
<1>2. Ascending(q, ord)
  BY DEF SortPending
<1> QED  BY <1>1, <1>2 DEF Follows

\* Taking an entry out of the queue leaves the others in order.
LEMMA WithoutFollows ==
  ASSUME NEW q \in Seq(Jobs), NEW act, NEW ord, Follows(q, act, ord), NEW j
  PROVE  Follows(Without(q, j), act, ord)
<1>1. CASE j \notin Range(q)
  BY <1>1 DEF Without
<1>2. CASE j \in Range(q)
  <2> DEFINE i == IndexOf(q, j)
             r == Without(q, j)
             from(k) == IF k < i THEN k ELSE k + 1
  <2>1. i \in 1..Len(q) /\ Len(q) \in Nat /\ DOMAIN q = 1..Len(q)
    BY <1>2, IndexOfFinds
  <2>2. r = RemoveAt(q, i)
    BY <1>2 DEF Without
  <2> HIDE DEF i, r
  <2>3. /\ DOMAIN r = 1..(Len(q) - 1)
        /\ \A k \in 1..(Len(q) - 1) : r[k] = IF k < i THEN q[k] ELSE q[k + 1]
    BY <2>1, <2>2, RemoveAtShifts
  <2>4. \A k \in 1..(Len(q) - 1) : from(k) \in 1..Len(q) /\ r[k] = q[from(k)]
    BY <2>1, <2>3
  <2>5. \A k, m \in 1..(Len(q) - 1) : k < m => from(k) < from(m)
    BY <2>1
  <2> HIDE DEF from
  <2>6. Range(r) \subseteq Range(q)
    BY <2>1, <2>3, <2>4 DEF Range
  <2>7. Ascending(r, ord)
    BY <2>1, <2>3, <2>4, <2>5 DEF Follows, Ascending
  <2> QED  BY <2>6, <2>7 DEF Follows, r
<1> QED  BY <1>1, <1>2

\* Taking a job out of the order leaves the ranks of the others as they compare.
LEMMA RanksKept ==
  ASSUME NEW ord \in Seq(Jobs), IsInjective(ord), NEW j \in Range(ord),
         NEW x \in Range(ord) \ {j}, NEW y \in Range(ord) \ {j},
         Rank(ord, x) <= Rank(ord, y)
  PROVE  Rank(Without(ord, j), x) <= Rank(Without(ord, j), y)
<1> DEFINE i == IndexOf(ord, j)
           r == Without(ord, j)
           to(k) == IF k < i THEN k ELSE k - 1
<1>1. /\ i \in 1..Len(ord) /\ ord[i] = j
      /\ Len(ord) \in Nat /\ DOMAIN ord = 1..Len(ord)
  BY IndexOfFinds
<1>2. r = RemoveAt(ord, i)
  BY DEF Without
<1>3. r \in Seq(Jobs) /\ IsInjective(r)
  BY WithoutProperties
<1> HIDE DEF i, r
<1>4. /\ DOMAIN r = 1..(Len(ord) - 1)
      /\ \A k \in 1..(Len(ord) - 1) : r[k] = IF k < i THEN ord[k] ELSE ord[k + 1]
  BY <1>1, <1>2, RemoveAtShifts
<1>5. ASSUME NEW z \in Range(ord) \ {j}
      PROVE  /\ Rank(ord, z) \in 1..Len(ord) /\ Rank(ord, z) # i
             /\ Rank(r, z) = to(Rank(ord, z))
  <2> DEFINE k == IndexOf(ord, z)
  <2>1. k \in 1..Len(ord) /\ ord[k] = z /\ Rank(ord, z) = k
    BY <1>1, IndexOfFinds DEF Rank
  <2> HIDE DEF k
  <2>2. k # i
    BY <1>1, <2>1
  <2>3. to(k) \in 1..(Len(ord) - 1) /\ r[to(k)] = ord[k]
    BY <1>1, <1>4, <2>1, <2>2
  <2> HIDE DEF to
  <2>4. z \in Range(r) /\ IndexOf(r, z) = to(k)
    BY <1>3, <1>4, <2>1, <2>3, IndexOfUnique
  <2> QED  BY <2>1, <2>2, <2>4 DEF Rank
<1>6. to(Rank(ord, x)) <= to(Rank(ord, y))
  <2> DEFINE a == Rank(ord, x)
             b == Rank(ord, y)
  <2>1. a \in Nat /\ b \in Nat /\ a # i /\ b # i /\ a <= b /\ i \in Nat
    BY <1>1, <1>5
  <2> HIDE DEF a, b
  <2>2. to(a) <= to(b)
    BY <2>1
  <2> QED  BY <2>2 DEF a, b
<1> QED  BY <1>5, <1>6 DEF r

\* Every list of the queue agrees with the order: it names each job once, and
\* every job that waits or runs, and the queue is sorted by it.
Ordered == IsInjective(order) /\ Follows(pending, active, order)

\* The inductive invariant.  Sorted alone is not inductive: a job that waits
\* without a place in the order would lose its rank to the next one submitted,
\* and a mark left on a job already removed would bring it back to the queue.
OrderInv == TypeOK /\ MarksAreActive /\ Ordered

\* Appending a job of the order, sorting and starting what the limit allows.
LEMMA AppendedFollows ==
  ASSUME NEW p \in Seq(Jobs), NEW j \in Jobs, NEW ord, NEW w, NEW act,
         NEW q \in SortPending(IF j \in Range(p) THEN p ELSE Append(p, j), ord)
                   \cup SortPending(Append(p, j), ord),
         maxConcurrent' \in Limits, Schedule(q, w, act),
         Range(p) \cup act \cup {j} \subseteq Range(ord)
  PROVE  Follows(pending', active', ord)
<1>1. Append(p, j) \in Seq(Jobs) /\ Range(Append(p, j)) = Range(p) \cup {j}
  BY AppendJob
<1>2. PICK longer \in {p, Append(p, j)} : q \in SortPending(longer, ord)
  OBVIOUS
<1>3. longer \in Seq(Jobs) /\ Range(longer) \cup act \subseteq Range(ord)
  BY <1>1, <1>2
<1>4. q \in Seq(Jobs) /\ Follows(q, act, ord)
  BY <1>2, <1>3, SortedFollows
<1> QED  BY <1>4, ScheduleFollows

\* enqueueSessionJob gives a job it does not know the last place.
LEMMA EnqueueOrdered ==
  ASSUME OrderInv, NEW j \in Jobs, maxConcurrent' \in Limits, Enqueue(j)
  PROVE  Ordered'
<1>1. /\ pending \in Seq(Jobs) /\ order \in Seq(Jobs) /\ IsInjective(order)
      /\ Range(pending) \cup active \subseteq Range(order) /\ Follows(pending, active, order)
  BY DEF OrderInv, TypeOK, Ordered, Follows
<1>2. order' = IF j \in Range(order) THEN order ELSE Append(order, j)
  BY DEF Enqueue
<1>3. IsInjective(order') /\ Range(order') = Range(order) \cup {j}
  BY <1>1, <1>2, AppendJob
<1>4. CASE j \in active
  <2>1. order' = order /\ pending' = pending /\ active' = active
    BY <1>1, <1>2, <1>4 DEF Enqueue, schedVars
  <2> QED  BY <1>1, <2>1 DEF Ordered
<1>5. CASE j \notin active
  <2>1. PICK q \in SortPending(IF j \in Range(pending) THEN pending
                               ELSE Append(pending, j), order') : Schedule(q, worker, active)
    BY <1>5 DEF Enqueue
  <2>2. Follows(pending', active', order')
    BY <1>1, <1>3, <2>1, AppendedFollows
  <2> QED  BY <1>3, <2>2 DEF Ordered
<1> QED  BY <1>4, <1>5

\* The calls that queue a job of the order again.
LEMMA AgainOrdered ==
  ASSUME OrderInv, NEW j \in Jobs, Confirm(j) \/ SelectTorrentFiles(j) \/ Resume(j)
  PROVE  Ordered'
<1>1. /\ pending \in Seq(Jobs) /\ IsInjective(order)
      /\ Range(pending) \cup active \subseteq Range(order) /\ Follows(pending, active, order)
      /\ maxConcurrent \in Limits
  BY DEF OrderInv, TypeOK, Ordered, Follows
<1>2. order' = order /\ j \in Range(order) /\ maxConcurrent' \in Limits
  BY <1>1 DEF Confirm, SelectTorrentFiles, Resume
<1>3. \/ pending' = pending /\ active' = active
      \/ Schedule(pending, worker, active)
      \/ \E q \in SortPending(IF j \in Range(pending) THEN pending
                              ELSE Append(pending, j), order)
                  \cup SortPending(Append(pending, j), order) : Schedule(q, worker, active)
  <2>1. CASE Resume(j)
    BY <2>1 DEF Resume
  <2>2. CASE Push(j)
    BY <2>2 DEF Push, schedVars
  <2> QED  BY <2>1, <2>2 DEF Confirm, SelectTorrentFiles
<1>4. Follows(pending', active', order)
  <2>1. CASE pending' = pending /\ active' = active
    BY <1>1, <2>1
  <2>2. CASE Schedule(pending, worker, active)
    BY <1>1, <1>2, <2>2, ScheduleFollows
  <2>3. ASSUME NEW q \in SortPending(IF j \in Range(pending) THEN pending
                                   ELSE Append(pending, j), order)
                        \cup SortPending(Append(pending, j), order),
               Schedule(q, worker, active)
        PROVE  Follows(pending', active', order)
    <3>1. Range(pending) \cup active \cup {j} \subseteq Range(order)
      BY <1>1, <1>2
    <3>2. pending \in Seq(Jobs) /\ maxConcurrent' \in Limits /\ Schedule(q, worker, active)
      BY <1>1, <1>2, <2>3
    <3> QED  BY <3>1, <3>2, AppendedFollows
  <2> QED  BY <1>3, <2>1, <2>2, <2>3
<1> QED  BY <1>1, <1>2, <1>4 DEF Ordered

\* removeSessionJob takes a job that neither waits nor runs out of the order.
LEMMA RemoveOrdered ==
  ASSUME OrderInv, NEW j \in Jobs, RemoveJob(j)
  PROVE  Ordered'
<1>1. /\ pending \in Seq(Jobs) /\ order \in Seq(Jobs) /\ IsInjective(order)
      /\ Range(pending) \cup active \subseteq Range(order) /\ Ascending(pending, order)
  BY DEF OrderInv, TypeOK, Ordered, Follows
<1>2. /\ j \in Range(order) /\ j \notin active /\ j \notin Range(pending)
      /\ order' = Without(order, j) /\ pending' = pending /\ active' = active
  BY DEF RemoveJob, schedVars
<1>3. IsInjective(order') /\ Range(order') = Range(order) \ {j}
  BY <1>1, <1>2, WithoutProperties
<1>4. \A i \in DOMAIN pending : pending[i] \in Range(order) \ {j}
  BY <1>1, <1>2 DEF Range
<1>5. Ascending(pending, order')
  <2> SUFFICES ASSUME NEW i \in DOMAIN pending, NEW k \in DOMAIN pending, i < k
               PROVE  Rank(order', pending[i]) <= Rank(order', pending[k])
    BY DEF Ascending
  <2>1. Rank(order, pending[i]) <= Rank(order, pending[k])
    BY <1>1 DEF Ascending
  <2> QED  BY <1>1, <1>2, <1>4, <2>1, RanksKept
<1> QED  BY <1>1, <1>2, <1>3, <1>5 DEF Ordered, Follows

\* reorderSessionJobs sorts the queue by the order it installs.
LEMMA ReorderOrdered ==
  ASSUME OrderInv, NEW ord \in Bijection(DOMAIN order, Range(order)), Reorder(ord)
  PROVE  Ordered'
<1>1. pending \in Seq(Jobs) /\ Range(pending) \cup active \subseteq Range(order)
  BY DEF OrderInv, TypeOK, Ordered, Follows
<1>2. IsInjective(ord) /\ Range(ord) = Range(order)
  BY DEF Bijection, Injection, Surjection, Range
<1>3. order' = ord /\ pending' \in SortPending(pending, ord) /\ active' = active
  BY DEF Reorder
<1> QED  BY <1>1, <1>2, <1>3, SortedFollows DEF Ordered

\* The end of a worker puts a marked job back, which had a place in the order
\* for as long as it ran.
LEMMA FinishOrdered ==
  ASSUME OrderInv, NEW s \in Slots, Finish(s)
  PROVE  Ordered'
<1> DEFINE j == worker[s].job
           ended == [worker EXCEPT ![s] = IdleWorker]
<1>1. /\ pending \in Seq(Jobs) /\ IsInjective(order) /\ active \subseteq Jobs
      /\ Range(pending) \cup active \subseteq Range(order) /\ Ascending(pending, order)
      /\ requeue \subseteq active /\ maxConcurrent \in Limits
  BY DEF OrderInv, TypeOK, Ordered, Follows, MarksAreActive
<1>2. order' = order /\ maxConcurrent' \in Limits
  BY <1>1 DEF Finish
<1>3. PICK q \in IF j \in requeue THEN SortPending(Append(pending, j), order) ELSE {pending} :
        Schedule(q, ended, active \ {j})
  BY DEF Finish
<1> HIDE DEF j, ended
<1>4. CASE j \in requeue
  <2>1. j \in Jobs /\ q \in SortPending(Append(pending, j), order)
    BY <1>1, <1>3, <1>4
  <2>2. Follows(pending', active', order)
    BY <1>1, <1>2, <1>3, <1>4, <2>1, AppendedFollows
  <2> QED  BY <1>1, <1>2, <2>2 DEF Ordered
<1>5. CASE j \notin requeue
  <2>1. q \in Seq(Jobs) /\ Follows(q, active \ {j}, order)
    BY <1>1, <1>3, <1>5 DEF Follows
  <2>2. Follows(pending', active', order)
    BY <1>2, <1>3, <2>1, ScheduleFollows
  <2> QED  BY <1>1, <1>2, <2>2 DEF Ordered
<1> QED  BY <1>4, <1>5

\* Every step keeps the queue in the order.
LEMMA OrderInductive == OrderInv /\ [Next]_vars => OrderInv'
<1> SUFFICES ASSUME OrderInv, [Next]_vars PROVE OrderInv'
  OBVIOUS
<1>1. TypeOK' /\ MarksAreActive'
  BY TypesInductive DEF OrderInv
<1>2. Ordered /\ maxConcurrent' \in Limits /\ pending \in Seq(Jobs)
  BY <1>1 DEF OrderInv, TypeOK
<1>3. ASSUME UNCHANGED <<pending, active, order>> PROVE Ordered'
  BY <1>2, <1>3 DEF Ordered
<1>4. ASSUME NEW j \in Jobs, \/ \E confirmOversize \in {FALSE, (j \in Large)} :
                                  Submit(j, confirmOversize)
                             \/ Retry(j) \/ SelectArchiveFiles(j)
      PROVE  Ordered'
  BY <1>2, <1>4, EnqueueOrdered DEF Submit, Retry, SelectArchiveFiles
<1>5. ASSUME NEW j \in Jobs, Resume(j) \/ Confirm(j) \/ SelectTorrentFiles(j)
      PROVE  Ordered'
  BY <1>5, AgainOrdered
<1>6. ASSUME NEW j \in Jobs, Cancel(j)
      PROVE  Ordered'
  <2>1. pending' = Without(pending, j) /\ active' = active /\ order' = order
    BY <1>6 DEF Cancel
  <2> QED  BY <1>2, <2>1, WithoutFollows DEF Ordered
<1>7. ASSUME NEW j \in Jobs, RemoveJob(j)
      PROVE  Ordered'
  BY <1>7, RemoveOrdered
<1>8. ASSUME NEW j \in Jobs, Pause(j) \/ FinishRemove(j)
      PROVE  Ordered'
  BY <1>3, <1>8 DEF Pause, FinishRemove, schedVars
<1>9. ASSUME Stop
      PROVE  Ordered'
  BY <1>3, <1>9 DEF Stop
<1>10. ASSUME NEW n \in Limits, SetLimit(n)
       PROVE  Ordered'
  <2>1. Schedule(pending, worker, active) /\ order' = order
    BY <1>10 DEF SetLimit
  <2> QED  BY <1>2, <2>1, ScheduleFollows DEF Ordered
<1>11. ASSUME NEW ord \in Bijection(DOMAIN order, Range(order)), Reorder(ord)
       PROVE  Ordered'
  BY <1>11, ReorderOrdered
<1>12. ASSUME NEW s \in Slots, WorkerStep(s)
       PROVE  Ordered'
  <2>1. Finish(s) \/ \E pc \in Phases : Goto(s, pc)
    BY <1>12 DEF WorkerStep, Begin, PreludeFails, VerifySource, StartTorrent, ProbeHttp,
         ResolveTorrent, SaveCheckpoint, TransferDone, Publish, Interrupted, Failed,
         Aborted, AskConfirmation, Phases
  <2> QED  BY <1>3, <2>1, FinishOrdered DEF Goto
<1>13. ASSUME UNCHANGED vars
       PROVE  Ordered'
  <2>1. UNCHANGED <<pending, active, order>>
    BY <1>13 DEF vars
  <2> QED  BY <1>3, <2>1
<1>14. ASSUME ApiCall
       PROVE  Ordered'
  <2>1. ASSUME NEW j \in Jobs,
               \/ \E confirmOversize \in {FALSE, (j \in Large)} : Submit(j, confirmOversize)
               \/ Retry(j) \/ Cancel(j) \/ Pause(j) \/ Resume(j) \/ Confirm(j)
               \/ SelectTorrentFiles(j) \/ SelectArchiveFiles(j) \/ RemoveJob(j)
        PROVE  Ordered'
    BY <1>4, <1>5, <1>6, <1>7, <1>8, <2>1
  <2> QED  BY <1>9, <1>10, <1>11, <1>14, <2>1 DEF ApiCall
<1>15. Ordered'
  BY <1>8, <1>12, <1>13, <1>14 DEF Next
<1> QED  BY <1>1, <1>15 DEF OrderInv

\* The restored jobs have their places and nothing waits.
LEMMA InitOrder == Init => OrderInv
<1> SUFFICES ASSUME Init PROVE OrderInv
  OBVIOUS
<1>1. TypeOK /\ MarksAreActive
  BY InitTypes
<1>2. IsInjective(order)
  BY DEF Init, Bijection, Injection
<1>3. active = {} /\ DOMAIN pending = {}
  <2>1. pending \in Seq(Jobs) /\ active = {} /\ pending = <<>>
    BY <1>1 DEF Init, TypeOK
  <2> QED  BY <2>1, EmptySeq
<1>4. Follows(pending, active, order)
  BY <1>3 DEF Follows, Ascending, Range
<1> QED  BY <1>1, <1>2, <1>4 DEF OrderInv, Ordered

\* The queue is shifted in the order the user last gave: submissions, retries,
\* resumes, a reorder in between and workers that end and put their job back
\* all leave it sorted, also when a job waits twice.
THEOREM QueuePendingInOrder == Spec => []PendingInOrder
<1>1. Init => OrderInv
  BY InitOrder
<1>2. OrderInv /\ [Next]_vars => OrderInv'
  BY OrderInductive
<1>3. OrderInv => PendingInOrder
  BY DEF OrderInv, Ordered, Follows, PendingInOrder
<1> QED  BY <1>1, <1>2, <1>3, PTL DEF Spec
-----------------------------------------------------------------------------
(* The slots *)

\* The loop of scheduleSessionJobs starts entries until none is left or the
\* limit is reached, and starts none when as many workers run already.
LEMMA ScheduleCounts ==
  ASSUME NEW q \in Seq(Jobs), NEW w, NEW act, maxConcurrent' \in Limits,
         job' \in [Jobs -> JobRecord], Schedule(q, w, act)
  PROVE  /\ WorkConserving'
         /\ \/ \A s \in Slots : worker'[s] = w[s]
            \/ Cardinality(Busy') <= maxConcurrent' /\ ~stopping'
<1> DEFINE free == {s \in Slots : w[s].pc = "idle"}
           running == Slots \ free
           n == StartCount(Len(q), Cardinality(running))
           m == maxConcurrent'
<1>1. /\ m \in Nat /\ Len(q) \in Nat
      /\ IsFiniteSet(running) /\ Cardinality(running) \in Nat
  <2>1. m \in Nat /\ Len(q) \in Nat
    BY LimitsType
  <2>2. IsFiniteSet(running)
    BY LimitsType, FS_Difference
  <2> HIDE DEF running, m
  <2> QED  BY <2>1, <2>2, FS_CardinalityType
<1>2. n \in 0..Len(q)
  BY <1>1, StartCountType
<1>3. pending' = SubSeq(q, n + 1, Len(q))
  BY DEF Schedule
<1>4. PICK place \in Injection(1..n, free) :
        worker' = [s \in Slots |-> IF \E i \in 1..n : place[i] = s
                                   THEN StartWorker(q[CHOOSE i \in 1..n : place[i] = s])
                                   ELSE w[s]]
  BY DEF Schedule
<1>5. n \in Nat /\ \A i \in 1..n : q[i] \in Jobs
  <2> HIDE DEF n
  <2> QED  BY <1>1, <1>2
<1>6. /\ stopping' \/ Cardinality(running) >= m => n = 0
      /\ n = 0 \/ n = Len(q) \/ n = m - Cardinality(running)
      /\ ~(stopping' \/ Cardinality(running) >= m) => n = Len(q) \/ n = m - Cardinality(running)
      /\ n <= m - Cardinality(running) \/ n = 0
  <2>1. n = IF stopping' \/ Cardinality(running) >= m THEN 0
            ELSE IF Len(q) <= m - Cardinality(running) THEN Len(q)
            ELSE m - Cardinality(running)
    BY DEF StartCount
  <2> HIDE DEF n, running, m
  <2> QED  BY <1>1, <2>1
<1> HIDE DEF n
<1>7. place \in [1..n -> free] /\ place \in Bijection(1..n, Range(place)) /\ DOMAIN place = 1..n
  BY <1>4 DEF Injection, Bijection, Surjection, Range
<1>8. \A s \in Slots : s \notin Range(place) => worker'[s] = w[s]
  BY <1>4, <1>7 DEF Range
<1>9. \A s \in Slots : s \in Range(place) => worker'[s].pc = "prelude"
  <2> TAKE s \in Slots
  <2> HAVE s \in Range(place)
  <2>1. \E i \in 1..n : place[i] = s
    BY <1>7 DEF Range
  <2>2. (CHOOSE i \in 1..n : place[i] = s) \in 1..n
    BY <2>1
  <2>3. worker'[s] = StartWorker(q[CHOOSE i \in 1..n : place[i] = s])
    BY <1>4, <2>1
  <2> QED  BY <1>5, <2>2, <2>3, StartWorkerType
<1>10. Busy' = running \cup Range(place) /\ running \cap Range(place) = {}
  <2>1. Range(place) \subseteq free
    BY <1>7 DEF Range
  <2>2. \A s \in Slots : worker'[s].pc # "idle" <=> s \in running \/ s \in Range(place)
    BY <1>8, <1>9, <2>1
  <2> QED  BY <2>1, <2>2 DEF Busy
<1>11. Cardinality(Busy') = Cardinality(running) + n
  <2>1. ExistsBijection(1..n, Range(place))
    BY <1>7 DEF ExistsBijection
  <2>2. Cardinality(Range(place)) = n /\ IsFiniteSet(Range(place))
    BY <1>5, <2>1, FS_CountingElements, FS_NatBijection
  <2> HIDE DEF running
  <2>3. Cardinality(running \cup Range(place))
          = Cardinality(running) + Cardinality(Range(place)) - Cardinality({})
    BY <1>1, <1>10, <2>2, FS_Union
  <2> QED  BY <1>1, <1>5, <1>10, <2>2, <2>3, FS_EmptySet
<1>12. WorkConserving'
  <2> SUFFICES ASSUME pending' # <<>>, ~stopping'
               PROVE  Cardinality(Busy') >= m
    BY DEF WorkConserving
  <2>1. n # Len(q)
    BY <1>1, <1>3
  <2> HIDE DEF m, running
  <2> QED  BY <1>1, <1>5, <1>6, <1>11, <2>1
<1>13. \/ \A s \in Slots : worker'[s] = w[s]
       \/ Cardinality(Busy') <= m /\ ~stopping'
  <2>1. CASE n = 0
    <3>1. Range(place) = {}
      BY <1>7, <2>1 DEF Range
    <3> QED  BY <1>8, <3>1
  <2>2. CASE n # 0
    <3> HIDE DEF m, running
    <3> QED  BY <1>1, <1>5, <1>6, <1>11, <2>2
  <2> QED  BY <2>1, <2>2
<1> QED  BY <1>12, <1>13

\* What a step does to the slots: it runs scheduleSessionJobs last, or it adds
\* nothing to the queue, raises no limit, and no worker starts or ends.
SlotsStep ==
  /\ WorkConserving => WorkConserving'
  /\ \/ \A s \in Slots : worker'[s].pc = "prelude" => worker[s].pc # "idle"
     \/ Cardinality(Busy') <= maxConcurrent' /\ ~stopping'

\* A step that ends by running the loop, on the workers it found or freed.
LEMMA ScheduledStep ==
  ASSUME NEW q \in Seq(Jobs), NEW w, NEW act, maxConcurrent' \in Limits,
         job' \in [Jobs -> JobRecord], Schedule(q, w, act),
         \A s \in Slots : w[s] = worker[s] \/ w[s].pc = "idle"
  PROVE  SlotsStep
<1>1. /\ WorkConserving'
      /\ \/ \A s \in Slots : worker'[s] = w[s]
         \/ Cardinality(Busy') <= maxConcurrent' /\ ~stopping'
  BY ScheduleCounts
<1>2. \A s \in Slots : worker'[s] = w[s] =>
        (worker'[s].pc = "prelude" => worker[s].pc # "idle")
  OBVIOUS
<1> QED  BY <1>1, <1>2 DEF SlotsStep

\* A step that leaves the workers where they are, and no job waiting that was
\* not before.
LEMMA QuietStep ==
  ASSUME maxConcurrent' = maxConcurrent, stopping => stopping', pending' # <<>> => pending # <<>>,
         \A s \in Slots : /\ worker'[s].pc = "idle" <=> worker[s].pc = "idle"
  PROVE  SlotsStep
<1>1. Busy' = Busy
  BY DEF Busy
<1>2. WorkConserving => WorkConserving'
  BY <1>1 DEF WorkConserving
<1> QED  BY <1>2 DEF SlotsStep

\* The calls that queue a job.
LEMMA QueueingSlots ==
  ASSUME TypeOK, TypeOK', NEW j \in Jobs,
         \/ \E confirmOversize \in BOOLEAN : Submit(j, confirmOversize)
         \/ Retry(j) \/ Resume(j) \/ Confirm(j) \/ SelectTorrentFiles(j) \/ SelectArchiveFiles(j)
  PROVE  SlotsStep
<1>1. /\ pending \in Seq(Jobs) /\ maxConcurrent' \in Limits /\ job' \in [Jobs -> JobRecord]
      /\ Append(pending, j) \in Seq(Jobs)
  BY AppendJob DEF TypeOK
<1>2. maxConcurrent' = maxConcurrent /\ stopping' = stopping
  BY DEF Submit, Retry, Resume, Confirm, SelectTorrentFiles, SelectArchiveFiles
<1>3. Enqueue(j) \/ Push(j) \/ Resume(j)
  BY DEF Submit, Retry, Confirm, SelectTorrentFiles, SelectArchiveFiles
<1>4. \/ UNCHANGED schedVars
      \/ Schedule(pending, worker, active)
      \/ \E p \in {pending, Append(pending, j)} : \E ord \in {order, order'} :
           \E q \in SortPending(p, ord) : Schedule(q, worker, active)
  BY <1>3 DEF Enqueue, Push, Resume
<1>5. CASE UNCHANGED schedVars
  BY <1>2, <1>5, QuietStep DEF schedVars
<1>6. CASE Schedule(pending, worker, active)
  BY <1>1, <1>6, ScheduledStep
<1>7. ASSUME NEW p \in {pending, Append(pending, j)}, NEW ord, NEW q \in SortPending(p, ord),
             Schedule(q, worker, active)
      PROVE  SlotsStep
  <2>1. q \in Seq(Jobs)
    BY <1>1, SortPendingProperties
  <2> QED  BY <1>1, <1>7, <2>1, ScheduledStep
<1> QED  BY <1>4, <1>5, <1>6, <1>7

\* The calls that take a job out of the queue, stop or reorder.
LEMMA OtherCallsSlots ==
  ASSUME TypeOK,
         \/ \E j \in Jobs : Cancel(j) \/ Pause(j) \/ RemoveJob(j) \/ FinishRemove(j)
         \/ \E ord : Reorder(ord)
         \/ Stop
  PROVE  SlotsStep
<1>1. pending \in Seq(Jobs)
  BY DEF TypeOK
<1>2. maxConcurrent' = maxConcurrent /\ (stopping => stopping')
  <2>1. CASE Stop
    BY <2>1, Zenon DEF Stop
  <2>2. ASSUME NEW j, Cancel(j) \/ Pause(j) \/ RemoveJob(j) \/ FinishRemove(j)
        PROVE  maxConcurrent' = maxConcurrent /\ stopping' = stopping
    BY <2>2 DEF Cancel, Pause, RemoveJob, FinishRemove
  <2>3. ASSUME NEW ord, Reorder(ord)
        PROVE  maxConcurrent' = maxConcurrent /\ stopping' = stopping
    BY <2>3 DEF Reorder
  <2> QED  BY <2>1, <2>2, <2>3, Zenon
<1>3. ASSUME worker' = worker \/ \E js : worker' = Aborting(js)
      PROVE  \A s \in Slots : worker'[s].pc = "idle" <=> worker[s].pc = "idle"
  BY <1>3, AbortingType
<1>4. worker' = worker \/ \E js : worker' = Aborting(js)
  BY DEF Cancel, Pause, PauseJob, RemoveJob, FinishRemove, Reorder, Stop, schedVars
<1>5. pending' # <<>> => pending # <<>>
  <2>1. ASSUME NEW j, pending' = Without(pending, j)
        PROVE  pending' # <<>> => pending # <<>>
    <3>1. Range(<<>>) = {}
      BY DEF Range
    <3> QED  BY <2>1, <3>1 DEF Without
  <2>2. ASSUME NEW ord, pending' \in SortPending(pending, ord)
        PROVE  pending' # <<>> => pending # <<>>
    <3>1. pending' \in Seq(Jobs) /\ Range(pending') = Range(pending)
      BY <1>1, <2>2, SortPendingProperties
    <3>2. \A q \in Seq(Jobs) : Range(q) = {} <=> q = <<>>
      BY DEF Range
    <3> QED  BY <1>1, <3>1, <3>2
  <2>3. \/ pending' = pending
        \/ \E j : pending' = Without(pending, j)
        \/ \E ord : pending' \in SortPending(pending, ord)
    BY DEF Cancel, Pause, RemoveJob, FinishRemove, Reorder, Stop, schedVars
  <2> QED  BY <2>1, <2>2, <2>3
<1> QED  BY <1>2, <1>3, <1>4, <1>5, QuietStep

\* The steps of a worker.
LEMMA WorkerStepSlots ==
  ASSUME TypeOK, TypeOK', NEW s \in Slots, WorkerStep(s)
  PROVE  SlotsStep
<1>1. /\ pending \in Seq(Jobs) /\ requeue \subseteq Jobs /\ worker \in [Slots -> WorkerRecord]
      /\ maxConcurrent' \in Limits /\ job' \in [Jobs -> JobRecord]
  BY DEF TypeOK
<1>2. \/ Finish(s)
      \/ worker[s].pc # "idle" /\ \E pc \in Phases \ {"idle"} : Goto(s, pc)
  BY DEF WorkerStep, Begin, PreludeFails, VerifySource, StartTorrent, ProbeHttp,
         ResolveTorrent, SaveCheckpoint, TransferDone, Publish, Interrupted, Failed,
         Aborted, AskConfirmation, Phases
<1>3. CASE Finish(s)
  <2> DEFINE j == worker[s].job
             ended == [worker EXCEPT ![s] = IdleWorker]
  <2>1. PICK q \in IF j \in requeue THEN SortPending(Append(pending, j), order) ELSE {pending} :
          Schedule(q, ended, active \ {j})
    BY <1>3 DEF Finish
  <2>2. \A t \in Slots : ended[t] = worker[t] \/ ended[t].pc = "idle"
    BY <1>1 DEF IdleWorker
  <2> HIDE DEF j, ended
  <2>3. q \in Seq(Jobs)
    <3>1. CASE j \in requeue
      BY <1>1, <2>1, <3>1, AppendJob, SortPendingProperties
    <3>2. CASE j \notin requeue
      BY <1>1, <2>1, <3>2
    <3> QED  BY <3>1, <3>2
  <2> QED  BY <1>1, <2>1, <2>2, <2>3, ScheduledStep
<1>4. ASSUME NEW pc \in Phases \ {"idle"}, Goto(s, pc), worker[s].pc # "idle"
      PROVE  SlotsStep
  <2>1. pending' = pending /\ maxConcurrent' = maxConcurrent /\ stopping' = stopping
    BY <1>4 DEF Goto
  <2>2. \A t \in Slots : worker'[t].pc = "idle" <=> worker[t].pc = "idle"
    BY <1>1, <1>4 DEF Goto, WorkerRecord
  <2> QED  BY <2>1, <2>2, QuietStep
<1> QED  BY <1>2, <1>3, <1>4

\* Every step.
LEMMA NextSlots == TypeOK /\ [Next]_vars => SlotsStep
<1> SUFFICES ASSUME TypeOK, [Next]_vars PROVE SlotsStep
  OBVIOUS
<1>1. TypeOK'
  BY TypesInductive
<1>2. ASSUME NEW j \in Jobs,
             \/ \E confirmOversize \in {FALSE, (j \in Large)} : Submit(j, confirmOversize)
             \/ Retry(j) \/ Resume(j) \/ Confirm(j) \/ SelectTorrentFiles(j)
             \/ SelectArchiveFiles(j)
      PROVE  SlotsStep
  <2>1. {FALSE, (j \in Large)} \subseteq BOOLEAN
    OBVIOUS
  <2> QED  BY <1>1, <1>2, <2>1, QueueingSlots
<1>3. ASSUME \/ \E j \in Jobs : Cancel(j) \/ Pause(j) \/ RemoveJob(j) \/ FinishRemove(j)
             \/ \E ord : Reorder(ord)
             \/ Stop
      PROVE  SlotsStep
  BY <1>3, OtherCallsSlots
<1>4. ASSUME NEW n \in Limits, SetLimit(n)
      PROVE  SlotsStep
  <2>1. Schedule(pending, worker, active)
    BY <1>4 DEF SetLimit
  <2> QED  BY <1>1, <2>1, ScheduledStep DEF TypeOK
<1>5. ASSUME NEW s \in Slots, WorkerStep(s)
      PROVE  SlotsStep
  BY <1>1, <1>5, WorkerStepSlots
<1>6. ASSUME UNCHANGED vars
      PROVE  SlotsStep
  <2>1. UNCHANGED <<pending, worker, maxConcurrent, stopping>>
    BY <1>6 DEF vars
  <2> QED  BY <2>1, QuietStep
<1>7. ASSUME ApiCall
      PROVE  SlotsStep
  BY <1>2, <1>3, <1>4, <1>7 DEF ApiCall
<1> QED  BY <1>3, <1>5, <1>6, <1>7 DEF Next

\* However many jobs and slots there are, no slot is idle while a job waits and
\* the limit allows another worker, and no worker is started beyond the limit or
\* after the stop.
THEOREM QueueSlotsAreUsed == Spec => SlotsAreUsed
<1>1. Init => TypeOK /\ WorkConserving
  BY InitTypes DEF Init, WorkConserving
<1>2. TypeOK /\ WorkConserving /\ [Next]_vars => (TypeOK /\ WorkConserving)'
  BY TypesInductive, NextSlots DEF SlotsStep
<1>3. TypeOK /\ [Next]_vars =>
        [\A s \in Slots : worker[s].pc = "idle" /\ worker'[s].pc = "prelude"
           => Cardinality(Busy') <= maxConcurrent' /\ ~stopping']_vars
  BY NextSlots DEF SlotsStep
<1> QED  BY <1>1, <1>2, <1>3, PTL DEF Spec, SlotsAreUsed, StartsWithinLimit
=============================================================================
