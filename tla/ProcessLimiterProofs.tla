------------------------ MODULE ProcessLimiterProofs ------------------------
(***************************************************************************)
(* Proofs about ProcessLimiter, for every set of tasks and every limit:    *)
(* its safety invariants, and that it implements PermitPool.               *)
(***************************************************************************)
EXTENDS ProcessLimiter, SequenceLemmas

\* The conjunction is inductive; no part is without the others.  The counters
\* bound the permits only while they match the holders, the waiters a release
\* finds are right only while the queue holds just the waiting tasks, and one
\* wake-up is enough only if no permit was idle before.
LimiterInv == TypeOK /\ CountsMatch /\ WithinLimits /\ QueueIsWaiting /\ NoIdlePermit
-----------------------------------------------------------------------------
(* Counting permits *)

\* Both limits are positive numbers.
LEMMA LimitTypes == Limit \in Nat /\ Limit >= 1 /\ BackgroundLimit \in Nat /\ BackgroundLimit >= 1
BY LimiterConstants DEF BackgroundLimit

\* Sets of tasks can be counted.
LEMMA SubsetsAreFinite ==
  ASSUME NEW H \in SUBSET Tasks
  PROVE  /\ IsFiniteSet(H) /\ Cardinality(H) \in Nat
         /\ IsFiniteSet(H \cap Background) /\ Cardinality(H \cap Background) \in Nat
<1>1. IsFiniteSet(H)
  BY LimiterConstants, FS_Subset
<1>2. IsFiniteSet(H \cap Background)
  BY <1>1, FS_Intersection
<1> QED  BY <1>1, <1>2, FS_CardinalityType

\* The holders of permits are tasks.
LEMMA HoldersType == Holders \in SUBSET Tasks
BY DEF Holders

\* One more holder counts one more, and one more background holder if it is one.
LEMMA CountAdded ==
  ASSUME NEW H \in SUBSET Tasks, NEW t \in Tasks, t \notin H
  PROVE  /\ Cardinality(H \cup {t}) = Cardinality(H) + 1
         /\ Cardinality((H \cup {t}) \cap Background) = Cardinality(H \cap Background) + One(t)
<1>1. IsFiniteSet(H) /\ IsFiniteSet(H \cap Background) /\ Cardinality(H \cap Background) \in Nat
  BY SubsetsAreFinite
<1>2. Cardinality(H \cup {t}) = Cardinality(H) + 1
  BY <1>1, FS_AddElement
<1>3. CASE t \in Background
  <2>1. (H \cup {t}) \cap Background = (H \cap Background) \cup {t}
    BY <1>3
  <2> QED  BY <1>1, <1>2, <1>3, <2>1, FS_AddElement DEF One
<1>4. CASE t \notin Background
  <2>1. (H \cup {t}) \cap Background = H \cap Background
    BY <1>4
  <2>2. One(t) = 0
    BY <1>4 DEF One
  <2>3. Cardinality((H \cup {t}) \cap Background) = Cardinality(H \cap Background)
    BY <2>1
  <2> QED  BY <1>1, <1>2, <2>2, <2>3
<1> QED  BY <1>3, <1>4

\* One holder less counts one less, likewise.
LEMMA CountRemoved ==
  ASSUME NEW H \in SUBSET Tasks, NEW t \in H
  PROVE  /\ Cardinality(H \ {t}) = Cardinality(H) - 1
         /\ Cardinality((H \ {t}) \cap Background) = Cardinality(H \cap Background) - One(t)
<1>1. /\ H \ {t} \in SUBSET Tasks /\ t \in Tasks /\ (H \ {t}) \cup {t} = H
  OBVIOUS
<1>2. /\ Cardinality(H \ {t}) \in Nat /\ Cardinality((H \ {t}) \cap Background) \in Nat
  BY <1>1, SubsetsAreFinite
<1>3. /\ Cardinality(H) = Cardinality(H \ {t}) + 1
      /\ Cardinality(H \cap Background) = Cardinality((H \ {t}) \cap Background) + One(t)
  BY <1>1, CountAdded
<1>4. One(t) \in {0, 1}
  BY DEF One
<1> QED  BY <1>2, <1>3, <1>4

\* What findIndex finds is the place of a waiting task of the class asked for.
LEMMA FirstIsMember ==
  ASSUME NEW q \in Seq(Tasks), NEW class, NEW i \in First(q, class)
  PROVE  i \in DOMAIN q /\ q[i] \in class /\ q[i] \in Tasks /\ q[i] \in Range(q)
BY DEF First, Range

\* findIndex finds a member of a class if there is one.
LEMMA FirstFinds ==
  ASSUME NEW q \in Seq(Tasks), NEW class, First(q, class) = {}
  PROVE  Range(q) \cap class = {}
<1> SUFFICES ASSUME NEW k \in DOMAIN q, q[k] \in class
             PROVE  FALSE
  BY DEF Range
<1>1. k \in Nat /\ Len(q) \in Nat /\ DOMAIN q = 1..Len(q)
  OBVIOUS
<1>2. PICK i \in Nat : (i \in DOMAIN q /\ q[i] \in class)
                       /\ \A m \in Nat : m < i => ~(m \in DOMAIN q /\ q[m] \in class)
  <2> DEFINE hit == [n \in Nat |-> n \in DOMAIN q /\ q[n] \in class]
  <2>1. hit[k] \in {TRUE}
    BY <1>1
  <2>2. PICK i \in Nat : hit[i] \in {TRUE} /\ \A m \in Nat : m < i => hit[m] \notin {TRUE}
    <3> HIDE DEF hit
    <3> QED  BY <1>1, <2>1, FirstPlace
  <2> QED  BY <2>2
<1>3. i \in First(q, class)
  BY <1>1, <1>2 DEF First
<1> QED  BY <1>3
-----------------------------------------------------------------------------
(* The effect of each operation on the tasks that hold and await permits *)

\* acquire gives a permit that is free, or makes the task wait for one that
\* is not.
LEMMA AcquireEffect ==
  ASSUME LimiterInv, NEW t \in Tasks, Acquire(t)
  PROVE  /\ t \notin Holders /\ t \notin Range(queue)
         /\ \/ /\ active < Limit /\ (t \in Background => backgroundActive < BackgroundLimit)
               /\ Holders' = Holders \cup {t} /\ Range(queue') = Range(queue)
            \/ /\ active = Limit \/ (t \in Background /\ backgroundActive = BackgroundLimit)
               /\ Holders' = Holders /\ Range(queue') = Range(queue) \cup {t}
<1>1. t \notin Holders /\ t \notin Range(queue)
  BY DEF LimiterInv, QueueIsWaiting, Holders, Acquire
<1>2. /\ active \in Nat /\ backgroundActive \in Nat
      /\ active <= Limit /\ backgroundActive <= BackgroundLimit
  BY DEF LimiterInv, TypeOK, CountsMatch, WithinLimits
<1>3. CASE active < Limit /\ (t \notin Background \/ backgroundActive < BackgroundLimit)
  <2>1. phase' = [phase EXCEPT ![t] = "granted"] /\ queue' = queue
    BY <1>3 DEF Acquire
  <2>2. Holders' = Holders \cup {t}
    BY <2>1 DEF Holders, LimiterInv, TypeOK
  <2> QED  BY <1>1, <1>3, <2>1, <2>2
<1>4. CASE ~(active < Limit /\ (t \notin Background \/ backgroundActive < BackgroundLimit))
  <2>1. phase' = [phase EXCEPT ![t] = "waiting"] /\ queue' = Append(queue, t)
    BY <1>4 DEF Acquire
  <2>2. Holders' = Holders
    BY <1>1, <2>1 DEF Holders, LimiterInv, TypeOK
  <2>3. Range(queue') = Range(queue) \cup {t}
    BY <1>1, <2>1, AppendNew DEF LimiterInv, TypeOK, QueueIsWaiting
  <2>4. active = Limit \/ (t \in Background /\ backgroundActive = BackgroundLimit)
    BY <1>2, <1>4, LimitTypes
  <2> QED  BY <1>1, <2>2, <2>3, <2>4
<1> QED  BY <1>3, <1>4

\* The background permits still held when t has returned its own.
BackgroundLeft(t) == backgroundActive - One(t)

\* release frees a permit and passes it on to a waiting task that may have it;
\* it keeps the permit only if no waiting task may.
LEMMA ReleaseEffect ==
  ASSUME LimiterInv, NEW t \in Holders, Release(t)
  PROVE  \/ /\ Holders' = Holders \ {t} /\ queue' = queue
            /\ phase' = [phase EXCEPT ![t] = "idle"]
            /\ active' = active - 1 /\ backgroundActive' = BackgroundLeft(t)
            /\ \A u \in Range(queue) : u \in Background /\ BackgroundLeft(t) = BackgroundLimit
         \/ \E u \in Range(queue) :
            /\ u \in Tasks /\ u \notin Holders
            /\ u \in Background => BackgroundLeft(t) < BackgroundLimit
            /\ Holders' = (Holders \ {t}) \cup {u}
            /\ queue' \in Seq(Tasks) /\ IsInjective(queue')
            /\ Range(queue') = Range(queue) \ {u}
            /\ phase' = [phase EXCEPT ![t] = "idle", ![u] = "granted"]
            /\ active' = active /\ backgroundActive' = BackgroundLeft(t) + One(u)
<1> DEFINE woken == Woken(queue, BackgroundLeft(t))
<1>1. /\ t \in Tasks /\ queue \in Seq(Tasks) /\ IsInjective(queue)
      /\ phase \in [Tasks -> Phases]
      /\ Range(queue) = {u \in Tasks : phase[u] = "waiting"}
  BY HoldersType DEF LimiterInv, TypeOK, QueueIsWaiting
<1>2. BackgroundLeft(t) \in Int /\ BackgroundLeft(t) <= BackgroundLimit
  <2>1. backgroundActive \in Nat /\ backgroundActive <= BackgroundLimit /\ One(t) \in {0, 1}
    BY DEF LimiterInv, TypeOK, CountsMatch, WithinLimits, One
  <2> QED  BY <2>1, LimitTypes DEF BackgroundLeft
<1>3. CASE woken = {}
  <2>1. /\ active' = active - 1 /\ backgroundActive' = BackgroundLeft(t)
        /\ phase' = [phase EXCEPT ![t] = "idle"] /\ queue' = queue
    BY <1>3 DEF Release, BackgroundLeft
  <2>2. Holders' = Holders \ {t}
    BY <1>1, <2>1 DEF Holders
  <2>3. First(queue, Tasks \ Background) = {} \/ First(queue, Background) = {}
    BY <1>3 DEF Woken
  <2>4. First(queue, Tasks \ Background) = {}
    BY <1>3 DEF Woken
  <2>5. First(queue, Background) = {} \/ ~(BackgroundLeft(t) < BackgroundLimit)
    BY <1>3 DEF Woken
  <2>6. \A u \in Range(queue) : u \in Background
    BY <1>1, <2>4, FirstFinds
  <2>7. ASSUME NEW u \in Range(queue)
        PROVE  BackgroundLeft(t) = BackgroundLimit
    <3>1. First(queue, Background) # {}
      BY <1>1, <2>6, <2>7, FirstFinds
    <3> QED  BY <1>2, <2>5, <3>1, LimitTypes
  <2> QED  BY <2>1, <2>2, <2>6, <2>7
<1>4. CASE woken # {}
  <2>1. PICK i \in woken :
          /\ queue' = RemoveAt(queue, i)
          /\ active' = active
          /\ backgroundActive' = BackgroundLeft(t) + One(queue[i])
          /\ phase' = [phase EXCEPT ![t] = "idle", ![queue[i]] = "granted"]
    BY <1>4 DEF Release, BackgroundLeft
  <2> DEFINE u == queue[i]
  <2>2. /\ i \in DOMAIN queue /\ u \in Range(queue)
        /\ u \in Background => BackgroundLeft(t) < BackgroundLimit
    <3>1. CASE First(queue, Background) # {} /\ BackgroundLeft(t) < BackgroundLimit
      BY <1>1, <2>1, <3>1, FirstIsMember DEF Woken
    <3>2. CASE ~(First(queue, Background) # {} /\ BackgroundLeft(t) < BackgroundLimit)
      BY <1>1, <2>1, <3>2, FirstIsMember DEF Woken
    <3> QED  BY <3>1, <3>2
  <2>3. u \in Tasks /\ phase[u] = "waiting" /\ u \notin Holders
    BY <1>1, <2>2 DEF Holders
  <2>4. Holders' = (Holders \ {t}) \cup {u}
    <3> HIDE DEF u
    <3>1. phase' = [phase EXCEPT ![t] = "idle", ![u] = "granted"]
      BY <2>1 DEF u
    <3> QED  BY <1>1, <2>3, <3>1 DEF Holders
  <2>5. queue' \in Seq(Tasks) /\ IsInjective(queue') /\ Range(queue') = Range(queue) \ {u}
    BY <1>1, <2>1, <2>2, RemoveAtProperties
  <2> HIDE DEF u
  <2>6. phase' = [phase EXCEPT ![t] = "idle", ![u] = "granted"]
        /\ backgroundActive' = BackgroundLeft(t) + One(u)
    BY <2>1 DEF u
  <2> QED  BY <2>1, <2>2, <2>3, <2>4, <2>5, <2>6
<1> QED  BY <1>3, <1>4
-----------------------------------------------------------------------------
(* Every step preserves the invariant *)

\* A task counts for one background permit or none.
LEMMA OneType == ASSUME NEW t PROVE One(t) \in {0, 1} /\ (One(t) = 1 <=> t \in Background)
BY DEF One

\* A new limiter has no holder and nothing queued.
LEMMA InitLimiter == Init => LimiterInv
<1> SUFFICES ASSUME Init PROVE LimiterInv
  OBVIOUS
<1>1. Holders = {} /\ Range(queue) = {} /\ DOMAIN queue = {} /\ queue \in Seq(Tasks)
  BY DEF Init, Holders, Range
<1>2. Cardinality({}) = 0 /\ Cardinality({} \cap Background) = 0
  BY FS_EmptySet
<1> QED  BY <1>1, <1>2, LimitTypes
         DEF Init, LimiterInv, TypeOK, CountsMatch, WithinLimits, QueueIsWaiting,
             NoIdlePermit, Phases, IsInjective

\* #acquire keeps the invariant, whether it grants or queues.
LEMMA AcquireStep ==
  ASSUME LimiterInv, NEW t \in Tasks, Acquire(t)
  PROVE  LimiterInv'
<1> USE LimitTypes
<1>1. /\ TypeOK /\ CountsMatch /\ WithinLimits /\ QueueIsWaiting /\ NoIdlePermit
      /\ phase[t] = "idle" /\ aborted' = aborted
  BY DEF LimiterInv, Acquire
<1>2. t \notin Holders /\ t \notin Range(queue)
  BY AcquireEffect
<1>3. CASE active < Limit /\ (t \notin Background \/ backgroundActive < BackgroundLimit)
  <2>1. /\ active' = active + 1 /\ backgroundActive' = backgroundActive + One(t)
        /\ phase' = [phase EXCEPT ![t] = "granted"] /\ queue' = queue
    BY <1>3 DEF Acquire
  <2>2. Holders' = Holders \cup {t}
    BY <1>1, <2>1 DEF Holders, TypeOK
  <2>3. /\ Cardinality(Holders') = Cardinality(Holders) + 1
        /\ Cardinality(Holders' \cap Background) = Cardinality(Holders \cap Background) + One(t)
    BY <1>2, <2>2, HoldersType, CountAdded
  <2>4. TypeOK'
    BY <1>1, <2>1, OneType DEF TypeOK, Phases
  <2>5. CountsMatch'
    BY <1>1, <2>1, <2>3 DEF CountsMatch
  <2>6. WithinLimits'
    BY <1>1, <1>3, <2>3, OneType DEF TypeOK, CountsMatch, WithinLimits
  <2>7. QueueIsWaiting'
    BY <1>1, <2>1 DEF TypeOK, QueueIsWaiting
  <2>8. NoIdlePermit'
    <3> SUFFICES ASSUME NEW u \in Range(queue)
                 PROVE  active' = Limit \/ (u \in Background /\ backgroundActive' = BackgroundLimit)
      BY <2>1 DEF NoIdlePermit
    <3>1. u \in Background /\ backgroundActive = BackgroundLimit
      BY <1>1, <1>3 DEF NoIdlePermit, TypeOK
    <3>2. One(t) = 0
      BY <1>3, <3>1, OneType
    <3> QED  BY <2>1, <3>1, <3>2
  <2> QED  BY <2>4, <2>5, <2>6, <2>7, <2>8 DEF LimiterInv
<1>4. CASE ~(active < Limit /\ (t \notin Background \/ backgroundActive < BackgroundLimit))
  <2>1. /\ active' = active /\ backgroundActive' = backgroundActive
        /\ phase' = [phase EXCEPT ![t] = "waiting"] /\ queue' = Append(queue, t)
    BY <1>4 DEF Acquire
  <2>2. Holders' = Holders
    BY <1>1, <1>2, <2>1 DEF Holders, TypeOK
  <2>3. queue' \in Seq(Tasks) /\ IsInjective(queue') /\ Range(queue') = Range(queue) \cup {t}
    BY <1>1, <1>2, <2>1, AppendNew DEF TypeOK, QueueIsWaiting
  <2>4. TypeOK'
    BY <1>1, <2>1, <2>3 DEF TypeOK, Phases
  <2>5. CountsMatch' /\ WithinLimits'
    BY <1>1, <2>1, <2>2 DEF CountsMatch, WithinLimits
  <2>6. QueueIsWaiting'
    BY <1>1, <2>1, <2>3 DEF TypeOK, QueueIsWaiting
  <2>7. active = Limit \/ (t \in Background /\ backgroundActive = BackgroundLimit)
    BY <1>1, <1>4 DEF TypeOK, CountsMatch, WithinLimits
  <2>8. NoIdlePermit'
    BY <1>1, <2>1, <2>3, <2>7 DEF NoIdlePermit
  <2> QED  BY <2>4, <2>5, <2>6, <2>8 DEF LimiterInv
<1> QED  BY <1>3, <1>4

\* #release keeps the invariant, whether it passes the permit on or not.
LEMMA ReleaseStep ==
  ASSUME LimiterInv, NEW t \in Holders, Release(t)
  PROVE  LimiterInv'
<1> USE LimitTypes
<1>1. /\ TypeOK /\ CountsMatch /\ WithinLimits /\ QueueIsWaiting /\ NoIdlePermit
      /\ aborted' = aborted \ {t} /\ t \in Tasks /\ phase[t] # "waiting"
  BY DEF LimiterInv, Release, Holders
<1>2. /\ Holders \ {t} \in SUBSET Tasks /\ Cardinality(Holders \ {t}) \in Nat
      /\ Cardinality((Holders \ {t}) \cap Background) \in Nat
      /\ Cardinality(Holders \ {t}) = active - 1
      /\ Cardinality((Holders \ {t}) \cap Background) = BackgroundLeft(t)
  <2>1. Holders \ {t} \in SUBSET Tasks
    BY HoldersType
  <2>2. /\ Cardinality(Holders \ {t}) = Cardinality(Holders) - 1
        /\ Cardinality((Holders \ {t}) \cap Background) = Cardinality(Holders \cap Background) - One(t)
    BY HoldersType, CountRemoved
  <2> QED  BY <1>1, <2>1, <2>2, SubsetsAreFinite DEF CountsMatch, BackgroundLeft
<1>3. /\ active \in Nat /\ active <= Limit /\ backgroundActive \in Nat
      /\ backgroundActive <= BackgroundLimit /\ BackgroundLeft(t) <= backgroundActive
  BY <1>1, OneType DEF TypeOK, CountsMatch, WithinLimits, BackgroundLeft
<1>4. CASE /\ Holders' = Holders \ {t} /\ queue' = queue
           /\ phase' = [phase EXCEPT ![t] = "idle"]
           /\ active' = active - 1 /\ backgroundActive' = BackgroundLeft(t)
           /\ \A u \in Range(queue) : u \in Background /\ BackgroundLeft(t) = BackgroundLimit
  <2>1. TypeOK'
    BY <1>1, <1>2, <1>4 DEF TypeOK, Phases
  <2>2. CountsMatch'
    BY <1>2, <1>4 DEF CountsMatch
  <2>3. WithinLimits'
    BY <1>2, <1>3, <1>4 DEF WithinLimits
  <2>4. QueueIsWaiting'
    BY <1>1, <1>4 DEF TypeOK, QueueIsWaiting
  <2>5. NoIdlePermit'
    BY <1>4 DEF NoIdlePermit
  <2> QED  BY <2>1, <2>2, <2>3, <2>4, <2>5 DEF LimiterInv
<1>5. ASSUME NEW u \in Range(queue),
             u \in Tasks, u \notin Holders,
             u \in Background => BackgroundLeft(t) < BackgroundLimit,
             Holders' = (Holders \ {t}) \cup {u},
             queue' \in Seq(Tasks), IsInjective(queue'),
             Range(queue') = Range(queue) \ {u},
             phase' = [phase EXCEPT ![t] = "idle", ![u] = "granted"],
             active' = active, backgroundActive' = BackgroundLeft(t) + One(u)
      PROVE  LimiterInv'
  <2>1. /\ Cardinality(Holders') = active
        /\ Cardinality(Holders' \cap Background) = BackgroundLeft(t) + One(u)
    <3>1. /\ Cardinality(Holders') = Cardinality(Holders \ {t}) + 1
          /\ Cardinality(Holders' \cap Background) = Cardinality((Holders \ {t}) \cap Background) + One(u)
      BY <1>2, <1>5, CountAdded
    <3> QED  BY <1>2, <1>3, <3>1
  <2>2. TypeOK'
    BY <1>1, <1>2, <1>5, OneType DEF TypeOK, Phases
  <2>3. CountsMatch'
    BY <1>5, <2>1 DEF CountsMatch
  <2>4. WithinLimits'
    BY <1>2, <1>3, <1>5, <2>1, OneType DEF WithinLimits
  <2>5. QueueIsWaiting'
    BY <1>1, <1>5 DEF TypeOK, QueueIsWaiting
  <2>6. NoIdlePermit'
    <3> SUFFICES ASSUME NEW w \in Range(queue), active # Limit
                 PROVE  w \in Background /\ BackgroundLeft(t) + One(u) = BackgroundLimit
      BY <1>5 DEF NoIdlePermit
    <3>1. w \in Background /\ u \in Background /\ backgroundActive = BackgroundLimit
      BY <1>1, <1>5 DEF NoIdlePermit
    <3>2. BackgroundLeft(t) = BackgroundLimit - 1 /\ One(u) = 1
      BY <1>5, <3>1, OneType DEF BackgroundLeft
    <3> QED  BY <3>1, <3>2
  <2> QED  BY <2>2, <2>3, <2>4, <2>5, <2>6 DEF LimiterInv
<1> QED  BY <1>4, <1>5, ReleaseEffect

\* An abort keeps the invariant, and only takes a waiter out of the queue.
LEMMA AbortStep ==
  ASSUME LimiterInv, NEW t \in Tasks, Abort(t)
  PROVE  LimiterInv' /\ Holders' = Holders /\ Range(queue') = Range(queue) \ {t}
<1>1. /\ TypeOK /\ CountsMatch /\ WithinLimits /\ QueueIsWaiting /\ NoIdlePermit
      /\ active' = active /\ backgroundActive' = backgroundActive
  BY DEF LimiterInv, Abort
<1>2. CASE t \in Holders /\ aborted' = aborted \cup {t} /\ UNCHANGED <<queue, phase>>
  <2>1. Holders' = Holders /\ t \notin Range(queue)
    BY <1>1, <1>2 DEF Holders, QueueIsWaiting
  <2> QED  BY <1>1, <1>2, <2>1 DEF LimiterInv, TypeOK, CountsMatch, WithinLimits,
                                   QueueIsWaiting, NoIdlePermit
<1>3. CASE /\ phase[t] = "waiting"
           /\ \E i \in DOMAIN queue : queue[i] = t /\ queue' = RemoveAt(queue, i)
           /\ phase' = [phase EXCEPT ![t] = "idle"] /\ UNCHANGED aborted
  <2>1. queue' \in Seq(Tasks) /\ IsInjective(queue') /\ Range(queue') = Range(queue) \ {t}
    BY <1>1, <1>3, RemoveAtProperties DEF TypeOK, QueueIsWaiting
  <2>2. Holders' = Holders
    BY <1>1, <1>3 DEF Holders, TypeOK
  <2>3. TypeOK'
    BY <1>1, <1>3, <2>1 DEF TypeOK, Phases
  <2>4. CountsMatch' /\ WithinLimits'
    BY <1>1, <2>2 DEF CountsMatch, WithinLimits
  <2>5. QueueIsWaiting'
    BY <1>1, <1>3, <2>1 DEF TypeOK, QueueIsWaiting
  <2>6. NoIdlePermit'
    BY <1>1, <2>1 DEF NoIdlePermit
  <2> QED  BY <2>1, <2>2, <2>3, <2>4, <2>5, <2>6 DEF LimiterInv
<1> QED  BY <1>2, <1>3 DEF Abort

\* A granted task that starts keeps its permit, an aborted one releases it.
LEMMA StartStep ==
  ASSUME LimiterInv, NEW t \in Tasks, Start(t)
  PROVE  /\ LimiterInv'
         /\ t \in Holders
         /\ Release(t) \/ (Holders' = Holders /\ queue' = queue)
<1>1. t \in Holders
  BY DEF Start, Holders
<1>2. CASE t \in aborted
  BY <1>1, <1>2, ReleaseStep DEF Start
<1>3. CASE t \notin aborted
  <2>1. /\ phase' = [phase EXCEPT ![t] = "running"] /\ phase[t] = "granted"
        /\ UNCHANGED <<active, backgroundActive, queue, aborted>>
    BY <1>3 DEF Start
  <2>2. Holders' = Holders
    BY <2>1 DEF Holders, LimiterInv, TypeOK
  <2>3. TypeOK'
    BY <2>1 DEF LimiterInv, TypeOK, Phases
  <2>4. QueueIsWaiting'
    BY <2>1 DEF LimiterInv, TypeOK, QueueIsWaiting
  <2>5. CountsMatch' /\ WithinLimits' /\ NoIdlePermit'
    BY <2>1, <2>2 DEF LimiterInv, CountsMatch, WithinLimits, NoIdlePermit
  <2> QED  BY <1>1, <2>1, <2>2, <2>3, <2>4, <2>5 DEF LimiterInv
<1> QED  BY <1>2, <1>3

\* A task that ends was a holder and releases its permit.
LEMMA EndStep ==
  ASSUME LimiterInv, NEW t \in Tasks, End(t)
  PROVE  LimiterInv' /\ t \in Holders /\ Release(t)
BY ReleaseStep DEF End, Holders

\* Every step keeps the invariant.
LEMMA LimiterInvInductive == LimiterInv /\ [Next]_vars => LimiterInv'
<1> SUFFICES ASSUME LimiterInv, [Next]_vars
             PROVE  LimiterInv'
  OBVIOUS
<1>1. ASSUME NEW t \in Tasks, Acquire(t) PROVE LimiterInv'
  BY <1>1, AcquireStep
<1>2. ASSUME NEW t \in Tasks, Start(t) PROVE LimiterInv'
  BY <1>2, StartStep
<1>3. ASSUME NEW t \in Tasks, End(t) PROVE LimiterInv'
  BY <1>3, EndStep
<1>4. ASSUME NEW t \in Tasks, Abort(t) PROVE LimiterInv'
  BY <1>4, AbortStep
<1>5. ASSUME UNCHANGED vars PROVE LimiterInv'
  BY <1>5 DEF vars, LimiterInv, TypeOK, CountsMatch, WithinLimits, QueueIsWaiting,
              NoIdlePermit, Holders
<1> QED  BY <1>1, <1>2, <1>3, <1>4, <1>5 DEF Next

\* In every behaviour of the limiter its counters match the permits held, no
\* permit is given beyond the limits or kept from a task that may have it, and
\* the queue holds just the waiting tasks.
THEOREM LimiterSafe == Spec => []LimiterInv
BY InitLimiter, LimiterInvInductive, PTL DEF Spec

\* The variables keep their types.
THEOREM LimiterTypeOK == Spec => []TypeOK
BY LimiterSafe, PTL DEF LimiterInv

\* No more than Limit tasks run at once, background tasks leave one permit to
\* interactive ones, and no permit is leaked or returned twice.
THEOREM LimiterWithinLimits == Spec => [](CountsMatch /\ WithinLimits)
BY LimiterSafe, PTL DEF LimiterInv

\* No permit idles while a task that may have it waits.
THEOREM LimiterNoIdlePermit == Spec => []NoIdlePermit
BY LimiterSafe, PTL DEF LimiterInv

\* A permit is never granted to a task that was rejected, or twice.
THEOREM LimiterQueueIsWaiting == Spec => []QueueIsWaiting
BY LimiterSafe, PTL DEF LimiterInv
-----------------------------------------------------------------------------
(* The limiter implements the pool of permits *)

\* PermitPool counts with the Cardinality it extends.
LEMMA PoolCardinality == ASSUME NEW S PROVE Pool!Cardinality(S) = Cardinality(S)
BY DEF Pool!Cardinality, Cardinality

\* What it means, in numbers, that one more holder fits in the pool.
LEMMA FitsAdded ==
  ASSUME NEW H \in SUBSET Tasks, NEW t \in Tasks, t \notin H
  PROVE  Pool!Fits(H \cup {t}) <=>
           /\ Cardinality(H) + 1 <= Limit
           /\ Cardinality(H \cap Background) + One(t) <= BackgroundLimit
BY CountAdded, PoolCardinality DEF Pool!Fits, Pool!BackgroundLimit, BackgroundLimit

\* #acquire does what the pool promises for a request.
LEMMA AcquireAsks ==
  ASSUME LimiterInv, NEW t \in Tasks, Acquire(t)
  PROVE  Pool!Ask(t)
<1>1. /\ active = Cardinality(Holders) /\ backgroundActive = Cardinality(Holders \cap Background)
      /\ active \in Nat /\ backgroundActive \in Nat /\ active <= Limit
      /\ backgroundActive <= BackgroundLimit
  BY DEF LimiterInv, TypeOK, CountsMatch, WithinLimits
<1>2. t \notin Holders /\ t \notin Range(queue)
  BY AcquireEffect
<1>3. Pool!Fits(Holders \cup {t}) <=>
        /\ active + 1 <= Limit /\ backgroundActive + One(t) <= BackgroundLimit
  BY <1>1, <1>2, HoldersType, FitsAdded
<1>4. CASE /\ active < Limit /\ (t \in Background => backgroundActive < BackgroundLimit)
           /\ Holders' = Holders \cup {t} /\ Range(queue') = Range(queue)
  <2>1. Pool!Fits(Holders \cup {t})
    BY <1>1, <1>3, <1>4, OneType, LimitTypes
  <2> QED  BY <1>2, <1>4, <2>1 DEF Pool!Ask
<1>5. CASE /\ active = Limit \/ (t \in Background /\ backgroundActive = BackgroundLimit)
           /\ Holders' = Holders /\ Range(queue') = Range(queue) \cup {t}
  <2>1. ~Pool!Fits(Holders \cup {t})
    BY <1>1, <1>3, <1>5, OneType, LimitTypes
  <2> QED  BY <1>2, <1>5, <2>1 DEF Pool!Ask
<1> QED  BY <1>4, <1>5, AcquireEffect

\* #release does what the pool promises for a returned permit.
LEMMA ReleaseReturns ==
  ASSUME LimiterInv, NEW t \in Holders, Release(t)
  PROVE  Pool!Return(t)
<1> DEFINE rest == Holders \ {t}
           next == {u \in Range(queue) : Pool!Fits(rest \cup {u})}
<1>1. /\ rest \in SUBSET Tasks /\ Cardinality(rest) + 1 <= Limit
      /\ Cardinality(rest \cap Background) = BackgroundLeft(t)
      /\ BackgroundLeft(t) \in Nat
  <2>1. rest \in SUBSET Tasks
    BY HoldersType
  <2>2. /\ Cardinality(rest) = Cardinality(Holders) - 1
        /\ Cardinality(rest \cap Background) = Cardinality(Holders \cap Background) - One(t)
    BY HoldersType, CountRemoved
  <2>3. Cardinality(Holders) <= Limit /\ Cardinality(Holders) \in Nat
        /\ backgroundActive = Cardinality(Holders \cap Background)
    BY HoldersType, SubsetsAreFinite DEF LimiterInv, CountsMatch, WithinLimits
  <2>4. Cardinality(rest \cap Background) \in Nat
    BY <2>1, SubsetsAreFinite
  <2> QED  BY <2>1, <2>2, <2>3, <2>4, LimitTypes DEF BackgroundLeft
<1>2. \A u \in Range(queue) : u \in Tasks /\ u \notin Holders
  BY DEF LimiterInv, QueueIsWaiting, Holders
<1>3. ASSUME NEW u \in Range(queue)
      PROVE  Pool!Fits(rest \cup {u}) <=> BackgroundLeft(t) + One(u) <= BackgroundLimit
  BY <1>1, <1>2, FitsAdded
<1>4. CASE /\ Holders' = Holders \ {t} /\ queue' = queue
           /\ \A u \in Range(queue) : u \in Background /\ BackgroundLeft(t) = BackgroundLimit
  <2>1. next = {}
    BY <1>1, <1>3, <1>4, OneType
  <2> QED  BY <1>4, <2>1 DEF Pool!Return
<1>5. CASE \E u \in Range(queue) :
             /\ u \in Background => BackgroundLeft(t) < BackgroundLimit
             /\ Holders' = (Holders \ {t}) \cup {u}
             /\ Range(queue') = Range(queue) \ {u}
  <2>1. PICK u \in Range(queue) :
          /\ u \in Background => BackgroundLeft(t) < BackgroundLimit
          /\ Holders' = (Holders \ {t}) \cup {u}
          /\ Range(queue') = Range(queue) \ {u}
    BY <1>5
  <2>2. CASE BackgroundLeft(t) + One(u) <= BackgroundLimit
    <3>1. u \in next
      BY <1>3, <2>2
    <3> QED  BY <2>1, <3>1 DEF Pool!Return
  <2>3. BackgroundLeft(t) <= BackgroundLimit
    BY OneType, LimitTypes DEF LimiterInv, TypeOK, CountsMatch, WithinLimits, BackgroundLeft
  <2>4. BackgroundLeft(t) + One(u) <= BackgroundLimit
    BY <1>1, <2>1, <2>3, OneType, LimitTypes
  <2> QED  BY <2>2, <2>4
<1> QED  BY <1>4, <1>5, ReleaseEffect

\* The limiter implements the abstract pool: what it does with counters, a
\* queue and listeners is what PermitPool does with two sets.
THEOREM LimiterImplementsPool == Spec => PoolSpec
<1>1. Init => Pool!Init
  <2> SUFFICES ASSUME Init PROVE Holders = {} /\ Range(queue) = {}
    BY DEF Pool!Init
  <2> QED  BY DEF Init, Holders, Range
<1>2. LimiterInv /\ [Next]_vars => [Pool!Next]_(Pool!vars)
  <2> SUFFICES ASSUME LimiterInv, [Next]_vars
               PROVE  Pool!Next \/ UNCHANGED Pool!vars
    OBVIOUS
  <2>1. ASSUME NEW t \in Tasks, Acquire(t) PROVE Pool!Next
    BY <2>1, AcquireAsks DEF Pool!Next
  <2>2. ASSUME NEW t \in Tasks, Start(t) PROVE Pool!Next \/ UNCHANGED Pool!vars
    <3>1. CASE Release(t)
      BY <2>2, <3>1, StartStep, ReleaseReturns DEF Pool!Next
    <3>2. CASE Holders' = Holders /\ queue' = queue
      BY <3>2 DEF Pool!vars
    <3> QED  BY <2>2, <3>1, <3>2, StartStep
  <2>3. ASSUME NEW t \in Tasks, End(t) PROVE Pool!Next
    BY <2>3, EndStep, ReleaseReturns DEF Pool!Next
  <2>4. ASSUME NEW t \in Tasks, Abort(t) PROVE Pool!Next
    <3>1. Pool!GiveUp({t})
      BY <2>4, AbortStep DEF Pool!GiveUp
    <3>2. {t} \in SUBSET Tasks
      OBVIOUS
    <3> QED  BY <3>1, <3>2 DEF Pool!Next
  <2>5. ASSUME UNCHANGED vars PROVE UNCHANGED Pool!vars
    BY <2>5 DEF vars, Pool!vars, Holders
  <2> QED  BY <2>1, <2>2, <2>3, <2>4, <2>5 DEF Next
<1> QED  BY <1>1, <1>2, LimiterSafe, PTL DEF Spec, PoolSpec, Pool!Spec
=============================================================================
