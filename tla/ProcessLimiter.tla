--------------------------- MODULE ProcessLimiter ---------------------------
(***************************************************************************)
(* server/media/processLimiter.ts: the permits FFmpeg and FFprobe          *)
(* processes share, and the run method every caller goes through.          *)
(*                                                                         *)
(* A definition introduced by FAULT is a plausible mistake in the          *)
(* definition that follows it.  Nothing uses it: each is put in place of   *)
(* the right one to show that a property notices the mistake.              *)
(***************************************************************************)
EXTENDS Naturals, FiniteSets, SequencesExt

CONSTANTS Tasks,       \* the callers of run
          Background,  \* those that pass the priority "background"
          Limit        \* the constructor's argument

ASSUME LimiterConstants ==
  /\ IsFiniteSet(Tasks) /\ Background \subseteq Tasks
  /\ Limit \in Nat \ {0}

VARIABLES
  active,            \* #active
  backgroundActive,  \* #backgroundActive
  queue,             \* #queue, as the tasks whose waiters it holds
  phase,             \* where each task is in run
  aborted            \* the tasks in run whose signal was aborted

vars == <<active, backgroundActive, queue, phase, aborted>>

\* idle: not in run; waiting: in #queue; granted: #acquire has resolved, run
\* has not gone on; running: the task itself runs.
Phases == {"idle", "waiting", "granted", "running"}

Holders == {t \in Tasks : phase[t] \in {"granted", "running"}}

\* Math.max(1, this.limit - 1)
BackgroundLimit == IF Limit > 1 THEN Limit - 1 ELSE 1

One(t) == IF t \in Background THEN 1 ELSE 0
-----------------------------------------------------------------------------
Init ==
  /\ active = 0 /\ backgroundActive = 0 /\ queue = <<>>
  /\ phase = [t \in Tasks |-> "idle"] /\ aborted = {}

\* FAULT: background tasks are admitted like interactive ones.
AcquireAnyClass(t) ==
  /\ phase[t] = "idle"
  /\ UNCHANGED aborted
  /\ IF active < Limit
     THEN /\ active' = active + 1
          /\ backgroundActive' = backgroundActive + One(t)
          /\ phase' = [phase EXCEPT ![t] = "granted"]
          /\ UNCHANGED queue
     ELSE /\ queue' = Append(queue, t)
          /\ phase' = [phase EXCEPT ![t] = "waiting"]
          /\ UNCHANGED <<active, backgroundActive>>

\* #acquire.  A signal that is aborted already rejects and changes nothing.
Acquire(t) ==
  /\ phase[t] = "idle"
  /\ UNCHANGED aborted
  /\ IF active < Limit /\ (t \notin Background \/ backgroundActive < BackgroundLimit)
     THEN /\ active' = active + 1
          /\ backgroundActive' = backgroundActive + One(t)
          /\ phase' = [phase EXCEPT ![t] = "granted"]
          /\ UNCHANGED queue
     ELSE /\ queue' = Append(queue, t)
          /\ phase' = [phase EXCEPT ![t] = "waiting"]
          /\ UNCHANGED <<active, backgroundActive>>

\* findIndex: where the first member of a class waits.
First(q, class) ==
  {i \in DOMAIN q : q[i] \in class /\ \A k \in 1..(i - 1) : q[k] \notin class}

\* FAULT: a background waiter without room hides the interactive ones.
WokenBackgroundOnly(q, background) ==
  IF First(q, Background) = {} THEN First(q, Tasks \ Background)
  ELSE IF background < BackgroundLimit THEN First(q, Background) ELSE {}

\* FAULT: interactive waiters always go first.
WokenInteractive(q, background) ==
  IF First(q, Tasks \ Background) = {} /\ background < BackgroundLimit
  THEN First(q, Background) ELSE First(q, Tasks \ Background)

\* FAULT: the oldest waiter is woken whatever its class.
WokenHead(q, background) == DOMAIN q \cap {1}

\* The waiters #release may wake: the first background one if background work
\* has room, else the first interactive one.
Woken(q, background) ==
  IF First(q, Background) # {} /\ background < BackgroundLimit
  THEN First(q, Background) ELSE First(q, Tasks \ Background)

\* The finally block of run.
Release(t) ==
  LET background == backgroundActive - One(t)
      woken == Woken(queue, background)
  IN /\ aborted' = aborted \ {t}
     /\ IF woken = {}
        THEN /\ active' = active - 1
             /\ backgroundActive' = background
             /\ phase' = [phase EXCEPT ![t] = "idle"]
             /\ UNCHANGED queue
        ELSE \E i \in woken :
             /\ queue' = RemoveAt(queue, i)
             /\ UNCHANGED active
             /\ backgroundActive' = background + One(queue[i])
             /\ phase' = [phase EXCEPT ![t] = "idle", ![queue[i]] = "granted"]

\* run after its await: a task whose signal was aborted meanwhile is not run.
Start(t) ==
  /\ phase[t] = "granted"
  /\ IF t \in aborted THEN Release(t)
     ELSE /\ phase' = [phase EXCEPT ![t] = "running"]
          /\ UNCHANGED <<active, backgroundActive, queue, aborted>>

\* The task's promise settles.
End(t) == phase[t] = "running" /\ Release(t)

\* The signal of a task is aborted: the onAbort listener takes a waiter out of
\* the queue and rejects it; a task that holds a permit finds out by itself.
Abort(t) ==
  /\ \/ /\ t \in Holders
        /\ aborted' = aborted \cup {t}
        /\ UNCHANGED <<queue, phase>>
     \/ /\ phase[t] = "waiting"
        /\ \E i \in DOMAIN queue : queue[i] = t /\ queue' = RemoveAt(queue, i)
        /\ phase' = [phase EXCEPT ![t] = "idle"]
        /\ UNCHANGED aborted
  /\ UNCHANGED <<active, backgroundActive>>

Next == \E t \in Tasks : Acquire(t) \/ Start(t) \/ End(t) \/ Abort(t)

Spec == Init /\ [][Next]_vars
-----------------------------------------------------------------------------
(* Properties *)

TypeOK ==
  /\ active \in Nat /\ backgroundActive \in Nat
  /\ queue \in Seq(Tasks)
  /\ phase \in [Tasks -> Phases]
  /\ aborted \subseteq Tasks

\* The counters say how many tasks hold a permit: no path through run, abort
\* or rejection included, leaks a permit or returns one twice.
CountsMatch ==
  /\ active = Cardinality(Holders)
  /\ backgroundActive = Cardinality(Holders \cap Background)

\* No more than Limit tasks hold a permit, and background tasks leave one to
\* interactive work when there is more than one.
WithinLimits ==
  /\ Cardinality(Holders) <= Limit
  /\ Cardinality(Holders \cap Background) <= BackgroundLimit

\* The queue holds each waiting task once, and no task that stopped waiting:
\* a permit is never granted to a task that was rejected.
QueueIsWaiting ==
  /\ IsInjective(queue)
  /\ Range(queue) = {t \in Tasks : phase[t] = "waiting"}

\* No task waits for a permit it could have: #release wakes one waiter, and
\* that is always enough.
NoIdlePermit ==
  \A t \in Range(queue) :
    \/ active = Limit
    \/ t \in Background /\ backgroundActive = BackgroundLimit

\* The limiter is the pool of permits it promises to be.
Pool == INSTANCE PermitPool WITH asking <- Range(queue), holding <- Holders
PoolSpec == Pool!Spec
=============================================================================
