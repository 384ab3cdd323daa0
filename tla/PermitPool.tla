----------------------------- MODULE PermitPool -----------------------------
(***************************************************************************)
(* What the process limiter promises: permits for a bounded number of      *)
(* tasks, of which background tasks may hold all but one (but always one), *)
(* and for every task that keeps asking, a permit.  Nothing is said of     *)
(* queues, priorities or counters.                                         *)
(***************************************************************************)
EXTENDS Naturals, FiniteSets

CONSTANTS Tasks,       \* the tasks that ask for permits
          Background,  \* those of background priority; the others are interactive
          Limit        \* how many permits there are

BackgroundLimit == IF Limit > 1 THEN Limit - 1 ELSE 1

VARIABLES asking,   \* the tasks that wait for a permit
          holding   \* the tasks that hold one

vars == <<asking, holding>>

Fits(tasks) ==
  /\ Cardinality(tasks) <= Limit
  /\ Cardinality(tasks \cap Background) <= BackgroundLimit

Init == asking = {} /\ holding = {}

\* A task asks, and is given a permit at once if there is one.
Ask(t) ==
  /\ t \notin asking \cup holding
  /\ \/ Fits(holding \cup {t}) /\ holding' = holding \cup {t} /\ UNCHANGED asking
     \/ ~Fits(holding \cup {t}) /\ asking' = asking \cup {t} /\ UNCHANGED holding

\* Some tasks stop waiting.
GiveUp(ts) ==
  /\ asking' = asking \ ts /\ UNCHANGED holding

\* A permit comes back, and goes to a waiting task it fits, if there is one.
Return(t) ==
  /\ t \in holding
  /\ LET rest == holding \ {t}
         next == {u \in asking : Fits(rest \cup {u})}
     IN IF next = {} THEN holding' = rest /\ UNCHANGED asking
        ELSE \E u \in next : holding' = rest \cup {u} /\ asking' = asking \ {u}

Next ==
  \/ \E t \in Tasks : Ask(t) \/ Return(t)
  \/ \E ts \in SUBSET Tasks : GiveUp(ts)

Spec == Init /\ [][Next]_vars
=============================================================================
