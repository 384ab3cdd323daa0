------------------------------ MODULE Dashboard ------------------------------
(***************************************************************************)
(* server/tui/dashboardController.ts: the terminal dashboard, whose keys    *)
(* act on the job or session at an index of lists that change under it.     *)
(* The actions it calls are external: they change the lists, or fail and    *)
(* become a notice.  Frames are the item that was drawn as selected.        *)
(***************************************************************************)
EXTENDS Integers, SequencesExt

CONSTANTS Jobs, Sessions, NoItem

VARIABLES
  jobs, sessions,              \* getJobs by queuePosition, getSessions
  gone,                        \* the items that were removed: no id comes back
  pending,                     \* an action runs whose failure will be a notice
  pane,                        \* paneIndex
  jobIndex, sessionIndex,      \* counted from 0
  confirmation, notice,        \* the item a second Delete removes; the item the notice names
  stopped, renderTimer,        \* close; a frame is due
  frame,                       \* the selected items of the last frame
  lastKey                      \* the last key, and the item it acted on

screen == <<stopped, renderTimer, frame>>
lists == <<jobs, sessions, gone>>
vars == <<lists, pending, pane, jobIndex, sessionIndex, confirmation, notice, screen, lastKey>>

Nothing == <<"none", NoItem>>

Init ==
  /\ jobs = <<>> /\ sessions = <<>> /\ gone = {} /\ pending = FALSE
  /\ pane = "jobs" /\ jobIndex = 0 /\ sessionIndex = 0
  /\ confirmation = Nothing /\ notice = Nothing
  /\ stopped = TRUE /\ renderTimer = FALSE /\ frame = <<NoItem, NoItem>> /\ lastKey = Nothing

Larger(a, b) == IF a > b THEN a ELSE b
Smaller(a, b) == IF a < b THEN a ELSE b
Clamped(index, list) == Smaller(index, Larger(0, Len(list) - 1))
ItemAt(index, list) == IF index < Len(list) THEN list[index + 1] ELSE NoItem

\* selectedJob and selectedSession move an index that is past the end.
SelectedJob == ItemAt(Clamped(jobIndex, jobs), jobs)
SelectedSession == ItemAt(Clamped(sessionIndex, sessions), sessions)
Drawn == <<SelectedJob, SelectedSession>>

\* The list without the item that is selected; an id is in a list once.
Without(list, index) == RemoveAt(list, Clamped(index, list) + 1)
-----------------------------------------------------------------------------
\* start: it listens to keys, and draws.
Start ==
  /\ stopped
  /\ stopped' = FALSE /\ frame' = Drawn
  /\ jobIndex' = Clamped(jobIndex, jobs) /\ sessionIndex' = Clamped(sessionIndex, sessions)
  /\ UNCHANGED <<lists, pending, pane, confirmation, notice, renderTimer, lastKey>>

\* close: timers and listeners go.
Close ==
  /\ ~stopped
  /\ stopped' = TRUE /\ renderTimer' = FALSE
  /\ UNCHANGED <<lists, pending, pane, jobIndex, sessionIndex, confirmation, notice, frame, lastKey>>

\* requestRender: the refresh timer, a log line, a resize.
RequestRender ==
  /\ ~stopped /\ ~renderTimer
  /\ renderTimer' = TRUE
  /\ UNCHANGED <<lists, pending, pane, jobIndex, sessionIndex, confirmation, notice, stopped, frame, lastKey>>

\* The frame is drawn FRAME_MS later.
Render ==
  /\ renderTimer
  /\ renderTimer' = FALSE /\ frame' = Drawn
  /\ jobIndex' = Clamped(jobIndex, jobs) /\ sessionIndex' = Clamped(sessionIndex, sessions)
  /\ UNCHANGED <<lists, pending, pane, confirmation, notice, stopped, lastKey>>

Comes(item, list, changed) == item \notin Range(list) \cup gone /\ changed = Append(list, item)

\* Jobs and sessions come, go and change places by themselves or through the
\* browser.
JobsChange ==
  /\ \/ \E job \in Jobs : Comes(job, jobs, jobs') /\ UNCHANGED gone
     \/ \E i \in DOMAIN jobs : jobs' = RemoveAt(jobs, i) /\ gone' = gone \cup {jobs[i]}
     \/ Len(jobs) > 1 /\ jobs' = Append(RemoveAt(jobs, 1), jobs[1]) /\ UNCHANGED gone
  /\ UNCHANGED <<sessions, pending, pane, jobIndex, sessionIndex, confirmation, notice, screen, lastKey>>

SessionsChange ==
  /\ \/ \E session \in Sessions : Comes(session, sessions, sessions') /\ UNCHANGED gone
     \/ \E i \in DOMAIN sessions :
          sessions' = RemoveAt(sessions, i) /\ gone' = gone \cup {sessions[i]}
  /\ UNCHANGED <<jobs, pending, pane, jobIndex, sessionIndex, confirmation, notice, screen, lastKey>>
-----------------------------------------------------------------------------
\* FAULT: keys other than Delete leave the question open.
Forgotten == confirmation

\* handleData: any key but Delete withdraws the question.
Withdrawn == Nothing

\* Each key first looks at the selected job, and asks for a frame.
Key(name, item) ==
  /\ ~stopped
  /\ renderTimer' = TRUE /\ lastKey' = <<name, item>>
  /\ UNCHANGED <<stopped, frame>>

TabKey ==
  /\ Key("tab", NoItem)
  /\ pane' = CASE pane = "jobs" -> "sessions" [] pane = "sessions" -> "logs" [] OTHER -> "jobs"
  /\ jobIndex' = Clamped(jobIndex, jobs) /\ confirmation' = Withdrawn
  /\ UNCHANGED <<lists, pending, sessionIndex, notice>>

\* moveSelection
Moved(index, list, delta) == Larger(0, Smaller(Len(list) - 1, index + delta))
ArrowKey(delta) ==
  /\ Key("arrow", NoItem)
  /\ jobIndex' = IF pane = "jobs" THEN Moved(Clamped(jobIndex, jobs), jobs, delta) ELSE Clamped(jobIndex, jobs)
  /\ sessionIndex' = IF pane = "sessions" THEN Moved(sessionIndex, sessions, delta) ELSE sessionIndex
  /\ confirmation' = Withdrawn /\ notice' = Nothing
  /\ UNCHANGED <<lists, pending, pane>>

\* run: an action that fails becomes a notice, whatever is on the screen then.
Fails ==
  /\ pending
  /\ pending' = FALSE /\ notice' = <<"failed", NoItem>> /\ renderTimer' = ~stopped
  /\ UNCHANGED <<lists, pane, jobIndex, sessionIndex, confirmation, stopped, frame, lastKey>>

\* movePriority: two neighbours change places.  items.at(-1) is the last job, and
\* the list that results names one job twice: the queue refuses it.
PriorityKey(delta) ==
  LET index == Clamped(jobIndex, jobs)  target == index + delta IN
  /\ Key("priority", SelectedJob)
  /\ jobIndex' = index /\ confirmation' = Withdrawn
  /\ IF target \in 0..(Len(jobs) - 1)
     THEN jobs' = [jobs EXCEPT ![index + 1] = jobs[target + 1], ![target + 1] = jobs[index + 1]]
          /\ UNCHANGED pending
     ELSE UNCHANGED jobs /\ pending' = (pending \/ (target < 0 /\ Len(jobs) > 1))
  /\ UNCHANGED <<sessions, gone, pane, sessionIndex, notice>>

\* P, X and R act on the selected job in any pane, [ and ] on the scheduler.
ActionKey ==
  /\ Key("action", SelectedJob)
  /\ jobIndex' = Clamped(jobIndex, jobs) /\ confirmation' = Withdrawn
  /\ pending' = TRUE
  /\ UNCHANGED <<lists, pane, sessionIndex, notice>>

Selected == IF pane = "sessions" THEN SelectedSession ELSE SelectedJob

\* FAULT: Delete asks once for whatever is selected.
AskedForAny(key) == confirmation # Nothing

\* The item that is selected now is the one the question was about.
AskedFor(key) == confirmation = key

\* removeSelected
DeleteKey ==
  LET item == Selected  key == <<pane, item>> IN
  /\ Key("delete", item)
  /\ jobIndex' = Clamped(jobIndex, jobs)
  /\ sessionIndex' = IF pane = "sessions" THEN Clamped(sessionIndex, sessions) ELSE sessionIndex
  /\ UNCHANGED pane
  /\ IF item = NoItem THEN UNCHANGED <<lists, pending, confirmation, notice>>
     ELSE IF ~AskedFor(key)
          THEN confirmation' = key /\ notice' = <<"delete", item>> /\ UNCHANGED <<lists, pending>>
          ELSE /\ confirmation' = Nothing /\ notice' = Nothing
               /\ \/ pending' = TRUE /\ UNCHANGED lists
                  \/ /\ gone' = gone \cup {item} /\ UNCHANGED pending
                     /\ jobs' = IF pane = "sessions" THEN jobs ELSE Without(jobs, jobIndex)
                     /\ sessions' = IF pane = "sessions" THEN Without(sessions, sessionIndex) ELSE sessions

Next ==
  \/ Start \/ Close \/ Fails \/ RequestRender \/ Render \/ JobsChange \/ SessionsChange
  \/ TabKey \/ ActionKey \/ DeleteKey
  \/ \E delta \in {-1, 1} : ArrowKey(delta) \/ PriorityKey(delta)
-----------------------------------------------------------------------------
TypeOK ==
  /\ jobs \in Seq(Jobs) /\ sessions \in Seq(Sessions) /\ gone \subseteq Jobs \cup Sessions
  /\ pane \in {"jobs", "sessions", "logs"} /\ jobIndex \in Nat /\ sessionIndex \in Nat
  /\ {pending, stopped, renderTimer} \subseteq BOOLEAN

\* The dashboard removes only what Delete asked about, as the lists change under it.
RemovalIsAsked ==
  \A item \in gone' \ gone :
    \/ JobsChange \/ SessionsChange
    \/ lastKey = <<"delete", item>> /\ lastKey' = lastKey /\ confirmation = <<pane, item>>
=============================================================================
