----------------------------- MODULE MediaCache -----------------------------
(***************************************************************************)
(* The derived media of one retained session: the renditions of a short     *)
(* video, which are encoded whole (videoRenditionJob.ts), the requests that *)
(* play them (handlers/videoHlsRoutes.ts), the preparation of the session   *)
(* (prepareRetainedVideo.ts), and DerivedMediaCache, which removes what     *)
(* exceeds the budget and what a user clears.                               *)
(*                                                                         *)
(* A rendition's directory holds nothing, a part of the rendition that      *)
(* begins with its first segment, or all of it: sizes 0, 1 and 2.           *)
(***************************************************************************)
EXTENDS Naturals, FiniteSets, SequencesExt

CONSTANTS Videos,     \* the videos a session may hold, see below
          Plays,      \* the HTTP requests
          Budget,     \* MEDIA_CACHE_BUDGET_BYTES
          Limit       \* permits of the process limiter

VARIABLES
  video,     \* the video, which does not change
  status,    \* VideoRendition.status, "absent" before getRenditionState
  files,     \* the size of the rendition's directory
  recent,    \* renditions accessed less than ACTIVE_PLAYBACK_MS ago
  tasks,     \* encodings in runVideoTask, oldest first
  play,      \* where each HTTP request is
  prep,      \* where the preparation of the retained session is
  sweep,     \* the sweep under way: the sizes it listed and its total
  removing,  \* what the eviction or removal of the session removes
  clear,     \* where a user's clear is
  failed     \* a removal has failed (one at most)

vars == <<video, status, files, recent, tasks, play, prep, sweep, removing, clear, failed>>

\* calculateRenditions: the video renditions, lowest first; those of the audio
\* tracks; and the rendition each request is for.
Ladder == video.ladder
Audio == video.audio
Wanted == video.wanted
Video == Range(Ladder)
Renditions == Video \cup Audio

Whole == 2
TotalOf(sizes) == FoldFunction(+, 0, sizes)

\* DerivedMediaCache.active: pinned requests and tasks that have not settled.
Active == tasks # <<>> \/ \E p \in Plays : play[p] # "idle"

\* DerivedMediaCache.preparing
Preparing == prep \notin {"none", "done"}

NoSweep == [on |-> FALSE, left |-> {}, sizes |-> [r \in Renditions |-> 0], total |-> 0]

\* A server that starts again finds the directories of retained sessions.
Init ==
  /\ video \in Videos
  /\ status = [r \in Renditions |-> "absent"]
  /\ files \in [Renditions -> {0, Whole}]
  /\ recent = {} /\ tasks = <<>>
  /\ play = [p \in Plays |-> "idle"]
  /\ prep \in {"none", "lowest"}
  /\ sweep = NoSweep /\ removing = {} /\ clear = "idle" /\ failed = FALSE
-----------------------------------------------------------------------------
(* Encodings.                                                               *)

Idle(r) == status[r] \in {"absent", "idle"}

\* The renditions one job encodes: an audio track brings the other idle ones.
Group(r) ==
  IF r \in Audio THEN {a \in Audio : Idle(a)} ELSE {r}

\* FAULT: video is encoded at the priority of the request that wants it.
InBackgroundIfAsked(r, priority) == priority = "background"

\* startRenditionJob: video takes the background lane, and so does audio unless a
\* request asks for it.
InBackground(r, priority) == r \in Video \/ priority = "background"

Task(group, r, priority) ==
  [of |-> group, background |-> InBackground(r, priority), phase |-> "waiting"]

\* startRenditionJob, on the statuses and the tasks: only an idle rendition is
\* encoded.
Started(r, priority) ==
  IF ~Idle(r) THEN <<status, tasks>>
  ELSE <<[a \in Renditions |-> IF a \in Group(r) THEN "queued" ELSE status[a]],
         Append(tasks, Task(Group(r), r, priority))>>

\* A sequence's elements at some indices, in their order.
At(s, indices) ==
  {[k \in 1..Cardinality(indices) |-> s[rank[k]]] :
     rank \in {f \in [1..Cardinality(indices) -> indices] : \A k, n \in DOMAIN f : k < n => f[k] < f[n]}}

\* calculateRenditions(entry).slice(0, level + 1): the levels up to a rendition.
UpTo(r) == {i \in DOMAIN Ladder : \E k \in DOMAIN Ladder : i <= k /\ Ladder[k] = r}

\* startRendition for a level of the video: those below it first, each a task.
StartedLadder(r) ==
  LET idle == {i \in UpTo(r) : Idle(Ladder[i])} IN
  {<<[a \in Renditions |-> IF \E i \in idle : Ladder[i] = a THEN "queued" ELSE status[a]],
     tasks \o [k \in DOMAIN levels |-> Task({levels[k]}, levels[k], "default")]>> :
     levels \in At(Ladder, idle)}

Held == {i \in DOMAIN tasks : tasks[i].phase # "waiting"}

\* The process limiter: the oldest waiter of a class that has room.
HasRoom(i) ==
  /\ Cardinality(Held) < Limit
  /\ tasks[i].background =>
       Cardinality({k \in Held : tasks[k].background}) < (IF Limit > 1 THEN Limit - 1 ELSE 1)
  /\ \A k \in 1..(i - 1) : tasks[k].phase = "waiting" => tasks[k].background # tasks[i].background

Grant(i) ==
  /\ tasks[i].phase = "waiting" /\ HasRoom(i)
  /\ tasks' = [tasks EXCEPT ![i].phase = "granted"]
  /\ UNCHANGED <<video, status, files, recent, play, prep, sweep, removing, clear, failed>>

\* FAULT: the encoder starts without waiting for the removal under way.
StartsAnyTime(i) == tasks[i].phase = "granted"

\* runVideoTask's start, after waitForEviction.
Starts(i) == tasks[i].phase = "granted" /\ removing = {}

\* prepareRenditions
Encode(i) ==
  /\ Starts(i)
  /\ tasks' = [tasks EXCEPT ![i].phase = "running"]
  /\ status' = [r \in Renditions |-> IF r \in tasks[i].of THEN "running" ELSE status[r]]
  /\ UNCHANGED <<video, files, recent, play, prep, sweep, removing, clear, failed>>

\* The encoder publishes the first segments of a rendition.
Progress(i) ==
  /\ tasks[i].phase = "running"
  /\ \E r \in tasks[i].of : files[r] = 0 /\ files' = [files EXCEPT ![r] = 1]
  /\ UNCHANGED <<video, status, recent, tasks, play, prep, sweep, removing, clear, failed>>

\* enforce: there is one sweep at a time, which begins by listing the
\* directories.
Swept(sizes) ==
  IF sweep.on THEN sweep
  ELSE [on |-> TRUE, left |-> {r \in Renditions : sizes[r] > 0}, sizes |-> sizes,
        total |-> TotalOf(sizes)]

\* The encoder ends: finishRenditions, which asks for a sweep, or the catch.
EndEncoding(i) ==
  /\ tasks[i].phase = "running"
  /\ tasks' = RemoveAt(tasks, i)
  /\ \/ /\ files' = [r \in Renditions |-> IF r \in tasks[i].of THEN Whole ELSE files[r]]
        /\ status' = [r \in Renditions |-> IF r \in tasks[i].of THEN "done" ELSE status[r]]
        /\ sweep' = Swept(files')
     \/ /\ status' = [r \in Renditions |-> IF r \in tasks[i].of THEN "error" ELSE status[r]]
        /\ UNCHANGED <<files, sweep>>
  /\ UNCHANGED <<video, recent, play, prep, removing, clear, failed>>
-----------------------------------------------------------------------------
(* Requests and the preparation of the session.                             *)

\* pinMediaRequests protects the session until the response closes.
Arrive(p) ==
  /\ play[p] = "idle"
  /\ play' = [play EXCEPT ![p] = "pinned"]
  /\ UNCHANGED <<video, status, files, recent, tasks, prep, sweep, removing, clear, failed>>

\* FAULT: the request does not wait for the removal under way.
HandlesAnyTime(p) == play[p] = "pinned"

\* pinMediaRequests calls next() after waitForEviction.
Handles(p) == play[p] = "pinned" /\ removing = {}

\* The route: ensureVideoTranscodeEntry begins the preparation of the session,
\* prepareHlsMaster makes every level known, startRendition starts the wanted
\* one and those below it.
Handle(p) ==
  /\ Handles(p)
  /\ \E begun \in IF Wanted[p] \in Audio THEN {Started(Wanted[p], "default")}
                   ELSE StartedLadder(Wanted[p]) :
       /\ status' = [a \in Renditions |->
                       IF begun[1][a] = "absent" /\ a \in Video THEN "idle" ELSE begun[1][a]]
       /\ tasks' = begun[2]
  /\ recent' = recent \cup {Wanted[p]} \cup {Ladder[i] : i \in UpTo(Wanted[p])}
  /\ prep' = IF prep = "none" THEN "lowest" ELSE prep
  /\ play' = [play EXCEPT ![p] = "polling"]
  /\ UNCHANGED <<video, files, sweep, removing, clear, failed>>

\* waitForPublishedSegment: the first segment is there, or the encoding has
\* ended without it.
Poll(p) ==
  LET r == Wanted[p] IN
  /\ play[p] = "polling"
  /\ \/ files[r] > 0 /\ play' = [play EXCEPT ![p] = "serving"]
     \/ files[r] = 0 /\ status[r] \in {"error", "done"} /\ play' = [play EXCEPT ![p] = "failed"]
  /\ UNCHANGED <<video, status, files, recent, tasks, prep, sweep, removing, clear, failed>>

\* The response ends, or its client closes it or is told to retry.
Close(p) ==
  /\ play[p] # "idle"
  /\ play' = [play EXCEPT ![p] = "idle"]
  /\ UNCHANGED <<video, status, files, recent, tasks, prep, sweep, removing, clear, failed>>

\* Thirty seconds pass.
Age ==
  /\ recent # {} /\ recent' = {}
  /\ UNCHANGED <<video, status, files, tasks, play, prep, sweep, removing, clear, failed>>

\* A step of prepareRetainedVideo: startSequential, at background priority.
PrepStarts(r, then) ==
  LET begun == Started(r, "background")
  IN status' = begun[1] /\ tasks' = begun[2] /\ prep' = then /\ UNCHANGED sweep

\* The rendition's completion has settled.
Completed(group) == \A i \in DOMAIN tasks : tasks[i].of \cap group = {}

\* prepareRetainedVideo: the lowest level, then an audio track, each to its
\* completion; then a sweep.
Prepare ==
  /\ \/ prep = "lowest" /\ PrepStarts(Ladder[1], "lowest encoding")
     \/ /\ prep = "lowest encoding" /\ Completed({Ladder[1]})
        /\ \E a \in Audio : PrepStarts(a, "audio encoding")
     \/ /\ \/ prep = "lowest encoding" /\ Audio = {} /\ Completed({Ladder[1]})
           \/ prep = "audio encoding" /\ Completed(Audio)
        /\ prep' = "done" /\ sweep' = Swept(files)
        /\ UNCHANGED <<status, tasks>>
  /\ UNCHANGED <<video, files, recent, play, removing, clear, failed>>
-----------------------------------------------------------------------------
(* The cache.                                                               *)

\* The timer of createRuntimeMedia.
Enforce ==
  /\ ~sweep.on /\ sweep' = Swept(files)
  /\ UNCHANGED <<video, status, files, recent, tasks, play, prep, removing, clear, failed>>

\* FAULT: requests and tasks that use the session are not looked at.
EvictableInUse(r) ==
  removing = {} /\ status[r] \notin {"queued", "running"} /\ r \notin recent

\* FAULT: only what was encoded to its end is evicted.
EvictableDone(r) == removing = {} /\ ~Active /\ status[r] = "done" /\ r \notin recent

\* What sweep checks of a candidate at the moment it would remove it.
Evictable(r) ==
  /\ removing = {} /\ ~Active
  /\ status[r] \notin {"queued", "running"} /\ r \notin recent

\* sweep goes on to a candidate, in the order of their modification times, and
\* evicts it or not.  It waits for its own evictions.
Consider(r) ==
  /\ sweep.on /\ r \in sweep.left /\ sweep.total > Budget
  /\ removing # {} => clear = "removing"
  /\ sweep' = [sweep EXCEPT !.left = @ \ {r}]
  /\ removing' = IF Evictable(r) THEN {r} ELSE removing
  /\ UNCHANGED <<video, status, files, recent, tasks, play, prep, clear, failed>>

\* The finally callback of an eviction, for a rendition its entry knows.
ResetOf(r) == [status EXCEPT ![r] = IF @ = "absent" THEN @ ELSE "idle"]

\* An eviction ends.  When rm fails, so do the sweep, and what waits for either:
\* tasks, requests and a clear.
EndEviction ==
  /\ clear # "removing"
  /\ \E r \in removing :
       /\ removing' = {}
       /\ \/ /\ files' = [files EXCEPT ![r] = 0]
             /\ status' = ResetOf(r)
             /\ sweep' = [sweep EXCEPT !.total = @ - sweep.sizes[r]]
             /\ UNCHANGED <<tasks, play, clear, failed>>
          \/ LET refused == {i \in DOMAIN tasks : tasks[i].phase = "granted"} IN
             /\ ~failed /\ failed' = TRUE
             /\ files' \in {files, [files EXCEPT ![r] = 1]}
             /\ status' = [a \in Renditions |->
                             IF \E i \in refused : a \in tasks[i].of THEN "error" ELSE ResetOf(r)[a]]
             /\ tasks' \in At(tasks, DOMAIN tasks \ refused)
             /\ play' = [p \in Plays |-> IF play[p] = "pinned" THEN "failed" ELSE play[p]]
             /\ sweep' = NoSweep /\ clear' = "idle"
  /\ UNCHANGED <<video, recent, prep>>

EndSweep ==
  /\ sweep.on /\ (sweep.left = {} \/ sweep.total <= Budget)
  /\ removing # {} => clear = "removing"
  /\ sweep' = NoSweep
  /\ UNCHANGED <<video, status, files, recent, tasks, play, prep, removing, clear, failed>>

\* clear: it waits for the sweep there is, then for evictions.
AskClear ==
  /\ clear = "idle" /\ clear' = IF sweep.on THEN "pending" ELSE "evicting"
  /\ UNCHANGED <<video, status, files, recent, tasks, play, prep, sweep, removing, failed>>

AfterPending ==
  /\ clear = "pending" /\ ~sweep.on /\ clear' = "evicting"
  /\ UNCHANGED <<video, status, files, recent, tasks, play, prep, sweep, removing, failed>>

\* FAULT: a preparation does not keep the cache from being cleared.
ClearableUnprepared ==
  /\ ~Active /\ recent = {}
  /\ \A r \in Renditions : status[r] \notin {"queued", "running"}

\* The conflict that clear answers 409 for.
Clearable ==
  /\ ~Active /\ ~Preparing /\ recent = {}
  /\ \A r \in Renditions : status[r] \notin {"queued", "running"}

BeginClear ==
  /\ clear = "evicting" /\ removing = {}
  /\ IF Clearable THEN clear' = "removing" /\ removing' = Renditions
     ELSE clear' = "idle" /\ UNCHANGED removing
  /\ UNCHANGED <<video, status, files, recent, tasks, play, prep, sweep, failed>>

\* The directories are gone and the session's entries with them.
EndClear ==
  /\ clear = "removing" /\ clear' = "idle" /\ removing' = {}
  /\ files' = [r \in Renditions |-> 0]
  /\ status' = [r \in Renditions |-> "absent"]
  /\ prep' = "none"
  /\ UNCHANGED <<video, recent, tasks, play, sweep, failed>>

TaskStep == \E i \in DOMAIN tasks : Grant(i) \/ Encode(i) \/ EndEncoding(i)
SweepStep == EndSweep \/ \E r \in Renditions : Consider(r)
RemovalEnds == EndEviction \/ EndClear

Next ==
  \/ TaskStep \/ SweepStep \/ RemovalEnds \/ Prepare \/ Age \/ Enforce
  \/ AskClear \/ AfterPending \/ BeginClear
  \/ \E i \in DOMAIN tasks : Progress(i)
  \/ \E p \in Plays : Arrive(p) \/ Handle(p) \/ Poll(p) \/ Close(p)

\* Encoders, removals, sweeps and preparations go on, time passes and the timer
\* fires; nobody has to play anything.
Fairness ==
  /\ WF_vars(TaskStep) /\ WF_vars(SweepStep) /\ WF_vars(RemovalEnds)
  /\ WF_vars(Prepare) /\ WF_vars(Age) /\ WF_vars(Enforce)

Spec == Init /\ [][Next]_vars /\ Fairness
-----------------------------------------------------------------------------
TypeOK ==
  /\ status \in [Renditions -> {"absent", "idle", "queued", "running", "done", "error"}]
  /\ files \in [Renditions -> 0..Whole] /\ recent \subseteq Renditions
  /\ play \in [Plays -> {"idle", "pinned", "polling", "serving", "failed"}]
  /\ removing \subseteq Renditions
  /\ clear \in {"idle", "pending", "evicting", "removing"}

\* What a response serves stays on disk until the response is closed, whatever
\* the cache decided from sizes and times it had read before the request came.
ServedStays ==
  \A p \in Plays : play[p] = "serving" => files[Wanted[p]] > 0

\* Nothing is removed under an encoder, and two encoders never write the
\* directory of one video rendition: "one sequential video encoder at a time".
EncodersUndisturbed ==
  \A i \in DOMAIN tasks : tasks[i].phase = "running" =>
    /\ removing = {}
    /\ \A k \in DOMAIN tasks \ {i} :
         tasks[k].phase = "running" => tasks[i].of \cap tasks[k].of \cap Video = {}

\* A preparation that goes on keeps its entry: the cache is not cleared under it.
PreparedIsKept == clear = "removing" => ~Preparing

\* What is derived fits the budget while nothing is played.
FitsWhenIdle == (\A p \in Plays : play[p] = "idle") => TotalOf(files) <= Budget
=============================================================================
