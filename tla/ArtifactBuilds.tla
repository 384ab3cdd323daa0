--------------------------- MODULE ArtifactBuilds ---------------------------
(***************************************************************************)
(* One file the server derives from a media file and keeps: a remuxed video *)
(* (videoRemux.ts), a video thumbnail (thumbnailRoute.ts), a storyboard     *)
(* (videoStoryboard.ts), an image thumbnail or preview (imagePreviews.ts).  *)
(* They are built on request and differ in how requests share a build, in   *)
(* where it writes and in what a failure leaves.  The server may stop       *)
(* between any two steps; the files stay.                                   *)
(***************************************************************************)
EXTENDS Naturals, FiniteSets

CONSTANTS Callers, None

VARIABLES
  kind,    \* which of them this is
  caller,  \* where each request is
  build,   \* the pending map's entry: the request whose call builds
  step,    \* where the build of each request is
  temp,    \* the file or directory the build stages, by builder if it is not shared
  final    \* the file that is served: absent, in part or whole

vars == <<kind, caller, build, step, temp, final>>

Kinds == {"remux", "thumbnail", "storyboard", "image"}

Init ==
  /\ kind \in Kinds
  /\ caller = [c \in Callers |-> "idle"] /\ build = None
  /\ step = [c \in Callers |-> "none"]
  /\ temp = [c \in Callers |-> "none"] /\ final = "none"

\* FAULT: every kind writes its final file.
InPlaceAlways == TRUE

\* sharp's toFile gets the final path; the others stage and rename.
InPlace == kind = "image"

\* The staging file: remuxVideo draws a name, the others share one.
Staged(c) == IF kind = "remux" THEN c ELSE CHOOSE d \in Callers : TRUE

\* ensureThumbnail, ensureImagePreview and the thumbnail route look for the
\* file before they look for a build; remuxes and storyboards do in the build.
LooksFirst == kind \in {"thumbnail", "image"}

Ask(c) ==
  /\ caller[c] = "idle"
  /\ caller' = [caller EXCEPT ![c] = IF LooksFirst THEN "looking" ELSE "asking"]
  /\ UNCHANGED <<kind, build, step, temp, final>>

\* stat of the final file.
Look(c) ==
  /\ caller[c] = "looking"
  /\ caller' = [caller EXCEPT ![c] = IF final = "none" THEN "asking" ELSE "served"]
  /\ UNCHANGED <<kind, build, step, temp, final>>

\* FAULT: a request builds whether or not another one does.
JoinsNothing == FALSE

\* A pending build is shared; images have no map of pending builds.
Joins == build # None /\ kind # "image"

Begin(c) ==
  /\ caller[c] = "asking"
  /\ caller' = [caller EXCEPT ![c] = "waiting"]
  /\ IF Joins THEN UNCHANGED <<build, step>>
     ELSE /\ build' = c /\ step' = [step EXCEPT ![c] = IF LooksFirst THEN "write" ELSE "look"]
  /\ UNCHANGED <<kind, temp, final>>

\* The build looks for what is there already.
BuildLooks(c) ==
  /\ step[c] = "look"
  /\ step' = [step EXCEPT ![c] = IF final = "whole" THEN "done" ELSE "write"]
  /\ UNCHANGED <<kind, caller, build, temp, final>>

\* The external process creates its output and fills it.
Write(c) ==
  /\ step[c] = "write"
  /\ step' = [step EXCEPT ![c] = "fill"]
  /\ IF InPlace THEN final' = "part" /\ temp' = temp
     ELSE temp' = [temp EXCEPT ![Staged(c)] = "part"] /\ final' = final
  /\ UNCHANGED <<kind, caller, build>>

Fill(c) ==
  /\ step[c] = "fill"
  /\ step' = [step EXCEPT ![c] = IF InPlace THEN "done" ELSE "rename"]
  /\ IF InPlace THEN final' = "whole" /\ temp' = temp
     ELSE temp' = [temp EXCEPT ![Staged(c)] = "whole"] /\ final' = final
  /\ UNCHANGED <<kind, caller, build>>

\* FAULT: the staged file is published whatever the process has written.
RenamesEarly(c) == step[c] \in {"fill", "rename"}

Renames(c) == step[c] = "rename"

\* rename, then the cache's budget.  The map's entry goes when the promise
\* settles, before those that wait for it go on.
Publish(c) ==
  /\ Renames(c)
  /\ step' = [step EXCEPT ![c] = "done"]
  /\ final' = temp[Staged(c)] /\ temp' = [temp EXCEPT ![Staged(c)] = "none"]
  /\ UNCHANGED <<kind, caller, build>>

Leftover(c) == IF kind \in {"remux", "storyboard"} THEN [temp EXCEPT ![Staged(c)] = "none"] ELSE temp

Ends(c) == IF kind = "image" THEN {c} ELSE {d \in Callers : caller[d] = "waiting"}

Done(c) ==
  /\ step[c] = "done"
  /\ step' = [step EXCEPT ![c] = "none"]
  /\ build' = IF build = c THEN None ELSE build
  /\ caller' = [d \in Callers |-> IF d \in Ends(c) THEN "served" ELSE caller[d]]
  /\ UNCHANGED <<kind, temp, final>>

\* The process fails or is aborted.  Thumbnails leave what they staged, images
\* what they wrote.
Fail(c) ==
  /\ step[c] \in {"look", "write", "fill", "rename"}
  /\ step' = [step EXCEPT ![c] = "none"]
  /\ build' = IF build = c THEN None ELSE build
  /\ caller' = [d \in Callers |-> IF d \in Ends(c) THEN "failed" ELSE caller[d]]
  /\ temp' = Leftover(c)
  /\ UNCHANGED <<kind, final>>

\* The response is complete; the client may ask again.
Answered(c) ==
  /\ caller[c] \in {"served", "failed"} /\ step[c] = "none"
  /\ caller' = [caller EXCEPT ![c] = "idle"]
  /\ UNCHANGED <<kind, build, step, temp, final>>

\* The server stops and starts.
Restart ==
  /\ caller' = [c \in Callers |-> "idle"] /\ build' = None
  /\ step' = [c \in Callers |-> "none"]
  /\ UNCHANGED <<kind, temp, final>>

BuildStep(c) == BuildLooks(c) \/ Write(c) \/ Fill(c) \/ Publish(c) \/ Done(c)

Next ==
  \/ \E c \in Callers : Ask(c) \/ Look(c) \/ Begin(c) \/ BuildStep(c) \/ Fail(c) \/ Answered(c)
  \/ Restart

Spec == Init /\ [][Next]_vars
-----------------------------------------------------------------------------
TypeOK ==
  /\ kind \in Kinds
  /\ caller \in [Callers -> {"idle", "looking", "asking", "waiting", "served", "failed"}]
  /\ build \in Callers \cup {None}
  /\ step \in [Callers -> {"none", "look", "write", "fill", "rename", "done"}]
  /\ temp \in [Callers -> {"none", "part", "whole"}]
  /\ final \in {"none", "part", "whole"}

\* A file that a rename publishes is served whole or not at all, whoever asks
\* while it is built and whenever the server stopped.  Images, which sharp
\* writes in place, are not in this.
ServedWhole ==
  kind # "image" => \A c \in Callers : caller[c] = "served" => final = "whole"
=============================================================================
