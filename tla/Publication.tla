---------------------------- MODULE Publication ----------------------------
(***************************************************************************)
(* Chosen files of a retained ZIP become the contents of a session.  They    *)
(* are extracted beside the published directory and take its place with two *)
(* renames (stagedExtraction.ts, prepareTorrentEntries.ts); the job records *)
(* what it has published and the store keeps the job.  The server may stop  *)
(* between any two steps: the next start finds the directories and the      *)
(* stored job as they are (restoreHttpDownloads.ts,                         *)
(* restorePublishedArchiveSession.ts).                                      *)
(***************************************************************************)
EXTENDS FiniteSets

CONSTANTS Entries, None

VARIABLES
  directory,  \* the published files, or None
  previous,   \* directory.previous
  staging,    \* directory.staging
  job,        \* status, zipSelection.selectedIds and .extractedIds
  store,      \* the job as it was last saved
  session,    \* the files the session shows, None when there is no session
  step        \* where publishHttpSource or the start of the server is

vars == <<directory, previous, staging, job, store, session, step>>
disk == <<directory, previous, staging>>

Job == [status : {"awaiting_selection", "queued", "extracting", "ready", "error"},
        selected : SUBSET Entries, extracted : SUBSET Entries]

Init ==
  /\ directory = None /\ previous = None /\ staging = None
  /\ job = [status |-> "awaiting_selection", selected |-> {}, extracted |-> {}]
  /\ store = job /\ session = None /\ step = "idle"

\* emitJob: the job changes and is saved.
Emit(new) == job' = new /\ store' = new

\* getZipSelection: the files chosen now and those published before.
Choose ==
  /\ step = "idle" /\ job.status \in {"awaiting_selection", "ready", "error"}
  /\ \E ids \in (SUBSET Entries) \ {{}} :
       Emit([job EXCEPT !.status = "queued", !.selected = job.extracted \cup ids])
  /\ UNCHANGED <<disk, session, step>>

\* The worker finds the archive unchanged, and starts over with a published
\* directory that an earlier publication may have left between its renames.
Begin ==
  /\ step = "idle" /\ job.status = "queued"
  /\ Emit([job EXCEPT !.status = "extracting"])
  /\ step' = "recover"
  /\ UNCHANGED <<disk, session>>

\* FAULT: the files put aside are dropped whether or not others took their place.
RecoveredDropping == directory

\* stageExtraction, before it extracts.
Recovered == IF previous # None /\ directory = None THEN previous ELSE directory

Recover ==
  /\ step = "recover"
  /\ directory' = Recovered /\ previous' = None /\ staging' = {}
  /\ step' = "extract"
  /\ UNCHANGED <<job, store, session>>

\* extractZip: one file after the other, verified as it is written.
Extract ==
  /\ step = "extract"
  /\ IF staging = job.selected
     THEN step' = "aside" /\ UNCHANGED staging
     ELSE /\ \E e \in job.selected \ staging : staging' = staging \cup {e}
          /\ UNCHANGED step
  /\ UNCHANGED <<directory, previous, job, store, session>>

\* FAULT: the published directory is removed to make room.
AsideNone == None

Aside == directory

PutAside ==
  /\ step = "aside"
  /\ previous' = Aside /\ directory' = None
  /\ step' = "place"
  /\ UNCHANGED <<staging, job, store, session>>

Place ==
  /\ step = "place"
  /\ directory' = staging /\ staging' = None
  /\ step' = "tidy"
  /\ UNCHANGED <<previous, job, store, session>>

Tidy ==
  /\ step = "tidy"
  /\ previous' = None /\ step' = "complete"
  /\ UNCHANGED <<directory, staging, job, store, session>>

\* completeSession
Complete ==
  /\ step = "complete"
  /\ Emit([job EXCEPT !.status = "ready", !.extracted = job.selected])
  /\ session' = directory
  /\ step' = "idle"
  /\ UNCHANGED disk

\* FAULT: a failed rename leaves the published files where they were put.
PutBackNever == directory

PutBack == IF step = "place" THEN previous ELSE directory

\* A step fails or the job is aborted: what was put aside and not replaced comes back.
Fail ==
  /\ step \in {"recover", "extract", "aside", "place", "tidy", "complete"}
  /\ Emit([job EXCEPT !.status = "error"])
  /\ directory' = PutBack /\ staging' = None
  /\ previous' = IF step = "place" THEN None ELSE previous
  /\ step' = "idle"
  /\ UNCHANGED session

\* The server stops; the next one reads the store.
Crash ==
  /\ job' = store /\ session' = None /\ step' = "restart"
  /\ UNCHANGED <<disk, store>>

\* restoreHttpDownloads: a failed job shows what it had published, once the files
\* have been verified; any other is processed again.
Restart ==
  /\ step = "restart"
  /\ IF job.status # "error"
     THEN /\ Emit(IF job.selected = {} THEN job ELSE [job EXCEPT !.status = "queued"])
          /\ UNCHANGED <<directory, previous, session>>
     ELSE /\ directory' = Recovered
          /\ previous' = IF Recovered = previous THEN None ELSE previous
          /\ session' = IF job.extracted # {} /\ job.extracted \subseteq Recovered THEN job.extracted ELSE None
          /\ UNCHANGED <<job, store>>
  /\ step' = "idle"
  /\ UNCHANGED staging

Next ==
  \/ Choose \/ Begin \/ Recover \/ Extract \/ PutAside \/ Place \/ Tidy \/ Complete \/ Fail
  \/ Crash \/ Restart

Spec == Init /\ [][Next]_vars
-----------------------------------------------------------------------------
\* State types.
TypeOK ==
  /\ {directory, previous, staging, session} \subseteq (SUBSET Entries) \cup {None}
  /\ job \in Job /\ store \in Job
  /\ step \in {"idle", "recover", "extract", "aside", "place", "tidy", "complete", "restart"}

\* What the store says was published can be read back after a crash here: it is in
\* the directory, or put aside while there is no directory.
NothingLost ==
  store.extracted # {} =>
    LET found == IF directory # None THEN directory ELSE previous IN
    found # None /\ store.extracted \subseteq found

\* The session shows files that are there, but for the moment between the renames.
ShowsWhatIsThere ==
  session # None /\ step # "place" => directory # None /\ session \subseteq directory
=============================================================================
