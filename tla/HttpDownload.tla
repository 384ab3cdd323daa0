---------------------------- MODULE HttpDownload ----------------------------
(***************************************************************************)
(* One HTTP download from its first probe to a verified source file:       *)
(* retryDownload and reuseVerifiedSource of downloadSessionSource.ts,      *)
(* segmentedDownloader.ts, rangeDownload.ts, httpCheckpoint.ts,            *)
(* downloadFiles.ts, remoteMetadata.ts, and what restoreHttpDownloads.ts   *)
(* does with the files of an interrupted process.                          *)
(*                                                                         *)
(* A file is a sequence of blocks <<version, position>>, empty when it     *)
(* does not exist.  A strong validator names one version of the source,    *)
(* and a SHA-256 one content: a hash is represented by what it is of.      *)
(* Confirmation of large sources is SessionJobQueue's, storage limits are  *)
(* failures that may happen to any transfer.                               *)
(*                                                                         *)
(* A definition introduced by FAULT is a plausible mistake in the          *)
(* definition that follows it; nothing uses it.                            *)
(***************************************************************************)
EXTENDS Naturals, FiniteSets, SequencesExt

CONSTANTS
  Versions,    \* how many versions of the source the origin will have served
  SizeOf,      \* the size of each version, in blocks
  MaxThreads,  \* the largest threadCount
  Options,     \* the download options: threads is 1 when multithreading is off
  MaxRetries,  \* the retries of a run
  RangesVary,  \* whether the origin may refuse ranges or omit validators
  ProbeFails   \* whether a probe may fail or time out

ASSUME HttpConstants ==
  /\ Versions \in Nat \ {0} /\ SizeOf \in [1..Versions -> Nat \ {0}]
  /\ MaxThreads \in Nat \ {0} /\ MaxRetries \in Nat
  /\ Options \subseteq [threads: 1..MaxThreads, resume: BOOLEAN]
  /\ RangesVary \in BOOLEAN /\ ProbeFails \in BOOLEAN

VARIABLES
  options,   \* job.downloadOptions
  origin,    \* the version the origin serves
  disk,      \* the files of the workspace
  synced,    \* how many blocks of each file survive a crash of the machine
  saved,     \* job.httpDownload, in memory and in the database
  pc,        \* the await the run is in, "off" between runs, "down" after a crash
  metadata,  \* what the latest probe or full response said of the source
  retained,  \* the checkpoint of the running downloadOnce
  writer,    \* the transfers of the running downloadOnce, one per file
  failure,   \* the code of the error that aborted the other transfers
  fallback,  \* the run has fallen back to one fresh stream
  retries,   \* retryBudget.retries
  aborted    \* the job's abort signal

files == <<disk, synced>>
run == <<metadata, retained, writer, failure, fallback, retries>>
vars == <<options, origin, disk, synced, saved, pc, metadata, retained, writer, failure,
          fallback, retries, aborted>>

Target == 0
Parts == 1..MaxThreads
Assembling == MaxThreads + 1
Owned == {Target} \cup Parts
Files == Owned \cup {Assembling}

Blocks == (1..Versions) \X Nat
Content == Seq(Blocks)
Codes == {"", "restart", "retry", "fatal", "abort"}

Metadata == [version: 0..Versions, size: Nat, ranges: BOOLEAN]
Unknown == [version |-> 0, size |-> 0, ranges |-> FALSE]

\* kept is the hashed and flushed prefix of each file, completed the hashed
\* source; version 0 stands for a source without a usable validator.
Checkpoint == [version: 0..Versions, size: Nat, segmented: BOOLEAN,
               kept: [Owned -> Content], completed: Content]
Fresh(m, segmented) ==
  [version |-> m.version, size |-> m.size, segmented |-> segmented,
   kept |-> [f \in Owned |-> <<>>], completed |-> <<>>]

\* data is all that the writer has hashed, written to its file or found there.
Writer == [st: {"none", "ask", "range", "full", "done", "failed"},
           from: 0..Versions, data: Content]
NoWriter == [st |-> "none", from |-> 0, data |-> <<>>]
Streaming(f) == writer[f].st \in {"range", "full"}
Draining == {f \in Owned : writer[f].st = "ask" \/ Streaming(f)}
-----------------------------------------------------------------------------
(* Segments and pieces *)

\* buildSegments: the pieces of a source of this size, positions counted from 1.
SegmentCount(size) == IF size < options.threads THEN size ELSE options.threads
Offset(f, size) == IF f = Target THEN 0 ELSE (f - 1) * (size \div SegmentCount(size))
PieceLength(f, size) ==
  IF f = Target \/ f = SegmentCount(size) THEN size - Offset(f, size)
  ELSE size \div SegmentCount(size)

\* The files a checkpoint speaks of.
Layout(c) == IF c.segmented THEN 1..SegmentCount(c.size) ELSE {Target}

\* The first n blocks of a file that holds its piece of a version.
Prefix(v, f, n) == [i \in 1..n |-> <<v, Offset(f, SizeOf[v]) + i>>]
Whole(v) == Prefix(v, Target, SizeOf[v])

\* reconcileHttpFiles finds the kept bytes of a file on disk.
Intact(c, f) ==
  /\ c.kept[f] # <<>>
  /\ Len(disk[f]) >= Len(c.kept[f])
  /\ SubSeq(disk[f], 1, Len(c.kept[f])) = c.kept[f]

Reconciled(c) ==
  [c EXCEPT !.kept = [f \in Owned |-> IF Intact(c, f) THEN c.kept[f] ELSE <<>>]]

\* FAULT: what was written after the last commit is not truncated.
LeftUntruncated(c, f) == IF c.kept[f] # <<>> THEN disk[f] ELSE <<>>

\* What reconcileHttpFiles leaves of a file of the reconciled checkpoint c.
Left(c, f) == c.kept[f]
-----------------------------------------------------------------------------
(* Planning a transfer: the head of downloadOnce and prepareHttpCheckpoint *)

Reusable(m, segmented) ==
  /\ options.resume /\ ~fallback' /\ m.size > 0 /\ m.ranges /\ m.version # 0
  /\ saved.version = m.version /\ saved.size = m.size /\ saved.segmented = segmented

\* downloadOnce on this metadata, up to the first file it removes.
Plan(m) ==
  LET segmented == ~fallback' /\ options.threads > 1 /\ m.ranges /\ m.size > 0 /\ m.version # 0
      reusable == Reusable(m, segmented)
  IN /\ metadata' = m
     /\ retained' = IF reusable THEN saved ELSE Fresh(m, segmented)
     /\ pc' = IF reusable THEN "prepare" ELSE "discard"
     /\ failure' = "" /\ writer' = [f \in Owned |-> NoWriter]

Init ==
  /\ options \in Options
  /\ origin = 1 /\ pc = "off"
  /\ disk = [f \in Files |-> <<>>] /\ synced = [f \in Files |-> 0]
  /\ saved = Fresh(Unknown, FALSE) /\ retained = Fresh(Unknown, FALSE)
  /\ metadata = Unknown /\ writer = [f \in Owned |-> NoWriter]
  /\ failure = "" /\ fallback = FALSE /\ retries = 0 /\ aborted = FALSE

(* The run *)

\* A worker of the queue calls downloadSessionSource.
Start ==
  /\ pc \in {"off", "complete"}
  /\ pc' = "reuse" /\ aborted' = FALSE /\ retries' = 0 /\ fallback' = FALSE
  /\ UNCHANGED <<options, origin, files, saved, metadata, retained, writer, failure>>

\* reuseVerifiedSource.
Reuse ==
  /\ pc = "reuse"
  /\ IF saved.completed # <<>> /\ disk[Target] = saved.completed
     THEN pc' = "complete" /\ UNCHANGED saved
     ELSE /\ pc' = "probe"
          /\ saved' = IF saved.completed # <<>> THEN Fresh(Unknown, FALSE) ELSE saved
  /\ UNCHANGED <<options, origin, files, run, aborted>>

\* What fetchRemoteMetadata can return: it answers a failure with no metadata.
Answers ==
  {[version |-> origin, size |-> SizeOf[origin], ranges |-> TRUE]}
    \cup (IF RangesVary THEN [version: {0, origin}, size: {0, SizeOf[origin]}, ranges: BOOLEAN]
                        ELSE {})
    \cup (IF ProbeFails THEN {Unknown} ELSE {})

Probe ==
  /\ pc = "probe" /\ ~aborted
  /\ fallback' = FALSE /\ UNCHANGED retries
  /\ \E m \in Answers : Plan(m)
  /\ UNCHANGED <<options, origin, files, saved, aborted>>

\* prepareDownloadFiles without resume removes the target and the parts.
Discard ==
  /\ pc = "discard"
  /\ \/ \E f \in Owned :
          /\ disk[f] # <<>>
          /\ disk' = [disk EXCEPT ![f] = <<>>] /\ synced' = [synced EXCEPT ![f] = 0]
          /\ UNCHANGED pc
     \/ /\ \A f \in Owned : disk[f] = <<>>
        /\ pc' = "prepare" /\ UNCHANGED files
  /\ UNCHANGED <<options, origin, saved, run, aborted>>

\* The rest of prepareHttpCheckpoint, which saves the checkpoint, then the
\* reservation of storage, which may fail.  Interrupted between two files it
\* leaves what a crash before it leaves.
Prepare ==
  LET c == Reconciled(retained)
      kept == [f \in Files |-> IF f \in Layout(c) THEN Left(c, f) ELSE <<>>]
  IN /\ pc = "prepare"
     /\ retained' = c /\ saved' = c
     /\ disk' = kept
     /\ synced' = [f \in Files |-> Len(kept[f])]
     /\ \/ /\ pc' = "fetch"
           /\ writer' = [f \in Owned |->
                 IF f \notin Layout(c) THEN NoWriter
                 ELSE [st |-> IF c.kept[f] # <<>> /\ Len(c.kept[f]) = PieceLength(f, c.size)
                              THEN "done" ELSE "ask",
                       from |-> 0, data |-> c.kept[f]]]
        \/ pc' = "off" /\ UNCHANGED writer
     /\ UNCHANGED <<options, origin, metadata, failure, fallback, retries, aborted>>
-----------------------------------------------------------------------------
(* The transfers of one downloadOnce: streamSingleRange and checkpointWriter *)

\* FAULT: the commit does not sync the file.
SyncNothing(f) ==
  /\ retained' = [retained EXCEPT !.kept[f] = writer[f].data]
  /\ saved' = retained' /\ UNCHANGED synced

\* commit.
Sync(f) ==
  /\ synced' = [synced EXCEPT ![f] = Len(disk[f])]
  /\ retained' = [retained EXCEPT !.kept[f] = writer[f].data]
  /\ saved' = retained'

\* An error destroys the writer, which commits what it has, and aborts the others.
Fails(f, code) ==
  /\ Sync(f)
  /\ writer' = [writer EXCEPT ![f].st = "failed"]
  /\ failure' = IF failure = "" THEN code ELSE failure

Interrupted == aborted \/ failure # ""

\* A range is requested, under If-Range, unless there is nothing to resume.
Ranged(f) == retained.segmented \/ retained.kept[f] # <<>>

\* What the writer of f must have at the end.
Expected(f) == IF writer[f].st = "range" THEN PieceLength(f, retained.size)
                                          ELSE SizeOf[writer[f].from]

\* assertRangeResponse accepts: the validator is the one of the metadata.
AnswerRange(f) ==
  /\ Ranged(f) /\ origin = metadata.version
  /\ writer' = [writer EXCEPT ![f].st = "range", ![f].from = origin]
  /\ UNCHANGED <<synced, retained, saved, failure, metadata>>

AnswerChanged(f) ==
  /\ Ranged(f) /\ (origin # metadata.version \/ RangesVary)
  /\ Fails(f, "restart") /\ UNCHANGED metadata

\* FAULT: the checkpoint keeps the validator of the probe.
AnswerFullUnnamed(f) ==
  /\ ~Ranged(f)
  /\ metadata' = [metadata EXCEPT !.size = SizeOf[origin]]
  /\ retained' = [retained EXCEPT !.size = SizeOf[origin]] /\ saved' = retained'
  /\ writer' = [writer EXCEPT ![f].st = "full", ![f].from = origin]
  /\ UNCHANGED <<synced, failure>>

\* A full response names itself; an encoded one has no size and no ranges.
AnswerFull(f) ==
  /\ ~Ranged(f)
  /\ \E v \in (IF RangesVary THEN {0, origin} ELSE {origin}),
        size \in (IF RangesVary THEN {0, SizeOf[origin]} ELSE {SizeOf[origin]}),
        encoded \in (IF RangesVary THEN BOOLEAN ELSE {FALSE}) :
       /\ encoded => size = 0
       /\ metadata' = [version |-> v, size |-> size, ranges |-> metadata.ranges /\ ~encoded]
       /\ retained' = [retained EXCEPT !.version = v, !.size = size]
       /\ saved' = retained'
  /\ writer' = [writer EXCEPT ![f].st = "full", ![f].from = origin]
  /\ UNCHANGED <<synced, failure>>

Respond(f) ==
  /\ writer[f].st = "ask" /\ ~Interrupted
  /\ \/ AnswerRange(f)
     \/ AnswerChanged(f)
     \/ AnswerFull(f)
     \/ \E code \in {"retry", "fatal"} : Fails(f, code) /\ UNCHANGED metadata
  /\ UNCHANGED <<options, origin, disk, pc, fallback, retries, aborted>>

\* A chunk is written to the file and hashed.
Receive(f) ==
  /\ Streaming(f) /\ Len(writer[f].data) < Expected(f)
  /\ LET block == <<writer[f].from, Offset(f, retained.size) + Len(writer[f].data) + 1>>
     IN /\ disk' = [disk EXCEPT ![f] = Append(@, block)]
        /\ writer' = [writer EXCEPT ![f].data = Append(@, block)]
  /\ UNCHANGED <<options, origin, synced, saved, pc, metadata, retained, failure, fallback, retries, aborted>>

\* Every MiB or second of a transfer.
Commit(f) ==
  /\ Streaming(f) /\ writer[f].data # retained.kept[f]
  /\ Sync(f)
  /\ UNCHANGED <<options, origin, disk, pc, metadata, writer, failure, fallback, retries, aborted>>

\* final commits, then the signal is read once more.
BodyEnds(f) ==
  /\ Streaming(f) /\ Len(writer[f].data) = Expected(f)
  /\ Sync(f)
  /\ IF Interrupted
     THEN /\ writer' = [writer EXCEPT ![f].st = "failed"]
          /\ failure' = IF failure = "" THEN "abort" ELSE failure
     ELSE writer' = [writer EXCEPT ![f].st = "done"] /\ UNCHANGED failure
  /\ UNCHANGED <<options, origin, disk, pc, metadata, fallback, retries, aborted>>

\* The connection breaks, storage runs out, or the body is not the range.
BodyBreaks(f) ==
  /\ Streaming(f)
  /\ \E code \in {"retry", "fatal"}
              \cup (IF RangesVary /\ writer[f].st = "range" THEN {"restart"} ELSE {}) :
       Fails(f, code)
  /\ UNCHANGED <<options, origin, disk, pc, metadata, fallback, retries, aborted>>

\* The signal of the job or of a failed segment stops a transfer.
StopWriter(f) ==
  /\ f \in Draining /\ Interrupted
  /\ Fails(f, "abort")
  /\ UNCHANGED <<options, origin, disk, pc, metadata, fallback, retries, aborted>>

WriterStep(f) ==
  Respond(f) \/ Receive(f) \/ Commit(f) \/ BodyEnds(f) \/ BodyBreaks(f) \/ StopWriter(f)
-----------------------------------------------------------------------------
(* After the transfers *)

\* FAULT: a retry is not counted.
RecoverForever(code) ==
  \/ /\ ~aborted /\ code = "retry"
     /\ pc' = "wait"
     /\ UNCHANGED run
  \/ /\ aborted \/ code # "retry"
     /\ pc' = "off" /\ UNCHANGED run

\* The catch of downloadWithSegmentedManager: one fresh stream after a refused
\* range; then the catch of retryDownload: a wait the budget allows, or the end.
Recover(code) ==
  \/ /\ ~aborted /\ code = "restart" /\ ~fallback
     /\ fallback' = TRUE /\ UNCHANGED retries
     /\ Plan(Unknown)
  \/ /\ ~aborted /\ code = "retry" /\ retries < MaxRetries
     /\ retries' = retries + 1 /\ pc' = "wait"
     /\ UNCHANGED <<metadata, retained, writer, failure, fallback>>
  \/ /\ aborted \/ code # "restart" \/ fallback
     /\ pc' = "off" /\ UNCHANGED run

\* FAULT: Promise.all, which rejects at the first failed segment.
JoinFirst ==
  /\ pc = "fetch" /\ (Draining = {} \/ failure # "")
  /\ \/ failure # "" /\ Recover(failure)
     \/ /\ failure = ""
        /\ pc' = IF retained.segmented THEN "merge" ELSE "verify"
        /\ UNCHANGED run
  /\ UNCHANGED <<options, origin, files, saved, aborted>>

\* Promise.allSettled of the segments, or the end of the single stream.
Join ==
  /\ pc = "fetch" /\ Draining = {}
  /\ \/ failure # "" /\ Recover(failure)
     \/ /\ failure = ""
        /\ pc' = IF retained.segmented THEN "merge" ELSE "verify"
        /\ UNCHANGED run
  /\ UNCHANGED <<options, origin, files, saved, aborted>>

Wait ==
  /\ pc = "wait" /\ ~aborted
  /\ pc' = "probe"
  /\ UNCHANGED <<options, origin, files, saved, run, aborted>>

\* The abort ends a wait and is read after a probe.
EndAborted ==
  /\ pc \in {"wait", "probe"} /\ aborted
  /\ pc' = "off"
  /\ UNCHANGED <<options, origin, files, saved, run, aborted>>

\* mergeSegmentParts; an abort or a full disk leaves a part of the result.
Merge ==
  LET merged == FlattenSeq([f \in Layout(retained) |-> disk[f]])
  IN /\ pc = "merge"
     /\ synced' = [synced EXCEPT ![Assembling] = 0]
     /\ \/ /\ ~aborted
           /\ disk' = [disk EXCEPT ![Assembling] = merged]
           /\ pc' = "rename" /\ UNCHANGED run
        \/ /\ \E n \in 0..Len(merged) : disk' = [disk EXCEPT ![Assembling] = SubSeq(merged, 1, n)]
           /\ Recover("retry")
     /\ UNCHANGED <<options, origin, saved, aborted>>

\* signal.throwIfAborted, then the rename.
Rename ==
  /\ pc = "rename"
  /\ IF aborted
     THEN pc' = "off" /\ UNCHANGED files
     ELSE /\ disk' = [disk EXCEPT ![Target] = disk[Assembling], ![Assembling] = <<>>]
          /\ synced' = [synced EXCEPT ![Target] = synced[Assembling], ![Assembling] = 0]
          /\ pc' = "verify"
  /\ UNCHANGED <<options, origin, saved, run, aborted>>

\* verifyHttpSource, whose size check a complete stream always passes.
Verify ==
  /\ pc = "verify"
  /\ synced' = [synced EXCEPT ![Target] = Len(disk[Target])]
  /\ retained' = [retained EXCEPT !.completed = disk[Target],
                                !.size = IF @ = 0 THEN Len(disk[Target]) ELSE @]
  /\ saved' = retained'
  /\ pc' = "cleanup"
  /\ UNCHANGED <<options, origin, disk, metadata, writer, failure, fallback, retries, aborted>>

\* The parts go, in any order.
Cleanup ==
  /\ pc = "cleanup"
  /\ \/ \E f \in Parts :
          /\ disk[f] # <<>>
          /\ disk' = [disk EXCEPT ![f] = <<>>] /\ synced' = [synced EXCEPT ![f] = 0]
          /\ UNCHANGED pc
     \/ /\ \A f \in Parts : disk[f] = <<>>
        /\ pc' = "complete" /\ UNCHANGED files
  /\ UNCHANGED <<options, origin, saved, run, aborted>>
-----------------------------------------------------------------------------
(* Around the run *)

\* Cancel, pause or shutdown.
Abort ==
  /\ pc \notin {"off", "complete", "down"} /\ ~aborted
  /\ aborted' = TRUE
  /\ UNCHANGED <<options, origin, files, saved, pc, run>>

\* The owner of the source replaces it.
OriginChanges ==
  /\ origin < Versions
  /\ origin' = origin + 1
  /\ UNCHANGED <<options, files, saved, pc, run, aborted>>

\* The machine stops: of each file some prefix is left that holds all synced blocks.
Crash ==
  /\ pc # "down" /\ pc' = "down"
  /\ \E n \in [Files -> 0..Max({Len(disk[f]) : f \in Files})] :
       /\ \A f \in Files : synced[f] <= n[f] /\ n[f] <= Len(disk[f])
       /\ disk' = [f \in Files |-> SubSeq(disk[f], 1, n[f])]
       /\ synced' = n
  /\ metadata' = Unknown /\ retained' = Fresh(Unknown, FALSE)
  /\ writer' = [f \in Owned |-> NoWriter]
  /\ failure' = "" /\ fallback' = FALSE /\ retries' = 0 /\ aborted' = FALSE
  /\ UNCHANGED <<options, origin, saved>>

\* restoreHttpDownloads.  A missing checkpoint is treated as one that is of no
\* use: both end in Discard.
Restore ==
  LET found == saved.completed # <<>> /\ disk[Target] = saved.completed
      c == Reconciled(saved)
  IN /\ pc = "down" /\ pc' = "off"
     /\ saved' = IF found THEN saved ELSE [c EXCEPT !.completed = <<>>]
     /\ disk' = [f \in Files |-> IF f = Assembling THEN <<>>
                                 ELSE IF found \/ f \notin Layout(c) THEN disk[f] ELSE Left(c, f)]
     /\ synced' = [f \in Files |-> Len(disk'[f])]
     /\ UNCHANGED <<options, origin, run, aborted>>

RunStep ==
  \/ Reuse \/ Probe \/ EndAborted \/ Discard \/ Prepare
  \/ \E f \in Owned : WriterStep(f)
  \/ Join \/ Wait \/ Merge \/ Rename \/ Verify \/ Cleanup

Next == Start \/ RunStep \/ Abort \/ OriginChanges \/ Crash \/ Restore

Spec == Init /\ [][Next]_vars

Fairness == WF_vars(RunStep)
LiveSpec == Spec /\ Fairness
-----------------------------------------------------------------------------
(* Properties *)

\* Types of the variables, and no more blocks synced than there are.
TypeOK ==
  /\ options \in Options /\ origin \in 1..Versions
  /\ disk \in [Files -> Content]
  /\ synced \in [Files -> Nat] /\ \A f \in Files : synced[f] <= Len(disk[f])
  /\ saved \in Checkpoint /\ retained \in Checkpoint
  /\ pc \in {"off", "reuse", "probe", "discard", "prepare", "fetch", "wait", "merge",
             "rename", "verify", "cleanup", "complete", "down"}
  /\ metadata \in Metadata /\ writer \in [Owned -> Writer]
  /\ failure \in Codes /\ fallback \in BOOLEAN /\ retries \in 0..MaxRetries
  /\ aborted \in BOOLEAN

\* What a run hands to extraction is one version of the source, whole: never the
\* ranges of two versions, a part missing, or what an interrupted merge left.
PublishedIsSource ==
  pc = "complete" => \E v \in 1..Versions : disk[Target] = Whole(v)

\* A checkpoint whose bytes claim a validated version holds only that version's.
OneSource ==
  saved.version # 0 =>
    \A f \in Owned : saved.kept[f] = Prefix(saved.version, f, Len(saved.kept[f]))

\* "Commit only flushed bytes": except while files are being replaced, a crash
\* loses nothing of what the stored checkpoint says is there.
CheckpointIsDurable ==
  pc \notin {"discard", "prepare", "down"} =>
    IF saved.completed # <<>>
    THEN disk[Target] = saved.completed /\ synced[Target] = Len(disk[Target])
    ELSE \A f \in Owned : /\ Len(saved.kept[f]) <= synced[f]
                          /\ IsPrefix(saved.kept[f], disk[f])

\* "All segment workers have drained before discarding": no transfer writes to a
\* file that the run discards, merges or verifies.
DrainedFirst == pc # "fetch" => Draining = {}

\* Every run ends: completed, failed, or stopped.
RunEnds == pc \notin {"off", "complete", "down"} ~> pc \in {"off", "complete", "down"}
=============================================================================
