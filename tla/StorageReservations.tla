------------------------ MODULE StorageReservations ------------------------
(***************************************************************************)
(* server/infrastructure/runtime/resourceLimits.ts: the storage that       *)
(* downloads and extractions of one device claim before they write, and    *)
(* the callers that write against it: HTTP downloads, ZIP entries, the     *)
(* output of 7-Zip, the copy of a retained source, and torrents.  Bytes    *)
(* are counted in small units.                                             *)
(***************************************************************************)
EXTENDS Integers, FiniteSetsExt, Functions

CONSTANTS Users,       \* the jobs that write
          Capacity,    \* the bytes the device has for them at the start
          Headroom,    \* STORAGE_HEADROOM_BYTES
          MaxResource, \* MAX_RESOURCE_BYTES
          Sizes,       \* the sizes that are stated
          MaxOutside   \* bound: what other programs write meanwhile

VARIABLES
  free,     \* what statfs says is available
  outside,  \* what other programs wrote
  claims,   \* reservations: how much each job claims (NoClaim: nothing)
  job       \* what each job writes, and how far it is

vars == <<free, outside, claims, job>>

NoClaim == -1
Unmeasured == {"unknown", "gzip"}
Kinds == Unmeasured \cup {"http", "segments", "zip", "sevenzip", "copy", "torrent"}

\* Jobs that check each chunk before they write it, and those a timer checks.
Checked == Kinds \ {"copy", "torrent"}
Polled == {"gzip", "sevenzip", "torrent"}

\* Stages of a job: idle; writing; merging (the parts of a download); stopping: the writer was told
\* to end; ended: it has, and what is claimed is not released yet; rest: the claim
\* is gone, the bytes are there.
Idle == [kind |-> "none", size |-> 0, written |-> 0, stage |-> "idle"]
Claiming == {u \in Users : claims[u] # NoClaim}
Claimed(us) == SumFunctionOnSet(claims, us)

Init ==
  /\ free = Capacity /\ outside = 0
  /\ claims = [u \in Users |-> NoClaim] /\ job = [u \in Users |-> Idle]

\* What a job asks for: parts are merged into a second copy, and a download that does
\* not know its size asks for nothing yet.
Asked(kind, size) ==
  IF kind = "unknown" THEN 0 ELSE IF kind = "segments" THEN 2 * size ELSE size

\* FAULT: the claims of other jobs are not counted.
FitsAlone(bytes) == bytes + Headroom <= free

\* reserveStorage: all claims on the device fit what is available.
Fits(bytes) == bytes + Claimed(Claiming) + Headroom <= free

\* FAULT: what others claim is taken for free space.
RestOfAll(u) == Min({MaxResource, free - Headroom})

\* reserveAvailable: everything the other claims leave.
Rest(u) == Min({MaxResource, free - Claimed(Claiming \ {u}) - Headroom})

\* A job starts: it claims its bytes, or all of the rest if it has no size, or one
\* that gzip states modulo 2^32.  One
\* that does not fit fails and has changed nothing.
Reserve(u, kind, size) ==
  /\ job[u] = Idle /\ Fits(Asked(kind, size))
  /\ claims' = [claims EXCEPT ![u] = IF kind \in Unmeasured THEN Rest(u) ELSE Asked(kind, size)]
  /\ job' = [job EXCEPT ![u] = [kind |-> kind, size |-> size, written |-> 0, stage |-> "writing"]]
  /\ UNCHANGED <<free, outside>>

Staged(u, stage) == job' = [job EXCEPT ![u].stage = stage]

\* responseHeader: the length is missing or larger, or the body is encoded.
ClaimRest(u) ==
  /\ job[u].kind = "http" /\ job[u].stage = "writing" /\ job[u].written = 0
  /\ IF Rest(u) < 0 THEN Staged(u, "stopping") /\ UNCHANGED claims
     ELSE claims' = [claims EXCEPT ![u] = Rest(u)] /\ UNCHANGED job
  /\ UNCHANGED <<free, outside>>

\* The size a writer may not pass: its maxBytes, the entry's declared size, the
\* pieces a torrent misses, the file that is copied.
Bound(u) == IF job[u].kind \in Unmeasured THEN MaxResource ELSE Asked(job[u].kind, job[u].size)
PartsDone(u) ==
  job[u].kind = "segments" /\ job[u].stage = "writing" /\ job[u].written = job[u].size

\* storage.check(received); a ZIP entry and a torrent check without a count.
Checks(u, received) ==
  /\ free >= Headroom
  /\ IF job[u].kind \in {"zip", "torrent"} THEN TRUE ELSE received <= claims[u]

\* FAULT: the budget lets the chunk pass that reaches beyond the size.
PassesBeyond(u) ==
  /\ job[u].written <= Bound(u)
  /\ job[u].kind \in Checked /\ job[u].stage = "writing" => Checks(u, job[u].written)

\* createDownloadBudget and the transform of extractZip: may the next chunk pass?
Passes(u) ==
  /\ job[u].written < Bound(u)
  /\ job[u].kind \in Checked /\ job[u].stage = "writing" => Checks(u, job[u].written + 1)

\* A chunk arrives: it is written, or the job fails.  A copy, the merge of the
\* parts and a torrent (also one that is being destroyed) write unchecked.
Chunk(u) ==
  /\ \/ job[u].stage \in {"writing", "merging"}
     \/ job[u].stage = "stopping" /\ job[u].kind = "torrent"
  /\ ~PartsDone(u)
  /\ IF Passes(u)
     THEN /\ free > 0 /\ free' = free - 1
          /\ job' = [job EXCEPT ![u].written = @ + 1]
     ELSE job[u].stage = "writing" /\ Staged(u, "stopping") /\ UNCHANGED free
  /\ UNCHANGED <<outside, claims>>

\* downloadSegments: all parts are there; they are merged if the headroom is.
Merge(u) ==
  /\ PartsDone(u)
  /\ Staged(u, IF Checks(u, 0) THEN "merging" ELSE "stopping")
  /\ UNCHANGED <<free, outside, claims>>

\* A retry that does not resume empties its part first.
Truncate(u) ==
  /\ job[u].kind = "segments" /\ job[u].stage = "writing" /\ job[u].written > 0
  /\ free' = free + job[u].written
  /\ job' = [job EXCEPT ![u].written = 0]
  /\ UNCHANGED <<outside, claims>>

\* The timer of 7-Zip (100 ms) or of a torrent (250 ms) finds the headroom gone.
TimerCheck(u) ==
  /\ job[u].kind \in Polled /\ job[u].stage = "writing" /\ ~Checks(u, job[u].written)
  /\ Staged(u, "stopping")
  /\ UNCHANGED <<free, outside, claims>>

\* The job is aborted or fails; or its writer has all there is to write.
Stop(u) ==
  /\ job[u].stage \in {"writing", "merging"}
  /\ Staged(u, "stopping")
  /\ UNCHANGED <<free, outside, claims>>

\* The writer ends: the pipeline settles, the child closes, the torrent is destroyed.
Close(u) ==
  /\ job[u].stage = "stopping"
  /\ Staged(u, "ended")
  /\ UNCHANGED <<free, outside, claims>>

\* FAULT: a job that was told to stop no longer claims anything.
ReleasesAtStop == {"stopping", "ended"}

\* The finally blocks and complete of transferTorrent run once the writer ended.
Releases == {"ended"}

Release(u) ==
  /\ job[u].stage \in Releases
  /\ claims' = [claims EXCEPT ![u] = NoClaim]
  /\ job' = [job EXCEPT ![u].stage = IF @ = "ended" THEN "rest" ELSE @]
  /\ UNCHANGED <<free, outside>>

\* What was written stays, or is removed with the job or its staging directory.
Forget(u) ==
  /\ job[u].stage = "rest"
  /\ job' = [job EXCEPT ![u] = Idle]
  /\ \/ free' = free + job[u].written
     \/ UNCHANGED free
  /\ UNCHANGED <<outside, claims>>

\* Other programs write and remove files.
Outside ==
  /\ \/ outside < MaxOutside /\ free > 0 /\ outside' = outside + 1 /\ free' = free - 1
     \/ outside > 0 /\ outside' = outside - 1 /\ free' = free + 1
  /\ UNCHANGED <<claims, job>>

Next ==
  \/ Outside
  \/ \E u \in Users :
       \/ \E kind \in Kinds, size \in Sizes : Reserve(u, kind, size)
       \/ ClaimRest(u) \/ Chunk(u) \/ Merge(u) \/ Truncate(u)
       \/ TimerCheck(u) \/ Stop(u) \/ Close(u) \/ Release(u) \/ Forget(u)
-----------------------------------------------------------------------------
TypeOK ==
  /\ free \in Nat /\ outside \in Nat
  /\ claims \in [Users -> Nat \cup {NoClaim}]
  /\ job \in [Users -> [kind : Kinds \cup {"none"}, size : Nat, written : Nat,
                       stage : {"idle", "writing", "merging", "stopping", "ended", "rest"}]]

\* What each job has claimed and not yet written.
Unwritten == [u \in Users |-> claims[u] - job[u].written]

\* What other programs write aside, the device has room for what the jobs have
\* claimed and not yet written, and for the headroom: no two jobs count on the same
\* bytes, whatever mix of sizes, of checks per chunk and of checks by a timer.
HeadroomKept ==
  Claiming # {} =>
    free + outside >= Headroom + SumFunctionOnSet(Unwritten, Claiming)

\* A writer that lives has a claim.
WritersClaim ==
  \A u \in Users : job[u].stage \in {"writing", "merging", "stopping"} => u \in Claiming
=============================================================================
