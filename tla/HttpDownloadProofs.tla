------------------------- MODULE HttpDownloadProofs -------------------------
(* Theorems about HttpDownload. *)
EXTENDS HttpDownload, SequenceLemmas

\* An attempt that is planned starts without writers.
LEMMA PlanClears ==
  ASSUME NEW m, Plan(m)
  PROVE  Draining' = {}
<1>1. writer' = [f \in Owned |-> NoWriter]
  BY DEF Plan
<1>2. \A f \in Owned : writer'[f].st = "none"
  BY <1>1 DEF NoWriter
<1>3. QED
  BY <1>2 DEF Draining, Streaming

\* Only a writer that drains takes a step of a transfer, and no such step ends
\* the attempt.
LEMMA WriterStepDrains ==
  ASSUME NEW f \in Owned, WriterStep(f)
  PROVE  Draining # {} /\ pc' = pc
<1>1. f \in Draining
  BY DEF WriterStep, Respond, Receive, Commit, BodyEnds, BodyBreaks, StopWriter, Draining, Streaming
<1>2. pc' = pc
  BY DEF WriterStep, Respond, Receive, Commit, BodyEnds, BodyBreaks, StopWriter
<1>3. QED
  BY <1>1, <1>2

\* The end of an attempt keeps its drained writers or clears them.
LEMMA RecoverDrained ==
  ASSUME NEW code, Recover(code), Draining = {}
  PROVE  Draining' = {}
<1>1. CASE UNCHANGED writer
  BY <1>1 DEF Draining, Streaming
<1>2. CASE Plan(Unknown)
  BY <1>2, PlanClears
<1>3. QED
  BY <1>1, <1>2 DEF Recover, run

LEMMA DrainedStep ==
  ASSUME DrainedFirst, [Next]_vars
  PROVE  DrainedFirst'
<1>1. CASE UNCHANGED writer /\ (pc' = pc \/ pc' = "fetch" \/ pc \notin {"fetch"})
  BY <1>1 DEF DrainedFirst, Draining, Streaming
<1>2. CASE \E f \in Owned : WriterStep(f)
  BY <1>2, WriterStepDrains DEF DrainedFirst
<1>3. CASE Probe
  BY <1>3, PlanClears DEF Probe, DrainedFirst
<1>4. CASE Prepare
  <2>1. pc' = "fetch" \/ (pc = "prepare" /\ UNCHANGED writer)
    BY <1>4 DEF Prepare
  <2>2. QED
    BY <2>1, <1>1 DEF DrainedFirst
<1>5. CASE Join
  <2>1. Draining = {}
    BY <1>5 DEF Join
  <2>2. CASE Recover(failure)
    BY <2>1, <2>2, RecoverDrained DEF DrainedFirst
  <2>3. CASE UNCHANGED run
    BY <2>1, <2>3 DEF DrainedFirst, Draining, Streaming, run
  <2>4. QED
    BY <1>5, <2>2, <2>3 DEF Join
<1>6. CASE Merge
  <2>1. Draining = {}
    BY <1>6 DEF Merge, DrainedFirst
  <2>2. CASE Recover("retry")
    BY <2>1, <2>2, RecoverDrained DEF DrainedFirst
  <2>3. CASE UNCHANGED run
    BY <2>1, <2>3 DEF DrainedFirst, Draining, Streaming, run
  <2>4. QED
    BY <1>6, <2>2, <2>3 DEF Merge
<1>7. CASE Crash
  <2>1. writer' = [f \in Owned |-> NoWriter]
    BY <1>7 DEF Crash
  <2>2. \A f \in Owned : writer'[f].st = "none"
    BY <2>1 DEF NoWriter
  <2>3. QED
    BY <2>2 DEF DrainedFirst, Draining, Streaming
<1>8. CASE Start \/ Reuse \/ EndAborted \/ Discard \/ Wait \/ Rename \/ Verify \/ Cleanup
            \/ Abort \/ OriginChanges \/ Restore
  <2>1. UNCHANGED writer /\ (pc' = pc \/ pc # "fetch")
    BY <1>8 DEF Start, Reuse, EndAborted, Discard, Wait, Rename, Verify, Cleanup, Abort,
                OriginChanges, Restore, run
  <2>2. QED
    BY <2>1, <1>1
<1>9. CASE UNCHANGED vars
  BY <1>9, <1>1 DEF vars
<1>10. QED
  BY <1>2, <1>3, <1>4, <1>5, <1>6, <1>7, <1>8, <1>9 DEF Next, RunStep

\* segmentedDownloader.ts:218: whatever the number of threads, versions and
\* retries, no transfer runs outside the await that joins the transfers, so none
\* writes to a file that is being discarded, merged, verified or published.
THEOREM HttpDrainedFirst == Spec => []DrainedFirst
<1>1. Init => DrainedFirst
  <2>1. SUFFICES ASSUME Init PROVE \A f \in Owned : writer[f].st = "none"
    BY DEF DrainedFirst, Draining, Streaming
  <2>2. QED
    BY <2>1 DEF Init, NoWriter
<1>2. DrainedFirst /\ [Next]_vars => DrainedFirst'
  BY DrainedStep
<1>3. QED
  BY <1>1, <1>2, PTL DEF Spec
-----------------------------------------------------------------------------
(* One source per checkpoint *)

\* A run of blocks from the start of a file's piece of a version.
RunOf(blocks, v, f) == \E n \in Nat : blocks = Prefix(v, f, n)

\* A checkpoint is a record of these fields.
IsCheckpoint(c) ==
  /\ c = [version |-> c.version, size |-> c.size, segmented |-> c.segmented,
          kept |-> c.kept, completed |-> c.completed]
  /\ c.kept = [f \in Owned |-> c.kept[f]]

\* A checkpoint with a validator claims only blocks of its version, in the places
\* its size gives the segments, and one of a single stream none for the segments.
Honest(c) ==
  /\ IsCheckpoint(c)
  /\ c.version # 0 => \A f \in Owned : RunOf(c.kept[f], c.version, f)
  /\ c.segmented => c.version \in 1..Versions /\ c.size = SizeOf[c.version]
  /\ ~c.segmented => \A f \in Parts : c.kept[f] = <<>>

\* A transfer that streams holds blocks of one version, the one its checkpoint
\* names if it names any; one that asks holds what the checkpoint kept.
HonestWriter(w, f, c) ==
  /\ w = [st |-> w.st, from |-> w.from, data |-> w.data]
  /\ w.st # "none" => c.segmented \/ f = Target
  /\ w.st = "ask" => w.data = c.kept[f]
  /\ w.st \in {"range", "full"} =>
       RunOf(w.data, w.from, f) /\ w.from \in 1..Versions /\ c.version \in {0, w.from}

HonestWriters(wr, c) ==
  /\ wr = [f \in Owned |-> wr[f]]
  /\ \A f \in Owned : HonestWriter(wr[f], f, c)

\* The inductive invariant.  That the checkpoint is honest does not follow from
\* what it was: the writers' data becomes part of it at a commit, so they must
\* be of its version, and were let to stream by the metadata it was made of.
SourceInv ==
  /\ DrainedFirst
  /\ origin \in 1..Versions /\ options \in Options
  /\ Honest(saved) /\ Honest(retained)
  /\ metadata.version = retained.version
  /\ HonestWriters(writer, retained)

\* No block is a run of every file and version.
LEMMA EmptyRun == \A v, f : RunOf(<<>>, v, f)
<1>1. \A v, f : Prefix(v, f, 0) = <<>>
  BY DEF Prefix
<1> QED  BY <1>1 DEF RunOf

\* The positions of a piece begin after a number of blocks.
LEMMA OffsetIsNat ==
  ASSUME options \in Options, NEW v \in 1..Versions, NEW f \in Owned
  PROVE  Offset(f, SizeOf[v]) \in Nat
<1> DEFINE size == SizeOf[v]
           pieces == SegmentCount(size)
<1>1. size \in Nat /\ size > 0 /\ options.threads \in Nat /\ options.threads > 0
  BY HttpConstants
<1>2. pieces \in Nat /\ pieces > 0
  BY <1>1 DEF SegmentCount
<1> HIDE DEF size, pieces
<1>3. size \div pieces \in Nat
  BY <1>1, <1>2
<1>4. f = Target \/ f - 1 \in Nat
  BY HttpConstants DEF Owned, Parts, Target
<1>5. CASE f - 1 \in Nat
  <2>1. (f - 1) * (size \div pieces) \in Nat
    BY <1>3, <1>5
  <2> QED  BY <2>1 DEF Offset, size, pieces
<1> QED  BY <1>4, <1>5 DEF Offset

\* The next block makes a longer run.
LEMMA LongerRun ==
  ASSUME options \in Options, NEW v \in 1..Versions, NEW f \in Owned,
         NEW data, RunOf(data, v, f)
  PROVE  RunOf(Append(data, <<v, Offset(f, SizeOf[v]) + Len(data) + 1>>), v, f)
<1>1. PICK n \in Nat : data = Prefix(v, f, n)
  BY DEF RunOf
<1> DEFINE o == Offset(f, SizeOf[v])
<1>2. data = [i \in 1..n |-> <<v, o + i>>] /\ Prefix(v, f, n + 1) = [i \in 1..(n + 1) |-> <<v, o + i>>]
  BY <1>1 DEF Prefix
<1>3. o \in Int
  BY OffsetIsNat
<1> HIDE DEF o
<1>4. data \in Seq((1..Versions) \X Int) /\ Len(data) = n
  BY <1>2, <1>3
<1> DEFINE block == <<v, o + Len(data) + 1>>
           longer == Append(data, block)
<1>5. block = <<v, o + (n + 1)>> /\ block \in (1..Versions) \X Int
  BY <1>3, <1>4
<1> HIDE DEF block
<1>6. /\ longer \in Seq((1..Versions) \X Int) /\ Len(longer) = n + 1
      /\ \A i \in 1..(n + 1) : longer[i] = IF i = n + 1 THEN block ELSE data[i]
  BY <1>4, <1>5, AppendProperties
<1> HIDE DEF longer
<1>7. \A i \in 1..(n + 1) : longer[i] = <<v, o + i>>
  <2>1. \A i \in 1..(n + 1) : i = n + 1 \/ i \in 1..n
    OBVIOUS
  <2>2. \A i \in 1..n : data[i] = <<v, o + i>> /\ i # n + 1
    BY <1>2
  <2> QED  BY <1>5, <1>6, <2>1, <2>2
<1>8. longer = [i \in 1..(n + 1) |-> <<v, o + i>>]
  BY <1>6, <1>7
<1> QED  BY <1>2, <1>8 DEF RunOf, o, longer, block

\* What a step leaves of the invariant, the places of the pieces apart.
Sourced ==
  /\ Honest(saved') /\ Honest(retained')
  /\ metadata'.version = retained'.version
  /\ HonestWriters(writer', retained')

\* The options do not change, so a piece keeps its place.
LEMMA SourcedNext ==
  ASSUME SourceInv, options' = options, origin' \in 1..Versions, DrainedFirst', Sourced
  PROVE  SourceInv'
<1>1. Honest(saved)'
  <2>1. ASSUME NEW f \in Owned, RunOf(saved'.kept[f], saved'.version, f)
        PROVE  RunOf(saved.kept[f], saved.version, f)'
    BY <2>1 DEF RunOf, Prefix, Offset, SegmentCount
  <2> QED  BY <2>1 DEF Sourced, Honest, IsCheckpoint
<1>2. Honest(retained)'
  <2>1. ASSUME NEW f \in Owned, RunOf(retained'.kept[f], retained'.version, f)
        PROVE  RunOf(retained.kept[f], retained.version, f)'
    BY <2>1 DEF RunOf, Prefix, Offset, SegmentCount
  <2> QED  BY <2>1 DEF Sourced, Honest, IsCheckpoint
<1>3. HonestWriters(writer, retained)'
  <2>1. \A f \in Owned : HonestWriter(writer'[f], f, retained')
    BY DEF Sourced, HonestWriters
  <2>2. ASSUME NEW f \in Owned PROVE HonestWriter(writer[f], f, retained)'
    <3>1. ASSUME RunOf(writer'[f].data, writer'[f].from, f)
          PROVE  RunOf(writer[f].data, writer[f].from, f)'
      BY <3>1 DEF RunOf, Prefix, Offset, SegmentCount
    <3> QED  BY <2>1, <3>1 DEF HonestWriter
  <2> QED  BY <2>2 DEF Sourced, HonestWriters
<1> QED  BY <1>1, <1>2, <1>3 DEF SourceInv, Sourced

\* A new checkpoint claims nothing yet.
LEMMA FreshHonest ==
  ASSUME NEW m, NEW segmented \in BOOLEAN,
         segmented => m.version \in 1..Versions /\ m.size = SizeOf[m.version]
  PROVE  Honest(Fresh(m, segmented)) /\ Fresh(m, segmented).version = m.version
<1>1. Parts \subseteq Owned
  BY DEF Owned
<1> QED  BY <1>1, EmptyRun DEF Fresh, Honest, IsCheckpoint

\* One compared with the files on disk keeps what they have.
LEMMA ReconciledHonest ==
  ASSUME NEW c, Honest(c)
  PROVE  /\ Honest(Reconciled(c))
         /\ Reconciled(c).version = c.version /\ Reconciled(c).segmented = c.segmented
<1>1. Reconciled(c) = [version |-> c.version, size |-> c.size, segmented |-> c.segmented,
                       kept |-> [f \in Owned |-> IF Intact(c, f) THEN c.kept[f] ELSE <<>>],
                       completed |-> c.completed]
  BY DEF Honest, IsCheckpoint, Reconciled
<1>2. \A f \in Owned : Reconciled(c).kept[f] \in {c.kept[f], <<>>}
  BY <1>1
<1>3. Parts \subseteq Owned
  BY DEF Owned
<1>4. /\ IsCheckpoint(Reconciled(c)) /\ Reconciled(c).version = c.version
      /\ Reconciled(c).segmented = c.segmented /\ Reconciled(c).size = c.size
  BY <1>1 DEF IsCheckpoint
<1>5. c.version # 0 => \A f \in Owned : RunOf(Reconciled(c).kept[f], c.version, f)
  BY <1>2, EmptyRun DEF Honest
<1>6. ~c.segmented => \A f \in Parts : Reconciled(c).kept[f] = <<>>
  BY <1>2, <1>3 DEF Honest
<1> QED  BY <1>4, <1>5, <1>6 DEF Honest

\* No transfer, none to be honest.
LEMMA NoWriters == ASSUME NEW c PROVE HonestWriters([f \in Owned |-> NoWriter], c)
BY DEF HonestWriters, HonestWriter, NoWriter

\* A plan takes over the stored checkpoint, for the same version and size, or
\* makes a new one.
LEMMA PlanSourced ==
  ASSUME SourceInv, NEW m, Plan(m), saved' = saved,
         m.version # 0 /\ m.size > 0 => m.version \in 1..Versions /\ m.size = SizeOf[m.version]
  PROVE  Sourced
<1> DEFINE segmented == ~fallback' /\ options.threads > 1 /\ m.ranges /\ m.size > 0 /\ m.version # 0
<1>1. Honest(Fresh(m, segmented)) /\ Fresh(m, segmented).version = m.version
  <2>1. segmented \in BOOLEAN /\ (segmented => m.version \in 1..Versions /\ m.size = SizeOf[m.version])
    OBVIOUS
  <2> HIDE DEF segmented
  <2> QED  BY <2>1, FreshHonest
<1>2. /\ \/ retained' = Fresh(m, segmented)
         \/ retained' = saved /\ saved.version = m.version
      /\ metadata' = m /\ writer' = [f \in Owned |-> NoWriter]
  <2>1. /\ retained' = IF Reusable(m, segmented) THEN saved ELSE Fresh(m, segmented)
        /\ metadata' = m /\ writer' = [f \in Owned |-> NoWriter]
    BY Zenon DEF Plan
  <2>2. Reusable(m, segmented) => saved.version = m.version
    BY Zenon DEF Reusable
  <2>3. CASE Reusable(m, segmented)
    BY <2>1, <2>2, <2>3, Zenon
  <2>4. CASE ~Reusable(m, segmented)
    BY <2>1, <2>4, Zenon
  <2> QED  BY <2>3, <2>4
<1> HIDE DEF segmented
<1>3. HonestWriters(writer', retained')
  BY <1>2, NoWriters
<1> QED  BY <1>1, <1>2, <1>3 DEF Sourced, SourceInv

\* The end of an attempt.
LEMMA RecoverSourced ==
  ASSUME SourceInv, NEW code, Recover(code), saved' = saved
  PROVE  Sourced
<1>1. CASE UNCHANGED <<metadata, retained, writer>>
  BY <1>1 DEF Sourced, SourceInv
<1>2. CASE Plan(Unknown)
  BY <1>2, PlanSourced DEF Unknown
<1> QED  BY <1>1, <1>2 DEF Recover, run

\* The transfers of an attempt start from what was kept, and an attempt that
\* gets no storage starts none.
LEMMA PrepareSourced ==
  ASSUME SourceInv, Prepare
  PROVE  Sourced
<1> DEFINE c == Reconciled(retained)
<1>1. Honest(c) /\ c.version = retained.version /\ c.segmented = retained.segmented
  BY ReconciledHonest DEF SourceInv
<1>2. retained' = c /\ saved' = c /\ metadata' = metadata /\ pc = "prepare"
  BY DEF Prepare
<1> HIDE DEF c
<1>3. CASE UNCHANGED writer
  <2>1. \A f \in Owned : writer[f].st \notin {"ask", "range", "full"}
    BY <1>2 DEF SourceInv, DrainedFirst, Draining, Streaming
  <2>2. HonestWriters(writer', retained')
    BY <1>1, <1>2, <1>3, <2>1 DEF SourceInv, HonestWriters, HonestWriter
  <2> QED  BY <1>1, <1>2, <2>2 DEF Sourced, SourceInv
<1>4. CASE writer' = [f \in Owned |->
                IF f \notin Layout(c) THEN NoWriter
                ELSE [st |-> IF c.kept[f] # <<>> /\ Len(c.kept[f]) = PieceLength(f, c.size)
                             THEN "done" ELSE "ask",
                      from |-> 0, data |-> c.kept[f]]]
  <2>1. \A f \in Owned : f \in Layout(c) => c.segmented \/ f = Target
    BY DEF Layout
  <2>2. ASSUME NEW f \in Owned PROVE HonestWriter(writer'[f], f, c)
    BY <1>4, <2>1 DEF HonestWriter, NoWriter
  <2>3. HonestWriters(writer', retained')
    BY <1>2, <1>4, <2>2 DEF HonestWriters
  <2> QED  BY <1>1, <1>2, <2>3 DEF Sourced, SourceInv
<1> QED  BY <1>3, <1>4 DEF Prepare, c
-----------------------------------------------------------------------------
\* A commit makes a transfer's blocks part of the checkpoint, as they are of the
\* version the checkpoint names.
LEMMA SyncHonest ==
  ASSUME SourceInv, NEW f \in Draining, Sync(f)
  PROVE  /\ Honest(retained') /\ Honest(saved')
         /\ retained'.version = retained.version /\ retained'.segmented = retained.segmented
         /\ \A g \in Owned \ {f} : retained'.kept[g] = retained.kept[g]
<1>1. Honest(retained) /\ f \in Owned /\ HonestWriter(writer[f], f, retained)
  BY DEF SourceInv, HonestWriters, Draining
<1>2. /\ retained'.version = retained.version /\ retained'.segmented = retained.segmented
      /\ retained'.size = retained.size
      /\ \A g \in Owned : retained'.kept[g] = IF g = f THEN writer[f].data ELSE retained.kept[g]
      /\ IsCheckpoint(retained')
  BY <1>1 DEF Sync, Honest, IsCheckpoint
<1>3. retained.version # 0 => RunOf(writer[f].data, retained.version, f)
  BY <1>1 DEF HonestWriter, Honest, Draining, Streaming
<1>4. ~retained.segmented => f \notin Parts
  BY <1>1, HttpConstants DEF HonestWriter, Draining, Streaming, Target, Parts
<1>5. Parts \subseteq Owned
  BY DEF Owned
<1>6. Honest(retained')
  BY <1>1, <1>2, <1>3, <1>4, <1>5 DEF Honest
<1> QED  BY <1>2, <1>6 DEF Sync

\* A transfer that commits and goes on, or ends.
LEMMA CommittedSourced ==
  ASSUME SourceInv, NEW f \in Draining, Sync(f), metadata' = metadata,
         \/ UNCHANGED writer /\ Streaming(f)
         \/ \E st \in {"failed", "done"} : writer' = [writer EXCEPT ![f].st = st]
  PROVE  Sourced
<1>1. /\ Honest(retained') /\ Honest(saved')
      /\ retained'.version = retained.version /\ retained'.segmented = retained.segmented
      /\ \A g \in Owned \ {f} : retained'.kept[g] = retained.kept[g]
  BY SyncHonest
<1>2. HonestWriters(writer, retained) /\ f \in Owned
  BY DEF SourceInv, Draining
<1>3. \A g \in Owned \ {f} : HonestWriter(writer[g], g, retained')
  BY <1>1, <1>2 DEF HonestWriters, HonestWriter
<1>4. CASE UNCHANGED writer /\ Streaming(f)
  <2>1. HonestWriter(writer[f], f, retained')
    BY <1>1, <1>2, <1>4 DEF HonestWriters, HonestWriter, Streaming
  <2>2. HonestWriters(writer', retained')
    BY <1>2, <1>3, <1>4, <2>1 DEF HonestWriters
  <2> QED  BY <1>1, <2>2 DEF Sourced, SourceInv
<1>5. ASSUME NEW st \in {"failed", "done"}, writer' = [writer EXCEPT ![f].st = st]
      PROVE  Sourced
  <2>1. /\ writer' = [g \in Owned |-> writer'[g]]
        /\ \A g \in Owned \ {f} : writer'[g] = writer[g]
        /\ writer'[f] = [st |-> st, from |-> writer[f].from, data |-> writer[f].data]
    <3>1. writer = [g \in Owned |-> writer[g]]
      BY <1>2 DEF HonestWriters
    <3>2. writer[f] = [st |-> writer[f].st, from |-> writer[f].from, data |-> writer[f].data]
      BY <1>2 DEF HonestWriters, HonestWriter
    <3>3. writer'[f] = [writer[f] EXCEPT !.st = st]
      BY <1>2, <1>5, <3>1
    <3> QED  BY <1>2, <1>5, <3>1, <3>2, <3>3
  <2>2. HonestWriter(writer'[f], f, retained')
    BY <1>1, <1>2, <2>1 DEF HonestWriters, HonestWriter, Draining, Streaming
  <2>3. HonestWriters(writer', retained')
    BY <1>3, <2>1, <2>2 DEF HonestWriters
  <2> QED  BY <1>1, <2>3 DEF Sourced, SourceInv
<1> QED  BY <1>4, <1>5

\* A transfer whose state and blocks change with the checkpoint of the attempt.
LEMMA StreamSourced ==
  ASSUME SourceInv, NEW f \in Owned, Honest(saved'), Honest(retained'),
         metadata'.version = retained'.version,
         writer' = [g \in Owned |-> writer'[g]], HonestWriter(writer'[f], f, retained'),
         \A g \in Owned \ {f} : writer'[g] = writer[g],
         retained' = retained \/ \A g \in Owned \ {f} : writer[g].st = "none"
  PROVE  Sourced
<1>1. HonestWriters(writer, retained)
  BY DEF SourceInv
<1>2. \A g \in Owned \ {f} : HonestWriter(writer'[g], g, retained')
  BY <1>1 DEF HonestWriters, HonestWriter
<1>3. HonestWriters(writer', retained')
  BY <1>2 DEF HonestWriters
<1> QED  BY <1>3 DEF Sourced

\* Every step of a transfer.
LEMMA WriterStepSourced ==
  ASSUME SourceInv, NEW f \in Owned, WriterStep(f)
  PROVE  Sourced
<1>1. /\ HonestWriters(writer, retained) /\ Honest(retained) /\ Honest(saved)
      /\ metadata.version = retained.version /\ origin \in 1..Versions /\ options \in Options
  BY DEF SourceInv
<1>2. HonestWriter(writer[f], f, retained) /\ DOMAIN writer = Owned
  BY <1>1 DEF HonestWriters
<1>3. f \in Draining
  BY DEF WriterStep, Respond, Receive, Commit, BodyEnds, BodyBreaks, StopWriter, Draining, Streaming
<1>4. ASSUME NEW code, Fails(f, code), UNCHANGED metadata
      PROVE  Sourced
  BY <1>3, <1>4, CommittedSourced DEF Fails
<1>5. CASE Commit(f)
  BY <1>3, <1>5, CommittedSourced DEF Commit
<1>6. CASE BodyEnds(f)
  BY <1>3, <1>6, CommittedSourced DEF BodyEnds
<1>7. CASE BodyBreaks(f) \/ StopWriter(f)
  BY <1>4, <1>7 DEF BodyBreaks, StopWriter
<1>8. CASE Receive(f)
  <2> DEFINE from == writer[f].from
             data == writer[f].data
             block == <<from, Offset(f, retained.size) + Len(data) + 1>>
  <2>1. /\ writer' = [writer EXCEPT ![f].data = Append(@, block)]
        /\ UNCHANGED <<saved, metadata, retained>> /\ Streaming(f)
    BY <1>8 DEF Receive
  <2>2. from \in 1..Versions /\ RunOf(data, from, f) /\ retained.version \in {0, from}
    BY <1>2, <2>1 DEF HonestWriter, Streaming
  <2>3. Offset(f, retained.size) = Offset(f, SizeOf[from])
    <3>1. CASE retained.segmented
      BY <1>1, <2>2, <3>1 DEF Honest
    <3>2. CASE f = Target
      BY <3>2 DEF Offset
    <3> QED  BY <1>2, <2>1, <3>1, <3>2 DEF HonestWriter, Streaming
  <2>4. RunOf(Append(data, block), from, f)
    BY <1>1, <2>2, <2>3, LongerRun
  <2>5. /\ writer' = [g \in Owned |-> writer'[g]]
        /\ \A g \in Owned \ {f} : writer'[g] = writer[g]
        /\ writer'[f] = [st |-> writer[f].st, from |-> from, data |-> Append(data, block)]
    BY <1>1, <1>2, <2>1 DEF HonestWriters, HonestWriter
  <2> HIDE DEF block
  <2>6. HonestWriter(writer'[f], f, retained')
    BY <1>2, <2>1, <2>2, <2>4, <2>5 DEF HonestWriter, Streaming
  <2> QED  BY <1>1, <2>1, <2>5, <2>6, StreamSourced
<1>9. CASE writer[f].st = "ask" /\ AnswerRange(f)
  <2>1. /\ writer' = [writer EXCEPT ![f].st = "range", ![f].from = origin]
        /\ UNCHANGED <<saved, metadata, retained>> /\ origin = retained.version
    BY <1>1, <1>9 DEF AnswerRange
  <2>2. /\ writer' = [g \in Owned |-> writer'[g]]
        /\ \A g \in Owned \ {f} : writer'[g] = writer[g]
        /\ writer'[f] = [st |-> "range", from |-> origin, data |-> writer[f].data]
    BY <1>1, <1>2, <2>1 DEF HonestWriters, HonestWriter
  <2>3. RunOf(writer[f].data, origin, f)
    BY <1>1, <1>2, <1>9, <2>1 DEF HonestWriter, Honest
  <2>4. HonestWriter(writer'[f], f, retained')
    BY <1>1, <1>2, <1>9, <2>1, <2>2, <2>3 DEF HonestWriter
  <2> QED  BY <1>1, <2>1, <2>2, <2>4, StreamSourced
<1>10. CASE writer[f].st = "ask" /\ AnswerFull(f)
  <2>1. /\ writer' = [writer EXCEPT ![f].st = "full", ![f].from = origin]
        /\ ~retained.segmented /\ retained.kept[f] = <<>>
    BY <1>10 DEF AnswerFull, Ranged
  <2>2. PICK v \in {0, origin}, size \in {0, SizeOf[origin]} :
          /\ metadata'.version = v /\ retained' = [retained EXCEPT !.version = v, !.size = size]
          /\ saved' = retained'
    <3>1. PICK v \in (IF RangesVary THEN {0, origin} ELSE {origin}),
               size \in (IF RangesVary THEN {0, SizeOf[origin]} ELSE {SizeOf[origin]}),
               encoded \in (IF RangesVary THEN BOOLEAN ELSE {FALSE}) :
            /\ metadata' = [version |-> v, size |-> size, ranges |-> metadata.ranges /\ ~encoded]
            /\ retained' = [retained EXCEPT !.version = v, !.size = size]
            /\ saved' = retained'
      BY <1>10, Zenon DEF AnswerFull
    <3>2. metadata'.version = v
      BY <3>1
    <3> QED  BY <3>1, <3>2
  <2>3. /\ f = Target
        /\ \A g \in Owned \ {f} : writer[g].st = "none"
    BY <1>1, <1>2, <1>10, <2>1 DEF HonestWriters, HonestWriter
  <2>4. \A g \in Owned : retained.kept[g] = <<>>
    BY <1>1, <2>1, <2>3 DEF Honest, Owned
  <2>5. Honest(retained') /\ retained'.version = v /\ ~retained'.segmented
    <3>1. /\ IsCheckpoint(retained') /\ retained'.version = v
          /\ retained'.segmented = retained.segmented /\ retained'.kept = retained.kept
      BY <1>1, <2>2 DEF Honest, IsCheckpoint
    <3>2. Parts \subseteq Owned
      BY DEF Owned
    <3> QED  BY <2>1, <2>4, <3>1, <3>2, EmptyRun DEF Honest
  <2>6. /\ writer' = [g \in Owned |-> writer'[g]]
        /\ \A g \in Owned \ {f} : writer'[g] = writer[g]
        /\ writer'[f] = [st |-> "full", from |-> origin, data |-> writer[f].data]
    BY <1>1, <1>2, <2>1 DEF HonestWriters, HonestWriter
  <2>7. RunOf(writer[f].data, origin, f)
    BY <1>2, <1>10, <2>1, EmptyRun DEF HonestWriter
  <2>8. HonestWriter(writer'[f], f, retained')
    BY <1>1, <2>2, <2>3, <2>5, <2>6, <2>7 DEF HonestWriter
  <2> QED  BY <2>2, <2>3, <2>5, <2>6, <2>8, StreamSourced
<1>11. CASE Respond(f)
  BY <1>4, <1>9, <1>10, <1>11 DEF Respond, AnswerChanged
<1> QED  BY <1>5, <1>6, <1>7, <1>8, <1>11 DEF WriterStep

\* Every step.
LEMMA SourceStep ==
  ASSUME SourceInv, [Next]_vars
  PROVE  SourceInv'
<1>1. DrainedFirst'
  BY DrainedStep DEF SourceInv
<1>2. options' = options
  BY DEF Next, RunStep, Start, Reuse, Probe, EndAborted, Discard, Prepare, WriterStep, Respond,
         Receive, Commit, BodyEnds, BodyBreaks, StopWriter, Join, Wait, Merge, Rename, Verify,
         Cleanup, Abort, OriginChanges, Crash, Restore, vars
<1>3. origin' \in 1..Versions
  <2>1. CASE OriginChanges
    BY <2>1, HttpConstants DEF OriginChanges, SourceInv
  <2>2. CASE ~OriginChanges
    <3>1. origin' = origin
      BY <2>2 DEF Next, RunStep, Start, Reuse, Probe, EndAborted, Discard, Prepare, WriterStep,
             Respond, Receive, Commit, BodyEnds, BodyBreaks, StopWriter, Join, Wait, Merge, Rename,
             Verify, Cleanup, Abort, Crash, Restore, vars
    <3> QED  BY <3>1 DEF SourceInv
  <2> QED  BY <2>1, <2>2
<1>4. ASSUME UNCHANGED <<saved, metadata, retained, writer>> PROVE Sourced
  BY <1>4 DEF Sourced, SourceInv
<1>5. ASSUME Start \/ EndAborted \/ Discard \/ Wait \/ Rename \/ Cleanup \/ Abort \/ OriginChanges
      PROVE  Sourced
  <2>1. UNCHANGED <<saved, metadata, retained, writer>>
    BY <1>5 DEF Start, EndAborted, Discard, Wait, Rename, Cleanup, Abort, OriginChanges, run
  <2> QED  BY <1>4, <2>1
<1>6. ASSUME UNCHANGED vars PROVE Sourced
  <2>1. UNCHANGED <<saved, metadata, retained, writer>>
    BY <1>6 DEF vars
  <2> QED  BY <1>4, <2>1
<1>7. Honest(Fresh(Unknown, FALSE)) /\ Fresh(Unknown, FALSE).version = Unknown.version
  BY FreshHonest
<1>8. ASSUME Reuse PROVE Sourced
  <2>1. UNCHANGED <<metadata, retained, writer>> /\ saved' \in {saved, Fresh(Unknown, FALSE)}
    BY <1>8 DEF Reuse, run
  <2> QED  BY <1>7, <2>1 DEF Sourced, SourceInv
<1>9. ASSUME Probe PROVE Sourced
  <2>1. PICK m \in Answers : Plan(m)
    BY <1>9 DEF Probe
  <2>2. m.version # 0 /\ m.size > 0 => m.version \in 1..Versions /\ m.size = SizeOf[m.version]
    BY DEF Answers, Unknown, SourceInv
  <2>3. saved' = saved
    BY <1>9 DEF Probe
  <2> QED  BY <2>1, <2>2, <2>3, PlanSourced
<1>10. ASSUME Join \/ Merge PROVE Sourced
  <2>1. saved' = saved
    BY <1>10 DEF Join, Merge
  <2>2. CASE Recover(failure) \/ Recover("retry")
    BY <2>1, <2>2, RecoverSourced
  <2>3. CASE UNCHANGED run
    BY <1>4, <2>1, <2>3 DEF run
  <2> QED  BY <1>10, <2>2, <2>3 DEF Join, Merge
<1>11. ASSUME Verify PROVE Sourced
  <2>1. /\ retained' = [retained EXCEPT !.completed = disk[Target],
                                        !.size = IF @ = 0 THEN Len(disk[Target]) ELSE @]
        /\ saved' = retained' /\ UNCHANGED <<metadata, writer>>
    BY <1>11 DEF Verify
  <2>2. Honest(retained) /\ HonestWriters(writer, retained) /\ metadata.version = retained.version
    BY DEF SourceInv
  <2>3. /\ IsCheckpoint(retained') /\ retained'.version = retained.version
        /\ retained'.segmented = retained.segmented /\ retained'.kept = retained.kept
        /\ retained.size # 0 => retained'.size = retained.size
    BY <2>1, <2>2 DEF Honest, IsCheckpoint
  <2>4. retained.segmented => retained.size # 0
    BY <2>2, HttpConstants DEF Honest
  <2>5. Honest(retained')
    BY <2>2, <2>3, <2>4 DEF Honest
  <2>6. HonestWriters(writer', retained')
    BY <2>1, <2>2, <2>3 DEF HonestWriters, HonestWriter
  <2> QED  BY <2>1, <2>2, <2>3, <2>5, <2>6 DEF Sourced
<1>12. ASSUME Crash PROVE Sourced
  <2>1. /\ metadata' = Unknown /\ retained' = Fresh(Unknown, FALSE) /\ saved' = saved
        /\ writer' = [f \in Owned |-> NoWriter]
    BY <1>12 DEF Crash
  <2>2. HonestWriters(writer', retained')
    BY <2>1, NoWriters
  <2> QED  BY <1>7, <2>1, <2>2 DEF Sourced, SourceInv
<1>13. ASSUME Restore PROVE Sourced
  <2> DEFINE c == Reconciled(saved)
  <2>1. Honest(c)
    BY ReconciledHonest DEF SourceInv
  <2>2. /\ saved' = saved \/ saved' = [c EXCEPT !.completed = <<>>]
        /\ UNCHANGED <<metadata, retained, writer>>
    BY <1>13 DEF Restore, run
  <2> HIDE DEF c
  <2>3. Honest([c EXCEPT !.completed = <<>>])
    BY <2>1 DEF Honest, IsCheckpoint
  <2> QED  BY <2>2, <2>3 DEF Sourced, SourceInv
<1>14. Sourced
  BY <1>5, <1>6, <1>8, <1>9, <1>10, <1>11, <1>12, <1>13, PrepareSourced, WriterStepSourced
     DEF Next, RunStep
<1> QED  BY <1>1, <1>2, <1>3, <1>14, SourcedNext

\* Nothing is claimed at the start.
LEMMA SourceInit == Init => SourceInv
<1> SUFFICES ASSUME Init PROVE SourceInv
  OBVIOUS
<1>1. writer = [f \in Owned |-> NoWriter] /\ metadata = Unknown
  BY DEF Init
<1>2. DrainedFirst
  <2>1. \A f \in Owned : writer[f].st = "none"
    BY <1>1 DEF NoWriter
  <2> QED  BY <2>1 DEF DrainedFirst, Draining, Streaming
<1>3. Honest(Fresh(Unknown, FALSE)) /\ Fresh(Unknown, FALSE).version = Unknown.version
  BY FreshHonest
<1>4. origin \in 1..Versions /\ options \in Options
  <2>1. origin = 1 /\ options \in Options
    BY DEF Init
  <2> QED  BY <2>1, HttpConstants
<1> QED  BY <1>1, <1>2, <1>3, <1>4, NoWriters DEF Init, SourceInv

\* The bytes a run has written are the right length.
LEMMA RunsArePrefixes ==
  ASSUME NEW blocks, NEW v, NEW f, RunOf(blocks, v, f)
  PROVE  blocks = Prefix(v, f, Len(blocks))
<1>1. PICK n \in Nat : blocks = Prefix(v, f, n)
  BY DEF RunOf
<1>2. Len(blocks) = n
  BY <1>1 DEF Prefix
<1> QED  BY <1>1, <1>2

\* httpCheckpoint.ts, rangeDownload.ts: however often the source is replaced, the
\* ranges refused, the run retried or the machine stopped, a checkpoint that names
\* a validator claims blocks of that one version, each in its place.
THEOREM HttpOneSource == Spec => []OneSource
<1>1. Init => SourceInv
  BY SourceInit
<1>2. SourceInv /\ [Next]_vars => SourceInv'
  BY SourceStep
<1>3. SourceInv => OneSource
  BY RunsArePrefixes DEF SourceInv, Honest, OneSource
<1> QED  BY <1>1, <1>2, <1>3, PTL DEF Spec
-----------------------------------------------------------------------------
(* Pieces and the whole they make *)

\* The blocks of a prefix.
LEMMA PrefixType ==
  ASSUME options \in Options, NEW v \in 1..Versions, NEW f \in Owned, NEW n \in Nat
  PROVE  /\ Prefix(v, f, n) \in Content /\ Len(Prefix(v, f, n)) = n
         /\ \A i \in 1..n : Prefix(v, f, n)[i] = <<v, Offset(f, SizeOf[v]) + i>>
<1> DEFINE o == Offset(f, SizeOf[v])
<1>1. o \in Nat
  BY OffsetIsNat
<1>2. Prefix(v, f, n) = [i \in 1..n |-> <<v, o + i>>]
  BY DEF Prefix
<1> HIDE DEF o
<1>3. \A i \in 1..n : <<v, o + i>> \in Blocks
  BY <1>1 DEF Blocks
<1> QED  BY <1>1, <1>2, <1>3 DEF Content, o

\* A piece that follows a prefix of its source makes a longer one.
LEMMA PiecesJoin ==
  ASSUME options \in Options, NEW v \in 1..Versions, NEW f \in Owned,
         NEW n \in Nat, NEW m \in Nat, Offset(f, SizeOf[v]) = n
  PROVE  Prefix(v, Target, n) \o Prefix(v, f, m) = Prefix(v, Target, n + m)
<1>1. Target \in Owned /\ Offset(Target, SizeOf[v]) = 0
  BY DEF Owned, Offset
<1> DEFINE a == Prefix(v, Target, n)
           b == Prefix(v, f, m)
           c == Prefix(v, Target, n + m)
<1> DEFINE o == Offset(Target, SizeOf[v])
<1>2. a \in Seq(Blocks) /\ Len(a) = n /\ \A i \in 1..n : a[i] = <<v, o + i>>
  BY <1>1, PrefixType DEF Content
<1>3. b \in Seq(Blocks) /\ Len(b) = m /\ \A i \in 1..m : b[i] = <<v, n + i>>
  BY PrefixType DEF Content
<1>4. c \in Seq(Blocks) /\ Len(c) = n + m /\ \A i \in 1..(n + m) : c[i] = <<v, o + i>>
  <2>1. n + m \in Nat
    OBVIOUS
  <2> QED  BY <1>1, <2>1, PrefixType DEF Content
<1>8. o = 0
  BY <1>1
<1> HIDE DEF a, b, c, o
<1>5. /\ a \o b \in Seq(Blocks) /\ Len(a \o b) = n + m
      /\ \A i \in 1..(n + m) : (a \o b)[i] = IF i <= n THEN a[i] ELSE b[i - n]
  <2>1. /\ a \o b \in Seq(Blocks) /\ Len(a \o b) = Len(a) + Len(b)
        /\ \A i \in 1..(Len(a) + Len(b)) : (a \o b)[i] = IF i <= Len(a) THEN a[i] ELSE b[i - Len(a)]
    BY <1>2, <1>3, ConcatProperties
  <2> QED  BY <1>2, <1>3, <2>1
<1>6. \A i \in 1..(n + m) : (a \o b)[i] = c[i]
  <2> TAKE i \in 1..(n + m)
  <2>1. CASE i <= n
    <3>1. i \in 1..n
      BY <2>1
    <3> QED  BY <1>2, <1>4, <1>5, <2>1, <3>1
  <2>2. CASE ~(i <= n)
    <3>1. i - n \in 1..m /\ n + (i - n) = i /\ o + i = i
      BY <1>8, <2>2
    <3>2. b[i - n] = <<v, i>>
      BY <1>3, <3>1
    <3> QED  BY <1>4, <1>5, <2>2, <3>1, <3>2
  <2> QED  BY <2>1, <2>2
<1>7. a \o b = c
  BY <1>4, <1>5, <1>6, SeqEqual
<1> QED  BY <1>7 DEF a, b, c

\* Where a piece of a segmented source ends: the pieces have one size, the last
\* takes the rest.
End(f, size) == IF f = SegmentCount(size) THEN size ELSE f * (size \div SegmentCount(size))

LEMMA PieceEnds ==
  ASSUME options \in Options, NEW v \in 1..Versions, NEW f \in 1..SegmentCount(SizeOf[v])
  PROVE  /\ SegmentCount(SizeOf[v]) \in Nat /\ SegmentCount(SizeOf[v]) <= MaxThreads
         /\ f \in Parts /\ End(f, SizeOf[v]) \in Nat
         /\ PieceLength(f, SizeOf[v]) \in Nat
         /\ Offset(f, SizeOf[v]) + PieceLength(f, SizeOf[v]) = End(f, SizeOf[v])
         /\ Offset(f, SizeOf[v]) = IF f = 1 THEN 0 ELSE End(f - 1, SizeOf[v])
<1> DEFINE size == SizeOf[v]
           n == SegmentCount(size)
<1>1. size \in Nat /\ size > 0 /\ options.threads \in 1..MaxThreads /\ MaxThreads \in Nat
  BY HttpConstants
<1>2. n \in Nat /\ n > 0 /\ n <= MaxThreads /\ n <= size
  BY <1>1 DEF SegmentCount
<1>3. PICK q \in Nat : q = size \div n
  BY <1>1, <1>2
<1>4. n * q <= size
  BY <1>1, <1>2, <1>3
<1>5. f \in Nat /\ f >= 1 /\ f <= n /\ f # Target
  BY <1>2 DEF Target
<1>6. (f - 1) * q \in Nat /\ f * q = (f - 1) * q + q /\ f * q \in Nat
  BY <1>3, <1>5
<1>7. f = n => (f - 1) * q <= size
  BY <1>1, <1>3, <1>4, <1>6
<1>8. /\ Offset(f, size) = (f - 1) * q
      /\ PieceLength(f, size) = IF f = n THEN size - (f - 1) * q ELSE q
      /\ End(f, size) = IF f = n THEN size ELSE f * q
      /\ End(f - 1, size) = IF f - 1 = n THEN size ELSE (f - 1) * q
  BY <1>3, <1>5 DEF Offset, PieceLength, End, n
<1> HIDE DEF size, n
<1>9. f \in Parts
  BY <1>1, <1>2, <1>5 DEF Parts
<1>10. f = 1 => (f - 1) * q = 0
  BY <1>3
<1>11. PICK before \in Nat : before = (f - 1) * q
  BY <1>6
<1>12. PICK after \in Nat : after = f * q
  BY <1>6
<1>13. /\ after = before + q /\ (f = n => before <= size) /\ (f = 1 => before = 0)
       /\ Offset(f, size) = before
       /\ PieceLength(f, size) = IF f = n THEN size - before ELSE q
       /\ End(f, size) = IF f = n THEN size ELSE after
       /\ End(f - 1, size) = IF f - 1 = n THEN size ELSE before
  BY <1>6, <1>7, <1>8, <1>10, <1>11, <1>12
<1>14. /\ End(f, size) \in Nat /\ PieceLength(f, size) \in Nat
       /\ Offset(f, size) + PieceLength(f, size) = End(f, size)
       /\ Offset(f, size) = IF f = 1 THEN 0 ELSE End(f - 1, size)
  BY <1>1, <1>2, <1>3, <1>5, <1>13
<1> QED  BY <1>2, <1>9, <1>14 DEF size, n

\* mergeSegmentParts: the pieces of a version, one after another, are the version.
LEMMA MergedIsWhole ==
  ASSUME options \in Options, NEW v \in 1..Versions,
         NEW merged,
         merged = [f \in 1..SegmentCount(SizeOf[v]) |-> Prefix(v, f, PieceLength(f, SizeOf[v]))]
  PROVE  FlattenSeq(merged) = Whole(v)
<1> DEFINE parts == [f \in 1..SegmentCount(SizeOf[v]) |-> Prefix(v, f, PieceLength(f, SizeOf[v]))]
<1> SUFFICES FlattenSeq(parts) = Whole(v)
  OBVIOUS
<1> DEFINE size == SizeOf[v]
           n == SegmentCount(size)
           up(i) == Prefix(v, Target, End(i, size))
           joined == [i \in 1..n |-> up(i)]
<1>1. n \in Nat /\ n > 0 /\ size \in Nat
  BY HttpConstants DEF SegmentCount
<1>2. \A i \in 1..n : up(i) = IF i = 1 THEN parts[i] ELSE up(i - 1) \o parts[i]
  <2> TAKE i \in 1..n
  <2>1. /\ i \in Owned /\ PieceLength(i, size) \in Nat /\ End(i, size) \in Nat
        /\ Offset(i, size) + PieceLength(i, size) = End(i, size)
        /\ Offset(i, size) = IF i = 1 THEN 0 ELSE End(i - 1, size)
    BY PieceEnds DEF Owned
  <2>2. parts[i] = Prefix(v, i, PieceLength(i, size))
    OBVIOUS
  <2>3. CASE i = 1
    <3>1. Offset(i, size) = 0 /\ Offset(Target, size) = 0 /\ PieceLength(i, size) = End(i, size)
      BY <2>1, <2>3 DEF Offset
    <3>2. Prefix(v, i, End(i, size)) = Prefix(v, Target, End(i, size))
      BY <3>1 DEF Prefix
    <3> QED  BY <2>2, <2>3, <3>1, <3>2
  <2>4. CASE i # 1
    <3>1. i - 1 \in 1..n
      BY <1>1, <2>4
    <3>2. End(i - 1, size) \in Nat
      BY <3>1, PieceEnds
    <3>3. up(i - 1) \o parts[i] = Prefix(v, Target, End(i - 1, size) + PieceLength(i, size))
      BY <2>1, <2>2, <2>4, <3>2, PiecesJoin
    <3>4. End(i - 1, size) + PieceLength(i, size) = End(i, size)
      BY <2>1, <2>4
    <3> QED  BY <2>4, <3>3, <3>4
  <2> QED  BY <2>3, <2>4
<1>3. up(n) = Whole(v)
  BY DEF End, Whole
<1>4. DOMAIN parts = 1..n /\ Len(parts) = n
  BY <1>1
<1> HIDE DEF up, n, size
<1>5. \A i \in 1..n : joined[i] = IF i = 1 THEN parts[i] ELSE joined[i - 1] \o parts[i]
  <2> TAKE i \in 1..n
  <2>1. i # 1 => i - 1 \in 1..n
    BY <1>1
  <2> QED  BY <1>2, <2>1
<1>6. joined[n] = up(n)
  BY <1>1
<1>7. FlattenSeq(parts) = joined[n]
  <2> HIDE DEF joined, parts
  <2>1. n \in Nat /\ n > 0 /\ Len(parts) = n
    BY <1>1, <1>4
  <2>2. PICK N : N = n
    OBVIOUS
  <2>3. PICK j : j = joined
    OBVIOUS
  <2>4. PICK p : p = parts
    OBVIOUS
  <2>5. N \in Nat /\ N > 0 /\ Len(p) = N
    BY <2>1, <2>2, <2>4
  <2>6. \A i \in 1..N : j[i] = IF i = 1 THEN p[i] ELSE j[i - 1] \o p[i]
    BY <1>5, <2>2, <2>3, <2>4, Zenon
  <2>7. FlattenSeq(p) = j[N]
    BY <2>5, <2>6, FlattenIsJoined
  <2> QED  BY <2>2, <2>3, <2>4, <2>7, Zenon
<1> QED  BY <1>3, <1>6, <1>7, Zenon
-----------------------------------------------------------------------------
(* The invariant of a run *)

\* A finished file is its piece of one version, the one its checkpoint names, if any.
Finished(blocks, f, c) ==
  \E v \in 1..Versions : c.version \in {0, v} /\ blocks = Prefix(v, f, PieceLength(f, SizeOf[v]))

\* A checkpoint with a validator knows its version's size or none, and claims no
\* block of a file it does not speak of.
Laid(c) ==
  /\ c.version # 0 => c.size \in {0, SizeOf[c.version]}
  /\ \A f \in Owned : f \in Layout(c) \/ c.kept[f] = <<>>

\* A file a checkpoint speaks of is what its transfer w has hashed.
Follows(w, f, d, c, code) ==
  /\ w.st = "none" <=> f \notin Layout(c)
  /\ w.st # "none" => d[f] = w.data
  /\ w.st = "range" => w.from = c.version /\ (c.segmented \/ w.data # <<>>)
  /\ w.st = "full" => ~c.segmented
  /\ w.st = "done" => Finished(w.data, f, c)
  /\ w.st = "failed" => code # ""

\* What the disk d holds when the run is at an await, with checkpoint c and
\* transfers w, of which one failed with this code.
Stage(at, d, c, w, code) ==
  /\ at \in {"discard", "prepare"} /\ c.version = 0 => \A f \in Owned : c.kept[f] = <<>>
  /\ at = "fetch" => \A f \in Owned : Follows(w[f], f, d, c, code)
  /\ at = "merge" => c.segmented /\ \A f \in Layout(c) : Finished(d[f], f, c)
  /\ at = "rename" => c.segmented /\ Finished(d[Assembling], Target, c)
  /\ at = "verify" => Finished(d[Target], Target, c)

\* Where the stored checkpoint is the one of the attempt, and where either says
\* that the source is complete.
Claimed ==
  /\ pc \in {"fetch", "merge", "rename", "verify", "cleanup"} => saved = retained
  /\ pc \in {"probe", "wait", "discard", "prepare", "fetch", "merge", "rename", "verify"} =>
       saved.completed = <<>>
  /\ pc \in {"discard", "prepare", "fetch", "merge", "rename", "verify"} => retained.completed = <<>>
  /\ pc \in {"cleanup", "complete"} => saved.completed # <<>>

CompletedIsWhole(c) == c.completed # <<>> => \E v \in 1..Versions : c.completed = Whole(v)

RunInv ==
  /\ SourceInv /\ TypeOK
  /\ Laid(saved) /\ Laid(retained) /\ CompletedIsWhole(saved)
  /\ Claimed /\ Stage(pc, disk, retained, writer, failure)
  /\ CheckpointIsDurable
-----------------------------------------------------------------------------
(* Types *)

\* A new checkpoint, and one compared with the files, are checkpoints.
LEMMA FreshType ==
  ASSUME NEW m \in Metadata, NEW segmented \in BOOLEAN
  PROVE  Fresh(m, segmented) \in Checkpoint
<1>1. <<>> \in Content
  BY DEF Content
<1> QED  BY <1>1 DEF Fresh, Checkpoint, Metadata

LEMMA UnknownType ==
  Unknown \in Metadata /\ Fresh(Unknown, FALSE) \in Checkpoint /\ [f \in Owned |-> NoWriter] \in [Owned -> Writer]
<1>1. Unknown \in Metadata
  BY HttpConstants DEF Unknown, Metadata
<1>2. NoWriter \in Writer
  <2>1. <<>> \in Content /\ 0 \in 0..Versions
    BY HttpConstants DEF Content
  <2> QED  BY <2>1 DEF NoWriter, Writer
<1> QED  BY <1>1, <1>2, FreshType

LEMMA ReconciledType ==
  ASSUME NEW c \in Checkpoint
  PROVE  /\ Reconciled(c) \in Checkpoint
         /\ Reconciled(c).version = c.version /\ Reconciled(c).size = c.size
         /\ Reconciled(c).segmented = c.segmented /\ Reconciled(c).completed = c.completed
         /\ \A f \in Owned : Reconciled(c).kept[f] \in {c.kept[f], <<>>}
<1> DEFINE kept == [f \in Owned |-> IF Intact(c, f) THEN c.kept[f] ELSE <<>>]
<1>1. <<>> \in Content /\ \A f \in Owned : c.kept[f] \in Content
  BY DEF Content, Checkpoint
<1>2. kept \in [Owned -> Content] /\ \A f \in Owned : kept[f] \in {c.kept[f], <<>>}
  BY <1>1
<1>3. Reconciled(c) = [c EXCEPT !.kept = kept]
  BY DEF Reconciled
<1> HIDE DEF kept
<1> QED  BY <1>2, <1>3 DEF Checkpoint

\* What the sequences of blocks can do.
LEMMA ContentFacts ==
  ASSUME NEW blocks \in Content
  PROVE  /\ Len(blocks) \in Nat /\ IsPrefix(blocks, blocks) /\ IsPrefix(<<>>, blocks)
         /\ (blocks = <<>> <=> Len(blocks) = 0)
         /\ \A block \in Blocks : /\ Append(blocks, block) \in Content
                                  /\ Len(Append(blocks, block)) = Len(blocks) + 1
         /\ \A n \in 0..Len(blocks) : SubSeq(blocks, 1, n) \in Content /\ Len(SubSeq(blocks, 1, n)) = n
<1>1. blocks \in Seq(Blocks) /\ Len(blocks) \in Nat
  BY DEF Content
<1>2. IsPrefix(blocks, blocks)
  BY <1>1 DEF IsPrefix
<1>3. IsPrefix(<<>>, blocks)
  <2>1. SubSeq(<<>>, 1, 0) = <<>> /\ SubSeq(blocks, 1, 0) = <<>> /\ Len(<<>>) = 0
    BY SubSeqEmpty
  <2> QED  BY <1>1, <2>1 DEF IsPrefix
<1>4. \A block \in Blocks : Append(blocks, block) \in Seq(Blocks) /\ Len(Append(blocks, block)) = Len(blocks) + 1
  BY <1>1, AppendProperties
<1>5. ASSUME NEW n \in 0..Len(blocks) PROVE SubSeq(blocks, 1, n) \in Seq(Blocks) /\ Len(SubSeq(blocks, 1, n)) = n
  <2>1. \A i \in 1..n : blocks[i] \in Blocks
    BY <1>1
  <2>2. /\ SubSeq(blocks, 1, n) \in Seq(Blocks)
        /\ Len(SubSeq(blocks, 1, n)) = IF 1 <= n THEN n - 1 + 1 ELSE 0
    BY <2>1, SubSeqProperties
  <2> QED  BY <1>1, <2>2
<1>6. blocks = <<>> <=> Len(blocks) = 0
  BY <1>1, EmptySeq
<1> QED  BY <1>1, <1>2, <1>3, <1>4, <1>5, <1>6 DEF Content

\* What begins a file still begins it when the file grows.
LEMMA PrefixStays ==
  ASSUME NEW a \in Content, NEW b \in Content, NEW block \in Blocks, IsPrefix(a, b)
  PROVE  IsPrefix(a, Append(b, block))
<1>1. Len(a) \in Nat /\ Len(b) \in Nat /\ Len(a) <= Len(b) /\ SubSeq(a, 1, Len(a)) = SubSeq(b, 1, Len(a))
  BY ContentFacts DEF IsPrefix
<1>2. /\ Append(b, block) \in Seq(Blocks) /\ Len(Append(b, block)) = Len(b) + 1
      /\ \A i \in 1..Len(b) : Append(b, block)[i] = b[i]
  BY AppendProperties DEF Content
<1>3. SubSeq(Append(b, block), 1, Len(a)) = SubSeq(b, 1, Len(a))
  <2>1. \A i \in 1..Len(a) : b[i] \in Blocks /\ Append(b, block)[i] = b[i]
    BY <1>1, <1>2 DEF Content
  <2>2. \A i \in 1..Len(a) : Append(b, block)[i] \in Blocks
    BY <2>1
  <2>3. /\ SubSeq(b, 1, Len(a)) \in Seq(Blocks) /\ Len(SubSeq(b, 1, Len(a))) = Len(a)
        /\ \A i \in 1..Len(a) : SubSeq(b, 1, Len(a))[i] = b[i]
    <3>1. /\ SubSeq(b, 1, Len(a)) \in Seq(Blocks)
          /\ Len(SubSeq(b, 1, Len(a))) = IF 1 <= Len(a) THEN Len(a) - 1 + 1 ELSE 0
          /\ \A i \in 1..(Len(a) - 1 + 1) : SubSeq(b, 1, Len(a))[i] = b[1 + i - 1]
      BY <1>1, <2>1, SubSeqProperties
    <3> QED  BY <1>1, <3>1
  <2>4. /\ SubSeq(Append(b, block), 1, Len(a)) \in Seq(Blocks)
        /\ Len(SubSeq(Append(b, block), 1, Len(a))) = Len(a)
        /\ \A i \in 1..Len(a) : SubSeq(Append(b, block), 1, Len(a))[i] = Append(b, block)[i]
    <3>1. /\ SubSeq(Append(b, block), 1, Len(a)) \in Seq(Blocks)
          /\ Len(SubSeq(Append(b, block), 1, Len(a))) = IF 1 <= Len(a) THEN Len(a) - 1 + 1 ELSE 0
          /\ \A i \in 1..(Len(a) - 1 + 1) :
               SubSeq(Append(b, block), 1, Len(a))[i] = Append(b, block)[1 + i - 1]
      BY <1>1, <2>2, SubSeqProperties
    <3> QED  BY <1>1, <3>1
  <2> QED  BY <2>1, <2>3, <2>4, SeqEqual
<1>4. Len(a) <= Len(Append(b, block))
  BY <1>1, <1>2
<1> QED  BY <1>1, <1>3, <1>4 DEF IsPrefix

\* The longest file: Max is taken of finitely many numbers.
LEMMA LongestFile ==
  ASSUME TypeOK
  PROVE  Max({Len(disk[f]) : f \in Files}) \in Nat
<1> DEFINE length == [f \in Files |-> Len(disk[f])]
           lengths == {Len(disk[f]) : f \in Files}
<1>1. IsFiniteSet(Files)
  <2>1. Files = 0..(MaxThreads + 1)
    BY HttpConstants DEF Files, Owned, Parts, Target, Assembling
  <2> QED  BY <2>1, FS_Interval, HttpConstants
<1>2. \A f \in Files : Len(disk[f]) \in Nat
  BY ContentFacts DEF TypeOK
<1>3. length \in [Files -> Nat]
  BY <1>2
<1>4. PICK most \in Nat : \A f \in Files : length[f] <= most
  BY <1>1, <1>3, FiniteIsBounded
<1>5. lengths \in SUBSET (0..most) /\ lengths # {}
  <2>1. \A f \in Files : Len(disk[f]) \in 0..most
    BY <1>2, <1>4
  <2>2. Target \in Files
    BY DEF Files, Owned
  <2> QED  BY <2>1, <2>2
<1> HIDE DEF lengths
<1>6. Max(lengths) \in lengths
  BY <1>5, MaxIsGreatest
<1> QED  BY <1>2, <1>6 DEF lengths
-----------------------------------------------------------------------------
(* The steps of a transfer *)

\* What a step leaves of the invariant, the places of the pieces and SourceInv apart.
Advances ==
  /\ TypeOK' /\ Laid(saved') /\ Laid(retained') /\ CompletedIsWhole(saved')
  /\ Claimed' /\ Stage(pc', disk', retained', writer', failure')
  /\ CheckpointIsDurable'

\* What is known of a transfer that can take a step.
LEMMA DrainingFacts ==
  ASSUME RunInv, NEW f \in Draining
  PROVE  /\ pc = "fetch" /\ f \in Owned /\ f \in Files /\ f \in Layout(retained)
         /\ writer[f] \in Writer /\ writer[f].st \in {"ask", "range", "full"}
         /\ disk[f] = writer[f].data /\ disk[f] \in Content /\ writer[f].data \in Content
         /\ Follows(writer[f], f, disk, retained, failure) /\ HonestWriter(writer[f], f, retained)
         /\ saved = retained /\ saved.completed = <<>> /\ retained \in Checkpoint
         /\ \A g \in Owned : Len(retained.kept[g]) <= synced[g] /\ IsPrefix(retained.kept[g], disk[g])
<1>1. f \in Owned /\ f \in Files /\ writer[f].st \in {"ask", "range", "full"} /\ pc = "fetch"
  BY DEF RunInv, SourceInv, DrainedFirst, Draining, Streaming, Files
<1>2. Follows(writer[f], f, disk, retained, failure) /\ HonestWriter(writer[f], f, retained)
  BY <1>1 DEF RunInv, Stage, SourceInv, HonestWriters
<1>3. disk[f] = writer[f].data /\ f \in Layout(retained)
  BY <1>1, <1>2 DEF Follows
<1>4. writer[f] \in Writer /\ writer[f].data \in Content /\ disk[f] \in Content /\ retained \in Checkpoint
  BY <1>1 DEF RunInv, TypeOK, Writer
<1>5. saved = retained /\ saved.completed = <<>>
  BY <1>1 DEF RunInv, Claimed
<1>6. \A g \in Owned : Len(retained.kept[g]) <= synced[g] /\ IsPrefix(retained.kept[g], disk[g])
  BY <1>1, <1>5 DEF RunInv, CheckpointIsDurable
<1> QED  BY <1>1, <1>2, <1>3, <1>4, <1>5, <1>6

\* A transfer that reached the length it expects holds its piece of one version.
LEMMA EndedIsFinished ==
  ASSUME RunInv, NEW f \in Owned, Streaming(f), Len(writer[f].data) = Expected(f)
  PROVE  Finished(writer[f].data, f, retained)
<1> DEFINE w == writer[f]
<1>1. f \in Draining
  BY DEF Draining
<1>2. /\ Follows(w, f, disk, retained, failure) /\ HonestWriter(w, f, retained)
      /\ w.data \in Content /\ retained \in Checkpoint
  BY <1>1, DrainingFacts
<1>3. w.from \in 1..Versions /\ RunOf(w.data, w.from, f) /\ retained.version \in {0, w.from}
  BY <1>2 DEF HonestWriter, Streaming
<1>4. w.data = Prefix(w.from, f, Len(w.data))
  BY <1>3, RunsArePrefixes
<1>5. SizeOf[w.from] \in Nat \ {0} /\ Versions \in Nat
  BY <1>3, HttpConstants
<1>6. ASSUME f = Target PROVE \A size \in Nat : PieceLength(f, size) = size
  BY <1>6 DEF PieceLength, Offset
<1>7. CASE w.st = "range"
  <2>1. w.from = retained.version /\ retained.version # 0 /\ Len(w.data) = PieceLength(f, retained.size)
    BY <1>2, <1>3, <1>7 DEF Follows, Expected
  <2>2. retained.size = SizeOf[w.from]
    <3>1. CASE retained.segmented
      BY <2>1, <3>1 DEF RunInv, SourceInv, Honest
    <3>2. CASE ~retained.segmented
      <4>1. f = Target /\ w.data # <<>>
        BY <1>2, <1>7, <3>2 DEF Follows, HonestWriter
      <4>2. Len(w.data) # 0 /\ retained.size \in Nat
        BY <1>2, <4>1, ContentFacts DEF Checkpoint
      <4>3. retained.size # 0
        BY <1>6, <2>1, <4>1, <4>2
      <4> QED  BY <2>1, <4>3 DEF RunInv, Laid
    <3> QED  BY <3>1, <3>2
  <2> QED  BY <1>3, <1>4, <2>1, <2>2 DEF Finished
<1>8. CASE w.st = "full"
  <2>1. f = Target /\ Len(w.data) = SizeOf[w.from]
    BY <1>2, <1>8 DEF Follows, HonestWriter, Expected
  <2>2. PieceLength(f, SizeOf[w.from]) = Len(w.data)
    BY <1>5, <1>6, <2>1
  <2> QED  BY <1>3, <1>4, <2>2 DEF Finished
<1> QED  BY <1>7, <1>8 DEF Streaming

\* A transfer that commits goes on, fails or is done.
Settles(f) ==
  /\ UNCHANGED <<options, origin, disk, pc, metadata, fallback, retries, aborted>>
  /\ \/ UNCHANGED <<writer, failure>>
     \/ writer' = [writer EXCEPT ![f].st = "failed"] /\ failure' \in Codes \ {""}
     \/ /\ writer' = [writer EXCEPT ![f].st = "done"] /\ UNCHANGED failure
        /\ Finished(writer[f].data, f, retained)

LEMMA CommitAdvances ==
  ASSUME RunInv, NEW f \in Draining, Sync(f), Settles(f)
  PROVE  Advances
<1> DEFINE data == writer[f].data
<1>1. /\ pc = "fetch" /\ f \in Owned /\ f \in Files /\ f \in Layout(retained)
      /\ writer[f] \in Writer /\ writer[f].st \in {"ask", "range", "full"}
      /\ disk[f] = data /\ data \in Content
      /\ Follows(writer[f], f, disk, retained, failure)
      /\ saved = retained /\ saved.completed = <<>> /\ retained \in Checkpoint
      /\ \A g \in Owned : Len(retained.kept[g]) <= synced[g] /\ IsPrefix(retained.kept[g], disk[g])
  BY DrainingFacts
<1>2. /\ retained' \in Checkpoint /\ saved' = retained' /\ retained'.version = retained.version
      /\ retained'.size = retained.size /\ retained'.segmented = retained.segmented
      /\ retained'.completed = <<>>
      /\ \A g \in Owned : retained'.kept[g] = IF g = f THEN data ELSE retained.kept[g]
  <2>1. retained' = [retained EXCEPT !.kept = [retained.kept EXCEPT ![f] = data]] /\ saved' = retained'
    BY DEF Sync
  <2>2. PICK kept : kept = [retained.kept EXCEPT ![f] = data]
    OBVIOUS
  <2>3. kept \in [Owned -> Content] /\ \A g \in Owned : kept[g] = IF g = f THEN data ELSE retained.kept[g]
    BY <1>1, <2>2 DEF Checkpoint
  <2> HIDE DEF data
  <2> QED  BY <1>1, <2>1, <2>2, <2>3 DEF Checkpoint
<1>3. Layout(retained') = Layout(retained)
  BY <1>2 DEF Layout
<1>4. Laid(retained')
  BY <1>1, <1>2, <1>3 DEF RunInv, Laid
<1>5. /\ synced' \in [Files -> Nat] /\ synced'[f] = Len(disk[f])
      /\ \A g \in Files : synced[g] <= synced'[g] /\ synced'[g] <= Len(disk[g])
  <2>1. synced' = [synced EXCEPT ![f] = Len(disk[f])] /\ synced \in [Files -> Nat]
    BY DEF Sync, RunInv, TypeOK
  <2>2. Len(disk[f]) \in Nat
    BY <1>1, ContentFacts
  <2>3. \A g \in Files : synced[g] <= Len(disk[g]) /\ synced[g] \in Nat
    BY DEF RunInv, TypeOK
  <2>4. f \in Files
    BY <1>1
  <2>5. synced' \in [Files -> Nat] /\ \A g \in Files : synced'[g] = IF g = f THEN Len(disk[f]) ELSE synced[g]
    BY <2>1, <2>2, <2>4
  <2>6. ASSUME NEW g \in Files PROVE synced[g] <= synced'[g] /\ synced'[g] <= Len(disk[g])
    <3>1. CASE g = f
      BY <2>2, <2>3, <2>5, <3>1
    <3>2. CASE g # f
      BY <2>3, <2>5, <3>2
    <3> QED  BY <3>1, <3>2
  <2> QED  BY <2>4, <2>5, <2>6
<1>6. CheckpointIsDurable'
  <2>1. ASSUME NEW g \in Owned
        PROVE  Len(retained'.kept[g]) <= synced'[g] /\ IsPrefix(retained'.kept[g], disk[g])
    <3>1. CASE g = f
      <4>1. retained'.kept[g] = disk[g] /\ synced'[g] = Len(disk[g]) /\ disk[g] \in Content
        BY <1>1, <1>2, <1>5, <3>1
      <4>2. Len(disk[g]) \in Nat /\ IsPrefix(disk[g], disk[g])
        BY <4>1, ContentFacts
      <4> QED  BY <4>1, <4>2
    <3>2. CASE g # f
      <4>1. Len(retained.kept[g]) <= synced[g] /\ synced[g] <= synced'[g] /\ g \in Files
        BY <1>1, <1>5 DEF Files
      <4>2. Len(retained.kept[g]) \in Nat /\ synced[g] \in Nat /\ synced'[g] \in Nat
        <5>1. retained.kept[g] \in Content
          BY <1>1 DEF Checkpoint
        <5>2. synced[g] \in Nat
          BY <4>1 DEF RunInv, TypeOK
        <5> QED  BY <1>5, <4>1, <5>1, <5>2, ContentFacts
      <4>3. retained'.kept[g] = retained.kept[g] /\ IsPrefix(retained.kept[g], disk[g])
        BY <1>1, <1>2, <3>2
      <4> QED  BY <4>1, <4>2, <4>3
    <3> QED  BY <3>1, <3>2
  <2>2. disk' = disk
    BY DEF Settles
  <2> QED  BY <1>2, <2>1, <2>2 DEF CheckpointIsDurable
<1>7. writer' \in [Owned -> Writer] /\ failure' \in Codes
  <2>1. writer \in [Owned -> Writer] /\ failure \in Codes
    BY DEF RunInv, TypeOK
  <2>2. ASSUME NEW st \in {"failed", "done"}, writer' = [writer EXCEPT ![f].st = st]
        PROVE  writer' \in [Owned -> Writer]
    <3>1. [writer[f] EXCEPT !.st = st] \in Writer
      BY <1>1 DEF Writer
    <3> QED  BY <1>1, <2>1, <2>2, <3>1
  <2> QED  BY <2>1, <2>2 DEF Settles
<1>8. \A g \in Owned : Follows(writer'[g], g, disk', retained', failure')
  <2>1. \A g \in Owned : Follows(writer[g], g, disk, retained, failure)
    BY <1>1 DEF RunInv, Stage
  <2>2. \A b : \A g \in Owned : Finished(b, g, retained') <=> Finished(b, g, retained)
    BY <1>2 DEF Finished
  <2>3. disk' = disk /\ (failure # "" => failure' # "")
    BY DEF Settles
  <2>4. ASSUME NEW g \in Owned, writer'[g] = writer[g]
        PROVE  Follows(writer'[g], g, disk', retained', failure')
    BY <1>2, <1>3, <2>1, <2>2, <2>3, <2>4 DEF Follows
  <2>5. ASSUME NEW st \in {"failed", "done"}, writer' = [writer EXCEPT ![f].st = st]
        PROVE  /\ \A g \in Owned \ {f} : writer'[g] = writer[g]
               /\ writer'[f].st = st /\ writer'[f].data = data
    BY <1>1, <2>5 DEF RunInv, TypeOK, Writer
  <2>6. CASE UNCHANGED writer
    BY <2>4, <2>6
  <2>7. CASE writer' = [writer EXCEPT ![f].st = "failed"] /\ failure' # ""
    <3>1. Follows(writer'[f], f, disk', retained', failure')
      BY <1>1, <1>3, <2>3, <2>5, <2>7 DEF Follows
    <3> QED  BY <2>4, <2>5, <2>7, <3>1
  <2>8. CASE writer' = [writer EXCEPT ![f].st = "done"] /\ Finished(data, f, retained)
    <3>1. Follows(writer'[f], f, disk', retained', failure')
      BY <1>1, <1>3, <2>2, <2>3, <2>5, <2>8 DEF Follows
    <3> QED  BY <2>4, <2>5, <2>8, <3>1
  <2> QED  BY <2>6, <2>7, <2>8 DEF Settles
<1>9. Stage(pc', disk', retained', writer', failure') /\ Claimed'
  BY <1>1, <1>2, <1>8 DEF Stage, Claimed, Settles
<1>10. TypeOK'
  BY <1>2, <1>5, <1>7 DEF RunInv, TypeOK, Settles
<1>11. CompletedIsWhole(saved')
  BY <1>2 DEF CompletedIsWhole
<1> QED  BY <1>2, <1>4, <1>6, <1>9, <1>10, <1>11 DEF Advances

\* A transfer whose checkpoint stays, or changes what it says of the source.
LEMMA TransferAdvances ==
  ASSUME RunInv, NEW f \in Draining, options' = options, TypeOK', UNCHANGED <<synced, pc, failure>>,
         retained'.kept = retained.kept, retained'.completed = retained.completed,
         saved' = retained', Laid(retained'), Layout(retained') = Layout(retained),
         retained' = retained \/ \A g \in Owned \ {f} : writer[g].st = "none",
         \A g \in Owned \ {f} : writer'[g] = writer[g] /\ disk'[g] = disk[g],
         IsPrefix(retained.kept[f], disk'[f]), Follows(writer'[f], f, disk', retained', failure)
  PROVE  Advances
<1>1. /\ pc = "fetch" /\ f \in Owned /\ saved = retained /\ saved.completed = <<>>
      /\ \A g \in Owned : Len(retained.kept[g]) <= synced[g] /\ IsPrefix(retained.kept[g], disk[g])
  BY DrainingFacts
<1>2. \A g \in Owned : Follows(writer[g], g, disk, retained, failure)
  BY <1>1 DEF RunInv, Stage
<1>3. \A g \in Owned \ {f} : Follows(writer'[g], g, disk', retained', failure)
  BY <1>2 DEF Follows
<1>4. Stage(pc', disk', retained', writer', failure') /\ Claimed'
  BY <1>1, <1>3 DEF Stage, Claimed
<1>5. \A g \in Owned : Len(saved'.kept[g]) <= synced'[g] /\ IsPrefix(saved'.kept[g], disk'[g])
  BY <1>1
<1>6. CheckpointIsDurable'
  BY <1>1, <1>5 DEF CheckpointIsDurable
<1>7. CompletedIsWhole(saved')
  BY <1>1 DEF CompletedIsWhole
<1> QED  BY <1>4, <1>6, <1>7 DEF Advances

\* A chunk is written and hashed.
LEMMA ReceiveAdvances ==
  ASSUME RunInv, NEW f \in Owned, Receive(f)
  PROVE  Advances
<1> DEFINE from == writer[f].from
           data == writer[f].data
<1>1. f \in Draining /\ Streaming(f)
  BY DEF Receive, Draining
<1>2. /\ f \in Files /\ f \in Layout(retained) /\ writer[f] \in Writer
      /\ disk[f] = data /\ data \in Content /\ retained \in Checkpoint /\ saved = retained
      /\ Follows(writer[f], f, disk, retained, failure) /\ HonestWriter(writer[f], f, retained)
      /\ IsPrefix(retained.kept[f], disk[f])
  BY <1>1, DrainingFacts
<1>3. from \in 1..Versions /\ retained.version \in {0, from}
  BY <1>1, <1>2 DEF HonestWriter, Streaming
<1>4. Offset(f, retained.size) \in Nat
  <2>1. CASE retained.segmented
    <3>1. retained.version \in 1..Versions /\ retained.size = SizeOf[retained.version]
      BY <2>1 DEF RunInv, SourceInv, Honest
    <3> QED  BY <3>1, OffsetIsNat DEF RunInv, TypeOK
  <2>2. CASE f = Target
    BY <2>2 DEF Offset
  <2> QED  BY <1>1, <1>2, <2>1, <2>2 DEF HonestWriter, Streaming
<1>5. PICK block \in Blocks :
        /\ disk' = [disk EXCEPT ![f] = Append(@, block)]
        /\ writer' = [writer EXCEPT ![f].data = Append(@, block)]
  <2>1. Len(data) \in Nat
    BY <1>2, ContentFacts
  <2>2. <<from, Offset(f, retained.size) + Len(data) + 1>> \in Blocks
    BY <1>3, <1>4, <2>1 DEF Blocks
  <2> QED  BY <2>2, Zenon DEF Receive
<1>6. UNCHANGED <<options, origin, synced, saved, pc, metadata, retained, failure, fallback, retries, aborted>>
  BY DEF Receive
<1> DEFINE longer == Append(data, block)
<1>7. longer \in Content /\ Len(longer) = Len(data) + 1 /\ Len(data) \in Nat
  BY <1>2, ContentFacts
<1> HIDE DEF longer
<1>8. /\ writer' \in [Owned -> Writer] /\ \A g \in Owned \ {f} : writer'[g] = writer[g]
      /\ writer'[f] = [st |-> writer[f].st, from |-> from, data |-> longer]
  <2>1. writer \in [Owned -> Writer]
    BY DEF RunInv, TypeOK
  <2>2. writer' = [writer EXCEPT ![f] = [writer[f] EXCEPT !.data = longer]]
    BY <1>5, <2>1 DEF longer
  <2>3. [writer[f] EXCEPT !.data = longer] = [st |-> writer[f].st, from |-> from, data |-> longer]
    BY <1>2 DEF Writer
  <2>4. [st |-> writer[f].st, from |-> from, data |-> longer] \in Writer
    BY <1>2, <1>7 DEF Writer
  <2> QED  BY <2>1, <2>2, <2>3, <2>4
<1>9. /\ disk' \in [Files -> Content] /\ disk'[f] = longer
      /\ \A g \in Files \ {f} : disk'[g] = disk[g]
  BY <1>2, <1>5, <1>7 DEF RunInv, TypeOK, longer
<1>10. TypeOK'
  <2>1. \A g \in Files : synced'[g] <= Len(disk'[g])
    <3>1. synced[f] \in Nat /\ synced[f] <= Len(data) /\ \A g \in Files : synced[g] <= Len(disk[g])
      BY <1>2 DEF RunInv, TypeOK
    <3> QED  BY <1>6, <1>7, <1>9, <3>1
  <2> QED  BY <1>6, <1>8, <1>9, <2>1 DEF RunInv, TypeOK
<1>11. IsPrefix(retained.kept[f], disk'[f])
  <2>1. retained.kept[f] \in Content
    BY <1>2 DEF Checkpoint
  <2> QED  BY <1>2, <1>9, <2>1, PrefixStays DEF longer
<1>12. Follows(writer'[f], f, disk', retained', failure)
  <2>1. longer # <<>>
    <3>1. Len(longer) # 0
      BY <1>7
    <3> QED  BY <1>7, <3>1, ContentFacts
  <2>2. disk'[f] = writer'[f].data /\ writer'[f].st = writer[f].st /\ writer'[f].from = writer[f].from
    BY <1>8, <1>9
  <2>3. writer'[f].st \in {"range", "full"} /\ writer'[f].data # <<>>
    BY <1>1, <1>8, <2>1 DEF Streaming
  <2>4. retained' = retained
    BY <1>6
  <2> QED  BY <1>2, <2>2, <2>3, <2>4 DEF Follows
<1>13. Laid(retained') /\ Layout(retained') = Layout(retained)
  BY <1>6 DEF RunInv
<1>14. \A g \in Owned \ {f} : disk'[g] = disk[g]
  BY <1>9 DEF Files
<1> QED  BY <1>1, <1>2, <1>6, <1>8, <1>10, <1>11, <1>12, <1>13, <1>14, TransferAdvances

\* A range is answered by the version the metadata names.
LEMMA RangeAdvances ==
  ASSUME RunInv, NEW f \in Owned, writer[f].st = "ask", AnswerRange(f),
         UNCHANGED <<options, origin, disk, pc, fallback, retries, aborted>>
  PROVE  Advances
<1>1. f \in Draining
  BY DEF Draining
<1>2. /\ f \in Layout(retained) /\ writer[f] \in Writer /\ disk[f] = writer[f].data
      /\ saved = retained /\ HonestWriter(writer[f], f, retained)
      /\ \A g \in Owned : IsPrefix(retained.kept[g], disk[g])
  BY <1>1, DrainingFacts
<1>3. /\ writer' = [writer EXCEPT ![f].st = "range", ![f].from = origin]
      /\ UNCHANGED <<synced, retained, saved, failure, metadata>> /\ origin = retained.version
      /\ retained.segmented \/ retained.kept[f] # <<>>
  BY DEF AnswerRange, Ranged, RunInv, SourceInv
<1>4. /\ writer' \in [Owned -> Writer] /\ \A g \in Owned \ {f} : writer'[g] = writer[g]
      /\ writer'[f] = [st |-> "range", from |-> origin, data |-> writer[f].data]
  <2>1. writer \in [Owned -> Writer] /\ origin \in 0..Versions
    BY HttpConstants DEF RunInv, TypeOK
  <2>2. writer'[f] = [writer[f] EXCEPT !.st = "range", !.from = origin]
    BY <1>3, <2>1
  <2>3. writer'[f] = [st |-> "range", from |-> origin, data |-> writer[f].data]
    BY <1>2, <2>2 DEF Writer
  <2>4. writer'[f] \in Writer
    BY <1>2, <2>1, <2>3 DEF Writer
  <2> QED  BY <1>3, <2>1, <2>3, <2>4
<1>5. TypeOK'
  BY <1>3, <1>4 DEF RunInv, TypeOK
<1>6. Follows(writer'[f], f, disk', retained', failure)
  BY <1>2, <1>3, <1>4 DEF Follows, HonestWriter
<1>7. Laid(retained') /\ Layout(retained') = Layout(retained)
  BY <1>3 DEF RunInv
<1> QED  BY <1>1, <1>2, <1>3, <1>4, <1>5, <1>6, <1>7, TransferAdvances

\* A full response names itself.
LEMMA FullAdvances ==
  ASSUME RunInv, NEW f \in Owned, writer[f].st = "ask", AnswerFull(f),
         UNCHANGED <<options, origin, disk, pc, fallback, retries, aborted>>
  PROVE  Advances
<1>1. f \in Draining
  BY DEF Draining
<1>2. /\ f \in Layout(retained) /\ writer[f] \in Writer /\ disk[f] = writer[f].data /\ pc = "fetch"
      /\ saved = retained /\ retained \in Checkpoint /\ HonestWriter(writer[f], f, retained)
      /\ \A g \in Owned : IsPrefix(retained.kept[g], disk[g])
  BY <1>1, DrainingFacts
<1>3. ~retained.segmented /\ UNCHANGED <<synced, failure>>
  BY DEF AnswerFull, Ranged
<1>4. origin \in 1..Versions /\ SizeOf[origin] \in Nat /\ Versions \in Nat
  BY HttpConstants DEF RunInv, TypeOK
<1>5. PICK v \in {0, origin}, size \in {0, SizeOf[origin]}, ranges \in BOOLEAN :
        /\ metadata' = [version |-> v, size |-> size, ranges |-> ranges]
        /\ retained' = [retained EXCEPT !.version = v, !.size = size]
        /\ saved' = retained'
  <2>1. PICK v \in (IF RangesVary THEN {0, origin} ELSE {origin}),
             size \in (IF RangesVary THEN {0, SizeOf[origin]} ELSE {SizeOf[origin]}),
             encoded \in (IF RangesVary THEN BOOLEAN ELSE {FALSE}) :
          /\ metadata' = [version |-> v, size |-> size, ranges |-> metadata.ranges /\ ~encoded]
          /\ retained' = [retained EXCEPT !.version = v, !.size = size]
          /\ saved' = retained'
    BY Zenon DEF AnswerFull
  <2>2. v \in {0, origin} /\ size \in {0, SizeOf[origin]}
    BY <2>1
  <2>3. (metadata.ranges /\ ~encoded) \in BOOLEAN
    OBVIOUS
  <2> QED  BY <2>1, <2>2, <2>3
<1>6. /\ retained' \in Checkpoint /\ retained'.version = v /\ retained'.size = size
      /\ retained'.segmented = FALSE /\ retained'.kept = retained.kept
      /\ retained'.completed = retained.completed
  <2>1. v \in 0..Versions /\ size \in Nat
    BY <1>4
  <2> QED  BY <1>2, <1>3, <1>5, <2>1 DEF Checkpoint
<1>7. Layout(retained') = {Target} /\ Layout(retained) = {Target} /\ f = Target
  BY <1>2, <1>3, <1>6 DEF Layout
<1>8. Laid(retained')
  <2>1. v # 0 => size \in {0, SizeOf[v]}
    BY <1>5
  <2> QED  BY <1>6, <1>7, <2>1 DEF RunInv, Laid
<1>9. \A g \in Owned \ {f} : writer[g].st = "none"
  BY <1>2, <1>7 DEF RunInv, Stage, Follows
<1>10. /\ writer' \in [Owned -> Writer] /\ \A g \in Owned \ {f} : writer'[g] = writer[g]
       /\ writer'[f] = [st |-> "full", from |-> origin, data |-> writer[f].data]
  <2>1. writer \in [Owned -> Writer] /\ origin \in 0..Versions
    BY <1>4 DEF RunInv, TypeOK
  <2>2. writer' = [writer EXCEPT ![f].st = "full", ![f].from = origin]
    BY DEF AnswerFull
  <2>3. writer'[f] = [writer[f] EXCEPT !.st = "full", !.from = origin]
    BY <2>1, <2>2
  <2>4. writer'[f] = [st |-> "full", from |-> origin, data |-> writer[f].data]
    BY <1>2, <2>3 DEF Writer
  <2>5. writer'[f] \in Writer
    BY <1>2, <2>1, <2>4 DEF Writer
  <2> QED  BY <2>1, <2>2, <2>4, <2>5
<1>11. TypeOK'
  <2>1. metadata' \in Metadata
    BY <1>4, <1>5 DEF Metadata
  <2> QED  BY <1>3, <1>5, <1>6, <1>10, <2>1 DEF RunInv, TypeOK
<1>12. Follows(writer'[f], f, disk', retained', failure)
  BY <1>2, <1>6, <1>7, <1>10 DEF Follows
<1> QED  BY <1>1, <1>2, <1>3, <1>5, <1>6, <1>7, <1>8, <1>9, <1>10, <1>11, <1>12, TransferAdvances

\* Every step of a transfer.
LEMMA WriterStepAdvances ==
  ASSUME RunInv, NEW f \in Owned, WriterStep(f)
  PROVE  Advances
<1>1. f \in Draining
  BY DEF WriterStep, Respond, Receive, Commit, BodyEnds, BodyBreaks, StopWriter, Draining, Streaming
<1>2. ASSUME NEW code \in Codes \ {""}, Fails(f, code),
             UNCHANGED <<options, origin, disk, pc, metadata, fallback, retries, aborted>>
      PROVE  Advances
  <2>1. failure' \in Codes \ {""}
    BY <1>2 DEF Fails, RunInv, TypeOK
  <2> QED  BY <1>1, <1>2, <2>1, CommitAdvances DEF Fails, Settles
<1>3. {"retry", "fatal", "restart", "abort"} \subseteq Codes \ {""}
  BY DEF Codes
<1>4. CASE Receive(f)
  BY <1>4, ReceiveAdvances
<1>5. CASE Commit(f)
  BY <1>1, <1>5, CommitAdvances DEF Commit, Settles
<1>6. CASE BodyEnds(f)
  <2>1. /\ Sync(f) /\ Finished(writer[f].data, f, retained)
        /\ UNCHANGED <<options, origin, disk, pc, metadata, fallback, retries, aborted>>
    BY <1>6, EndedIsFinished DEF BodyEnds
  <2>2. CASE Interrupted
    <3>1. /\ writer' = [writer EXCEPT ![f].st = "failed"]
          /\ failure' = IF failure = "" THEN "abort" ELSE failure
      BY <1>6, <2>2 DEF BodyEnds
    <3>2. failure' \in Codes \ {""}
      BY <1>3, <3>1 DEF RunInv, TypeOK
    <3> QED  BY <1>1, <2>1, <3>1, <3>2, CommitAdvances DEF Settles
  <2>3. CASE ~Interrupted
    <3>1. writer' = [writer EXCEPT ![f].st = "done"] /\ UNCHANGED failure
      BY <1>6, <2>3 DEF BodyEnds
    <3> QED  BY <1>1, <2>1, <3>1, CommitAdvances DEF Settles
  <2> QED  BY <2>2, <2>3
<1>7. CASE BodyBreaks(f)
  BY <1>2, <1>3, <1>7 DEF BodyBreaks
<1>8. CASE StopWriter(f)
  BY <1>2, <1>3, <1>8 DEF StopWriter
<1>9. CASE Respond(f)
  BY <1>2, <1>3, <1>9, RangeAdvances, FullAdvances DEF Respond, AnswerChanged
<1> QED  BY <1>4, <1>5, <1>6, <1>7, <1>8, <1>9 DEF WriterStep
-----------------------------------------------------------------------------
(* The steps around the transfers *)

\* A step that leaves files and checkpoints alone, within an await or between two
\* that need nothing of the disk.
LEMMA QuietAdvances ==
  ASSUME RunInv, TypeOK', UNCHANGED <<disk, synced, saved, retained, writer, failure>>,
         \/ pc' = pc
         \/ pc \in {"off", "complete", "reuse"} /\ pc' = "reuse"
         \/ pc \in {"wait", "fetch", "merge", "rename", "probe"} /\ pc' \in {"off", "wait"}
         \/ pc = "wait" /\ pc' = "probe"
         \/ pc = "reuse" /\ pc' = "probe" /\ saved.completed = <<>>
         \/ pc = "reuse" /\ pc' = "complete" /\ saved.completed # <<>>
  PROVE  Advances
<1>1. Stage(pc', disk', retained', writer', failure')
  BY DEF RunInv, Stage
<1>2. Claimed'
  BY DEF RunInv, Claimed
<1>3. CheckpointIsDurable'
  BY DEF RunInv, CheckpointIsDurable
<1>4. Laid(saved') /\ Laid(retained') /\ CompletedIsWhole(saved')
  BY DEF RunInv
<1> QED  BY <1>1, <1>2, <1>3, <1>4 DEF Advances

\* A plan takes over the stored checkpoint or makes a new one.
LEMMA PlanAdvances ==
  ASSUME RunInv, NEW m \in Metadata, Plan(m), m.version # 0 => m.size \in {0, SizeOf[m.version]},
         UNCHANGED <<options, origin, disk, synced, saved, aborted>>, saved.completed = <<>>,
         fallback' \in BOOLEAN, retries' \in 0..MaxRetries
  PROVE  Advances
<1> DEFINE segmented == ~fallback' /\ options.threads > 1 /\ m.ranges /\ m.size > 0 /\ m.version # 0
<1>1. segmented \in BOOLEAN
  OBVIOUS
<1>2. /\ metadata' = m /\ writer' = [f \in Owned |-> NoWriter] /\ failure' = ""
      /\ pc' \in {"discard", "prepare"}
      /\ \/ retained' = Fresh(m, segmented)
         \/ retained' = saved /\ saved.version # 0
  <2>1. /\ retained' = IF Reusable(m, segmented) THEN saved ELSE Fresh(m, segmented)
        /\ metadata' = m /\ writer' = [f \in Owned |-> NoWriter] /\ failure' = ""
        /\ pc' \in {"discard", "prepare"}
    BY Zenon DEF Plan
  <2>2. Reusable(m, segmented) => saved.version # 0
    BY DEF Reusable
  <2> QED  BY <2>1, <2>2
<1> HIDE DEF segmented
<1>3. retained' \in Checkpoint /\ retained'.completed = <<>>
  <2>1. Fresh(m, segmented) \in Checkpoint /\ Fresh(m, segmented).completed = <<>>
    BY <1>1, FreshType DEF Fresh
  <2> QED  BY <1>2, <2>1 DEF RunInv, TypeOK
<1>4. Laid(retained')
  <2>1. Laid(Fresh(m, segmented))
    BY DEF Laid, Fresh
  <2> QED  BY <1>2, <2>1 DEF RunInv
<1>5. retained'.version = 0 => \A f \in Owned : retained'.kept[f] = <<>>
  <2>1. \A f \in Owned : Fresh(m, segmented).kept[f] = <<>>
    BY DEF Fresh
  <2> QED  BY <1>2, <2>1
<1>6. Stage(pc', disk', retained', writer', failure')
  BY <1>2, <1>5 DEF Stage
<1>7. Claimed' /\ CheckpointIsDurable'
  BY <1>2, <1>3 DEF Claimed, CheckpointIsDurable
<1>8. TypeOK'
  <2>1. writer' \in [Owned -> Writer] /\ failure' \in Codes
    BY <1>2, UnknownType DEF Codes
  <2> QED  BY <1>2, <1>3, <2>1 DEF RunInv, TypeOK
<1> QED  BY <1>3, <1>4, <1>6, <1>7, <1>8 DEF RunInv, Advances

LEMMA ProbeAdvances ==
  ASSUME RunInv, Probe
  PROVE  Advances
<1>1. PICK m \in Answers : Plan(m)
  BY DEF Probe
<1>2. origin \in 1..Versions /\ SizeOf[origin] \in Nat /\ Versions \in Nat
  BY HttpConstants DEF RunInv, TypeOK
<1>3. m \in Metadata /\ (m.version # 0 => m.size \in {0, SizeOf[m.version]})
  <2>1. CASE m = Unknown
    BY <2>1, UnknownType DEF Unknown
  <2>2. CASE m = [version |-> origin, size |-> SizeOf[origin], ranges |-> TRUE]
    BY <1>2, <2>2 DEF Metadata
  <2>3. CASE m \in [version: {0, origin}, size: {0, SizeOf[origin]}, ranges: BOOLEAN]
    BY <1>2, <2>3 DEF Metadata
  <2> QED  BY <1>1, <2>1, <2>2, <2>3 DEF Answers
<1>4. /\ saved.completed = <<>> /\ fallback' \in BOOLEAN /\ retries' \in 0..MaxRetries
      /\ UNCHANGED <<options, origin, disk, synced, saved, aborted>>
  BY DEF Probe, RunInv, TypeOK, Claimed, files
<1> QED  BY <1>1, <1>3, <1>4, PlanAdvances

\* The end of an attempt, from its transfers or its merge.
LEMMA RecoverAdvances ==
  ASSUME RunInv, NEW code, Recover(code), pc \in {"fetch", "merge"},
         UNCHANGED <<options, origin, disk, synced, saved, aborted>>
  PROVE  Advances
<1>1. saved.completed = <<>>
  BY DEF RunInv, Claimed
<1>2. CASE ~aborted /\ code = "restart" /\ ~fallback /\ fallback' = TRUE /\ UNCHANGED retries /\ Plan(Unknown)
  <2>1. Unknown \in Metadata /\ Unknown.version = 0
    BY UnknownType DEF Unknown
  <2>2. fallback' \in BOOLEAN /\ retries' \in 0..MaxRetries
    BY <1>2 DEF RunInv, TypeOK
  <2> QED  BY <1>1, <1>2, <2>1, <2>2, PlanAdvances
<1>3. CASE /\ retries < MaxRetries /\ retries' = retries + 1 /\ pc' = "wait"
           /\ UNCHANGED <<metadata, retained, writer, failure, fallback>>
  <2>1. retries' \in 0..MaxRetries
    BY <1>3, HttpConstants DEF RunInv, TypeOK
  <2>2. TypeOK'
    BY <1>3, <2>1 DEF RunInv, TypeOK
  <2> QED  BY <1>3, <2>2, QuietAdvances
<1>4. CASE pc' = "off" /\ UNCHANGED run
  <2>1. UNCHANGED <<metadata, retained, writer, failure, fallback, retries>>
    BY <1>4 DEF run
  <2>2. TypeOK'
    BY <1>4, <2>1 DEF RunInv, TypeOK
  <2> QED  BY <1>4, <2>1, <2>2, QuietAdvances
<1> QED  BY <1>2, <1>3, <1>4 DEF Recover

\* Once every transfer is done, each file of the checkpoint is its finished piece.
LEMMA JoinAdvances ==
  ASSUME RunInv, Join
  PROVE  Advances
<1>1. UNCHANGED <<options, origin, disk, synced, saved, aborted>> /\ pc = "fetch" /\ Draining = {}
  BY DEF Join, files
<1>2. CASE failure # "" /\ Recover(failure)
  BY <1>1, <1>2, RecoverAdvances
<1>3. CASE /\ failure = "" /\ UNCHANGED run
           /\ pc' = IF retained.segmented THEN "merge" ELSE "verify"
  <2>1. UNCHANGED <<metadata, retained, writer, failure, fallback, retries>>
    BY <1>3 DEF run
  <2>2. \A f \in Layout(retained) : Finished(disk[f], f, retained)
    <3> TAKE f \in Layout(retained)
    <3>1. f \in Owned
      <4>1. retained.segmented => f \in Parts
        <5>1. retained.segmented => retained.version \in 1..Versions /\ retained.size = SizeOf[retained.version]
          BY DEF RunInv, SourceInv, Honest
        <5> QED  BY <5>1, PieceEnds DEF Layout, RunInv, TypeOK
      <4> QED  BY <4>1 DEF Owned, Layout
    <3>2. Follows(writer[f], f, disk, retained, failure)
      BY <1>1, <3>1 DEF RunInv, Stage
    <3>3. writer[f].st \notin {"ask", "range", "full", "none", "failed"}
      BY <1>1, <1>3, <3>1, <3>2 DEF Draining, Streaming, Follows
    <3>4. writer[f].st \in {"none", "ask", "range", "full", "done", "failed"}
      BY <3>1 DEF RunInv, TypeOK, Writer
    <3> QED  BY <3>2, <3>3, <3>4 DEF Follows
  <2>3. Stage(pc', disk', retained', writer', failure')
    BY <1>1, <1>3, <2>1, <2>2 DEF Stage, Layout
  <2>4. Claimed' /\ CheckpointIsDurable'
    BY <1>1, <1>3, <2>1 DEF RunInv, Claimed, CheckpointIsDurable
  <2>5. TypeOK'
    BY <1>1, <1>3, <2>1 DEF RunInv, TypeOK
  <2> QED  BY <1>1, <2>1, <2>3, <2>4, <2>5 DEF RunInv, Advances
<1> QED  BY <1>2, <1>3 DEF Join

\* Files that a new checkpoint does not need are removed one after another.
LEMMA DiscardAdvances ==
  ASSUME RunInv, Discard
  PROVE  Advances
<1>1. UNCHANGED <<options, origin, saved, metadata, retained, writer, failure, fallback, retries, aborted>>
  BY DEF Discard, run
<1>2. pc = "discard" /\ pc' \in {"discard", "prepare"}
  BY DEF Discard
<1>3. disk' \in [Files -> Content] /\ synced' \in [Files -> Nat] /\ \A f \in Files : synced'[f] <= Len(disk'[f])
  <2>1. disk \in [Files -> Content] /\ synced \in [Files -> Nat] /\ \A f \in Files : synced[f] <= Len(disk[f])
    BY DEF RunInv, TypeOK
  <2>2. CASE UNCHANGED files
    BY <2>1, <2>2 DEF files
  <2>3. ASSUME NEW f \in Owned, disk' = [disk EXCEPT ![f] = <<>>], synced' = [synced EXCEPT ![f] = 0]
        PROVE  /\ disk' \in [Files -> Content] /\ synced' \in [Files -> Nat]
               /\ \A g \in Files : synced'[g] <= Len(disk'[g])
    <3>1. <<>> \in Content /\ Len(<<>>) = 0
      BY DEF Content
    <3>2. disk' \in [Files -> Content] /\ synced' \in [Files -> Nat]
      BY <2>1, <2>3, <3>1
    <3>3. ASSUME NEW g \in Files PROVE synced'[g] <= Len(disk'[g])
      <4>1. CASE g = f
        BY <2>1, <2>3, <3>1, <4>1
      <4>2. CASE g # f
        BY <2>1, <2>3, <4>2
      <4> QED  BY <4>1, <4>2
    <3> QED  BY <3>2, <3>3
  <2> QED  BY <2>2, <2>3 DEF Discard
<1>4. TypeOK'
  BY <1>1, <1>2, <1>3 DEF RunInv, TypeOK
<1>5. Claimed' /\ CheckpointIsDurable' /\ Stage(pc', disk', retained', writer', failure')
  BY <1>1, <1>2 DEF RunInv, Claimed, CheckpointIsDurable, Stage
<1> QED  BY <1>1, <1>4, <1>5 DEF RunInv, Advances

\* The files are cut to what the checkpoint found, and the transfers start there.
LEMMA PrepareAdvances ==
  ASSUME RunInv, Prepare
  PROVE  Advances
<1> DEFINE c == Reconciled(retained)
           kept == [f \in Files |-> IF f \in Layout(c) THEN Left(c, f) ELSE <<>>]
<1>1. /\ pc = "prepare" /\ retained' = c /\ saved' = c /\ disk' = kept
      /\ synced' = [f \in Files |-> Len(kept[f])]
      /\ UNCHANGED <<options, origin, metadata, failure, fallback, retries, aborted>>
  BY DEF Prepare
<1>2. \/ /\ pc' = "fetch"
         /\ writer' = [f \in Owned |->
              IF f \notin Layout(c) THEN NoWriter
              ELSE [st |-> IF c.kept[f] # <<>> /\ Len(c.kept[f]) = PieceLength(f, c.size)
                           THEN "done" ELSE "ask",
                    from |-> 0, data |-> c.kept[f]]]
      \/ pc' = "off" /\ UNCHANGED writer
  BY DEF Prepare
<1>3. /\ c \in Checkpoint /\ c.version = retained.version /\ c.size = retained.size
      /\ c.segmented = retained.segmented /\ c.completed = <<>>
      /\ \A f \in Owned : c.kept[f] \in {retained.kept[f], <<>>} /\ c.kept[f] \in Content
  <2>1. retained \in Checkpoint /\ retained.completed = <<>>
    BY <1>1 DEF RunInv, TypeOK, Claimed
  <2>2. /\ c \in Checkpoint /\ c.version = retained.version /\ c.size = retained.size
        /\ c.segmented = retained.segmented /\ c.completed = retained.completed
        /\ \A f \in Owned : c.kept[f] \in {retained.kept[f], <<>>}
    BY <2>1, ReconciledType
  <2> HIDE DEF c
  <2> QED  BY <2>1, <2>2 DEF Checkpoint
<1>4. Honest(c)
  BY ReconciledHonest DEF RunInv, SourceInv
<1> HIDE DEF c
<1>5. Layout(c) = Layout(retained)
  BY <1>3 DEF Layout
<1>6. /\ \A f \in Layout(c) : f \in Owned
      /\ \A f \in Owned : f \in Files /\ kept[f] = c.kept[f]
  <2>1. c.segmented => c.version \in 1..Versions /\ c.size = SizeOf[c.version]
    BY <1>4 DEF Honest
  <2>2. \A f \in Layout(c) : f \in Owned
    BY <2>1, PieceEnds DEF Layout, RunInv, TypeOK, Owned
  <2>3. ASSUME NEW f \in Owned PROVE f \in Files /\ kept[f] = c.kept[f]
    <3>1. f \in Layout(c) \/ c.kept[f] = <<>>
      BY <1>3, <1>5 DEF RunInv, Laid
    <3>2. f \in Files
      BY DEF Files
    <3> QED  BY <3>1, <3>2 DEF Left
  <2> QED  BY <2>2, <2>3
<1>7. kept \in [Files -> Content] /\ Len(kept[Assembling]) \in Nat
  <2>1. ASSUME NEW f \in Files PROVE kept[f] \in Content
    <3>1. <<>> \in Content
      BY DEF Content
    <3> QED  BY <1>3, <1>6, <3>1 DEF Left
  <2>2. Assembling \in Files
    BY DEF Files
  <2> HIDE DEF kept
  <2>3. kept[Assembling] \in Content
    BY <2>1, <2>2
  <2>4. kept = [f \in Files |-> kept[f]]
    BY DEF kept
  <2> QED  BY <2>1, <2>3, <2>4, ContentFacts
<1> HIDE DEF kept
<1>8. synced' \in [Files -> Nat] /\ \A f \in Files : synced'[f] <= Len(disk'[f]) /\ synced'[f] = Len(kept[f])
  <2>1. \A f \in Files : Len(kept[f]) \in Nat
    BY <1>7, ContentFacts
  <2> QED  BY <1>1, <2>1
<1>9. Laid(c)
  BY <1>3, <1>5 DEF RunInv, Laid
<1>10. CheckpointIsDurable'
  <2>1. \A f \in Owned : Len(c.kept[f]) <= synced'[f] /\ IsPrefix(c.kept[f], disk'[f])
    BY <1>1, <1>3, <1>6, <1>8, ContentFacts
  <2> QED  BY <1>1, <1>3, <2>1 DEF CheckpointIsDurable
<1>11. writer' \in [Owned -> Writer] /\ pc' \in {"fetch", "off"}
  <2>1. CASE UNCHANGED writer
    BY <1>2, <2>1 DEF RunInv, TypeOK
  <2>2. CASE writer' = [f \in Owned |->
              IF f \notin Layout(c) THEN NoWriter
              ELSE [st |-> IF c.kept[f] # <<>> /\ Len(c.kept[f]) = PieceLength(f, c.size)
                           THEN "done" ELSE "ask",
                    from |-> 0, data |-> c.kept[f]]]
    <3>1. ASSUME NEW f \in Owned PROVE writer'[f] \in Writer
      <4>1. NoWriter \in Writer
        BY UnknownType
      <4>2. 0 \in 0..Versions
        BY HttpConstants
      <4> QED  BY <1>3, <2>2, <4>1, <4>2 DEF Writer
    <3>2. writer' = [f \in Owned |-> writer'[f]]
      BY <2>2
    <3> QED  BY <1>2, <3>1, <3>2
  <2> QED  BY <1>2, <2>1, <2>2
<1>12. TypeOK'
  BY <1>1, <1>3, <1>7, <1>8, <1>11 DEF RunInv, TypeOK
<1>13. Claimed'
  BY <1>1, <1>3, <1>11 DEF Claimed
<1>14. ASSUME NEW f \in Owned, f \in Layout(c), c.kept[f] # <<>>, Len(c.kept[f]) = PieceLength(f, c.size)
       PROVE  Finished(c.kept[f], f, c)
  <2>1. c.version # 0
    BY <1>1, <1>3, <1>14 DEF RunInv, Stage
  <2>2. c.version \in 1..Versions /\ Len(c.kept[f]) \in Nat /\ Len(c.kept[f]) # 0
    BY <1>3, <1>14, <2>1, ContentFacts, HttpConstants DEF Checkpoint
  <2>3. c.kept[f] = Prefix(c.version, f, Len(c.kept[f]))
    BY <1>4, <2>1, RunsArePrefixes DEF Honest
  <2>4. c.size = SizeOf[c.version]
    <3>1. CASE c.segmented
      BY <1>4, <3>1 DEF Honest
    <3>2. CASE ~c.segmented
      <4>1. f = Target
        BY <1>14, <3>2 DEF Layout
      <4>2. c.size \in Nat
        BY <1>3 DEF Checkpoint
      <4>3. PieceLength(f, c.size) = c.size
        BY <4>1, <4>2 DEF PieceLength, Offset
      <4> QED  BY <1>9, <1>14, <2>1, <2>2, <4>3 DEF Laid
    <3> QED  BY <3>1, <3>2
  <2> QED  BY <1>14, <2>2, <2>3, <2>4 DEF Finished
<1>15. Stage(pc', disk', retained', writer', failure')
  <2>1. CASE pc' = "off"
    BY <2>1 DEF Stage
  <2>2. CASE pc' = "fetch"
    <3>1. ASSUME NEW f \in Owned PROVE Follows(writer'[f], f, disk', c, failure')
      <4>1. disk'[f] = c.kept[f]
        BY <1>1, <1>6
      <4>2. CASE f \notin Layout(c)
        <5>1. writer'[f] = [st |-> "none", from |-> 0, data |-> <<>>]
          BY <1>2, <2>2, <4>2 DEF NoWriter
        <5> QED  BY <4>2, <5>1 DEF Follows
      <4>3. CASE f \in Layout(c)
        <5>1. writer'[f] = [st |-> IF c.kept[f] # <<>> /\ Len(c.kept[f]) = PieceLength(f, c.size)
                                   THEN "done" ELSE "ask",
                            from |-> 0, data |-> c.kept[f]]
          BY <1>2, <2>2, <4>3
        <5>2. CASE c.kept[f] # <<>> /\ Len(c.kept[f]) = PieceLength(f, c.size)
          BY <1>14, <4>1, <4>3, <5>1, <5>2 DEF Follows
        <5>3. CASE ~(c.kept[f] # <<>> /\ Len(c.kept[f]) = PieceLength(f, c.size))
          BY <4>1, <4>3, <5>1, <5>3 DEF Follows
        <5> QED  BY <5>2, <5>3
      <4> QED  BY <4>2, <4>3
    <3> QED  BY <1>1, <2>2, <3>1 DEF Stage
  <2> QED  BY <1>11, <2>1, <2>2
<1>16. CompletedIsWhole(c)
  BY <1>3 DEF CompletedIsWhole
<1> QED  BY <1>1, <1>9, <1>10, <1>12, <1>13, <1>15, <1>16 DEF Advances

\* mergeSegmentParts has the pieces of one version, and makes that version of them.
LEMMA MergeAdvances ==
  ASSUME RunInv, Merge
  PROVE  Advances
<1> DEFINE v == retained.version
           parts == [f \in Layout(retained) |-> disk[f]]
           merged == FlattenSeq(parts)
<1>1. /\ pc = "merge" /\ synced' = [synced EXCEPT ![Assembling] = 0]
      /\ UNCHANGED <<options, origin, saved, aborted>>
      /\ \/ disk' = [disk EXCEPT ![Assembling] = merged] /\ pc' = "rename" /\ UNCHANGED run
         \/ /\ \E n \in 0..Len(merged) : disk' = [disk EXCEPT ![Assembling] = SubSeq(merged, 1, n)]
            /\ Recover("retry")
  BY Zenon DEF Merge
<1>2. /\ retained.segmented /\ v \in 1..Versions /\ retained.size = SizeOf[v] /\ v # 0
      /\ options \in Options /\ saved = retained /\ saved.completed = <<>>
  BY <1>1, HttpConstants DEF RunInv, Stage, SourceInv, Honest, Claimed
<1>3. Layout(retained) = 1..SegmentCount(SizeOf[v])
  BY <1>2 DEF Layout
<1>4. \A f \in 1..SegmentCount(SizeOf[v]) : disk[f] = Prefix(v, f, PieceLength(f, SizeOf[v]))
  <2> TAKE f \in 1..SegmentCount(SizeOf[v])
  <2>1. Finished(disk[f], f, retained)
    BY <1>1, <1>3 DEF RunInv, Stage
  <2> QED  BY <1>2, <2>1 DEF Finished
<1>5. parts = [f \in 1..SegmentCount(SizeOf[v]) |-> Prefix(v, f, PieceLength(f, SizeOf[v]))]
  BY <1>3, <1>4
<1> HIDE DEF parts
<1>6. merged = Whole(v)
  BY <1>2, <1>5, MergedIsWhole
<1>7. merged \in Content
  <2>1. SizeOf[v] \in Nat /\ Target \in Owned
    BY <1>2, HttpConstants DEF Owned
  <2> QED  BY <1>2, <1>6, <2>1, PrefixType DEF Whole
<1> HIDE DEF merged, v
<1>8. Assembling \in Files /\ Assembling \notin Owned /\ Owned \subseteq Files
  <2>1. MaxThreads + 1 \notin 1..MaxThreads /\ MaxThreads + 1 # 0
    BY HttpConstants
  <2> QED  BY <2>1 DEF Assembling, Owned, Parts, Target, Files
<1>9. ASSUME NEW blocks \in Content, disk' = [disk EXCEPT ![Assembling] = blocks]
      PROVE  /\ disk' \in [Files -> Content] /\ synced' \in [Files -> Nat]
             /\ \A f \in Files : synced'[f] <= Len(disk'[f])
             /\ \A f \in Owned : disk'[f] = disk[f] /\ synced'[f] = synced[f]
             /\ disk'[Assembling] = blocks
  <2>1. Len(blocks) \in Nat
    BY ContentFacts
  <2> QED  BY <1>1, <1>8, <1>9, <2>1 DEF RunInv, TypeOK
<1>10. CASE disk' = [disk EXCEPT ![Assembling] = merged] /\ pc' = "rename" /\ UNCHANGED run
  <2>1. UNCHANGED <<metadata, retained, writer, failure, fallback, retries>>
    BY <1>10 DEF run
  <2>2. TypeOK'
    BY <1>1, <1>7, <1>9, <1>10, <2>1 DEF RunInv, TypeOK
  <2>3. Finished(disk'[Assembling], Target, retained)
    <3>1. PieceLength(Target, SizeOf[v]) = SizeOf[v]
      BY <1>2, HttpConstants DEF PieceLength, Offset
    <3> QED  BY <1>2, <1>6, <1>7, <1>9, <1>10, <3>1 DEF Finished, Whole, v
  <2>4. Stage(pc', disk', retained', writer', failure')
    BY <1>2, <1>10, <2>1, <2>3 DEF Stage
  <2>5. Claimed'
    BY <1>1, <1>10, <2>1 DEF RunInv, Claimed
  <2>6. CheckpointIsDurable'
    BY <1>1, <1>2, <1>7, <1>9, <1>10 DEF RunInv, CheckpointIsDurable
  <2> QED  BY <1>1, <2>1, <2>2, <2>4, <2>5, <2>6 DEF RunInv, Advances
<1>11. ASSUME NEW n \in 0..Len(merged), disk' = [disk EXCEPT ![Assembling] = SubSeq(merged, 1, n)],
              Recover("retry")
       PROVE  Advances
  <2>1. SubSeq(merged, 1, n) \in Content
    BY <1>7, ContentFacts
  <2>2. /\ disk' \in [Files -> Content] /\ synced' \in [Files -> Nat]
        /\ \A f \in Files : synced'[f] <= Len(disk'[f])
        /\ \A f \in Owned : disk'[f] = disk[f] /\ synced'[f] = synced[f]
    BY <1>9, <1>11, <2>1
  <2>3. /\ UNCHANGED <<metadata, retained, writer, failure, fallback>> /\ pc' \in {"wait", "off"}
        /\ retries' \in 0..MaxRetries
    BY <1>11, HttpConstants DEF Recover, run, RunInv, TypeOK
  <2>4. TypeOK'
    BY <1>1, <2>2, <2>3 DEF RunInv, TypeOK
  <2>5. Claimed' /\ Stage(pc', disk', retained', writer', failure')
    BY <1>1, <1>2, <2>3 DEF Claimed, Stage
  <2>6. CheckpointIsDurable'
    BY <1>1, <1>2, <2>2, <2>3 DEF RunInv, CheckpointIsDurable
  <2> QED  BY <1>1, <2>3, <2>4, <2>5, <2>6 DEF RunInv, Advances
<1> QED  BY <1>1, <1>10, <1>11

\* The merged file takes the place of the source.
LEMMA RenameAdvances ==
  ASSUME RunInv, Rename
  PROVE  Advances
<1>1. pc = "rename" /\ UNCHANGED <<options, origin, saved, metadata, retained, writer, failure, fallback, retries, aborted>>
  BY DEF Rename, run
<1>2. CASE pc' = "off" /\ UNCHANGED files
  <2>1. UNCHANGED <<disk, synced>>
    BY <1>2 DEF files
  <2>2. TypeOK'
    BY <1>1, <1>2, <2>1 DEF RunInv, TypeOK
  <2> QED  BY <1>1, <1>2, <2>1, <2>2, QuietAdvances
<1>3. CASE /\ disk' = [disk EXCEPT ![Target] = disk[Assembling], ![Assembling] = <<>>]
           /\ synced' = [synced EXCEPT ![Target] = synced[Assembling], ![Assembling] = 0]
           /\ pc' = "verify"
  <2>1. /\ Assembling \in Files /\ Target \in Files /\ Target \in Owned /\ Target # Assembling
        /\ Assembling \notin Owned /\ Owned \subseteq Files
    <3>1. MaxThreads + 1 \notin 1..MaxThreads /\ MaxThreads + 1 # 0
      BY HttpConstants
    <3> QED  BY <3>1 DEF Assembling, Owned, Parts, Target, Files
  <2>2. /\ retained.segmented /\ saved = retained /\ saved.completed = <<>>
        /\ Finished(disk[Assembling], Target, retained)
        /\ \A f \in Owned : Len(saved.kept[f]) <= synced[f] /\ IsPrefix(saved.kept[f], disk[f])
    BY <1>1 DEF RunInv, Stage, Claimed, CheckpointIsDurable
  <2>3. /\ disk' \in [Files -> Content] /\ synced' \in [Files -> Nat]
        /\ \A f \in Files : synced'[f] <= Len(disk'[f])
        /\ disk'[Target] = disk[Assembling]
        /\ \A f \in Owned \ {Target} : disk'[f] = disk[f] /\ synced'[f] = synced[f]
    <3>1. <<>> \in Content /\ Len(<<>>) = 0
      BY DEF Content
    <3>2. /\ disk \in [Files -> Content] /\ synced \in [Files -> Nat]
          /\ \A f \in Files : synced[f] <= Len(disk[f])
      BY DEF RunInv, TypeOK
    <3>3. /\ disk' \in [Files -> Content] /\ synced' \in [Files -> Nat]
          /\ disk'[Target] = disk[Assembling] /\ synced'[Target] = synced[Assembling]
          /\ disk'[Assembling] = <<>> /\ synced'[Assembling] = 0
          /\ \A f \in Files \ {Target, Assembling} : disk'[f] = disk[f] /\ synced'[f] = synced[f]
      BY <1>3, <2>1, <3>1, <3>2
    <3>4. ASSUME NEW f \in Files PROVE synced'[f] <= Len(disk'[f])
      <4>1. CASE f = Target
        BY <2>1, <3>2, <3>3, <4>1
      <4>2. CASE f = Assembling
        BY <3>1, <3>3, <4>2
      <4>3. CASE f \notin {Target, Assembling}
        BY <3>2, <3>3, <4>3
      <4> QED  BY <4>1, <4>2, <4>3
    <3>5. \A f \in Owned \ {Target} : f \in Files \ {Target, Assembling}
      BY <2>1
    <3> QED  BY <3>3, <3>4, <3>5
  <2>4. saved.kept[Target] = <<>>
    <3>1. retained.version \in 1..Versions /\ retained.size = SizeOf[retained.version]
      BY <2>2 DEF RunInv, SourceInv, Honest
    <3>2. Target \notin Layout(retained)
      BY <2>2, <3>1, HttpConstants DEF Layout, SegmentCount, Target
    <3> QED  BY <2>1, <2>2, <3>2 DEF RunInv, Laid
  <2>5. \A f \in Owned : Len(saved.kept[f]) <= synced'[f] /\ IsPrefix(saved.kept[f], disk'[f])
    <3>1. Len(<<>>) = 0 /\ synced'[Target] \in Nat /\ disk'[Target] \in Content
      BY <2>1, <2>3
    <3>2. IsPrefix(<<>>, disk'[Target])
      BY <3>1, ContentFacts
    <3> QED  BY <2>2, <2>3, <2>4, <3>1, <3>2
  <2>6. CheckpointIsDurable'
    BY <1>1, <2>2, <2>5 DEF CheckpointIsDurable
  <2>7. Stage(pc', disk', retained', writer', failure') /\ Claimed'
    BY <1>1, <1>3, <2>2, <2>3 DEF Stage, RunInv, Claimed
  <2>8. TypeOK'
    BY <1>1, <1>3, <2>3 DEF RunInv, TypeOK
  <2> QED  BY <1>1, <2>6, <2>7, <2>8 DEF RunInv, Advances
<1> QED  BY <1>2, <1>3 DEF Rename

\* A finished source is a version, and not empty.
LEMMA FinishedIsWhole ==
  ASSUME options \in Options, NEW blocks, NEW c, Finished(blocks, Target, c)
  PROVE  \E v \in 1..Versions : /\ c.version \in {0, v} /\ blocks = Whole(v) /\ blocks # <<>>
                                /\ blocks \in Content /\ Len(blocks) = SizeOf[v]
<1>1. PICK v \in 1..Versions : c.version \in {0, v} /\ blocks = Prefix(v, Target, PieceLength(Target, SizeOf[v]))
  BY DEF Finished
<1>2. SizeOf[v] \in Nat /\ SizeOf[v] # 0 /\ Target \in Owned
  BY HttpConstants DEF Owned
<1>3. PieceLength(Target, SizeOf[v]) = SizeOf[v]
  BY <1>2 DEF PieceLength, Offset
<1>4. blocks = Whole(v) /\ blocks \in Content /\ Len(blocks) = SizeOf[v]
  BY <1>1, <1>2, <1>3, PrefixType DEF Whole
<1>5. blocks # <<>>
  BY <1>2, <1>4, ContentFacts
<1> QED  BY <1>1, <1>4, <1>5

\* verifyHttpSource.
LEMMA VerifyAdvances ==
  ASSUME RunInv, Verify
  PROVE  Advances
<1>1. /\ pc = "verify" /\ pc' = "cleanup" /\ saved' = retained'
      /\ synced' = [synced EXCEPT ![Target] = Len(disk[Target])]
      /\ retained' = [retained EXCEPT !.completed = disk[Target],
                                      !.size = IF @ = 0 THEN Len(disk[Target]) ELSE @]
      /\ UNCHANGED <<options, origin, disk, metadata, writer, failure, fallback, retries, aborted>>
  BY DEF Verify
<1>2. retained \in Checkpoint /\ options \in Options
  BY DEF RunInv, TypeOK
<1>3. PICK v \in 1..Versions : /\ retained.version \in {0, v} /\ disk[Target] = Whole(v)
                               /\ disk[Target] # <<>> /\ disk[Target] \in Content /\ Len(disk[Target]) = SizeOf[v]
  <2>1. Finished(disk[Target], Target, retained)
    BY <1>1 DEF RunInv, Stage
  <2> QED  BY <1>2, <2>1, FinishedIsWhole
<1>4. PICK size \in Nat : size = IF retained.size = 0 THEN SizeOf[v] ELSE retained.size
  <2>1. SizeOf[v] \in Nat
    BY HttpConstants
  <2> QED  BY <1>2, <2>1 DEF Checkpoint
<1>5. /\ retained' \in Checkpoint /\ retained'.version = retained.version /\ retained'.kept = retained.kept
      /\ retained'.segmented = retained.segmented /\ retained'.size = size
      /\ retained'.completed = disk[Target]
  BY <1>1, <1>2, <1>3, <1>4 DEF Checkpoint
<1>6. Layout(retained') = Layout(retained)
  <2>1. retained.segmented => retained.size # 0
    BY HttpConstants DEF RunInv, SourceInv, Honest
  <2> QED  BY <1>4, <1>5, <2>1 DEF Layout
<1>7. Laid(retained')
  <2>1. retained.version # 0 => retained.version = v /\ retained.size \in {0, SizeOf[v]}
    BY <1>3 DEF RunInv, Laid
  <2> QED  BY <1>4, <1>5, <1>6, <2>1 DEF RunInv, Laid
<1>8. CompletedIsWhole(retained')
  BY <1>3, <1>5 DEF CompletedIsWhole
<1>9. /\ synced' \in [Files -> Nat] /\ synced'[Target] = Len(disk[Target])
      /\ \A f \in Files : synced'[f] <= Len(disk[f])
  <2>1. Len(disk[Target]) \in Nat /\ Target \in Files
    BY <1>3, ContentFacts DEF Files, Owned
  <2> QED  BY <1>1, <2>1 DEF RunInv, TypeOK
<1>10. TypeOK' /\ Claimed' /\ Stage(pc', disk', retained', writer', failure') /\ CheckpointIsDurable'
  <2>1. TypeOK'
    BY <1>1, <1>5, <1>9 DEF RunInv, TypeOK
  <2>2. Claimed' /\ Stage(pc', disk', retained', writer', failure')
    BY <1>1, <1>3, <1>5 DEF Claimed, Stage
  <2>3. CheckpointIsDurable'
    BY <1>1, <1>3, <1>5, <1>9 DEF CheckpointIsDurable
  <2> QED  BY <2>1, <2>2, <2>3
<1> QED  BY <1>1, <1>7, <1>8, <1>10 DEF Advances

\* The parts go when the source is verified.
LEMMA CleanupAdvances ==
  ASSUME RunInv, Cleanup
  PROVE  Advances
<1>1. /\ pc = "cleanup" /\ pc' \in {"cleanup", "complete"}
      /\ UNCHANGED <<options, origin, saved, metadata, retained, writer, failure, fallback, retries, aborted>>
  BY DEF Cleanup, run
<1>2. saved.completed # <<>> /\ saved.completed = disk[Target] /\ synced[Target] = Len(disk[Target])
  BY <1>1 DEF RunInv, Claimed, CheckpointIsDurable
<1>3. /\ disk' \in [Files -> Content] /\ synced' \in [Files -> Nat] /\ \A f \in Files : synced'[f] <= Len(disk'[f])
      /\ disk'[Target] = disk[Target] /\ synced'[Target] = synced[Target]
  <2>1. /\ disk \in [Files -> Content] /\ synced \in [Files -> Nat]
        /\ \A f \in Files : synced[f] <= Len(disk[f])
    BY DEF RunInv, TypeOK
  <2>2. CASE UNCHANGED files
    BY <2>1, <2>2 DEF files
  <2>3. ASSUME NEW f \in Parts, disk' = [disk EXCEPT ![f] = <<>>], synced' = [synced EXCEPT ![f] = 0]
        PROVE  /\ disk' \in [Files -> Content] /\ synced' \in [Files -> Nat]
               /\ \A g \in Files : synced'[g] <= Len(disk'[g])
               /\ disk'[Target] = disk[Target] /\ synced'[Target] = synced[Target]
    <3>1. <<>> \in Content /\ Len(<<>>) = 0
      BY DEF Content
    <3>2. f # Target /\ Target \in Files
      BY HttpConstants DEF Parts, Target, Files, Owned
    <3>3. disk' \in [Files -> Content] /\ synced' \in [Files -> Nat]
      BY <2>1, <2>3, <3>1
    <3>4. ASSUME NEW g \in Files PROVE synced'[g] <= Len(disk'[g])
      <4>1. CASE g = f
        BY <2>1, <2>3, <3>1, <4>1
      <4>2. CASE g # f
        BY <2>1, <2>3, <4>2
      <4> QED  BY <4>1, <4>2
    <3>5. disk'[Target] = disk[Target] /\ synced'[Target] = synced[Target]
      BY <2>1, <2>3, <3>2
    <3> QED  BY <3>3, <3>4, <3>5
  <2> QED  BY <1>1, <2>2, <2>3 DEF Cleanup
<1>4. TypeOK'
  BY <1>1, <1>3 DEF RunInv, TypeOK
<1>5. Claimed' /\ CheckpointIsDurable' /\ Stage(pc', disk', retained', writer', failure')
  BY <1>1, <1>2, <1>3 DEF RunInv, Claimed, CheckpointIsDurable, Stage
<1> QED  BY <1>1, <1>4, <1>5 DEF RunInv, Advances

\* A crash leaves of each file a prefix.
LEMMA CrashAdvances ==
  ASSUME RunInv, Crash
  PROVE  Advances
<1> DEFINE longest == Max({Len(disk[f]) : f \in Files})
<1>1. PICK n \in [Files -> 0..longest] :
        /\ \A f \in Files : synced[f] <= n[f] /\ n[f] <= Len(disk[f])
        /\ disk' = [f \in Files |-> SubSeq(disk[f], 1, n[f])] /\ synced' = n
  BY DEF Crash
<1>2. longest \in Nat
  BY LongestFile DEF RunInv
<1> HIDE DEF longest
<1>3. \A f \in Files : n[f] \in Nat /\ n[f] \in 0..Len(disk[f]) /\ disk[f] \in Content
  <2> TAKE f \in Files
  <2>1. n[f] \in Nat /\ n[f] <= Len(disk[f]) /\ disk[f] \in Content
    BY <1>1, <1>2 DEF RunInv, TypeOK
  <2>2. Len(disk[f]) \in Nat
    BY <2>1, ContentFacts
  <2> QED  BY <2>1, <2>2
<1>4. \A f \in Files : SubSeq(disk[f], 1, n[f]) \in Content /\ Len(SubSeq(disk[f], 1, n[f])) = n[f]
  BY <1>3, ContentFacts
<1>5. disk' \in [Files -> Content] /\ synced' \in [Files -> Nat] /\ \A f \in Files : synced'[f] <= Len(disk'[f])
  BY <1>1, <1>3, <1>4
<1>6. /\ pc' = "down" /\ metadata' = Unknown /\ retained' = Fresh(Unknown, FALSE)
      /\ writer' = [f \in Owned |-> NoWriter] /\ failure' = "" /\ fallback' = FALSE /\ retries' = 0
      /\ aborted' = FALSE /\ UNCHANGED <<options, origin, saved>>
  BY DEF Crash
<1>7. TypeOK'
  <2>1. 0 \in 0..MaxRetries /\ "" \in Codes
    BY HttpConstants DEF Codes
  <2>2. options' \in Options /\ origin' \in 1..Versions /\ saved' \in Checkpoint
    BY <1>6 DEF RunInv, TypeOK
  <2> QED  BY <1>5, <1>6, <2>1, <2>2, UnknownType DEF TypeOK
<1>8. Laid(retained')
  BY <1>6 DEF Laid, Fresh, Unknown
<1>9. Claimed' /\ CheckpointIsDurable' /\ Stage(pc', disk', retained', writer', failure')
  BY <1>6 DEF Claimed, CheckpointIsDurable, Stage
<1> QED  BY <1>6, <1>7, <1>8, <1>9 DEF RunInv, Advances

\* A start finds a verified source, or cuts the files to the checkpoint.
LEMMA RestoreAdvances ==
  ASSUME RunInv, Restore
  PROVE  Advances
<1> DEFINE found == saved.completed # <<>> /\ disk[Target] = saved.completed
           c == Reconciled(saved)
           kept == [f \in Files |-> IF f = Assembling THEN <<>>
                                    ELSE IF found \/ f \notin Layout(c) THEN disk[f] ELSE Left(c, f)]
<1>1. /\ pc' = "off" /\ saved' = IF found THEN saved ELSE [c EXCEPT !.completed = <<>>]
      /\ disk' = kept /\ synced' = [f \in Files |-> Len(disk'[f])]
      /\ UNCHANGED <<options, origin, metadata, retained, writer, failure, fallback, retries, aborted>>
  BY DEF Restore, run
<1>2. /\ c \in Checkpoint /\ c.version = saved.version /\ c.size = saved.size
      /\ c.segmented = saved.segmented
      /\ \A f \in Owned : c.kept[f] \in {saved.kept[f], <<>>} /\ c.kept[f] \in Content
  <2>1. saved \in Checkpoint
    BY DEF RunInv, TypeOK
  <2>2. /\ c \in Checkpoint /\ c.version = saved.version /\ c.size = saved.size
        /\ c.segmented = saved.segmented
        /\ \A f \in Owned : c.kept[f] \in {saved.kept[f], <<>>}
    BY <2>1, ReconciledType
  <2> HIDE DEF c
  <2> QED  BY <2>2 DEF Checkpoint
<1>3. Honest(c)
  BY ReconciledHonest DEF RunInv, SourceInv
<1> HIDE DEF c
<1>4. Layout(c) = Layout(saved)
  BY <1>2 DEF Layout
<1>5. \A f \in Layout(c) : f \in Owned
  <2>1. c.segmented => c.version \in 1..Versions /\ c.size = SizeOf[c.version]
    BY <1>3 DEF Honest
  <2> QED  BY <2>1, PieceEnds DEF Layout, RunInv, TypeOK, Owned
<1>6. kept \in [Files -> Content]
  <2>1. ASSUME NEW f \in Files PROVE kept[f] \in Content
    <3>1. <<>> \in Content /\ disk[f] \in Content
      BY DEF Content, RunInv, TypeOK
    <3> QED  BY <1>2, <1>5, <3>1 DEF Left
  <2>2. kept = [f \in Files |-> kept[f]]
    OBVIOUS
  <2> HIDE DEF kept
  <2> QED  BY <2>1, <2>2
<1>7. /\ synced' \in [Files -> Nat] /\ disk' \in [Files -> Content]
      /\ \A f \in Files : synced'[f] = Len(disk'[f]) /\ Len(disk'[f]) \in Nat
  <2>1. \A f \in Files : Len(kept[f]) \in Nat
    BY <1>6, ContentFacts
  <2> HIDE DEF kept
  <2> QED  BY <1>1, <1>6, <2>1
<1>8. Target \in Owned /\ Target # Assembling /\ Assembling \notin Owned /\ Owned \subseteq Files
  <2>1. MaxThreads + 1 \notin 1..MaxThreads /\ MaxThreads + 1 # 0
    BY HttpConstants
  <2> QED  BY <2>1 DEF Assembling, Owned, Parts, Target, Files
<1>9. saved' \in Checkpoint /\ Laid(saved') /\ CompletedIsWhole(saved')
  <2>1. CASE found
    BY <1>1, <2>1 DEF RunInv, TypeOK
  <2>2. CASE ~found
    <3>1. saved' = [c EXCEPT !.completed = <<>>]
      BY <1>1, <2>2
    <3>2. /\ saved' \in Checkpoint /\ saved'.version = c.version /\ saved'.size = c.size
          /\ saved'.segmented = c.segmented /\ saved'.kept = c.kept /\ saved'.completed = <<>>
      <4>1. <<>> \in Content
        BY DEF Content
      <4> HIDE DEF found, kept
      <4> QED  BY <1>2, <3>1, <4>1 DEF Checkpoint
    <3>3. Layout(saved') = Layout(saved)
      BY <1>4, <3>2 DEF Layout
    <3>4. Laid(saved')
      BY <1>2, <3>2, <3>3 DEF RunInv, Laid
    <3>5. CompletedIsWhole(saved')
      BY <3>2 DEF CompletedIsWhole
    <3> QED  BY <3>2, <3>4, <3>5
  <2> QED  BY <2>1, <2>2
<1>10. CheckpointIsDurable'
  <2>1. CASE found
    <3>1. disk'[Target] = disk[Target]
      BY <1>1, <1>8, <2>1
    <3> QED  BY <1>1, <1>7, <1>8, <2>1, <3>1 DEF CheckpointIsDurable
  <2>2. CASE ~found
    <3>1. saved'.completed = <<>> /\ saved'.kept = c.kept
      BY <1>1, <1>2, <2>2 DEF Checkpoint
    <3>2. ASSUME NEW f \in Owned
          PROVE  Len(c.kept[f]) <= synced'[f] /\ IsPrefix(c.kept[f], disk'[f])
      <4>1. f \in Files /\ f # Assembling
        BY <1>8
      <4>2. CASE f \in Layout(c)
        <5>1. disk'[f] = c.kept[f]
          BY <1>1, <2>2, <4>1, <4>2 DEF Left
        <5> QED  BY <1>2, <1>7, <4>1, <5>1, ContentFacts
      <4>3. CASE f \notin Layout(c)
        <5>1. c.kept[f] = <<>>
          BY <1>2, <1>4, <4>3 DEF RunInv, Laid
        <5>2. disk'[f] \in Content /\ synced'[f] \in Nat /\ Len(<<>>) = 0
          BY <1>7, <4>1
        <5>3. IsPrefix(<<>>, disk'[f])
          BY <5>2, ContentFacts
        <5> QED  BY <5>1, <5>2, <5>3
      <4> QED  BY <4>2, <4>3
    <3> HIDE DEF found, kept
    <3> QED  BY <3>1, <3>2 DEF CheckpointIsDurable
  <2> QED  BY <2>1, <2>2
<1> HIDE DEF found, kept
<1>11. TypeOK'
  <2>1. \A f \in Files : synced'[f] <= Len(disk'[f])
    BY <1>7
  <2> QED  BY <1>1, <1>7, <1>9, <2>1 DEF RunInv, TypeOK
<1>12. Claimed' /\ Stage(pc', disk', retained', writer', failure')
  BY <1>1 DEF Claimed, Stage
<1> QED  BY <1>1, <1>9, <1>10, <1>11, <1>12 DEF RunInv, Advances

\* The steps that only move the run.
LEMMA MoveAdvances ==
  ASSUME RunInv, Start \/ Wait \/ EndAborted \/ Abort \/ OriginChanges \/ UNCHANGED vars
  PROVE  Advances
<1>1. UNCHANGED <<options, disk, synced, saved, metadata, retained, writer, failure>>
  BY DEF Start, Wait, EndAborted, Abort, OriginChanges, vars, run, files
<1>2. /\ origin' \in 1..Versions /\ aborted' \in BOOLEAN /\ fallback' \in BOOLEAN
      /\ retries' \in 0..MaxRetries
  <2>1. 0 \in 0..MaxRetries
    BY HttpConstants
  <2>2. origin \in 1..Versions /\ aborted \in BOOLEAN /\ fallback \in BOOLEAN /\ retries \in 0..MaxRetries
    BY DEF RunInv, TypeOK
  <2>3. /\ origin' = origin \/ (origin < Versions /\ origin' = origin + 1)
        /\ aborted' = aborted \/ aborted' = FALSE \/ aborted' = TRUE
        /\ fallback' = fallback \/ fallback' = FALSE
        /\ retries' = retries \/ retries' = 0
    BY DEF Start, Wait, EndAborted, Abort, OriginChanges, vars, run
  <2>4. origin' \in 1..Versions
    BY <2>2, <2>3, HttpConstants
  <2>5. retries' \in 0..MaxRetries
    BY <2>1, <2>2, <2>3
  <2>6. aborted' \in BOOLEAN /\ fallback' \in BOOLEAN
    BY <2>2, <2>3
  <2> QED  BY <2>4, <2>5, <2>6
<1>3. \/ pc' = pc
      \/ pc \in {"off", "complete", "reuse"} /\ pc' = "reuse"
      \/ pc \in {"wait", "probe"} /\ pc' = "off"
      \/ pc = "wait" /\ pc' = "probe"
  BY DEF Start, Wait, EndAborted, Abort, OriginChanges, vars
<1>4. TypeOK'
  BY <1>1, <1>2, <1>3 DEF RunInv, TypeOK
<1> QED  BY <1>1, <1>3, <1>4, QuietAdvances

\* reuseVerifiedSource.
LEMMA ReuseAdvances ==
  ASSUME RunInv, Reuse
  PROVE  Advances
<1>1. pc = "reuse" /\ UNCHANGED <<options, origin, disk, synced, metadata, retained, writer, failure, fallback, retries, aborted>>
  BY DEF Reuse, run, files
<1>2. CASE UNCHANGED saved
  <2>1. \/ pc' = "complete" /\ saved.completed # <<>>
        \/ pc' = "probe" /\ saved.completed = <<>>
    <3>1. saved.completed # <<>> => disk[Target] = saved.completed
      BY <1>1 DEF RunInv, CheckpointIsDurable
    <3> QED  BY <3>1 DEF Reuse
  <2>2. TypeOK'
    BY <1>1, <1>2, <2>1 DEF RunInv, TypeOK
  <2> QED  BY <1>1, <1>2, <2>1, <2>2, QuietAdvances
<1>3. CASE pc' = "probe" /\ saved' = Fresh(Unknown, FALSE)
  <2>1. /\ saved' \in Checkpoint /\ saved'.completed = <<>> /\ Laid(saved')
        /\ \A f \in Owned : saved'.kept[f] = <<>>
    BY <1>3, UnknownType DEF Fresh, Laid, Unknown
  <2>2. \A f \in Owned : Len(saved'.kept[f]) <= synced'[f] /\ IsPrefix(saved'.kept[f], disk'[f])
    <3>1. \A f \in Owned : disk[f] \in Content /\ synced[f] \in Nat /\ Len(<<>>) = 0
      BY DEF RunInv, TypeOK, Files
    <3> QED  BY <1>1, <2>1, <3>1, ContentFacts
  <2>3. CheckpointIsDurable' /\ CompletedIsWhole(saved')
    BY <2>1, <2>2 DEF CheckpointIsDurable, CompletedIsWhole
  <2>4. TypeOK'
    BY <1>1, <1>3, <2>1 DEF RunInv, TypeOK
  <2>5. Claimed' /\ Stage(pc', disk', retained', writer', failure')
    BY <1>3, <2>1 DEF Claimed, Stage
  <2> QED  BY <1>1, <2>1, <2>3, <2>4, <2>5 DEF RunInv, Advances
<1> QED  BY <1>1, <1>2, <1>3 DEF Reuse, RunInv, CheckpointIsDurable
-----------------------------------------------------------------------------
(* Every step of a run *)

\* The options do not change, so a piece keeps its place.
LEMMA RunInvNext ==
  ASSUME RunInv, SourceInv', options' = options, Advances
  PROVE  RunInv'
<1>1. Laid(saved)' /\ Laid(retained)'
  BY DEF Advances, Laid, Layout, SegmentCount
<1>2. CompletedIsWhole(saved)'
  BY DEF Advances, CompletedIsWhole, Whole, Prefix, Offset, SegmentCount
<1>3. ASSUME NEW f, Finished(disk'[f], f, retained')
      PROVE  Finished(disk[f], f, retained)'
  BY <1>3 DEF Finished, Prefix, PieceLength, Offset, SegmentCount
<1>4. ASSUME Finished(disk'[Assembling], Target, retained')
      PROVE  Finished(disk[Assembling], Target, retained)'
  BY <1>4 DEF Finished, Prefix, PieceLength, Offset, SegmentCount
<1>5. ASSUME NEW f, Follows(writer'[f], f, disk', retained', failure')
      PROVE  Follows(writer[f], f, disk, retained, failure)'
  <2>1. ASSUME Finished(writer'[f].data, f, retained')
        PROVE  Finished(writer[f].data, f, retained)'
    BY <2>1 DEF Finished, Prefix, PieceLength, Offset, SegmentCount
  <2> QED  BY <1>5, <2>1 DEF Follows, Layout, SegmentCount
<1>6. Layout(retained') = Layout(retained)'
  BY DEF Layout, SegmentCount
<1>7. Stage(pc, disk, retained, writer, failure)'
  <2>1. Finished(disk'[Target], Target, retained') => Finished(disk[Target], Target, retained)'
    BY DEF Finished, Prefix, PieceLength, Offset, SegmentCount
  <2> QED  BY <1>3, <1>4, <1>5, <1>6, <2>1 DEF Advances, Stage
<1> QED  BY <1>1, <1>2, <1>7 DEF Advances, RunInv

LEMMA RunInvInit == Init => RunInv
<1> SUFFICES ASSUME Init PROVE RunInv
  OBVIOUS
<1>1. SourceInv
  BY SourceInit
<1>2. /\ saved \in Checkpoint /\ retained \in Checkpoint /\ Laid(saved) /\ Laid(retained)
      /\ saved.completed = <<>> /\ \A f \in Owned : saved.kept[f] = <<>>
  BY UnknownType DEF Init, Fresh, Laid, Unknown
<1>3. /\ disk \in [Files -> Content] /\ synced \in [Files -> Nat]
      /\ \A f \in Files : synced[f] = 0 /\ disk[f] = <<>> /\ Len(disk[f]) = 0
  <2>1. <<>> \in Content /\ Len(<<>>) = 0
    BY DEF Content
  <2> QED  BY <2>1 DEF Init
<1>4. TypeOK
  <2>1. 0 \in 0..MaxRetries /\ 1 \in 1..Versions /\ "" \in Codes
    BY HttpConstants DEF Codes
  <2>2. /\ metadata \in Metadata /\ writer \in [Owned -> Writer] /\ failure \in Codes
        /\ fallback \in BOOLEAN /\ retries \in 0..MaxRetries /\ aborted \in BOOLEAN
        /\ options \in Options /\ origin \in 1..Versions /\ pc = "off"
    BY <2>1, UnknownType DEF Init
  <2>3. \A f \in Files : synced[f] <= Len(disk[f])
    BY <1>3
  <2> QED  BY <1>2, <1>3, <2>2, <2>3 DEF TypeOK
<1>5. CheckpointIsDurable
  <2>1. \A f \in Owned : Len(saved.kept[f]) <= synced[f] /\ IsPrefix(saved.kept[f], disk[f])
    <3>1. <<>> \in Content /\ Len(<<>>) = 0 /\ Owned \subseteq Files
      BY DEF Content, Files
    <3> QED  BY <1>2, <1>3, <3>1, ContentFacts
  <2> QED  BY <1>2, <2>1 DEF CheckpointIsDurable
<1>6. Claimed /\ Stage(pc, disk, retained, writer, failure) /\ CompletedIsWhole(saved)
  BY <1>2 DEF Init, Claimed, Stage, CompletedIsWhole
<1> QED  BY <1>1, <1>2, <1>4, <1>5, <1>6 DEF RunInv

LEMMA RunInvStep ==
  ASSUME RunInv, [Next]_vars
  PROVE  RunInv'
<1>1. SourceInv'
  BY SourceStep DEF RunInv
<1>2. Advances
  BY MoveAdvances, ReuseAdvances, ProbeAdvances, DiscardAdvances, PrepareAdvances,
     WriterStepAdvances, JoinAdvances, MergeAdvances, RenameAdvances, VerifyAdvances,
     CleanupAdvances, CrashAdvances, RestoreAdvances
     DEF Next, RunStep
<1>3. options' = options
  BY DEF Next, RunStep, Start, Reuse, Probe, EndAborted, Discard, Prepare, WriterStep, Respond,
         Receive, Commit, BodyEnds, BodyBreaks, StopWriter, Join, Wait, Merge, Rename, Verify,
         Cleanup, Abort, OriginChanges, Crash, Restore, vars
<1> QED  BY <1>1, <1>2, <1>3, RunInvNext

LEMMA RunSafe == Spec => []RunInv
<1>1. Init => RunInv
  BY RunInvInit
<1>2. RunInv /\ [Next]_vars => RunInv'
  BY RunInvStep
<1> QED  BY <1>1, <1>2, PTL DEF Spec

\* downloadSessionSource.ts, httpCheckpoint.ts: for any versions, sizes, threads,
\* retries, aborts and crashes, what a run completes with is one version of the
\* source, whole.
THEOREM HttpPublishedIsSource == Spec => []PublishedIsSource
<1>1. RunInv => PublishedIsSource
  BY DEF RunInv, PublishedIsSource, Claimed, CheckpointIsDurable, CompletedIsWhole
<1> QED  BY <1>1, RunSafe, PTL

\* httpCheckpoint.ts, "Commit only flushed bytes": except while the files are being
\* replaced, a crash loses nothing the stored checkpoint claims.
THEOREM HttpCheckpointIsDurable == Spec => []CheckpointIsDurable
<1>1. RunInv => CheckpointIsDurable
  BY DEF RunInv
<1> QED  BY <1>1, RunSafe, PTL

\* Every variable keeps its type, and no file has more blocks synced than it holds.
THEOREM HttpTypeOK == Spec => []TypeOK
<1>1. RunInv => TypeOK
  BY DEF RunInv
<1> QED  BY <1>1, RunSafe, PTL
=============================================================================
