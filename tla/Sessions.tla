------------------------------ MODULE Sessions ------------------------------
(***************************************************************************)
(* What sessions and jobs keep: the tree of a session and the archives      *)
(* inside it, the publication of chosen files, the transfers of a torrent   *)
(* and the jobs a server finds again when it starts.  They share the        *)
(* process but no state of these modules, so their steps interleave.        *)
(***************************************************************************)
EXTENDS Naturals, FiniteSets

CONSTANTS
  Root, Kids, Ops, Entries, MaxVersion, MaxDepth, MaxBytes, Picks, Pinned,  \* see SessionTree
  Files, Readers, Transfers, MaxReaders, MaxRetries, Large,                 \* see TorrentTransfer
  Jobs, Torrents, MaxFaults,                                                \* see RetainedJobs
  None

VARIABLES
  sessions, parent, source, record, files, op, tracked, tail, used, removal, refresh,  \* tree
  directory, previous, staging, published, store, session, step,                 \* publication
  status, chosen, confirmed, aborted, attempt, call, torrent, active, stored, have, reader,  \* torrent
  server, job, row, data, view, pending, worker, stopped, removing, todo, faults \* jobs

Tree == INSTANCE SessionTree
Publishing == INSTANCE Publication WITH job <- published
Transfer == INSTANCE TorrentTransfer
Retained == INSTANCE RetainedJobs WITH aborted <- stopped

\* Identifiers are distinct from each other and from what stands for none, and
\* there are finitely many.
ASSUME SessionConstants ==
  /\ Root \notin Kids /\ None \notin Kids \cup {Root} /\ Tree!Refreshing \notin Ops
  /\ IsFiniteSet(Kids) /\ IsFiniteSet(Ops) /\ IsFiniteSet(Entries)
  /\ Picks \subseteq SUBSET Entries /\ MaxBytes \in Nat
  /\ \A entries \in SUBSET Entries : None # entries
  /\ None \notin Transfers
  /\ \A snapshot \in Retained!Snapshot : None # snapshot

ofTree == <<sessions, parent, source, record, files, op, tracked, tail, used, removal, refresh>>
ofFiles == <<directory, previous, staging, published, store, session, step>>
ofTorrent == <<status, chosen, confirmed, aborted, attempt, call, torrent, active, stored, have, reader>>
ofJobs == <<server, job, row, data, view, pending, worker, stopped, removing, todo, faults>>
vars == <<ofTree, ofFiles, ofTorrent, ofJobs>>

Init == Tree!Init /\ Publishing!Init /\ Transfer!Init /\ Retained!Init

TreeMoves == Tree!Next /\ UNCHANGED <<ofFiles, ofTorrent, ofJobs>>
FilesMove == Publishing!Next /\ UNCHANGED <<ofTree, ofTorrent, ofJobs>>
TorrentMoves == Transfer!Next /\ UNCHANGED <<ofTree, ofFiles, ofJobs>>
JobsMove == Retained!Next /\ UNCHANGED <<ofTree, ofFiles, ofTorrent>>

Next == TreeMoves \/ FilesMove \/ TorrentMoves \/ JobsMove

Spec == Init /\ [][Next]_vars
-----------------------------------------------------------------------------
\* The state of each part has the types of its module.
TypeOK == Tree!TypeOK /\ Publishing!TypeOK /\ Transfer!TypeOK /\ Retained!TypeOK

\* removeSession: no opening, extension or refresh leaves a child nobody can reach
\* once the removal of its parent is done, and no session that is removed comes back.
NoOrphans == Tree!NoOrphans /\ Tree!RemovedForGood

\* nestedArchives.ts, open: what the archives of one chain hold and what is reserved for
\* those being extracted is accounted for, and fits the limit.
ChainFits == Tree!ChainFits

\* nestedArchives.ts: "Serialize work owned by one root", and removeSession's drain:
\* the files of a session go when no call writes them any more.
DrainedFirst == Tree!OneAtATime /\ Tree!DrainedFirst

\* What a session offers is on disk: a child's entries, and what the store says was
\* published, which a crash between two renames leaves where it can be read back.  A
\* job is said to be ready when its session is there and a restart would say the
\* same, on whatever road it became so.
NothingLost ==
  /\ Tree!PublishedFiles /\ Publishing!NothingLost /\ Publishing!ShowsWhatIsThere
  /\ Retained!ReadyIsBrowsable /\ Retained!ReadyIsDurable

\* The client never holds two torrents of a job, every torrent it holds has a
\* transfer or a reader, and storage is reserved for the transfer that runs only.
TorrentsHaveOwners ==
  Transfer!OneTorrent /\ Transfer!TorrentsHaveOwners /\ Transfer!ReservedWhileRunning

\* No early video waits for pieces of a torrent that is gone, and a job that seems to
\* run has a worker or a place in the queue, after a restart too.
NobodyIsForgotten == Transfer!ReadersAreServed /\ Retained!NoGhosts
=============================================================================
