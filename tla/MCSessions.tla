----------------------------- MODULE MCSessions -----------------------------
(***************************************************************************)
(* An instance of Sessions for TLC.  Its parts share no state, so a        *)
(* behaviour moves one of them and the others rest in their initial state. *)
(***************************************************************************)
EXTENDS Sessions

CONSTANTS e1, e2

VARIABLE part   \* which part moves

\* inspect, one entry and both.
AnyPick == {{}, {e1}, {e1, e2}}

PartInit == part \in {"tree", "files", "torrent", "jobs"} /\ Init

\* Archives and torrents may have nothing left to do; jobs and publications go on.
Rest == part \in {"tree", "torrent"} /\ UNCHANGED vars

PartNext ==
  /\ UNCHANGED part
  /\ \/ part = "tree" /\ TreeMoves
     \/ part = "files" /\ FilesMove
     \/ part = "torrent" /\ TorrentMoves
     \/ part = "jobs" /\ JobsMove
     \/ Rest

\* The fairness of each part, for the behaviours it moves in.
PartSpec ==
  /\ PartInit /\ [][PartNext]_<<part, vars>>
  /\ \A s \in Tree!Ids :
       WF_ofTree(part = "tree" /\ (Tree!RemoveChild(s) \/ Tree!RemoveFiles(s)))
  /\ \A o \in Ops : WF_ofTree(part = "tree" /\ Tree!OpStep(o))
  /\ WF_ofTree(part = "tree" /\ Tree!RefreshStep)
  /\ WF_ofTorrent(part = "torrent" /\ (Transfer!Download \/ Transfer!PreviousEnded \/ Transfer!Settle \/ Transfer!GiveUp))
  /\ WF_ofTorrent(part = "torrent" /\ aborted /\ Transfer!Interrupt)
  /\ WF_ofTorrent(part = "torrent" /\ Transfer!Indexed)
  /\ \A j \in Jobs : WF_ofJobs(part = "jobs" /\ (Retained!RestoreTorrent(j) \/ Retained!RestoreHttp(j)))
  /\ \A j \in Jobs : WF_ofJobs(part = "jobs" /\ Retained!End(j))
  /\ WF_ofJobs(part = "jobs" /\ (Retained!Serve \/ Retained!Exit))
-----------------------------------------------------------------------------
\* Every removal of a session ends, whatever waits for whatever meanwhile; a torrent
\* job that is aborted stops wherever its transfer is; a server that starts comes to
\* serve and one that is told to stop does.
RemovalsAndStopsEnd == []<>(Tree!NoneIsRemoved /\ Transfer!NoAbort /\ Retained!AtRestOrServing)
=============================================================================
