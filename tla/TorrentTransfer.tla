--------------------------- MODULE TorrentTransfer ---------------------------
(***************************************************************************)
(* The transfers of one torrent job and the early videos read from them      *)
(* (application/torrents/downloadTorrentSource.ts, torrentDownloader.ts,     *)
(* torrentVideoFiles.ts).  A transfer that completes while videos are read   *)
(* leaves its torrent to them; the last one destroys it, and so does the     *)
(* next transfer of the job, that would meet it in the client.  WebTorrent   *)
(* itself is external: it verifies files, fails and is destroyed.            *)
(***************************************************************************)
EXTENDS Naturals, FiniteSets

CONSTANTS
  Files, Readers,
  Transfers,    \* the torrents the job may add to the client
  MaxReaders,   \* eight in openTorrentVideoFile
  MaxRetries,   \* settings.maxRetries
  Large,        \* selections of more than 1 GiB are those of so many files
  None

VARIABLES
  status,     \* status and phase of the job
  chosen,     \* the selected files
  confirmed,  \* confirmOversize
  aborted,    \* the signal of the running job
  attempt,    \* retryCount
  call,       \* where adapter.download is, and how it will settle
  torrent,    \* the torrents added to the client
  active,     \* the entry of the adapter's map
  stored,     \* the transfers that hold a reservation of storage
  have,       \* verified files
  reader      \* the requests for an early video

vars == <<status, chosen, confirmed, aborted, attempt, call, torrent, active, stored, have, reader>>
user == <<chosen, confirmed>>

NoCall == [phase |-> "none", outcome |-> "none", of |-> None]
NotAdded == [phase |-> "new", completed |-> FALSE, wanted |-> {}]

Init ==
  /\ status = "idle" /\ chosen = {} /\ confirmed = FALSE /\ aborted = FALSE /\ attempt = 0
  /\ call = NoCall /\ torrent = [t \in Transfers |-> NotAdded] /\ active = None
  /\ stored = {} /\ have = {} /\ reader = [r \in Readers |-> [phase |-> "closed", of |-> None]]

Running == status \in {"resolving", "downloading", "indexing"}
ReadersOf(t) == {r \in Readers : reader[r].of = t /\ reader[r].phase # "closed"}

\* The signal of each of t's readers.
AbortReaders(t) == [r \in Readers |-> IF r \in ReadersOf(t) THEN [reader[r] EXCEPT !.phase = "aborted"] ELSE reader[r]]

\* The user selects files, or more files, confirms their size, resumes or retries:
\* the queue starts the job.
Start ==
  /\ ~Running
  /\ \E c \in {s \in SUBSET Files : chosen \subseteq s}, ok \in {confirmed, TRUE} :
       chosen' = c /\ confirmed' = ok
  /\ status' = "resolving" /\ aborted' = FALSE /\ attempt' = 0
  /\ UNCHANGED <<call, torrent, active, stored, have, reader>>

\* Pause, cancel, a failed save of the job: its signal is aborted.
Abort ==
  /\ Running /\ ~aborted
  /\ aborted' = TRUE
  /\ UNCHANGED <<status, user, attempt, call, torrent, active, stored, have, reader>>

Fresh == {t \in Transfers : torrent[t].phase = "new"}
NextTransfer == CHOOSE t \in Fresh : TRUE

\* FAULT: the torrent of completed transfers is left to its readers.
KeepPrevious == TRUE

\* The previous torrent of the job is completed: it must go first.
NothingToEnd == IF active = None THEN TRUE ELSE ~torrent[active].completed

\* downloadTorrent.  The readers of a completed torrent are aborted.
Download ==
  /\ status \in {"resolving", "downloading"} /\ call = NoCall /\ Fresh # {}
  /\ ~aborted \/ status = "downloading"
  /\ IF NothingToEnd
     THEN /\ call' = [phase |-> "adding", outcome |-> "none", of |-> NextTransfer]
          /\ torrent' = [torrent EXCEPT ![NextTransfer].phase = "added"]
          /\ UNCHANGED <<active, reader>>
     ELSE /\ call' = [phase |-> "ending", outcome |-> "none", of |-> active]
          /\ torrent' = [torrent EXCEPT ![active].completed = FALSE]
          /\ reader' = AbortReaders(active) /\ active' = None
  /\ UNCHANGED <<status, user, aborted, attempt, stored, have>>

\* The previous torrent is destroyed; the new one is added.
PreviousEnded ==
  /\ call.phase = "ending" /\ Fresh # {}
  /\ torrent' = [torrent EXCEPT ![call.of].phase = "destroyed", ![NextTransfer].phase = "added"]
  /\ call' = [phase |-> "adding", outcome |-> "none", of |-> NextTransfer]
  /\ UNCHANGED <<status, user, aborted, attempt, active, stored, have, reader>>

\* FAULT: the transfer that fails leaves its readers waiting.
FinishQuietly(outcome) == reader

\* Readers are aborted by an error.
AfterFinish(outcome) == IF outcome = "ok" THEN reader ELSE AbortReaders(call.of)

\* finish: the call settles when the torrent is destroyed, or now when it failed
\* or is read.
Finish(outcome) ==
  LET t == call.of  read == ReadersOf(t) # {} IN
  /\ active' = IF outcome # "ok" \/ ~read THEN None ELSE active
  /\ reader' = AfterFinish(outcome)
  /\ torrent' = [torrent EXCEPT ![t].completed = (outcome = "ok"),
                                ![t].phase = IF outcome = "broken" THEN "destroyed" ELSE @]
  /\ call' = [phase |-> IF (outcome = "broken") \/ (outcome = "ok" /\ read) THEN "settling" ELSE "destroying",
              outcome |-> outcome, of |-> t]

\* The client has the metadata: handleMetadata looks at the selection and
\* reserveTorrentSelection for room, and the transfer is active.
Metadata ==
  LET t == call.of IN
  /\ call.phase = "adding" /\ ~aborted
  /\ \/ /\ chosen = {} /\ Finish("select") /\ UNCHANGED <<stored, status>>
     \/ /\ Cardinality(chosen) >= Large /\ ~confirmed /\ Finish("confirm") /\ UNCHANGED <<stored, status>>
     \/ /\ chosen # {} /\ (Cardinality(chosen) < Large \/ confirmed)
        /\ \/ /\ status' = "downloading" /\ stored' = stored \cup {t} /\ active' = t
              /\ torrent' = [torrent EXCEPT ![t].wanted = chosen]
              /\ call' = [call EXCEPT !.phase = "active"]
              /\ UNCHANGED reader
           \/ Finish("fatal") /\ status' = "downloading" /\ UNCHANGED stored
  /\ UNCHANGED <<user, aborted, attempt, have>>

\* Peers bring a file.
Verify ==
  /\ call.phase = "active"
  /\ \E f \in torrent[call.of].wanted \ have : have' = have \cup {f}
  /\ UNCHANGED <<status, user, aborted, attempt, call, torrent, active, stored, reader>>

\* emitProgress: every selected file is complete.
Complete ==
  /\ call.phase = "active" /\ torrent[call.of].wanted \subseteq have /\ ~aborted
  /\ Finish("ok")
  /\ UNCHANGED <<status, user, aborted, attempt, stored, have>>

\* FAULT: the signal is listened to until the metadata is there.
HeardBeforeMetadata == aborted /\ call.phase = "adding"

\* The abort event of the signal, or the check of the next progress.
Heard == aborted

\* The signal, the disk or the client ends the transfer.
Interrupt ==
  /\ call.phase \in {"adding", "active"}
  /\ \/ Heard /\ Finish("aborted")
     \/ ~aborted /\ Finish("broken")
     \/ ~aborted /\ call.phase = "active" /\ Finish("fatal")
  /\ UNCHANGED <<status, user, aborted, attempt, stored, have>>

\* FAULT: the reservation of a transfer that leaves its torrent to readers stays.
ReleasedDestroyed == IF call.phase = "destroying" THEN stored \ {call.of} ELSE stored

Released == stored \ {call.of}

\* The torrent is destroyed, and the call settles.
Settle ==
  /\ call.phase \in {"settling", "destroying"}
  /\ stored' = Released
  /\ torrent' = IF call.phase = "destroying" THEN [torrent EXCEPT ![call.of].phase = "destroyed"] ELSE torrent
  /\ call' = NoCall
  /\ LET retry == call.outcome = "broken" /\ attempt < MaxRetries IN
       /\ attempt' = IF retry THEN attempt + 1 ELSE attempt
       /\ status' = CASE call.outcome = "ok" -> "indexing"
                      [] call.outcome = "select" -> "awaiting_selection"
                      [] call.outcome = "confirm" -> "awaiting_confirmation"
                      [] retry -> "downloading"
                      [] OTHER -> "stopped"
  /\ UNCHANGED <<user, aborted, active, have, reader>>

\* restoreTorrentSession, or the signal that was aborted meanwhile.
Indexed ==
  /\ status = "indexing"
  /\ status' = IF aborted THEN "stopped" ELSE "ready"
  /\ UNCHANGED <<user, aborted, attempt, call, torrent, active, stored, have, reader>>

\* The job was aborted before its first call of the adapter, or has no torrent left
\* to add in this model.
GiveUp ==
  /\ status \in {"resolving", "downloading"} /\ call = NoCall
  /\ (aborted /\ status = "resolving") \/ Fresh = {}
  /\ status' = "stopped"
  /\ UNCHANGED <<user, aborted, attempt, call, torrent, active, stored, have, reader>>
-----------------------------------------------------------------------------
\* resolveTorrentVideo and openTorrentVideoFile.
Open(r) ==
  /\ reader[r].phase = "closed" /\ status = "downloading" /\ active # None
  /\ Cardinality(ReadersOf(active)) < MaxReaders
  /\ reader' = [reader EXCEPT ![r] = [phase |-> "open", of |-> active]]
  /\ UNCHANGED <<status, user, aborted, attempt, call, torrent, active, stored, have>>

\* FAULT: the last reader leaves the torrent to nobody.
LastReaderNever(r) == FALSE

LastReader(r) == torrent[reader[r].of].completed /\ ReadersOf(reader[r].of) = {r}

\* release: the answer is complete, the client has gone or the reader was aborted.
Release(r) ==
  LET t == reader[r].of IN
  /\ reader[r].phase # "closed"
  /\ reader' = [reader EXCEPT ![r] = [phase |-> "closed", of |-> None]]
  /\ IF LastReader(r)
     THEN active' = None /\ torrent' = [torrent EXCEPT ![t].phase = "destroyed"]
     ELSE UNCHANGED <<active, torrent>>
  /\ UNCHANGED <<status, user, aborted, attempt, call, stored, have>>

TransferStep ==
  \/ Download \/ PreviousEnded \/ Metadata \/ Complete \/ Interrupt \/ Settle \/ Indexed \/ GiveUp

Next == Start \/ Abort \/ Verify \/ TransferStep \/ \E r \in Readers : Open(r) \/ Release(r)

\* The calls of the adapter go on; peers may have nothing to give, and the user
\* aborts nothing unless he likes.
Spec == Init /\ [][Next]_vars /\ WF_vars(Download \/ PreviousEnded \/ Settle \/ GiveUp)
                              /\ WF_vars(aborted /\ Interrupt) /\ WF_vars(Indexed)
-----------------------------------------------------------------------------
\* State types.
TypeOK ==
  /\ status \in {"idle", "resolving", "downloading", "indexing", "ready", "awaiting_selection",
                 "awaiting_confirmation", "stopped"}
  /\ chosen \subseteq Files /\ confirmed \in BOOLEAN /\ aborted \in BOOLEAN
  /\ attempt \in 0 .. MaxRetries
  /\ call.phase \in {"none", "ending", "adding", "active", "settling", "destroying"}
  /\ torrent \in [Transfers -> [phase : {"new", "added", "destroyed"}, completed : BOOLEAN,
                                wanted : SUBSET Files]]
  /\ active \in Transfers \cup {None} /\ stored \subseteq Transfers /\ have \subseteq Files
  /\ reader \in [Readers -> [phase : {"closed", "open", "aborted"}, of : Transfers \cup {None}]]

Alive == {t \in Transfers : torrent[t].phase = "added"}

\* The client never holds two torrents of the job: it refuses a duplicate.
OneTorrent == \A s, t \in Alive : s = t

\* A torrent that nobody transfers or reads is destroyed: a completed one does not
\* seed for ever once its last reader has left, whichever of the two ended first.
TorrentsHaveOwners == \A t \in Alive : t = call.of \/ ReadersOf(t) # {}

\* Nobody waits for pieces of a torrent that is gone.
ReadersAreServed == \A r \in Readers : reader[r].phase = "open" => reader[r].of \in Alive

\* Storage is reserved for the transfer that runs and for no other.
ReservedWhileRunning == stored \subseteq {call.of}

\* No job that was aborted goes on: what is aborted stays so until it has stopped.
NoAbort == ~(aborted /\ Running)
=============================================================================
