--------------------------- MODULE TorrentStream ---------------------------
(***************************************************************************)
(* One torrent that is read while it downloads (verifiedTorrentStream.ts,  *)
(* torrentFileSelection.ts): the selections of pieces the files ask for    *)
(* with their priorities, and the selections and the reads of the streams  *)
(* of early videos.  WebTorrent's scheduler is external: it verifies       *)
(* pieces, and drops a selection once it has all of its pieces.            *)
(***************************************************************************)
EXTENDS Integers, FiniteSetsExt

CONSTANTS
  PieceLength,  \* torrent.pieceLength
  Files,        \* the selected files that are not empty
  Offset,       \* file.offset, by file
  Length,       \* file.length, by file
  Readers,      \* streams that may be opened
  NoReader      \* the notify of a selection that files made

VARIABLES
  priority,    \* entry.priorities: 0 low, 1 normal, 2 high
  selections,  \* scheduler._selections
  ranges,      \* entry.ranges
  verified,    \* the bitfield
  destroyed,   \* torrent.destroyed
  stream       \* each reader: its file, its range, and where its generator is

vars == <<priority, selections, ranges, verified, destroyed, stream>>

PieceOf(byte) == byte \div PieceLength
LastByte(f) == Offset[f] + Length[f] - 1
PiecesOf(f) == PieceOf(Offset[f])..PieceOf(LastByte(f))
Pieces == 0..PieceOf(Max({LastByte(f) : f \in Files}))

NoStream == [phase |-> "closed", file |-> NoReader, start |-> 0, position |-> 0, end |-> 0]
-----------------------------------------------------------------------------
\* FAULT: a boundary piece takes the priority of the last file that has it.
PieceLast(prio, p) ==
  LET of == {f \in Files : p \in PiecesOf(f)}
  IN IF of = {} THEN 0 ELSE prio[CHOOSE f \in of : \A g \in of : Offset[f] >= Offset[g]] + 1

\* The priority files give a piece, one more than WebTorrent's: zero is none.
PiecePriority(prio, p) == Max({0} \cup {prio[f] + 1 : f \in {g \in Files : p \in PiecesOf(g)}})

\* The longest runs of pieces that have the same priority.
Runs(prio) ==
  {run \in Pieces \X Pieces :
     /\ run[1] <= run[2] /\ PiecePriority(prio, run[1]) > 0
     /\ \A p \in run[1]..run[2] : PiecePriority(prio, p) = PiecePriority(prio, run[1])
     /\ \A p \in {run[1] - 1, run[2] + 1} \cap Pieces :
          PiecePriority(prio, p) # PiecePriority(prio, run[1])}

\* FAULT: selections are removed by their range, whoever made them.
OwnByRange(s) == <<s.from, s.to>> \in ranges

\* The selections applyFilePriorities made before.
Own(s) == <<s.from, s.to>> \in ranges /\ s.notify = NoReader

\* applyFilePriorities: the old ranges go, one selection per run comes.
Applied(prio) ==
  /\ selections' = {s \in selections : ~Own(s)} \cup
       {[from |-> run[1], to |-> run[2], priority |-> PiecePriority(prio, run[1]) - 1,
         notify |-> NoReader] : run \in Runs(prio)}
  /\ ranges' = Runs(prio)

Init ==
  /\ priority = [f \in Files |-> 1] /\ verified = {} /\ destroyed = FALSE
  /\ ranges = Runs(priority)
  /\ selections = {[from |-> run[1], to |-> run[2], priority |-> PiecePriority(priority, run[1]) - 1,
                    notify |-> NoReader] : run \in ranges}
  /\ stream = [r \in Readers |-> NoStream]

\* setFilePriority
SetFilePriority(f, value) ==
  /\ ~destroyed /\ priority[f] # value
  /\ priority' = [priority EXCEPT ![f] = value]
  /\ Applied(priority')
  /\ UNCHANGED <<verified, destroyed, stream>>
-----------------------------------------------------------------------------
\* clearSelection, by the identity of notify; nothing once the torrent is gone.
Cleared(r) == IF destroyed THEN selections ELSE {s \in selections : s.notify # r}

\* stream(range): the route opens a reader, from the start or from a seek.
Open(r) ==
  /\ ~destroyed /\ stream[r].phase = "closed"
  /\ \E f \in Files, first \in {0, 1} :
       stream' = [stream EXCEPT ![r] = [phase |-> "turn", file |-> f, start |-> first,
                                        position |-> first, end |-> Length[f] - 1]]
  /\ UNCHANGED <<priority, selections, ranges, verified, destroyed>>

Here(r) == PieceOf(Offset[stream[r].file] + stream[r].position)
Ahead(r) == Min({Here(r) + 2, PieceOf(Offset[stream[r].file] + stream[r].end)})

\* FAULT: the selection of the piece before stays beside the new one.
SelectsBeside(r) == selections

\* What is selected before the reader selects its next pieces.
SelectsAfter(r) == Cleared(r)

\* The loop of chunks() begins a turn: it ends, or selects the next piece and up
\* to two more of its range and looks whether the piece is verified.
Turn(r) ==
  /\ stream[r].phase = "turn" /\ ~destroyed
  /\ IF stream[r].position > stream[r].end
     THEN selections' = Cleared(r) /\ stream' = [stream EXCEPT ![r] = NoStream]
     ELSE /\ selections' = SelectsAfter(r) \cup
               {[from |-> Here(r), to |-> Ahead(r), priority |-> 10, notify |-> r]}
          /\ stream' = [stream EXCEPT ![r].phase = "waiting"]
  /\ UNCHANGED <<priority, ranges, verified, destroyed>>

\* FAULT: the store is read at once.
MayReadAny(r) == TRUE

\* Only the bitfield authorizes reading the store.
MayRead(r) == Here(r) \in verified

Read(r) ==
  /\ stream[r].phase = "waiting" /\ ~destroyed /\ MayRead(r)
  /\ stream' = [stream EXCEPT ![r].phase = "reading"]
  /\ UNCHANGED <<priority, selections, ranges, verified, destroyed>>

\* FAULT: a turn that begins inside a piece yields a whole piece's length.
WholePiece(r) == Min({PieceLength, stream[r].end - stream[r].position + 1})

ChunkLength(r) ==
  Min({PieceLength - ((Offset[stream[r].file] + stream[r].position) % PieceLength),
       stream[r].end - stream[r].position + 1})

\* store.get answers: the bytes are yielded, and the consumer pulls the next turn.
Yield(r) ==
  /\ stream[r].phase = "reading"
  /\ stream' = [stream EXCEPT ![r].phase = "turn", ![r].position = @ + ChunkLength(r)]
  /\ UNCHANGED <<priority, selections, ranges, verified, destroyed>>

\* The client goes, the entry's readers are aborted.
Cancel(r) ==
  /\ stream[r].phase \in {"turn", "waiting", "reading"}
  /\ stream' = [stream EXCEPT ![r] = [NoStream EXCEPT !.phase = "ending"]]
  /\ UNCHANGED <<priority, selections, ranges, verified, destroyed>>

\* FAULT: a stream that fails leaves its selection to the scheduler.
LeftBy(r) == selections

\* finally
LeftAfter(r) == Cleared(r)

\* The generator ends without its whole range: it was cancelled, the torrent is
\* gone, no piece came for 120 s, or the read of the store fails.
Fail(r) ==
  /\ \/ stream[r].phase \in {"ending", "reading"}
     \/ stream[r].phase \in {"turn", "waiting"} /\ destroyed
     \/ stream[r].phase = "waiting" /\ Here(r) \notin verified
  /\ selections' = LeftAfter(r)
  /\ stream' = [stream EXCEPT ![r] = NoStream]
  /\ UNCHANGED <<priority, ranges, verified, destroyed>>

\* A piece some selection asks for is verified; WebTorrent drops the selections
\* that have all their pieces.
Verify(p) ==
  /\ ~destroyed /\ p \notin verified /\ \E s \in selections : p \in s.from..s.to
  /\ verified' = verified \cup {p}
  /\ selections' = {s \in selections : ~(s.from..s.to \subseteq verified')}
  /\ UNCHANGED <<priority, ranges, destroyed, stream>>

Destroy ==
  /\ ~destroyed
  /\ destroyed' = TRUE
  /\ UNCHANGED <<priority, selections, ranges, verified, stream>>

Next ==
  \/ Destroy
  \/ \E f \in Files, value \in {0, 1} : SetFilePriority(f, value)
  \/ \E p \in Pieces : Verify(p)
  \/ \E r \in Readers : Open(r) \/ Turn(r) \/ Read(r) \/ Yield(r) \/ Cancel(r) \/ Fail(r)
-----------------------------------------------------------------------------
\* What files still miss is asked for, with the highest priority of the files that
\* share the piece, however selections merge, complete and are replaced.
FilesAreWanted ==
  ~destroyed =>
    \A p \in (UNION {PiecesOf(f) : f \in Files}) \ verified :
      {s.priority : s \in {t \in selections : t.notify = NoReader /\ p \in t.from..t.to}}
        = {Max({priority[f] : f \in {g \in Files : p \in PiecesOf(g)}})}

\* A reader that waits has its piece asked for before the files', by one selection;
\* one that is closed asks for nothing.
ReadersAreOwners ==
  ~destroyed =>
    \A r \in Readers : LET own == {s \in selections : s.notify = r} IN
      /\ Cardinality(own) <= 1
      /\ stream[r].phase = "closed" => own = {}
      /\ stream[r].phase = "waiting" /\ Here(r) \notin verified =>
           \E s \in own : Here(r) \in s.from..s.to

\* The bytes a reader was sent are the next ones of its range, and verified.
SentIsVerified ==
  \A r \in Readers : stream[r].phase \in {"turn", "waiting", "reading"} =>
    /\ stream[r].position <= stream[r].end + 1
    /\ \A byte \in stream[r].start..(stream[r].position - 1) :
         PieceOf(Offset[stream[r].file] + byte) \in verified
    /\ stream[r].phase = "reading" =>
         PieceOf(Offset[stream[r].file] + stream[r].position + ChunkLength(r) - 1) = Here(r)
=============================================================================
