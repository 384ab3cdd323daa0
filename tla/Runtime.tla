------------------------------ MODULE Runtime ------------------------------
(***************************************************************************)
(* Parts of the server that share nothing but the process: the permits of   *)
(* the encoders, the storage jobs claim, the reads of a torrent, the        *)
(* entries of an archive, the chunks of a text and the terminal dashboard.  *)
(* Their steps interleave.                                                  *)
(***************************************************************************)
EXTENDS ProcessLimiter

CONSTANTS
  Users, Capacity, Headroom, MaxResource, Sizes, MaxOutside,   \* see StorageReservations
  PieceLength, Files, Offset, Length, Readers,                 \* see TorrentStream
  Names, MaxEntries, MaxNames, MaxPaths, MaxBytes,             \* see ArchiveEntries
  PreviewBytes, Size,                                          \* see TextPreview
  Jobs, Sessions,                                              \* see Dashboard
  None

VARIABLES
  free, outside, claims, job,                                              \* storage
  priority, selections, ranges, verified, destroyed, stream,               \* stream
  format, listing, extraction, chosen, folding, next, files, directories,
  written, total, tree,                                                    \* archive
  encoding, content, chunks,                                               \* text
  jobs, sessions, gone, pending, pane, jobIndex, sessionIndex, confirmation,
  notice, stopped, renderTimer, frame, lastKey                             \* dashboard

Storage == INSTANCE StorageReservations
Stream == INSTANCE TorrentStream WITH NoReader <- None
Archive == INSTANCE ArchiveEntries WITH phase <- extraction
Text == INSTANCE TextPreview
Console == INSTANCE Dashboard WITH NoItem <- None

\* Byte counts and bounds are natural numbers, finitely many jobs write, a torrent
\* has finitely many files, a chunk of a text has room for any character
\* (TEXT_PREVIEW_BYTES is 128 KB), and ids are distinct from each other and from what
\* stands for none.
ASSUME RuntimeConstants ==
  /\ IsFiniteSet(Users) /\ Capacity \in Nat /\ Headroom \in Nat /\ MaxResource \in Nat /\ Sizes \subseteq Nat
  /\ IsFiniteSet(Files) /\ PieceLength \in Nat \ {0} /\ Offset \in [Files -> Nat] /\ Length \in [Files -> Nat \ {0}]
  /\ MaxEntries \in Nat /\ MaxNames \in Nat /\ Size \in Nat /\ PreviewBytes \in Nat /\ PreviewBytes >= 4
  /\ Jobs \cap Sessions = {} /\ None \notin Jobs \cup Sessions \cup Readers

ofStorage == <<free, outside, claims, job>>
ofStream == <<priority, selections, ranges, verified, destroyed, stream>>
ofArchive == <<format, listing, extraction, chosen, folding, next, files, directories, written, total, tree>>
ofText == <<encoding, content, chunks>>
ofConsole == <<jobs, sessions, gone, pending, pane, jobIndex, sessionIndex, confirmation, notice,
               stopped, renderTimer, frame, lastKey>>
runtimeVars == <<vars, ofStorage, ofStream, ofArchive, ofText, ofConsole>>

RuntimeInit == Init /\ Storage!Init /\ Stream!Init /\ Archive!Init /\ Text!Init /\ Console!Init

LimiterMoves == Next /\ UNCHANGED <<ofStorage, ofStream, ofArchive, ofText, ofConsole>>
StorageMoves == Storage!Next /\ UNCHANGED <<vars, ofStream, ofArchive, ofText, ofConsole>>
StreamMoves == Stream!Next /\ UNCHANGED <<vars, ofStorage, ofArchive, ofText, ofConsole>>
ArchiveMoves == Archive!Next /\ UNCHANGED <<vars, ofStorage, ofStream, ofText, ofConsole>>
TextMoves == Text!Next /\ UNCHANGED <<vars, ofStorage, ofStream, ofArchive, ofConsole>>
ConsoleMoves == Console!Next /\ UNCHANGED <<vars, ofStorage, ofStream, ofArchive, ofText>>

RuntimeNext == LimiterMoves \/ StorageMoves \/ StreamMoves \/ ArchiveMoves \/ TextMoves \/ ConsoleMoves

RuntimeSpec == RuntimeInit /\ [][RuntimeNext]_runtimeVars
-----------------------------------------------------------------------------
\* reserveStorage: no two jobs count on the same bytes of the device, and whatever
\* still writes has its claim.
HeadroomKept == Storage!HeadroomKept /\ Storage!WritersClaim

\* While videos are read from a torrent, its files still ask for all they miss, its
\* readers own what is asked for them, and only verified bytes are sent, in order.
StreamKeepsTorrent == Stream!FilesAreWanted /\ Stream!ReadersAreOwners /\ Stream!SentIsVerified

\* What an archive or a text file holds is shown whole: an accepted listing extracts
\* without collision into the tree, and the chunks of a text join between characters.
ContentsAreWhole == Archive!NoCollision /\ Archive!TreeIsDisk /\ Text!ChunksJoin

\* removeSelected: the dashboard removes only what the last Delete asked about, as the
\* lists change under it.
RemovalIsAsked == [][Console!RemovalIsAsked]_ofConsole
=============================================================================
