------------------------------- MODULE Media -------------------------------
(***************************************************************************)
(* The parts of the server that make derived media: the seek windows of    *)
(* long videos, the renditions of short ones with the cache that evicts    *)
(* them, the files derived on request and the encoder they choose.  They   *)
(* share the process and its limiter but no state of these modules, so     *)
(* their steps interleave.                                                 *)
(***************************************************************************)
EXTENDS Naturals, Sequences, FiniteSets

CONSTANTS Requests, Background, Windows, Wants,  \* of windows, see SegmentWindows
          Videos, Plays, Budget,                 \* see MediaCache
          Callers,                               \* see ArtifactBuilds
          Encodings, AudioOnly, Segments,        \* see HlsEncoder
          Limit, None

VARIABLES
  request, uses, job, current, disk, status, available, evicting, closed, broken,        \* windows
  video, rendition, files, recent, tasks, play, prep, sweep, removing, clear, failed,    \* cache
  kind, caller, build, step, temp, final,                                                \* builds
  selected, hardwareDisabled, call, output, playlist, left                               \* encoder

\* Every request is for a window; a request plays a rendition of the video, whose
\* levels calculateRenditions makes at least one of; None is none of the requests; an
\* output has a segment.
ASSUME MediaConstants ==
  /\ Background \subseteq Requests /\ Wants \in [Requests -> Windows] /\ None \notin Requests
  /\ \A v \in Videos :
       LET levels == {v.ladder[i] : i \in DOMAIN v.ladder} IN
       /\ v.ladder \in Seq(levels) \ {<<>>} /\ levels \cap v.audio = {}
       /\ v.wanted \in [Plays -> levels \cup v.audio]
  /\ None \notin Callers /\ Segments \in Nat \ {0}

Seek == INSTANCE SegmentWindows
Cache == INSTANCE MediaCache WITH status <- rendition
Builds == INSTANCE ArtifactBuilds
Encoder == INSTANCE HlsEncoder

ofWindows == <<request, uses, job, current, disk, status, available, evicting, closed, broken>>
ofCache == <<video, rendition, files, recent, tasks, play, prep, sweep, removing, clear, failed>>
ofBuilds == <<kind, caller, build, step, temp, final>>
ofEncoder == <<selected, hardwareDisabled, call, output, playlist, left>>
vars == <<ofWindows, ofCache, ofBuilds, ofEncoder>>

Init == Seek!Init /\ Cache!Init /\ Builds!Init /\ Encoder!Init

WindowsMove == Seek!Next /\ UNCHANGED <<ofCache, ofBuilds, ofEncoder>>
CacheMoves == Cache!Next /\ UNCHANGED <<ofWindows, ofBuilds, ofEncoder>>
BuildsMove == Builds!Next /\ UNCHANGED <<ofWindows, ofCache, ofEncoder>>
EncoderMoves == Encoder!Next /\ UNCHANGED <<ofWindows, ofCache, ofBuilds>>

Next == WindowsMove \/ CacheMoves \/ BuildsMove \/ EncoderMoves

Spec == Init /\ [][Next]_vars
-----------------------------------------------------------------------------
\* The state of each part has the types of its module.
TypeOK == Seek!TypeOK /\ Cache!TypeOK /\ Builds!TypeOK /\ Encoder!TypeOK

\* hlsWindows.ts: "A cancelled encoder must exit before a replacement may publish
\* this window": whatever is cancelled, joined or promoted, a window has one
\* encoder.
OneEncoder == Seek!OneEncoder

\* A viewer who is told that its window is ready (sendWindowResource) finds it on
\* disk for as long as its response is open, and a request that HlsWindows has taken
\* and that stays fails only because an encoder or the session ended, never because
\* another request left, was promoted or was cancelled.  (One that still waits for a
\* removal fails with it: runtimeMedia.ts:24.)
ReadyIsPublished == Seek!ReadyIsPublished /\ Seek!FailureHasCause

\* DerivedMediaCache removes nothing under an encoder that writes it, and nobody
\* writes the directory of a rendition twice at once.
EncodersUndisturbed == Seek!NoEvictionUnderEncoder /\ Cache!EncodersUndisturbed

\* What a response serves stays on disk until the response is closed, whatever
\* the cache decided from sizes and times it had read before the request came, and
\* a preparation that goes on keeps its entry: the cache is not cleared under it.
ServedStays == Cache!ServedStays /\ Cache!PreparedIsKept

\* What a rename publishes is served whole or not at all (remuxes, thumbnails,
\* storyboards), and the playlist an encoding publishes, at its end or segment by
\* segment, names only files that are there and of that encoder (hlsEncoder.ts:92).
\* A playlist left by an earlier encoding is not meant.
ServedWhole == Builds!ServedWhole /\ Encoder!PlaylistIsOwn

\* Once hardware encoding has failed nobody selects it again, not even a call
\* whose own probe succeeded afterwards.
StaysDisabled == Encoder!StaysDisabled
=============================================================================
