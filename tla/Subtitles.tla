------------------------------ MODULE Subtitles ------------------------------
(***************************************************************************)
(* The captions of a video: a local file or an embedded track is read, the *)
(* newest request decides, and the browser's <track> reports afterwards    *)
(* whether it could use the text.  Another video has fresh state.          *)
(***************************************************************************)
EXTENDS Naturals

CONSTANTS Tracks, Locals, None

VARIABLES
    reads,      \* requests that have not settled: [of, newest]
    captions,   \* file: whose text is shown
    entry,      \* embeddedTrackId
    busy,       \* loading
    complaint,  \* whether an error is shown
    native      \* the <track> element: "none", "loading" or "ready"

vars == <<reads, captions, entry, busy, complaint, native>>

Names == Tracks \cup Locals

TypeOK ==
    /\ reads \subseteq [of : Names, newest : BOOLEAN]
    /\ captions \in Names \cup {None} /\ entry \in Tracks \cup {None}
    /\ busy \in BOOLEAN /\ complaint \in BOOLEAN /\ native \in {"none", "loading", "ready"}

Init ==
    /\ reads = {} /\ captions = None /\ entry = None
    /\ busy = FALSE /\ complaint = FALSE /\ native = "none"

Superseded == {[r EXCEPT !.newest = FALSE] : r \in reads}

LoadLocal(f) ==
    /\ reads' = Superseded \cup {[of |-> f, newest |-> TRUE]}
    /\ complaint' = FALSE /\ busy' = FALSE
    /\ UNCHANGED <<captions, entry, native>>

LoadEmbedded(t) ==
    /\ reads' = Superseded \cup {[of |-> t, newest |-> TRUE]}
    /\ captions' = None /\ native' = "none"
    /\ complaint' = FALSE /\ busy' = TRUE /\ entry' = t

Remove ==
    /\ captions # None \/ entry # None
    /\ reads' = Superseded
    /\ captions' = None /\ native' = "none" /\ complaint' = FALSE /\ busy' = FALSE /\ entry' = None

\* FAULT: an answer is taken whichever request it is of.
CountsAlways(r) == TRUE

Counts(r) == r.newest

Read(r) ==
    /\ reads' = reads \ {r}
    /\ IF Counts(r)
       THEN /\ captions' = r.of /\ native' = "loading"
            /\ entry' = IF r.of \in Locals THEN None ELSE entry
            /\ busy' = IF r.of \in Tracks THEN FALSE ELSE busy
       ELSE UNCHANGED <<captions, native, entry, busy>>
    /\ UNCHANGED complaint

ReadFails(r) ==
    /\ reads' = reads \ {r}
    /\ IF Counts(r)
       THEN /\ complaint' = TRUE
            /\ entry' = IF r.of \in Tracks THEN None ELSE entry
            /\ busy' = IF r.of \in Tracks THEN FALSE ELSE busy
       ELSE UNCHANGED <<complaint, entry, busy>>
    /\ UNCHANGED <<captions, native>>

TrackLoads ==
    /\ native = "loading" /\ native' = "ready"
    /\ UNCHANGED <<reads, captions, entry, busy, complaint>>

TrackFails ==
    /\ native = "loading" /\ native' = "none"
    /\ captions' = None /\ complaint' = TRUE /\ entry' = None
    /\ UNCHANGED <<reads, busy>>

Next ==
    \/ \E f \in Locals : LoadLocal(f)
    \/ \E t \in Tracks : LoadEmbedded(t)
    \/ \E r \in reads : Read(r)
    \/ \E r \in reads : ReadFails(r)
    \/ Remove \/ TrackLoads \/ TrackFails

Spec == Init /\ [][Next]_vars
-----------------------------------------------------------------------------
\* The menu never names another track than the one whose captions are shown, and
\* says "loading" only while the track it names is read (useVideoSubtitles.ts:
\* 63-99), however many were chosen before the first was read.
SubtitlesMatch ==
    /\ captions # None /\ entry # None => captions = entry
    /\ busy => captions = None /\ [of |-> entry, newest |-> TRUE] \in reads
=============================================================================
