----------------------------- MODULE VideoPlayer -----------------------------
(***************************************************************************)
(* The video preview: the selected file and quality, the source attached   *)
(* to the one <video> element, and the position that is saved per file.    *)
(* A selection runs its layout and passive effects before the next event.  *)
(***************************************************************************)
EXTENDS Naturals

CONSTANTS
    Files,
    End,        \* the last position: too near the end to resume
    None

VARIABLES
    file,       \* the selected video
    ready,      \* whether its qualities are loaded
    quality,
    imports,    \* loads of hls.js whose attachment was not cancelled
    hls,        \* the file the hls.js instance plays
    manifest,   \* whether that instance has parsed its manifest
    source,     \* sourceRef: the file attached last
    src,        \* the file whose <source> the element has
    loaded,     \* readyState >= HAVE_METADATA
    time, start,    \* the position, and the default start position
    playing,
    restore,    \* what loadedmetadata and MANIFEST_PARSED restore
    resume,     \* the handlers' closure: key, offered, snapshot, seek, armed
    stored,     \* localStorage
    reached,    \* ghost: the positions each file was played at
    place       \* ghost: where the user is in the file

selection == <<file, ready, quality>>
attached == <<imports, hls, manifest, source, src, restore>>
media == <<loaded, time, start, playing>>
vars == <<selection, attached, media, resume, stored, reached, place>>

Positions == 0 .. End
Qualities == {"source", "remux", "adaptive"}
Restore == [time : Positions, playing : BOOLEAN]
Nowhere == [time |-> 0, playing |-> FALSE]

TypeOK ==
    /\ file \in Files \cup {None} /\ ready \in BOOLEAN /\ quality \in Qualities
    /\ imports \subseteq Files /\ {hls, source, src} \subseteq Files \cup {None} /\ manifest \in BOOLEAN
    /\ loaded \in BOOLEAN /\ time \in Positions /\ start \in Positions /\ playing \in BOOLEAN
    /\ restore = None \/ restore \in Restore
    /\ resume.key \in Files \cup {None} /\ {resume.offered, resume.snapshot, resume.seek} \subseteq Positions \cup {None}
    /\ stored \in [Files -> Positions] /\ reached \in [Files -> SUBSET Positions] /\ place \in Positions

NoResume == [key |-> None, offered |-> None, snapshot |-> None, seek |-> None, armed |-> FALSE]

Init ==
    /\ file = None /\ ready = FALSE /\ quality = "source"
    /\ imports = {} /\ hls = None /\ manifest = FALSE /\ source = None /\ src = None /\ restore = None
    /\ loaded = FALSE /\ time = 0 /\ start = 0 /\ playing = FALSE
    /\ resume = NoResume
    /\ stored \in [Files -> {0, 1}] /\ reached = [f \in Files |-> {stored[f]}]
    /\ place = 0

CurrentTime == IF loaded THEN time ELSE start
Resumable(t) == IF t \in {0, End} THEN 0 ELSE t

-----------------------------------------------------------------------------
(* The saved position.  Nothing stored is position 0. *)

\* FAULT: a position is captured while a saved one is still offered.
CaptureOffered(r, t) ==
    IF r.armed /\ r.seek = None /\ loaded THEN [r EXCEPT !.snapshot = Resumable(t)] ELSE r

Capture(r, t) ==
    IF r.armed /\ r.offered = None /\ r.seek = None /\ loaded
    THEN [r EXCEPT !.snapshot = Resumable(t)] ELSE r

Written(r) == IF r.key = None \/ r.snapshot = None THEN stored ELSE [stored EXCEPT ![r.key] = r.snapshot]

Cleared(r) == [r EXCEPT !.offered = None, !.snapshot = 0]

Flush ==
    /\ resume' = Capture(resume, time)
    /\ stored' = Written(resume')

\* FAULT: the handlers stay those of the file before.
HandlersKept(f, saved) ==
    [resume EXCEPT !.key = IF resume.key = None THEN f ELSE resume.key, !.armed = FALSE]

Handlers(f, saved) ==
    [NoResume EXCEPT !.key = f, !.offered = IF f = None \/ saved = 0 THEN None ELSE saved]

-----------------------------------------------------------------------------
(* Selecting a file or a quality attaches a source. *)

Detach == hls' = None /\ manifest' = FALSE

\* load() empties the element; the default start position outlives it.
Empty ==
    /\ loaded' = FALSE /\ time' = 0 /\ playing' = FALSE

Attach(f, q) ==
    LET same == source = f
        back == [time |-> IF same THEN CurrentTime ELSE 0, playing |-> same /\ playing]
    IN  /\ source' = f /\ restore' = back
        /\ Detach /\ Empty /\ UNCHANGED start
        /\ src' = IF q = "adaptive" THEN None ELSE f
        /\ imports' = IF q = "adaptive" THEN {f} ELSE {}

\* FAULT: loads of hls.js go on when their attachment is undone.
CancelledNever == imports

Cancelled == {}

\* The file before is left while the new one's qualities are asked for.
Select(f) ==
    /\ f # file
    /\ file' = f /\ ready' = FALSE /\ UNCHANGED quality
    /\ stored' = Written(Capture(resume, time))
    /\ resume' = Handlers(f, IF f = None THEN 0 ELSE stored'[f])
    /\ imports' = Cancelled /\ restore' = None /\ src' = None
    /\ Detach /\ Empty /\ UNCHANGED <<start, source, reached>>
    /\ place' = 0

QualitiesLoaded(q) ==
    /\ file # None /\ ~ready
    /\ ready' = TRUE /\ quality' = q /\ UNCHANGED file
    /\ Attach(file, q)
    /\ UNCHANGED <<resume, stored, reached, place>>

ChangeQuality(q) ==
    /\ ready /\ q # quality
    /\ quality' = q /\ UNCHANGED <<file, ready>>
    /\ Attach(file, q)
    /\ UNCHANGED <<resume, stored, reached, place>>

HlsArrives(f) ==
    /\ f \in imports
    /\ imports' = imports \ {f} /\ hls' = f /\ manifest' = FALSE /\ src' = None
    /\ UNCHANGED <<selection, source, restore, media, resume, stored, reached, place>>

\* Without Media Source Extensions the element plays the playlist itself.
NativeHls(f) ==
    /\ f \in imports
    /\ imports' = imports \ {f} /\ src' = f /\ Empty
    /\ UNCHANGED <<selection, hls, manifest, source, restore, start, resume, stored, reached, place>>

ManifestParsed ==
    /\ hls # None /\ ~manifest
    /\ manifest' = TRUE
    /\ start' = IF restore.time > 0 THEN restore.time ELSE start
    /\ playing' = (playing \/ restore.playing)
    /\ UNCHANGED <<selection, imports, hls, source, src, restore, loaded, time, resume, stored, reached, place>>

-----------------------------------------------------------------------------
(* The element's events.  The resume handlers hear loadedmetadata first. *)

AtMetadata(r) ==
    LET offer == IF r.offered = None THEN r ELSE IF Resumable(r.offered) = 0 THEN Cleared(r) ELSE r
        armed == [offer EXCEPT !.armed = TRUE]
    IN  IF r.seek = None THEN armed ELSE [armed EXCEPT !.snapshot = Resumable(r.seek), !.seek = None]

LoadedMetadata ==
    /\ ~loaded /\ (src # None \/ manifest)
    /\ loaded' = TRUE /\ start' = 0 /\ restore' = None
    /\ resume' = AtMetadata(resume)
    /\ LET sought == IF resume.seek = None THEN start ELSE Resumable(resume.seek)
       IN  time' = IF restore # None /\ restore.time > 0 THEN restore.time ELSE sought
    /\ playing' = (playing \/ resume.seek # None \/ (IF restore = None THEN FALSE ELSE restore.playing))
    /\ stored' = IF resume' = [resume EXCEPT !.armed = TRUE] THEN stored ELSE Written(resume')
    /\ place' = IF resume.seek = None THEN place ELSE time'
    /\ reached' = [reached EXCEPT ![file] = @ \cup {time'}]
    /\ UNCHANGED <<selection, imports, hls, manifest, source, src>>

Play ==
    /\ loaded /\ ~playing /\ playing' = TRUE
    /\ LET cleared == IF resume.offered = None THEN resume ELSE Cleared(resume)
       IN  /\ resume' = IF resume.offered = None THEN resume ELSE Capture(cleared, time)
           /\ stored' = IF resume.offered = None THEN stored ELSE Written(resume')
    /\ UNCHANGED <<selection, attached, loaded, time, start, reached, place>>

Pause ==
    /\ loaded /\ playing /\ playing' = FALSE
    /\ Flush
    /\ UNCHANGED <<selection, attached, loaded, time, start, reached, place>>

\* Playback or a seek moves the position; a timeupdate writes every five seconds.
Move(t) ==
    /\ loaded /\ t # time /\ (t > time => playing \/ t < End)
    /\ time' = t /\ place' = t
    /\ reached' = [reached EXCEPT ![file] = @ \cup {t}]
    /\ resume' = Capture(resume, t)
    /\ stored' \in {stored, Written(resume')}
    /\ UNCHANGED <<selection, attached, loaded, start, playing>>

Ended ==
    /\ loaded /\ playing /\ time = End
    /\ playing' = FALSE
    /\ resume' = Cleared(resume) /\ stored' = Written(resume')
    /\ UNCHANGED <<selection, attached, loaded, time, start, reached, place>>

\* Continue or Start over, chosen before or after the metadata.
Choose(restart) ==
    /\ resume.offered # None
    /\ LET to == IF restart THEN 0 ELSE resume.offered
           chosen == [resume EXCEPT !.seek = to, !.offered = None, !.snapshot = to]
           now == resume.armed /\ loaded
       IN  /\ resume' = IF now THEN AtMetadata(chosen) ELSE chosen
           /\ stored' = Written(resume')
           /\ time' = IF now THEN Resumable(to) ELSE time
           /\ playing' = (playing \/ now)
           /\ place' = IF now THEN Resumable(to) ELSE place
           /\ reached' = IF now THEN [reached EXCEPT ![file] = @ \cup {Resumable(to)}] ELSE reached
    /\ UNCHANGED <<selection, attached, loaded, start>>

\* Retry playback reloads a file source, and resumes an hls.js instance in place.
Retry ==
    /\ src # None
    /\ Empty /\ UNCHANGED start
    /\ place' = IF restore = None THEN 0 ELSE place
    /\ UNCHANGED <<selection, attached, resume, stored, reached>>

PageHides ==
    /\ file # None /\ Flush
    /\ UNCHANGED <<selection, attached, media, reached, place>>

\* The page is loaded again, with or without its pagehide.
Reload ==
    /\ file # None
    /\ stored' \in {stored, Written(Capture(resume, time))}
    /\ file' = None /\ ready' = FALSE /\ quality' = "source"
    /\ imports' = {} /\ source' = None /\ src' = None /\ restore' = None /\ Detach
    /\ Empty /\ start' = 0
    /\ resume' = NoResume /\ place' = 0
    /\ UNCHANGED reached

Next ==
    \/ \E f \in Files \cup {None} : Select(f)
    \/ \E q \in Qualities : QualitiesLoaded(q)
    \/ \E q \in Qualities : ChangeQuality(q)
    \/ \E f \in Files : HlsArrives(f)
    \/ \E f \in Files : NativeHls(f)
    \/ ManifestParsed \/ LoadedMetadata
    \/ Play \/ Pause \/ Ended \/ Retry \/ PageHides \/ Reload
    \/ \E t \in Positions : Move(t)
    \/ \E restart \in BOOLEAN : Choose(restart)

Spec == Init /\ [][Next]_vars
-----------------------------------------------------------------------------
(* Properties. *)

\* The element and hls.js play the file that is selected, or nothing yet, however
\* late hls.js arrives (useVideoSource.ts:88-90, :181-187).
AttachedIsSelected ==
    {hls, src} \ {None} \subseteq {file} /\ (hls # None => src = None)

\* A saved position is one its own file was played at (useVideoResume.ts:41-49,
\* :105-119), and selecting a file, leaving it or reloading the page does not
\* lose the position that is still offered (:42, :78-83).
SavedIsOwn ==
    /\ \A f \in Files : stored[f] \in reached[f] \cup {0}
    /\ resume.offered # None => stored[resume.key] = resume.offered

\* docs/guides/playback.md:72: "Changing quality keeps the current playback position."
QualityKeepsPosition ==
    loaded => time = place
=============================================================================
