------------------------------ MODULE AudioQueue ------------------------------
(***************************************************************************)
(* The audio player of the page: its queue, the one <audio> element, the   *)
(* <video> of the preview, and the events both elements queue.  A selected *)
(* file is followed by an effect that runs before the next event, so it is *)
(* one step with the selection.                                            *)
(***************************************************************************)
EXTENDS Integers, FiniteSets, SequencesExt

CONSTANTS
    Sessions,   \* sessions with audio files
    Files,      \* the audio files of each, in explorer order
    Other,      \* a path of every session that is no audio file
    MaxEvents,  \* bound on the events in flight
    None

VARIABLES
    session,    \* ownedSession
    selected,   \* the path the workspace shows
    queue, repeat, shuffle,
    track,      \* the track the element has loaded
    audio,      \* whether the audio element plays
    video,      \* whether the video element plays
    owns,       \* ownsMediaSession
    events,     \* play and ended events not yet dispatched
    promises,   \* play() promises not yet settled
    error       \* the track an error is shown for

lists == <<queue, repeat, shuffle>>
vars == <<session, selected, queue, repeat, shuffle, track, audio, video, owns, events, promises, error>>

Elements(q) == {q[i] : i \in DOMAIN q}
Paths == {Other} \cup UNION {Elements(Files[s]) : s \in Sessions}
\* The elements of a sequence that are in a set, as filter keeps them.
Only(q, set) == FlattenSeq([i \in DOMAIN q |-> IF q[i] \in set THEN <<q[i]>> ELSE <<>>])
Without(q, p) == Only(q, Elements(q) \ {p})
Position(q, p) == IF p \in Elements(q) THEN CHOOSE i \in DOMAIN q : q[i] = p ELSE 0
Smaller(a, b) == IF a < b THEN a ELSE b

TypeOK ==
    /\ session \in Sessions \cup {None} /\ selected \in Paths \cup {None}
    /\ track \in Paths \cup {None} /\ error \in Paths \cup {None}
    /\ {audio, video, owns, shuffle} \subseteq BOOLEAN /\ repeat \in {"off", "all", "one"}
    /\ events \in Seq({"audio", "video", "ended"})
    /\ promises \subseteq [of : Paths, newest : BOOLEAN]

Init ==
    /\ session = None /\ selected = None
    /\ queue = <<>> /\ repeat = "off" /\ shuffle = FALSE
    /\ track = None /\ audio = FALSE /\ video = FALSE /\ owns = FALSE
    /\ events = <<>> /\ promises = {} /\ error = None

-----------------------------------------------------------------------------
(* The element. *)

Older == {[p EXCEPT !.newest = FALSE] : p \in promises}

\* audio.load() drops the events the element has queued; play() queues one more.
Load(next, keep) ==
    /\ track' = next /\ error' = None
    /\ audio' = (next # None /\ keep)
    /\ events' = Only(events, {"video"}) \o (IF audio' THEN <<"audio">> ELSE <<>>)
    /\ promises' = Older \cup (IF audio' THEN {[of |-> next, newest |-> TRUE]} ELSE {})

PlayAudio ==
    /\ track # None /\ ~audio /\ Len(events) < MaxEvents
    /\ error' = None /\ audio' = TRUE
    /\ events' = Append(events, "audio")
    /\ promises' = Older \cup {[of |-> track, newest |-> TRUE]}
    /\ UNCHANGED <<session, selected, lists, track, video, owns>>

PauseAudio ==
    /\ audio /\ audio' = FALSE
    /\ UNCHANGED <<session, selected, lists, track, video, owns, events, promises, error>>

AudioEnds ==
    /\ audio /\ Len(events) < MaxEvents
    /\ audio' = FALSE /\ events' = Append(events, "ended")
    /\ UNCHANGED <<session, selected, lists, track, video, owns, promises, error>>

\* FAULT: a failed play() is reported whatever was loaded or played since.
PlayFailsLate(p) ==
    /\ promises' = promises \ {p}
    /\ error' = p.of
    /\ UNCHANGED <<session, selected, lists, track, audio, video, owns, events>>

PlayFails(p) ==
    /\ promises' = promises \ {p}
    /\ error' = IF p.newest /\ p.of = track THEN p.of ELSE error
    /\ UNCHANGED <<session, selected, lists, track, audio, video, owns, events>>

PlaySettles(p) ==
    /\ promises' = promises \ {p}
    /\ UNCHANGED <<session, selected, lists, track, audio, video, owns, events, error>>

LoadFails ==
    /\ track # None /\ error' = track
    /\ UNCHANGED <<session, selected, lists, track, audio, video, owns, events, promises>>

-----------------------------------------------------------------------------
(* The queue follows the selection. *)

Shuffles(q, p) ==
    {s \in [1 .. Len(q) -> Elements(q)] :
        /\ Elements(s) = Elements(q)
        /\ p \in Elements(q) => s[1] = p}

Fresh(s, p) == IF shuffle THEN Shuffles(Files[s], p) ELSE {Files[s]}

OpenSession(s, p) ==
    /\ s # session
    /\ session' = s /\ selected' = p
    /\ IF s = None \/ p \notin (IF s = None THEN {} ELSE Elements(Files[s]))
       THEN queue' = <<>> /\ Load(None, FALSE)
       ELSE queue' \in Fresh(s, p) /\ Load(p, FALSE)
    /\ UNCHANGED <<repeat, shuffle, video, owns>>

\* FAULT: a file that was taken off the queue is loaded without returning to it.
WithSelectedUnqueued(p) == queue' \in IF queue = <<>> THEN Fresh(session, p) ELSE {queue}

WithSelected(p) ==
    queue' \in IF queue = <<>> THEN Fresh(session, p)
               ELSE IF p \in Elements(queue) THEN {queue} ELSE {Append(queue, p)}

Select(p) ==
    /\ session # None /\ p # selected
    /\ p \in {Other} \cup Elements(Files[session])
    /\ selected' = p
    /\ IF p \in {Other, track} THEN UNCHANGED <<queue, track, audio, events, promises, error>>
       ELSE WithSelected(p) /\ Load(p, audio)
    /\ UNCHANGED <<session, repeat, shuffle, video, owns>>

RestoreQueue ==
    /\ session # None /\ track = None /\ Files[session] # <<>>
    /\ LET first == IF selected \in Elements(Files[session]) THEN selected ELSE Files[session][1]
       IN  queue' \in Fresh(session, first) /\ Load(first, FALSE) /\ selected' = first
    /\ UNCHANGED <<session, repeat, shuffle, video, owns>>

-----------------------------------------------------------------------------
(* The user's operations on the queue. *)

Choose(next, keep) ==
    /\ Load(next, keep)
    /\ selected' = IF selected = track THEN next ELSE selected

ChooseTrack(p) ==
    /\ p \in Elements(queue) /\ track # None
    /\ Choose(p, audio)
    /\ UNCHANGED <<session, lists, video, owns>>

Neighbor(direction) ==
    LET i == Position(queue, track)
        n == Len(queue)
        j == i + direction
    IN  IF i = 0 THEN None
        ELSE IF repeat = "all" THEN queue[((j - 1 + n) % n) + 1]
        ELSE IF j \in DOMAIN queue THEN queue[j] ELSE None

Skip(direction) ==
    /\ Neighbor(direction) # None
    /\ Choose(Neighbor(direction), audio)
    /\ UNCHANGED <<session, lists, video, owns>>

RemoveTrack(p) ==
    /\ p \in Elements(queue) /\ track # None
    /\ queue' = Without(queue, p)
    /\ IF p # track THEN UNCHANGED <<selected, track, audio, events, promises, error>>
       ELSE IF queue' = <<>> THEN Load(None, audio) /\ UNCHANGED selected
       ELSE LET next == queue'[Smaller(Position(queue, p), Len(queue'))]
            IN  Load(next, audio) /\ selected' = next
    /\ UNCHANGED <<session, repeat, shuffle, video, owns>>

ToggleShuffle ==
    /\ track # None
    /\ shuffle' = ~shuffle
    /\ queue' \in IF ~shuffle THEN Shuffles(queue, track)
                  ELSE {Only(Files[session], Elements(queue))}
    /\ UNCHANGED <<session, selected, repeat, track, audio, video, owns, events, promises, error>>

MoveUp(i) ==
    /\ track # None /\ {i - 1, i} \subseteq DOMAIN queue
    /\ queue' = [queue EXCEPT ![i] = queue[i - 1], ![i - 1] = queue[i]]
    /\ UNCHANGED <<session, selected, repeat, shuffle, track, audio, video, owns, events, promises, error>>

SetRepeat(r) ==
    /\ track # None /\ r # repeat /\ repeat' = r
    /\ UNCHANGED <<session, selected, queue, shuffle, track, audio, video, owns, events, promises, error>>

RetryAudio ==
    /\ error # None
    /\ Load(track, FALSE)
    /\ UNCHANGED <<session, selected, lists, video, owns>>

MediaKey ==
    /\ owns /\ track # None
    /\ PlayAudio \/ PauseAudio \/ Skip(1) \/ Skip(-1)

-----------------------------------------------------------------------------
(* The video, and the events of both elements. *)

VideoPlays ==
    /\ ~video /\ Len(events) < MaxEvents
    /\ video' = TRUE /\ events' = Append(events, "video")
    /\ UNCHANGED <<session, selected, lists, track, audio, owns, promises, error>>

VideoPauses ==
    /\ video /\ video' = FALSE
    /\ UNCHANGED <<session, selected, lists, track, audio, owns, events, promises, error>>

AudioStarted ==
    /\ events # <<>> /\ Head(events) = "audio"
    /\ events' = Tail(events) /\ video' = FALSE /\ owns' = TRUE
    /\ UNCHANGED <<session, selected, lists, track, audio, promises, error>>

\* FAULT: a video that starts takes the media session and lets the audio play.
VideoStartedAlong ==
    /\ events # <<>> /\ Head(events) = "video"
    /\ events' = Tail(events) /\ owns' = FALSE
    /\ UNCHANGED <<session, selected, lists, track, audio, video, promises, error>>

VideoStarted ==
    /\ events # <<>> /\ Head(events) = "video"
    /\ events' = Tail(events) /\ audio' = FALSE /\ owns' = FALSE
    /\ UNCHANGED <<session, selected, lists, track, video, promises, error>>

Ended ==
    /\ events # <<>> /\ Head(events) = "ended"
    /\ LET next == IF repeat = "one" THEN track ELSE Neighbor(1)
           rest == IF repeat = "one" THEN Tail(events) ELSE Only(Tail(events), {"video"})
       IN  IF next = None
           THEN events' = Tail(events) /\ UNCHANGED <<selected, track, audio, promises, error>>
           ELSE /\ track' = next /\ error' = None /\ audio' = TRUE
                /\ selected' = IF selected = track THEN next ELSE selected
                /\ events' = IF repeat = "one" /\ audio THEN Tail(events) ELSE Append(rest, "audio")
                /\ promises' = Older \cup {[of |-> next, newest |-> TRUE]}
    /\ UNCHANGED <<session, lists, video, owns>>

Next ==
    \/ \E s \in Sessions : \E p \in {Other} \cup Elements(Files[s]) : OpenSession(s, p)
    \/ OpenSession(None, None)
    \/ \E p \in Paths : Select(p)
    \/ \E p \in Elements(queue) : ChooseTrack(p)
    \/ \E p \in Elements(queue) : RemoveTrack(p)
    \/ \E d \in {-1, 1} : Skip(d)
    \/ \E i \in DOMAIN queue : MoveUp(i)
    \/ \E r \in {"off", "all", "one"} : SetRepeat(r)
    \/ \E p \in promises : PlayFails(p)
    \/ \E p \in promises : PlaySettles(p)
    \/ RestoreQueue \/ ToggleShuffle \/ RetryAudio \/ MediaKey
    \/ PlayAudio \/ PauseAudio \/ AudioEnds \/ LoadFails
    \/ VideoPlays \/ VideoPauses \/ AudioStarted \/ VideoStarted \/ Ended

Spec == Init /\ [][Next]_vars

-----------------------------------------------------------------------------
(* Properties. *)

\* Starting a video pauses audio and starting audio pauses video (docs/guides/
\* playback.md:49-50): once their events are dispatched the two never play
\* together, in whatever order they were started, skipped or ended.
NeverBoth ==
    events = <<>> => ~(audio /\ video)

\* The queue holds each track once, and the one that is loaded
\* (useAudioPlayback.ts:37-45, :56-64, :95-122): next, previous and remove find
\* their place in it through every removal, shuffle and change of session.
QueueHoldsTrack ==
    /\ Cardinality(Elements(queue)) = Len(queue)
    /\ track # None => track \in Elements(queue) /\ track \in Elements(Files[session])

\* An error is about the track that is loaded (useAudioElement.ts:36-45): a
\* play() of an earlier track that fails late says nothing about this one.
ErrorIsCurrent ==
    error # None => error = track
=============================================================================
