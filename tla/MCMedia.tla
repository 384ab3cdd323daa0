------------------------------ MODULE MCMedia ------------------------------
(***************************************************************************)
(* An instance of Media for TLC.  Its parts share no state, so a behaviour *)
(* moves one of them and the others rest in an initial state.              *)
(***************************************************************************)
EXTENDS Media, TLC

CONSTANTS v1, v2, b1, p1, low, high, audio, c1, c2,
          InNewDirectory   \* encodings whose directory has just been made

VARIABLE part   \* which part moves

WantsOf == v1 :> 0 @@ v2 :> 0 @@ b1 :> 0
\* One level of video with an audio track, and two levels without one: the level
\* below is encoded first.
TwoVideos == {[ladder |-> <<low>>, audio |-> {audio}, wanted |-> p1 :> low],
              [ladder |-> <<low, high>>, audio |-> {}, wanted |-> p1 :> high]}

\* Nothing was encoded there before.
IsNew(e) == playlist[e].by = "none" /\ \A f \in DOMAIN output[e] : output[e][f] = "none"

PartInit ==
  /\ part \in {"windows", "cache", "builds", "encoder"}
  /\ Init
  /\ part # "windows" => disk = {}
  /\ part # "cache" => Len(video.ladder) = 1 /\ prep = "none" /\ \A r \in DOMAIN files : files[r] = 0
  /\ part # "builds" => kind = "image"
  /\ \A e \in Encodings : part # "encoder" \/ e \in InNewDirectory => IsNew(e)

\* Only windows must not stop: the others may have nothing left to do.
Rest == part # "windows" /\ UNCHANGED vars

PartNext ==
  /\ UNCHANGED part
  /\ \/ part = "windows" /\ WindowsMove
     \/ part = "cache" /\ CacheMoves
     \/ part = "builds" /\ BuildsMove
     \/ part = "encoder" /\ EncoderMoves
     \/ Rest

\* The fairness of each part, for the behaviours it moves in.
PartSpec ==
  /\ PartInit /\ [][PartNext]_<<part, vars>>
  /\ \A r \in Requests : /\ WF_ofWindows(part = "windows" /\ Seek!RequestStep(r))
                         /\ WF_ofWindows(part = "windows" /\ Seek!JobStep(r))
  /\ WF_ofWindows(part = "windows" /\ Seek!EndEviction)
  /\ WF_ofWindows(part = "windows" /\ Seek!Leave(b1))
  /\ WF_ofCache(part = "cache" /\ Cache!TaskStep) /\ WF_ofCache(part = "cache" /\ Cache!SweepStep)
  /\ WF_ofCache(part = "cache" /\ Cache!RemovalEnds) /\ WF_ofCache(part = "cache" /\ Cache!Prepare)
  /\ WF_ofCache(part = "cache" /\ Cache!Age) /\ WF_ofCache(part = "cache" /\ Cache!Enforce)
-----------------------------------------------------------------------------
\* Every request for a window is answered, or its client has left, and when nothing
\* is played any more the derived media shrinks to the budget.
MediaSettles == []<>(Seek!NobodyWaits /\ Cache!FitsWhenIdle)
=============================================================================
