----------------------------- MODULE HlsEncoder -----------------------------
(***************************************************************************)
(* server/infrastructure/media/hlsEncoder.ts: which encoder the encodings   *)
(* of the server use, and what each leaves in its output directory.  The    *)
(* hardware encoder is probed by whoever comes first, and given up for good *)
(* when it fails.                                                           *)
(*                                                                         *)
(* The directory of a seek window is new (hlsWindows.ts); that of a          *)
(* rendition may hold what an earlier encoding left there, which is served  *)
(* while the files are replaced one by one.                                 *)
(***************************************************************************)
EXTENDS Naturals, FiniteSets

CONSTANTS Encodings,  \* the calls of encode
          AudioOnly,  \* those of an audio track
          Segments    \* how many segments an output has

VARIABLES
  selected,          \* HlsEncoder.selected
  hardwareDisabled,  \* HlsEncoder.hardwareDisabled
  call,              \* where each call is
  output,            \* who made each file of the output directory
  playlist,          \* its index.m3u8: who wrote it, and how many segments it names
  left               \* files of the staging directory still to be renamed

vars == <<selected, hardwareDisabled, call, output, playlist, left>>

\* init.mp4, and the segments counted from 1.
Files == 0..Segments

Playlist(by, n) == [by |-> by, names |-> n]

\* What the directories hold is what encodings of former processes, interrupted at
\* any point, and removals that failed have left: nobody looks before encoding anew.
Init ==
  /\ selected = "none" /\ hardwareDisabled = FALSE
  /\ call = [e \in Encodings |-> "idle"]
  /\ output \in [Encodings -> [Files -> {"none", "old"}]]
  /\ playlist \in [Encodings -> {Playlist("none", 0)} \cup {Playlist("old", n) : n \in 1..Segments}]
  /\ left = [e \in Encodings |-> {}]

\* encode asks detect, unless it encodes audio; detect knows what it selected.
Begin(e) ==
  /\ call[e] = "idle"
  /\ call' = [call EXCEPT ![e] = IF e \in AudioOnly THEN "cpu"
                                 ELSE IF selected = "none" THEN "probing" ELSE selected]
  /\ UNCHANGED <<selected, hardwareDisabled, output, playlist, left>>

\* The hardware encoder failed, in a probe or at work: the CPU for everyone.
GiveUp == hardwareDisabled' = TRUE /\ selected' = "cpu"

\* FAULT: a probe that succeeds is believed although an encoding has failed.
ProbedAnyway(e) ==
  /\ UNCHANGED hardwareDisabled
  /\ call' = [call EXCEPT ![e] = "hardware"] /\ selected' = "hardware"

\* A probe succeeds: the hardware is selected unless it was given up meanwhile.
Probed(e) ==
  /\ UNCHANGED hardwareDisabled
  /\ IF hardwareDisabled
     THEN call' = [call EXCEPT ![e] = "cpu"] /\ UNCHANGED selected
     ELSE call' = [call EXCEPT ![e] = "hardware"] /\ selected' = "hardware"

\* The end of detect: a probe succeeded, none did or ten seconds have passed,
\* or the caller was aborted.
EndProbe(e) ==
  /\ call[e] = "probing"
  /\ \/ Probed(e)
     \/ GiveUp /\ call' = [call EXCEPT ![e] = "cpu"]
     \/ call' = [call EXCEPT ![e] = "failed"] /\ UNCHANGED <<selected, hardwareDisabled>>
  /\ UNCHANGED <<output, playlist, left>>

\* FAULT: the hardware encoder writes where the CPU's retry will.
WritesInPlaceAlways(e) == call[e] \in {"cpu", "hardware"}

\* The CPU's process writes where requests read; the hardware's to a staging
\* directory, where nobody sees what it makes.
WritesInPlace(e) == call[e] = "cpu"

Made(e) == {f \in Files : output[e][f] = call[e]}

\* The process makes the next file, over an older one of that name.
WriteFile(e) ==
  /\ WritesInPlace(e)
  /\ \E f \in Files : /\ Made(e) = 0..(f - 1)
                      /\ output' = [output EXCEPT ![e][f] = call[e]]
  /\ UNCHANGED <<selected, hardwareDisabled, call, playlist, left>>

\* The playlist is one of an event: after each segment it is replaced by one that
\* names the segments there are.
ListSegments(e) ==
  /\ WritesInPlace(e)
  /\ \E n \in 1..Segments : /\ Made(e) = 0..n /\ playlist[e] # Playlist(call[e], n)
                            /\ playlist' = [playlist EXCEPT ![e] = Playlist(call[e], n)]
  /\ UNCHANGED <<selected, hardwareDisabled, call, output, left>>

\* The CPU's process has listed its last segment.
EndCpu(e) ==
  /\ call[e] = "cpu" /\ playlist[e] = Playlist("cpu", Segments)
  /\ call' = [call EXCEPT ![e] = "done"]
  /\ UNCHANGED <<selected, hardwareDisabled, output, playlist, left>>

\* The hardware's process ends.  When it fails, its files go with the staging
\* directory and the CPU starts over.
EndHardware(e) ==
  /\ call[e] = "hardware"
  /\ \/ /\ call' = [call EXCEPT ![e] = "renaming"] /\ left' = [left EXCEPT ![e] = Files]
        /\ UNCHANGED <<selected, hardwareDisabled>>
     \/ /\ GiveUp
        /\ call' = [call EXCEPT ![e] = "cpu"] /\ UNCHANGED left
  /\ UNCHANGED <<output, playlist>>

\* FAULT: the staged files are renamed in the order readdir gives them.
PlaylistAnyTurn(e) == e \in Encodings

\* The playlist is renamed when every other file has been.
PlaylistTurn(e) == left[e] = {}

Rename(e) ==
  /\ call[e] = "renaming"
  /\ \/ \E f \in left[e] : /\ output' = [output EXCEPT ![e][f] = "hardware"]
                           /\ left' = [left EXCEPT ![e] = @ \ {f}]
                           /\ UNCHANGED <<playlist, call>>
     \/ /\ PlaylistTurn(e)
        /\ playlist' = [playlist EXCEPT ![e] = Playlist("hardware", Segments)]
        /\ call' = [call EXCEPT ![e] = "done"]
        /\ UNCHANGED <<output, left>>
  /\ UNCHANGED <<selected, hardwareDisabled>>

\* The signal, the CPU's failure or the disk's: the call rejects.  A window's
\* directory is removed by its caller; what a rendition has is still served.
Fail(e) ==
  /\ call[e] \in {"cpu", "hardware", "renaming"}
  /\ call' = [call EXCEPT ![e] = "failed"] /\ left' = [left EXCEPT ![e] = {}]
  /\ UNCHANGED <<selected, hardwareDisabled, output, playlist>>

Next ==
  \E e \in Encodings :
    \/ Begin(e) \/ EndProbe(e) \/ WriteFile(e) \/ ListSegments(e) \/ EndCpu(e)
    \/ EndHardware(e) \/ Rename(e) \/ Fail(e)

Spec == Init /\ [][Next]_vars
-----------------------------------------------------------------------------
\* State types.
TypeOK ==
  /\ selected \in {"none", "cpu", "hardware"} /\ hardwareDisabled \in BOOLEAN
  /\ call \in [Encodings -> {"idle", "probing", "cpu", "hardware", "renaming", "done", "failed"}]
  /\ output \in [Encodings -> [Files -> {"none", "old", "cpu", "hardware"}]]
  /\ playlist \in [Encodings -> [by : {"none", "old", "cpu", "hardware"}, names : Files]]
  /\ left \in [Encodings -> SUBSET Files]

\* A playlist that a call has published names files that are there and were made
\* by the encoder of the playlist: the initialization file of one encoder does not
\* decode the segments of the other.  An older playlist promises no such thing:
\* while the call replaces the files it names, they are of two encodings.
PlaylistIsOwn ==
  \A e \in Encodings :
    playlist[e].by \in {"cpu", "hardware"} =>
      \A f \in 0..playlist[e].names : output[e][f] = playlist[e].by

\* Once hardware encoding has failed nobody selects it again, not even a call
\* whose own probe succeeded afterwards.
StaysDisabled == hardwareDisabled => selected = "cpu"
=============================================================================
