----------------------------- MODULE MCRuntime -----------------------------
(***************************************************************************)
(* An instance of Runtime for TLC.  Its parts share no state, so a          *)
(* behaviour moves one of them and the others rest in an initial state.     *)
(***************************************************************************)
EXTENDS Runtime, TLC

CONSTANTS f, g

VARIABLES
  part,     \* which part moves
  watched   \* the task whose waiting is watched: any one

\* Two files that share the piece between them.
OffsetOf == f :> 0 @@ g :> 3
LengthOf == f :> 3 @@ g :> 3

\* The archive and the text of a part that rests.
SomeListing == listing = <<[path |-> <<"a">>, directory |-> TRUE, place |-> 1]>> /\ format = "7z" /\ folding = TRUE
SomeText == content = [i \in 1..Size |-> "a"] /\ encoding = "utf-8"

PartInit ==
  /\ part \in {"limiter", "storage", "stream", "archive", "text", "console"}
  /\ watched \in IF part = "limiter" THEN Tasks ELSE {CHOOSE t \in Tasks : TRUE}
  /\ Init /\ Storage!Init /\ Stream!Init /\ Console!Init
  /\ IF part = "archive" THEN Archive!Init ELSE Archive!Rests /\ SomeListing
  /\ IF part = "text" THEN Text!Init ELSE chunks = <<>> /\ SomeText

PartNext ==
  /\ UNCHANGED <<part, watched>>
  /\ \/ part = "limiter" /\ LimiterMoves
     \/ part = "storage" /\ StorageMoves
     \/ part = "stream" /\ StreamMoves
     \/ part = "archive" /\ ArchiveMoves
     \/ part = "text" /\ TextMoves
     \/ part = "console" /\ ConsoleMoves

\* The fairness of the limiter, for the behaviours it moves in: run goes on after its
\* await, and processes end.
PartSpec ==
  /\ PartInit /\ [][PartNext]_<<part, watched, runtimeVars>>
  /\ \A t \in Tasks : WF_vars(part = "limiter" /\ Start(t)) /\ WF_vars(part = "limiter" /\ End(t))
-----------------------------------------------------------------------------
\* A waiting task gets a permit or is aborted, however many others come, when
\* there is more than one permit: background work cannot starve a preview.
EventuallyGranted == phase[watched] = "waiting" ~> phase[watched] # "waiting"
=============================================================================
