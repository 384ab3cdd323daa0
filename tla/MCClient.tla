------------------------------ MODULE MCClient ------------------------------
(***************************************************************************)
(* An instance of Client for TLC.  Its parts share no state, so a          *)
(* behaviour moves one of them and the others rest in an initial state.    *)
(***************************************************************************)
EXTENDS Client, TLC

CONSTANTS r1, c1, s1, s2, a, b, d, f1, f2

VARIABLE part   \* which part moves

ParentOfChild == c1 :> r1
SongsOf == s1 :> <<a, b>> @@ s2 :> <<d>>
NearOf == a :> {b} @@ b :> {a} @@ d :> {}

\* Two sessions that share a folder and a file, at other places.
TwoTrees == {"." :> <<"d", "c">> @@ "d" :> <<"d/a", "d/b">>,
             "." :> <<"d", "e", "a">> @@ "d" :> <<"d/b">> @@ "e" :> <<>>}
FourFilters == {[query |-> FALSE, matches |-> {}], [query |-> FALSE, matches |-> {"d/b"}],
                [query |-> TRUE, matches |-> {"d/a", "a"}], [query |-> TRUE, matches |-> {"d/b", "c"}]}
AllFiles == [query |-> FALSE, matches |-> {}]

\* The states a part that does not move rests in.
PartInit ==
  /\ part \in {"page", "audio", "images", "text", "captions", "player", "tree", "choices", "drafts", "nested"}
  /\ Init
  /\ part # "page" => exists = {}
  /\ part # "player" => \A f \in Videos : stored[f] = 0
  /\ part # "tree" => "e" \notin DOMAIN tree
  /\ part # "choices" => kind = "zip"

PartNext ==
  /\ UNCHANGED part
  /\ \/ part = "page" /\ PageMoves
     \/ part = "audio" /\ AudioMoves
     \/ part = "images" /\ ImagesMove
     \/ part = "text" /\ TextMoves
     \/ part = "captions" /\ CaptionsMove
     \/ part = "player" /\ PlayerMoves
     \/ part = "tree" /\ TreeMoves
     \/ part = "choices" /\ ChoicesMove
     \/ part = "drafts" /\ DraftsMove
     \/ part = "nested" /\ NestedMoves

PartSpec == PartInit /\ [][PartNext]_<<part, vars>>
=============================================================================
