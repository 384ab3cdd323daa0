------------------------------- MODULE Client -------------------------------
(***************************************************************************)
(* The page in the browser: which session it shows, the players and        *)
(* previews of the file that is selected, the explorer tree and the        *)
(* dialogs.  They share the page but no state of these modules, so their   *)
(* steps interleave.                                                       *)
(***************************************************************************)
EXTENDS Naturals, Sequences, FiniteSets

CONSTANTS
  Roots, Torrents, Children, ParentOf, MaxDepth,   \* see Workspace
  Sessions, Songs, Other, MaxEvents,               \* see AudioQueue
  Images, Near, Entries,                           \* see ImageUrls
  Texts, Offsets, MaxAttempt,                      \* see TextPages
  Tracks, Locals,                                  \* see Subtitles
  Videos, End,                                     \* see VideoPlayer
  Trees, Filters, NoFilter,                        \* see TreeNavigation
  Boxes, MaxPrint, MaxSent,                        \* see FileChoices
  Urls, Magnets, Valid, Limit, MaxLines, MaxId,    \* see DownloadDrafts
  MaxCalls,                                        \* see NestedDialog
  None

VARIABLES
  exists, gone, list, asked, requests, nav, shown, parents, live, error, at, previous,  \* page
  session, selected, queue, repeat, shuffle, track, audio, video, owns, events, promises, audioError,  \* audio
  owner, image, cached, urls, fetches, awaited, imageSrc,                   \* images
  text, page, result, pending, chunks,                                      \* text
  reads, captions, entry, busy, complaint, native,                          \* captions
  file, ready, quality, imports, hls, manifest, source, videoSrc, loaded, time, start,
  playing, restore, resume, stored, reached, place,                         \* player
  tree, filter, expanded, collapsed, active, focused, moved, before, touched,  \* tree
  kind, status, print, taken, wanted, seen, choices, open, adding, boxes, starting, sent, accepted,  \* choices
  adds, lines, drafts, nextId, submitting, batch, changed,                  \* drafts
  mounted, mutation, loose, cancels, closing, canceling, wants, child       \* nested

Page == INSTANCE Workspace
Audio == INSTANCE AudioQueue WITH error <- audioError, Files <- Songs
Pictures == INSTANCE ImageUrls WITH src <- imageSrc, Ids <- Entries
Text == INSTANCE TextPages
Captions == INSTANCE Subtitles
Player == INSTANCE VideoPlayer WITH src <- videoSrc, Files <- Videos
Tree == INSTANCE TreeNavigation
Choosing == INSTANCE FileChoices WITH list <- choices, selected <- boxes, busy <- starting, Ids <- Boxes
Adds == INSTANCE DownloadDrafts WITH open <- adds, source <- lines
Nested == INSTANCE NestedDialog

\* Identifiers are distinct from each other and from what stands for none.
ASSUME ClientConstants ==
  /\ Torrents \subseteq Roots /\ Roots \cap Children = {}
  /\ None \notin Roots \cup Children /\ \A some \in SUBSET (Roots \cup Children) : some # None
  /\ ParentOf \in [Children -> Roots \cup Children]
  /\ Tracks \cap Locals = {} /\ None \notin Tracks \cup Locals
  /\ 0 \in Offsets /\ MaxAttempt \in Nat /\ None \notin Texts /\ \A chunk \in Texts \X Offsets : chunk # None
  /\ \A r \in [page : Text!Page, chunk : (Texts \X Offsets) \cup {None}, failed : BOOLEAN] : r # None
  /\ None \notin Sessions \cup Images \cup Entries /\ "plain" \notin Entries
  /\ \A i \in Images : Near[i] \subseteq Images
  /\ End \in Nat \ {0} /\ None \notin Videos /\ \A position \in 0 .. End \cup Player!Restore : position # None
  /\ Limit \in Nat /\ MaxLines \in Nat /\ MaxId \in Nat
  /\ \A s \in Sessions : Songs[s] \in Seq(Audio!Elements(Songs[s]))
  /\ \A s \in Sessions : \A i, j \in DOMAIN Songs[s] : Songs[s][i] = Songs[s][j] => i = j
  /\ \A t \in Trees : Tree!IsTree(t) /\ None \notin Tree!Nodes(t)
  /\ \A f \in Filters : f.query \in BOOLEAN /\ \A t \in Trees : f.matches \cap DOMAIN t = {}
  /\ NoFilter \in Filters /\ ~NoFilter.query

ofPage == <<exists, gone, list, asked, requests, nav, shown, parents, live, error, at, previous>>
ofAudio == <<session, selected, queue, repeat, shuffle, track, audio, video, owns, events, promises, audioError>>
ofImages == <<owner, image, cached, urls, fetches, awaited, imageSrc>>
ofText == <<text, page, result, pending, chunks>>
ofCaptions == <<reads, captions, entry, busy, complaint, native>>
ofPlayer == <<file, ready, quality, imports, hls, manifest, source, videoSrc, loaded, time, start,
              playing, restore, resume, stored, reached, place>>
ofTree == <<tree, filter, expanded, collapsed, active, focused, moved, before, touched>>
ofChoices == <<kind, status, print, taken, wanted, seen, choices, open, adding, boxes, starting, sent, accepted>>
ofDrafts == <<adds, lines, drafts, nextId, submitting, batch, changed>>
ofNested == <<mounted, mutation, loose, cancels, closing, canceling, wants, child>>
ofPreviews == <<ofAudio, ofImages, ofText, ofCaptions, ofPlayer>>
ofDialogs == <<ofTree, ofChoices, ofDrafts, ofNested>>
vars == <<ofPage, ofPreviews, ofDialogs>>

Init ==
  /\ Page!Init /\ Audio!Init /\ Pictures!Init /\ Text!Init /\ Captions!Init /\ Player!Init
  /\ Tree!Init /\ Choosing!Init /\ Adds!Init /\ Nested!Init

PageMoves == Page!Next /\ UNCHANGED <<ofPreviews, ofDialogs>>
AudioMoves == Audio!Next /\ UNCHANGED <<ofPage, ofDialogs, ofImages, ofText, ofCaptions, ofPlayer>>
ImagesMove == Pictures!Next /\ UNCHANGED <<ofPage, ofDialogs, ofAudio, ofText, ofCaptions, ofPlayer>>
TextMoves == Text!Next /\ UNCHANGED <<ofPage, ofDialogs, ofAudio, ofImages, ofCaptions, ofPlayer>>
CaptionsMove == Captions!Next /\ UNCHANGED <<ofPage, ofDialogs, ofAudio, ofImages, ofText, ofPlayer>>
PlayerMoves == Player!Next /\ UNCHANGED <<ofPage, ofDialogs, ofAudio, ofImages, ofText, ofCaptions>>
TreeMoves == Tree!Next /\ UNCHANGED <<ofPage, ofPreviews, ofChoices, ofDrafts, ofNested>>
ChoicesMove == Choosing!Next /\ UNCHANGED <<ofPage, ofPreviews, ofTree, ofDrafts, ofNested>>
DraftsMove == Adds!Next /\ UNCHANGED <<ofPage, ofPreviews, ofTree, ofChoices, ofNested>>
NestedMoves == Nested!Next /\ UNCHANGED <<ofPage, ofPreviews, ofTree, ofChoices, ofDrafts>>

Next ==
  \/ PageMoves \/ AudioMoves \/ ImagesMove \/ TextMoves \/ CaptionsMove \/ PlayerMoves
  \/ TreeMoves \/ ChoicesMove \/ DraftsMove \/ NestedMoves

Spec == Init /\ [][Next]_vars
-----------------------------------------------------------------------------
\* The state of each part has the types of its module.
TypeOK ==
  /\ Page!TypeOK /\ Audio!TypeOK /\ Pictures!TypeOK /\ Text!TypeOK /\ Captions!TypeOK /\ Player!TypeOK
  /\ Tree!TypeOK /\ Choosing!TypeOK /\ Adds!TypeOK /\ Nested!TypeOK

\* The page shows the session asked for last, in whatever order the trees arrive,
\* and has one thing to say: an error or a live preview leaves no session behind.
ShownIsAsked == Page!ShownIsAsked /\ Page!OneThing

\* An older answer of the list never hides the session just opened.
OpenedStaysListed ==
  [][(shown \in Roots \cap exists' /\ shown' = shown /\ Page!Listed(shown)) => (Page!Listed(shown)' = TRUE)]_ofPage

\* Audio and video never play together once their events are dispatched.
NeverBoth == Audio!NeverBoth

\* The queue holds the loaded track once, and an error is about that track.
QueueHoldsTrack == Audio!QueueHoldsTrack /\ Audio!ErrorIsCurrent

\* What a preview shows is of the file that is selected, though the answers for
\* files left meanwhile still arrive: its page of text, its captions, the source the
\* video element plays, and its image (whose object URL lives) unless the request
\* for that goes on, when the image before is still shown, or has failed.
PreviewIsSelected ==
  Pictures!UrlsAreOwned /\ Text!PageIsAsked /\ Captions!SubtitlesMatch /\ Player!AttachedIsSelected

\* The breadcrumbs above a session lead to it: the path that returns to the file
\* in its parent (docs/guides/downloads.md:93) starts at a download and ends at the
\* parent of the session shown.
BreadcrumbsLead == Page!ParentsLead

\* A saved position is of its own file and is not lost while it is offered.
SavedIsOwn == Player!SavedIsOwn

\* A key, a click or an answer acts on what the user sees: the row with the focus,
\* under a search that shows its matches and leaves the tree as it was; the boxes
\* that were checked, in the archive they were checked in; the batch as it stands
\* in the dialog; a child that is still wanted.
ActsOnShown ==
  /\ Tree!ActsOnFocused /\ Tree!MatchesShown /\ Tree!SearchRestores
  /\ Choosing!AcceptedIsChecked /\ Choosing!BusyIsSending
  /\ Adds!OneRowEach /\ Adds!BatchIsKept /\ Adds!BatchIsSound
  /\ Nested!OpenedIsWanted /\ Nested!ClosingWaits
=============================================================================
