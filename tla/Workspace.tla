------------------------------ MODULE Workspace ------------------------------
(***************************************************************************)
(* The viewer page of the client: which session is shown, under which      *)
(* breadcrumbs, which live preview, against the list of sessions it polls, *)
(* the requests for trees it has open, and the browser's history.  An      *)
(* aborted request settles without touching the page, so it leaves         *)
(* `requests' at once.                                                     *)
(***************************************************************************)
EXTENDS Integers, Sequences

CONSTANTS
    Roots,      \* sessions of downloads, which the list shows
    Torrents,   \* those whose video can be previewed before they are ready
    Children,   \* sessions of nested archives, which the list never shows
    ParentOf,   \* the session a nested archive was opened from
    MaxDepth,   \* bound on the breadcrumbs
    None

VARIABLES
    exists,     \* the sessions the server has
    gone,       \* those it had: an id is never used again
    list,       \* the cached list, None until the first answer
    asked,      \* the list a query in flight will answer, None without one
    requests,   \* the requests for a tree that were not aborted
    nav,        \* navigationSessionId
    shown,      \* session?.id
    parents,    \* the breadcrumbs
    live,       \* the torrent of the live preview
    error,      \* whether the opener shows an error
    at,         \* the location in the address bar
    previous    \* the entry before it in the history

page == <<nav, shown, parents, live, error>>
queries == <<list, asked>>
history == <<at, previous>>
server == <<exists, gone>>
vars == <<exists, gone, list, asked, requests, nav, shown, parents, live, error, at, previous>>

Openable == Roots \cup Children
Below(s) == {s} \cup {c \in Children : ParentOf[c] = s}
Location == [session : Openable \cup {None}, parents : Seq(Openable), live : Torrents \cup {None}]
Request == [of : Openable, resets : BOOLEAN, lists : BOOLEAN, found : BOOLEAN]

Listed(s) == IF list = None THEN FALSE ELSE s \in list

TypeOK ==
    /\ exists \subseteq Openable /\ gone \subseteq Openable \ exists
    /\ list = None \/ list \subseteq Openable
    /\ asked = None \/ asked \subseteq Roots
    /\ requests \subseteq Request
    /\ nav \in Openable \cup {None} /\ shown \in Openable \cup {None}
    /\ live \in Torrents \cup {None} /\ error \in BOOLEAN
    /\ {at, previous} \subseteq Location /\ parents \in Seq(Openable)

Nowhere == [session |-> None, parents |-> <<>>, live |-> None]

Init ==
    /\ exists \in SUBSET Roots /\ gone = {}
    /\ list = None /\ asked = None /\ requests = {}
    /\ nav = None /\ shown = None /\ parents = <<>> /\ live = None /\ error = FALSE
    /\ at = Nowhere /\ previous = Nowhere

-----------------------------------------------------------------------------
(* The address bar follows the page whenever no tree is being opened. *)

Here == [session |-> IF shown # None THEN shown ELSE nav, parents |-> parents, live |-> live]

Write ==
    /\ at' = IF requests' = {} THEN Here' ELSE at
    /\ previous' = IF at' = at THEN previous ELSE at

-----------------------------------------------------------------------------
(* Opening a session. *)

Asking(s, resets, lists) == [of |-> s, resets |-> resets, lists |-> lists, found |-> FALSE]

\* FAULT: an open that lets the one before it finish.
OpenUnaborted(s, resets, lists) ==
    /\ requests' = requests \cup {Asking(s, resets, lists)}
    /\ error' = FALSE
    /\ nav' = s
    /\ shown' = IF shown = s THEN s ELSE None

Open(s, resets, lists) ==
    /\ requests' = {Asking(s, resets, lists)}
    /\ error' = FALSE
    /\ nav' = s
    /\ shown' = IF shown = s THEN s ELSE None

\* From the rail, or from the job of a finished download, whose session the list
\* may not show yet.
OpenReady(s) ==
    /\ Listed(s) \/ s \in exists \cup gone
    /\ Open(s, TRUE, TRUE)
    /\ UNCHANGED <<server, queries, parents, live>> /\ Write

OpenChild(c) ==
    /\ c \notin gone /\ Len(parents) < MaxDepth
    /\ shown = ParentOf[c] /\ shown \in exists /\ requests = {} /\ ~error /\ live = None
    /\ exists' = exists \cup {c} /\ UNCHANGED gone
    /\ parents' = Append(parents, shown)
    /\ Open(c, FALSE, FALSE)
    /\ UNCHANGED <<queries, live>> /\ Write

Crumb(i) ==
    /\ i \in DOMAIN parents
    /\ parents' = SubSeq(parents, 1, i - 1)
    /\ Open(parents[i], FALSE, parents' = <<>>)
    /\ UNCHANGED <<server, queries, live>> /\ Write

RetryPreview ==
    /\ nav # None /\ requests = {}
    /\ error \/ (shown # None /\ list # None /\ ~Listed(IF parents = <<>> THEN shown ELSE Head(parents)))
    /\ Open(nav, FALSE, parents = <<>>)
    /\ UNCHANGED <<server, queries, parents, live>> /\ Write

TreeServed(r) ==
    /\ ~r.found /\ r.of \in exists
    /\ requests' = (requests \ {r}) \cup {[r EXCEPT !.found = TRUE]}
    /\ UNCHANGED <<server, queries, page, history>>

\* FAULT: the list query in flight is not cancelled.
WithOpenedUncancelled(r) ==
    /\ asked' = asked
    /\ list' = IF r.lists THEN (IF list = None THEN {} ELSE list) \cup {r.of} ELSE list

WithOpenedSession(r) ==
    /\ asked' = None
    /\ list' = IF r.lists THEN (IF list = None THEN {} ELSE list) \cup {r.of} ELSE list

Loaded(r) ==
    /\ r.found
    /\ requests' = requests \ {r}
    /\ WithOpenedSession(r)
    /\ shown' = r.of /\ live' = None
    /\ parents' = IF r.resets THEN <<>> ELSE parents
    /\ UNCHANGED <<server, nav, error>> /\ Write

\* FAULT: a failure that leaves the live preview under its message.
OpenFailsOver(r) ==
    /\ ~r.found
    /\ requests' = requests \ {r}
    /\ shown' = None /\ live' = live /\ error' = TRUE
    /\ UNCHANGED <<server, queries, nav, parents>> /\ Write

OpenFails(r) ==
    /\ ~r.found
    /\ requests' = requests \ {r}
    /\ shown' = None /\ live' = None /\ error' = TRUE
    /\ UNCHANGED <<server, queries, nav, parents>> /\ Write

-----------------------------------------------------------------------------
(* Live previews, closing, history and reload. *)

\* One card for a transfer and its session: the session's, once it is listed.
Offered(s) == s \in Torrents /\ list # None /\ ~Listed(s)

SelectLive(s) ==
    /\ Offered(s)
    /\ requests' = {} /\ error' = FALSE
    /\ shown' = None /\ nav' = None /\ parents' = <<>> /\ live' = s
    /\ UNCHANGED <<server, queries>> /\ Write

CloseLive ==
    /\ live # None /\ ~error
    /\ live' = None
    /\ UNCHANGED <<server, queries, requests, nav, shown, parents, error>> /\ Write

CloseSession ==
    /\ shown # None
    /\ nav' = None /\ parents' = <<>> /\ shown' = None
    /\ UNCHANGED <<server, queries, requests, live, error>> /\ Write

Arrive(location, from) ==
    /\ error' = FALSE /\ live' = location.live /\ parents' = location.parents
    /\ nav' = location.session
    /\ shown' = IF location.session = from THEN from ELSE None
    /\ requests' = IF location.session \in {None, from} THEN {}
                   ELSE {Asking(location.session, FALSE, location.parents = <<>>)}

Restore ==
    /\ previous # at
    /\ Arrive(previous, shown)
    /\ at' = previous /\ previous' = at
    /\ UNCHANGED <<server, queries>>

Reload ==
    /\ list' = None /\ asked' = None
    /\ Arrive(at, None)
    /\ UNCHANGED <<server, history>>

-----------------------------------------------------------------------------
(* The poll of the list, and the server. *)

ListAsk ==
    /\ asked' = exists \cap Roots
    /\ UNCHANGED <<server, list, requests, page, history>>

ListAnswer ==
    /\ asked # None
    /\ list' = asked /\ asked' = None
    /\ UNCHANGED <<server, requests, page, history>>

Appear(s) ==
    /\ s \in Roots \ (exists \cup gone)
    /\ exists' = exists \cup {s} /\ UNCHANGED gone
    /\ UNCHANGED <<queries, requests, page, history>>

Vanish(s) ==
    /\ s \in exists
    /\ exists' = exists \ Below(s)
    /\ gone' = gone \cup (exists \cap Below(s))
    /\ UNCHANGED <<queries, requests, page, history>>

Next ==
    \/ \E s \in Roots : OpenReady(s)
    \/ \E c \in Children : OpenChild(c)
    \/ \E i \in DOMAIN parents : Crumb(i)
    \/ RetryPreview
    \/ \E r \in requests : TreeServed(r)
    \/ \E r \in requests : Loaded(r)
    \/ \E r \in requests : OpenFails(r)
    \/ \E s \in Torrents : SelectLive(s)
    \/ CloseLive \/ CloseSession \/ Restore \/ Reload
    \/ ListAsk \/ ListAnswer
    \/ \E s \in Roots : Appear(s)
    \/ \E s \in Openable : Vanish(s)

Spec == Init /\ [][Next]_vars

-----------------------------------------------------------------------------
(* Properties. *)

\* The page shows the session asked for last (useWorkspacePreviewNavigation.ts
\* :35, :47): whatever order the trees arrive in, a page at rest that names a
\* session and no error shows that session.
ShownIsAsked ==
    requests = {} /\ nav # None /\ ~error => shown = nav

\* An older answer of the list never hides the session just opened (:45-46): while
\* the server has the download's session that the page shows, no answer takes it
\* off the list, which would make the preview call it gone.
OpenedStaysListed ==
    [][(shown \in Roots \cap exists' /\ shown' = shown /\ Listed(shown)) => (Listed(shown)' = TRUE)]_vars

\* The preview panel has one thing to say (:72-78, :102-110): an error leaves no
\* session and no live preview behind it, and a live preview no session.
OneThing ==
    /\ error => shown = None /\ live = None
    /\ live # None => shown = None

\* The breadcrumbs above a session lead from its download to it (WorkspaceBreadcrumbs
\* .tsx:14-32; docs/guides/downloads.md:93).
ParentsLead ==
    shown # None =>
        IF parents = <<>> THEN shown \in Roots
        ELSE shown \in Children /\ ParentOf[shown] = parents[Len(parents)]
=============================================================================
