--------------------------- MODULE TreeNavigation ---------------------------
(***************************************************************************)
(* The explorer tree of the client: the rows on the page, the row that is  *)
(* the tab stop (`active', an index), the row that has the focus (a node:  *)
(* the element moves with its node) and the folders that are open.  A      *)
(* search has its own set of closed folders.  A row is named by its path;  *)
(* every tree has the root path "." (server/domain/explorerTree.ts).       *)
(***************************************************************************)
EXTENDS Naturals, Sequences, FiniteSets, SequencesExt

CONSTANTS
    Trees,      \* each maps a folder to the sequence of its children
    Filters,    \* [query : BOOLEAN, matches : sets of files]; NoFilter is one of them
    NoFilter, None

VARIABLES
    tree,       \* rootNode
    filter,
    expanded,
    collapsed,  \* searchCollapsed
    active,     \* activeIndex, from 1 on
    focused,    \* the row with the focus, None without one
    moved,      \* the rows changed under the focus
    before,     \* the folders that were open when the search began
    touched     \* a folder was opened or closed since the filter or the tree changed

vars == <<tree, filter, expanded, collapsed, active, focused, moved, before, touched>>

Root == "."
Nodes(t) == DOMAIN t \cup UNION {Range(t[folder]) : folder \in DOMAIN t}

\* The nodes of a tree can be numbered so that those at or below a node have the
\* numbers from its own to its last one, child after child; a path is in one place.
Descends(t, place) ==
    \A folder \in DOMAIN t : \A i \in DOMAIN t[folder] : place[folder] < place[t[folder][i]]
Spans(t, place, last) ==
    /\ \A node \in Nodes(t) : place[node] <= last[node]
    /\ \A folder \in DOMAIN t : \A i \in DOMAIN t[folder] :
        /\ last[t[folder][i]] <= last[folder]
        /\ \A j \in DOMAIN t[folder] : j < i => last[t[folder][j]] < place[t[folder][i]]

IsTree(t) ==
    /\ Root \in DOMAIN t /\ IsFiniteSet(Nodes(t))
    /\ \A folder \in DOMAIN t : t[folder] \in Seq(Nodes(t))
    /\ \A node \in Nodes(t) \ {Root} : \E folder \in DOMAIN t : node \in Range(t[folder])
    /\ \A folder, other \in DOMAIN t : folder # other => Range(t[folder]) \cap Range(t[other]) = {}
    /\ \E place \in [Nodes(t) -> 1 .. Cardinality(Nodes(t))] :
        Descends(t, place) /\ \E last \in [Nodes(t) -> 1 .. Cardinality(Nodes(t))] : Spans(t, place, last)

\* The nodes with a file of the filter at or below them.
Kept(t, files) ==
    LET keep[node \in Nodes(t)] ==
            IF node \in DOMAIN t THEN \E i \in DOMAIN t[node] : keep[t[node][i]] ELSE node \in files
    IN  {node \in Nodes(t) : keep[node]}

\* The elements of a sequence that are in a set, as filter keeps them.
Only(s, set) == FlattenSeq([i \in DOMAIN s |-> IF s[i] \in set THEN <<s[i]>> ELSE <<>>])

\* The tree that remains: folders without a match go (filterMediaTree).
Filtered(t, files) ==
    [folder \in DOMAIN t \cap Kept(t, files) |-> Only(t[folder], Kept(t, files))]

\* Without a match the navigation keeps the whole tree, which the page does not show.
Displayed(t, f) == f = NoFilter \/ Root \in Kept(t, f.matches)
Browsed(t, f) == IF f # NoFilter /\ Displayed(t, f) THEN Filtered(t, f.matches) ELSE t

HasChildren(t, node) == node \in DOMAIN t /\ (IF node \in DOMAIN t THEN t[node] # <<>> ELSE FALSE)

flattenVisible(t, open, top) ==
    LET rows[node \in Nodes(t)] ==
            IF HasChildren(t, node) /\ node \in open
            THEN <<node>> \o FlattenSeq([i \in DOMAIN t[node] |-> rows[t[node][i]]])
            ELSE <<node>>
    IN  rows[top]

\* All folders are open in a search, but those closed since it began.
VisibleExpanded(t, f, open, closed) == IF f.query THEN DOMAIN Browsed(t, f) \ closed ELSE open
RowsOf(t, f, open, closed) == flattenVisible(Browsed(t, f), VisibleExpanded(t, f, open, closed), Root)

Here == Browsed(tree, filter)
Open == VisibleExpanded(tree, filter, expanded, collapsed)
Rows == RowsOf(tree, filter, expanded, collapsed)
Index(rows, node) == CHOOSE i \in DOMAIN rows : rows[i] = node
Parent(t, node) == CHOOSE folder \in DOMAIN t : \E i \in DOMAIN t[folder] : t[folder][i] = node

TypeOK ==
    /\ tree \in Trees /\ filter \in Filters
    /\ Root \in DOMAIN tree /\ active \in DOMAIN Rows
    /\ focused = None \/ focused \in Range(Rows)
    /\ moved \in BOOLEAN /\ touched \in BOOLEAN

Init ==
    /\ tree \in Trees /\ filter = NoFilter
    /\ expanded = {Root} /\ collapsed = {} /\ before = {Root}
    /\ active = 1 /\ focused = None /\ moved = FALSE /\ touched = FALSE

Flip(set, id) == IF id \in set THEN set \ {id} ELSE set \cup {id}

\* FAULT: a search opens and closes the folders of the whole tree as well.
ToggleBoth(id) ==
    /\ touched' = TRUE
    /\ collapsed' = IF filter.query THEN Flip(collapsed, id) ELSE collapsed
    /\ expanded' = Flip(expanded, id)

toggleExpanded(id) ==
    /\ touched' = TRUE
    /\ IF filter.query THEN collapsed' = Flip(collapsed, id) /\ expanded' = expanded
                       ELSE expanded' = Flip(expanded, id) /\ collapsed' = collapsed

\* FAULT: the folders closed in one search stay closed in the next.
RenewKeeping(t, f) ==
    LET rows == RowsOf(t, f, expanded, collapsed)
    IN  /\ tree' = t /\ filter' = f
        /\ touched' = FALSE
        /\ active' = IF active > Len(rows) THEN Len(rows) ELSE active
        /\ before' = IF f.query /\ filter.query THEN before ELSE expanded
        /\ UNCHANGED <<expanded, collapsed>>

\* The rows of another filter or tree: what a search closed is forgotten, and the
\* tab stop stays at its index, within the rows.
Renew(t, f) ==
    LET rows == RowsOf(t, f, expanded, {})
    IN  /\ tree' = t /\ filter' = f
        /\ collapsed' = {} /\ touched' = FALSE
        /\ active' = IF active > Len(rows) THEN Len(rows) ELSE active
        /\ before' = IF f.query /\ filter.query THEN before ELSE expanded
        /\ UNCHANGED expanded

\* The user types a search or picks a media type, or opens another session from
\* the list: the focus is there.
ChooseFilter(f) == f # filter /\ Renew(tree, f) /\ focused' = None /\ moved' = FALSE
OpenTree(t) == t # tree /\ Renew(t, filter) /\ focused' = None /\ moved' = FALSE

\* Back and forward change the rows under the focus; a row that is still there
\* keeps it, at whatever index it has now.
GoBack(t, f) ==
    LET rows == RowsOf(t, f, expanded, {})
        stays == focused \in Range(rows) /\ Displayed(t, f)
    IN  /\ <<t, f>> # <<tree, filter>>
        /\ Renew(t, f)
        /\ focused' = IF stays THEN focused ELSE None
        /\ moved' = stays
-----------------------------------------------------------------------------
\* The focus moves to a row, and the tab stop with it.
Focus(i) == active' = i /\ focused' = Rows[i] /\ moved' = FALSE
StaysPut == UNCHANGED <<expanded, collapsed, touched>>
Settled == UNCHANGED <<tree, filter, before>>

\* A click, or the Tab key, which reaches the row at the tab stop.
Click(i) ==
    /\ Displayed(tree, filter)
    /\ Focus(i) /\ Settled
    /\ IF HasChildren(Here, Rows[i]) THEN toggleExpanded(Rows[i]) ELSE StaysPut
Tab == Displayed(tree, filter) /\ focused = None /\ Focus(active) /\ StaysPut /\ Settled
\* The focus leaves the tree.
Blur == focused # None /\ focused' = None /\ moved' = FALSE /\ UNCHANGED active /\ StaysPut /\ Settled

\* The keys act on the row at the index the tree holds.
Current == Rows[active]
Keys == Displayed(tree, filter) /\ focused # None

\* ArrowDown, ArrowUp, Home and End.
Position ==
    /\ Keys
    /\ \E to \in {1, Len(Rows), active - 1, active + 1} : to \in DOMAIN Rows /\ Focus(to)
    /\ StaysPut /\ Settled

\* FAULT: the row after a closed folder is taken for its first child.
RightAlways ==
    /\ Keys /\ HasChildren(Here, Current) /\ Settled
    /\ toggleExpanded(Current) /\ active + 1 \in DOMAIN Rows /\ Focus(active + 1)

\* ArrowRight opens the folder, then enters it.
Right ==
    /\ Keys /\ HasChildren(Here, Current) /\ Settled
    /\ IF Current \in Open THEN Focus(active + 1) /\ StaysPut
                           ELSE toggleExpanded(Current) /\ UNCHANGED <<active, focused, moved>>

\* ArrowLeft closes the folder, or goes to the folder above.
Left ==
    /\ Keys /\ Settled
    /\ IF HasChildren(Here, Current) /\ Current \in Open
       THEN toggleExpanded(Current) /\ UNCHANGED <<active, focused, moved>>
       ELSE Current # Root /\ Focus(Index(Rows, Parent(Here, Current))) /\ StaysPut

\* Enter or space opens and closes a folder; on a file it selects the file.
Enter ==
    /\ Keys /\ HasChildren(Here, Current) /\ Settled
    /\ toggleExpanded(Current) /\ UNCHANGED <<active, focused, moved>>

Next ==
    \/ \E f \in Filters : ChooseFilter(f)
    \/ \E t \in Trees : OpenTree(t)
    \/ \E t \in Trees, f \in Filters : GoBack(t, f)
    \/ \E i \in DOMAIN Rows : Click(i)
    \/ Tab \/ Blur \/ Position \/ Right \/ Left \/ Enter

Spec == Init /\ [][Next]_vars
-----------------------------------------------------------------------------
\* The row the keys act on is the row with the focus, unless the rows changed under
\* the focus (TreeExplorerNavigation.ts:113).
ActsOnFocused == focused # None /\ ~moved => Current = focused

\* A search shows every file it matches until the user closes a folder, whatever
\* was closed in the searches before (TreeExplorerNavigation.ts:134-140).
MatchesShown ==
    filter.query /\ ~touched /\ Displayed(tree, filter) =>
        \A folder \in DOMAIN tree : \A i \in DOMAIN tree[folder] :
            tree[folder][i] \in filter.matches => tree[folder][i] \in Range(Rows)

\* A search leaves the folders of the tree as it found them (TreeExplorerNavigation.ts:156).
SearchRestores == filter.query => expanded = before
=============================================================================
