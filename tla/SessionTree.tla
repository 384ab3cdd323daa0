----------------------------- MODULE SessionTree -----------------------------
(***************************************************************************)
(* Sessions and the archives inside them.  Opening an archive of a session   *)
(* extracts chosen entries into a child session (application/sessions/       *)
(* nestedArchives.ts, nestedArchiveSelection.ts); a session is removed with  *)
(* its descendants (sessionManager.ts); Extract more replaces the contents   *)
(* of the root after it has dropped every child (refreshArchiveSession.ts,   *)
(* nestedArchiveLifecycle.ts).  Each session has one archive inside.         *)
(***************************************************************************)
EXTENDS Integers, FiniteSets

CONSTANTS
  Root, Kids,   \* the root session; identifiers randomUUID has still to draw
  Ops,          \* the calls of inspect and open
  Entries,      \* the files of every archive, of one byte each
  MaxVersion,   \* how often the file of an archive may change
  MaxDepth,     \* limits.depth
  MaxBytes,     \* limits.bytes
  Picks,      \* what a client may choose of them, nothing for inspect
  Pinned,       \* the children a user pins as soon as they are there
  None

Ids == {Root} \cup Kids
Refreshing == "refresh"   \* the item of refreshArchiveSession

VARIABLES
  sessions,  \* the session store
  parent,    \* parentSessionId
  source,    \* which version of the archive each session's directory holds
  record,    \* caches: what is known of the archive of each session
  files,     \* entries in the directory of each session
  op,        \* the calls of run
  tracked,   \* Session.archiveOperations
  tail,      \* tails: the calls whose end the next one waits for
  used,      \* ArchiveBudget.bytes of the root
  removal,   \* the calls of removeSession
  refresh    \* the call of refreshArchiveSession

vars == <<sessions, parent, source, record, files, op, tracked, tail, used, removal, refresh>>
tree == <<sessions, parent, files>>

Unknown == [fp |-> -1, kid |-> None, got |-> {}]
NoOp == [phase |-> "idle", at |-> Root, aborted |-> FALSE, prev |-> {}, expected |-> -1,
         fp |-> -1, kid |-> None, chosen |-> {}, moved |-> {}, held |-> 0]
NoRemoval == [phase |-> "none", on |-> None, waits |-> {}]
NoRefresh == [phase |-> "idle", aborted |-> FALSE, waits |-> {}, drops |-> {}, on |-> None]

Init ==
  /\ sessions = {Root} /\ parent = [s \in Ids |-> None]
  /\ source = [s \in Ids |-> 0] /\ record = [s \in Ids |-> Unknown]
  /\ files = [s \in Ids |-> {}]
  /\ op = [o \in Ops |-> NoOp] /\ tracked = [s \in Ids |-> {}] /\ tail = {}
  /\ used = 0 /\ removal = [s \in Ids |-> NoRemoval] /\ refresh = NoRefresh

\* set has session s and all its ancestors.
Holds(set, s) == s \in set /\ \A k \in set : parent[k] # None => parent[k] \in set

\* touchSession: a session is served while it and all its ancestors are in the store.
Available(s) == \E set \in SUBSET sessions : Holds(set, s)

\* Session s and its descendants.
Under(s) == {k \in Ids : \A set \in SUBSET (Ids \ {s}) : ~Holds(set, k)}

Children(s) == {k \in sessions : parent[k] = s}

Busy == refresh.phase # "idle"

Running(o) == op[o].phase \notin {"idle", "queued", "settled"}
Settled(x) == IF x = Refreshing THEN ~Busy ELSE op[x].phase = "settled"

Abort(set) == [o \in Ops |-> IF o \in set THEN [op[o] EXCEPT !.aborted = TRUE] ELSE op[o]]
-----------------------------------------------------------------------------
\* removeSession: the session is gone from the store and its calls are aborted;
\* then its children are removed one after the other, then it waits for the calls.
StartsRemoval(s) == removal' = [removal EXCEPT ![s] = [phase |-> "children", on |-> None, waits |-> tracked[s]]]

\* What removing s does at once; the caller says what happens to op and refresh.
Leaves(s) ==
  /\ sessions' = sessions \ {s}
  /\ op' = Abort(tracked[s])
  /\ refresh' = [refresh EXCEPT !.aborted = @ \/ Refreshing \in tracked[s]]

\* A viewer closes s or s expires; pinned sessions stay.
Remove(s) ==
  /\ s \in sessions \ Pinned
  /\ Leaves(s) /\ StartsRemoval(s)
  /\ UNCHANGED <<parent, source, record, files, tracked, tail, used>>

\* The call that awaits the removal of s goes on.
Removed(s) == IF s = None THEN TRUE ELSE removal[s].phase = "gone"

RemoveChild(s) ==
  /\ removal[s].phase = "children" /\ Removed(removal[s].on)
  /\ \E c \in Children(s) :
       /\ Leaves(c)
       /\ removal' = [removal EXCEPT ![s].on = c,
                                     ![c] = [phase |-> "children", on |-> None, waits |-> tracked[c]]]
  /\ UNCHANGED <<parent, source, record, files, tracked, tail, used>>

\* FAULT: the files go while the calls that write them are being aborted.
DrainedAtOnce(s) == removal[s].phase = "children" /\ Removed(removal[s].on) /\ Children(s) = {}

Drained(s) ==
  /\ removal[s].phase = "children" /\ Removed(removal[s].on) /\ Children(s) = {}
  /\ \A x \in removal[s].waits : Settled(x)

\* cleanupVideoSession and rm of the workspace, which holds its descendants'.
RemoveFiles(s) ==
  /\ Drained(s)
  /\ removal' = [removal EXCEPT ![s].phase = "gone"]
  /\ files' = [k \in Ids |-> IF k \in Under(s) THEN {} ELSE files[k]]
  /\ UNCHANGED <<sessions, parent, source, record, op, tracked, tail, used, refresh>>
-----------------------------------------------------------------------------
\* The archive inside s is replaced by another.
Change(s) ==
  /\ s \in sessions /\ source[s] < MaxVersion
  /\ source' = [source EXCEPT ![s] = @ + 1]
  /\ UNCHANGED <<sessions, parent, record, files, op, tracked, tail, used, removal, refresh>>

\* ancestry: the chain is there, not being refreshed and not too deep.
Admitted(s) ==
  ~Busy /\ \E set \in SUBSET sessions : Holds(set, s) /\ Cardinality(set) <= MaxDepth

\* run, for the archive in s: open with chosen entries of the manifest the client
\* has seen, or inspect, that chooses none.  The call waits for those before it.
Ask(o) ==
  /\ op[o].phase = "idle"
  /\ \E s \in sessions, c \in Picks :
       /\ Admitted(s)
       /\ op' = [op EXCEPT ![o] = [NoOp EXCEPT !.phase = "queued", !.at = s, !.prev = tail, !.chosen = c,
                   !.expected = IF record[s] = Unknown THEN source[s] ELSE record[s].fp]]
       /\ tracked' = [tracked EXCEPT ![s] = @ \cup {o}]
  /\ tail' = {p \in tail : ~Settled(p)} \cup {o}
  /\ UNCHANGED <<tree, source, record, used, removal, refresh>>

\* cancel
Cancel(o) ==
  /\ op[o].phase \notin {"idle", "settled"} /\ ~op[o].aborted
  /\ op' = [op EXCEPT ![o].aborted = TRUE]
  /\ UNCHANGED <<tree, source, record, tracked, tail, used, removal, refresh>>

\* The promise of o settles; those who track it forget it.
Settle(o) ==
  /\ op' = [op EXCEPT ![o] = [NoOp EXCEPT !.phase = "settled"]]
  /\ tracked' = [s \in Ids |-> tracked[s] \ {o}]

\* FAULT: a call waits for nobody.
TurnAlways(o) == o \in Ops

\* waitForPrevious returns or throws.
Turn(o) == op[o].aborted \/ \A p \in op[o].prev : Settled(p)

Start(o) ==
  /\ op[o].phase = "queued" /\ Turn(o)
  /\ IF op[o].aborted \/ ~Admitted(op[o].at) THEN Settle(o)
     ELSE op' = [op EXCEPT ![o].phase = "lookup"] /\ UNCHANGED tracked
  /\ UNCHANGED <<tree, source, record, tail, used, removal, refresh>>

\* cached: the file is fingerprinted.  A record of it serves; one of another file
\* goes with its child.
Lookup(o) ==
  LET s == op[o].at  r == record[s] IN
  /\ op[o].phase = "lookup" /\ ~op[o].aborted
  /\ \/ /\ r.fp = source[s]
        /\ record' = IF r.kid \in sessions \cup {None} THEN record
                     ELSE [record EXCEPT ![s].kid = None, ![s].got = {}]
        /\ op' = [op EXCEPT ![o].phase = "select"]
        /\ UNCHANGED <<sessions, removal, refresh>>
     \/ /\ r.fp # source[s] /\ r.kid \in sessions
        /\ sessions' = sessions \ {r.kid}
        /\ op' = [Abort(tracked[r.kid]) EXCEPT ![o] = [@ EXCEPT !.phase = "dropping", !.kid = r.kid, !.fp = source[s]]]
        /\ StartsRemoval(r.kid) /\ UNCHANGED <<record, refresh>>
     \/ /\ r.fp # source[s] /\ r.kid \notin sessions
        /\ record' = [record EXCEPT ![s] = Unknown]
        /\ op' = [op EXCEPT ![o].phase = "index", ![o].fp = source[s]]
        /\ UNCHANGED <<sessions, removal, refresh>>
  /\ UNCHANGED <<parent, source, files, tracked, tail, used>>

Dropped(o) ==
  /\ op[o].phase = "dropping" /\ Removed(op[o].kid)
  /\ record' = [record EXCEPT ![op[o].at] = Unknown]
  /\ op' = [op EXCEPT ![o].phase = "index", ![o].kid = None]
  /\ UNCHANGED <<tree, source, tracked, tail, used, removal, refresh>>

\* The archive is listed and the index written.
Index(o) ==
  /\ op[o].phase = "index" /\ ~op[o].aborted /\ op[o].at \in sessions
  /\ record' = [record EXCEPT ![op[o].at] = [Unknown EXCEPT !.fp = op[o].fp]]
  /\ op' = [op EXCEPT ![o].phase = "select"]
  /\ UNCHANGED <<tree, source, tracked, tail, used, removal, refresh>>

\* selection: what the client chose and is not there yet.
Selected(o) == op[o].chosen \ record[op[o].at].got

\* FAULT: a selection takes what the limit leaves.
FitsAlways(bytes) == bytes >= 0

Fits(bytes) == bytes >= 0 /\ used + bytes <= MaxBytes

\* The call has nothing to extract: inspect, or everything is in the child.
Answer(o) ==
  /\ op[o].phase = "select"
  /\ \/ op[o].chosen = {}
     \/ op[o].expected = record[op[o].at].fp /\ Selected(o) = {} /\ record[op[o].at].kid \in sessions
  /\ Settle(o)
  /\ UNCHANGED <<tree, source, record, tail, used, removal, refresh>>

\* open reserves the bytes - all that is left when a gzip does not tell - and
\* publishNestedSelection takes the child there is, or a new one.
Reserve(o) ==
  LET s == op[o].at  r == record[s] IN
  /\ op[o].phase = "select" /\ ~op[o].aborted /\ s \in sessions
  /\ op[o].chosen # {} /\ Selected(o) # {} /\ op[o].expected = r.fp
  /\ r.kid \in sessions \cup {None}
  /\ \E bytes \in {Cardinality(Selected(o)), MaxBytes - used},
        k \in IF r.kid # None THEN {r.kid} ELSE {f \in Kids : parent[f] = None /\ f \notin sessions} :
       /\ Fits(bytes)
       /\ used' = used + bytes
       /\ parent' = [parent EXCEPT ![k] = s]
       /\ tracked' = IF k \in sessions THEN [tracked EXCEPT ![k] = @ \cup {o}] ELSE tracked
       /\ op' = [op EXCEPT ![o] = [@ EXCEPT !.phase = "extract", !.kid = k, !.held = bytes,
                                             !.chosen = Selected(o)]]
  /\ UNCHANGED <<sessions, source, record, files, tail, removal, refresh>>

\* The output of 7-Zip is that of the file as it is now, and no more than what
\* was reserved for it.
Extract(o) ==
  /\ op[o].phase = "extract" /\ ~op[o].aborted /\ Cardinality(op[o].chosen) <= op[o].held
  /\ op' = [op EXCEPT ![o].phase = "verify", ![o].fp = source[op[o].at]]
  /\ UNCHANGED <<tree, source, record, tracked, tail, used, removal, refresh>>

\* assertOwners: the parent, and the child that is extended, are in the store.
Owned(o) ==
  /\ ~op[o].aborted /\ op[o].at \in sessions
  /\ record[op[o].at].kid # None => op[o].kid \in sessions

Verified(o) == source[op[o].at] = record[op[o].at].fp

\* The archive is fingerprinted again.
Verify(o) ==
  /\ op[o].phase = "verify" /\ Owned(o) /\ Verified(o)
  /\ op' = [op EXCEPT ![o].phase = "move"]
  /\ UNCHANGED <<tree, source, record, tracked, tail, used, removal, refresh>>

Move(o) ==
  /\ op[o].phase = "move" /\ ~op[o].aborted
  /\ \E e \in op[o].chosen \ op[o].moved :
       /\ files' = [files EXCEPT ![op[o].kid] = @ \cup {e}]
       /\ op' = [op EXCEPT ![o].moved = @ \cup {e}]
  /\ UNCHANGED <<sessions, parent, source, record, tracked, tail, used, removal, refresh>>

MayPublish(o) == Owned(o)

\* The child enters the store.
Publish(o) ==
  LET s == op[o].at IN
  /\ op[o].phase = "move" /\ op[o].moved = op[o].chosen /\ MayPublish(o)
  /\ sessions' = sessions \cup {op[o].kid}
  /\ record' = [record EXCEPT ![s].kid = op[o].kid, ![s].got = @ \cup op[o].chosen]
  /\ used' = used - (op[o].held - Cardinality(op[o].chosen))
  /\ Settle(o)
  /\ UNCHANGED <<parent, source, files, tail, removal, refresh>>

\* FAULT: what was moved to the child stays there.
UndoNothing(o) == files

\* What the failure leaves on disk: the moved files go, and the directory of a
\* child that was never published.
Undo(o) ==
  LET k == op[o].kid  keeps == record[op[o].at].kid = k /\ k \in sessions IN
  IF k = None THEN files
  ELSE [files EXCEPT ![k] = IF keeps THEN @ \ op[o].moved ELSE {}]

\* The call is aborted, an owner is gone, the archive has changed, a limit is
\* met or a process fails.
Fail(o) ==
  LET s == op[o].at  k == op[o].kid IN
  /\ Running(o) /\ op[o].phase # "dropping"
  /\ files' = Undo(o)
  /\ record' = IF op[o].phase \in {"extract", "verify", "move"} /\ record[s].kid = k /\ k \notin sessions
               THEN [record EXCEPT ![s].kid = None, ![s].got = {}]
               ELSE IF op[o].phase = "select" /\ record[s].kid \notin sessions \cup {None}
               THEN [record EXCEPT ![s].kid = None, ![s].got = {}]
               ELSE record
  /\ used' = used - op[o].held
  /\ Settle(o)
  /\ UNCHANGED <<sessions, parent, source, tail, removal, refresh>>
-----------------------------------------------------------------------------
Owns == {s \in sessions \cap Under(Root) : Available(s)}

\* Extract more on the root: the calls of its chain are aborted.
Refresh ==
  /\ ~Busy /\ Root \in sessions
  /\ LET waits == UNION {tracked[s] : s \in Owns} IN
       /\ refresh' = [phase |-> "draining", aborted |-> FALSE, waits |-> waits, drops |-> Children(Root), on |-> None]
       /\ op' = Abort(waits)
  /\ tracked' = [tracked EXCEPT ![Root] = @ \cup {Refreshing}]
  /\ UNCHANGED <<tree, source, record, tail, used, removal>>

RefreshDrained ==
  /\ refresh.phase = "draining" /\ \A o \in refresh.waits : Settled(o)
  /\ refresh' = [refresh EXCEPT !.phase = "dropping"]
  /\ UNCHANGED <<tree, source, record, op, tracked, tail, used, removal>>

\* Then its children are removed, one after the other.
RefreshDrop ==
  /\ refresh.phase = "dropping" /\ Removed(refresh.on)
  /\ \E c \in refresh.drops :
       IF c \in sessions
       THEN /\ sessions' = sessions \ {c} /\ op' = Abort(tracked[c]) /\ StartsRemoval(c)
            /\ refresh' = [refresh EXCEPT !.drops = @ \ {c}, !.on = c]
       ELSE /\ refresh' = [refresh EXCEPT !.drops = @ \ {c}, !.on = None]
            /\ UNCHANGED <<sessions, op, removal>>
  /\ UNCHANGED <<parent, source, record, files, tracked, tail, used>>

RefreshEnds == refresh' = NoRefresh /\ tracked' = [tracked EXCEPT ![Root] = @ \ {Refreshing}]

TailEnded == \A o \in tail : Settled(o)

\* What is known of the root's archive and was extracted from it goes, and the
\* budget starts again.
RefreshClear ==
  /\ refresh.phase = "dropping" /\ refresh.drops = {} /\ Removed(refresh.on) /\ TailEnded
  /\ record' = [record EXCEPT ![Root] = Unknown]
  /\ files' = [s \in Ids |-> IF s \in Under(Root) \ {Root} THEN {} ELSE files[s]]
  /\ tail' = {} /\ used' = 0
  /\ IF refresh.aborted THEN RefreshEnds
     ELSE refresh' = [refresh EXCEPT !.phase = "work"] /\ UNCHANGED tracked
  /\ UNCHANGED <<sessions, parent, source, op, removal>>

\* The replacement is extracted aside, admitted, and takes the place of the
\* contents; the archive inside may be another.
RefreshReplace ==
  /\ refresh.phase = "work" /\ ~refresh.aborted
  /\ refresh' = [refresh EXCEPT !.phase = "publish"]
  /\ \E v \in {source[Root], source[Root] + 1} :
       v <= MaxVersion /\ source' = [source EXCEPT ![Root] = v]
  /\ UNCHANGED <<tree, record, op, tracked, tail, used, removal>>

\* FAULT: the signal is not looked at between the renames and the store.
RefreshMayPublishLate == refresh.phase = "publish"

RefreshMayPublish == refresh.phase = "publish" /\ ~refresh.aborted

\* completeSession
RefreshPublish ==
  /\ RefreshMayPublish
  /\ sessions' = sessions \cup {Root}
  /\ RefreshEnds
  /\ UNCHANGED <<parent, source, record, files, op, tail, used, removal>>

RefreshFails ==
  /\ refresh.phase \in {"work", "publish"} /\ RefreshEnds
  /\ UNCHANGED <<tree, source, record, op, tail, used, removal>>

RefreshStep == RefreshDrained \/ RefreshDrop \/ RefreshClear \/ RefreshReplace \/ RefreshPublish \/ RefreshFails

OpStep(o) ==
  \/ Start(o) \/ Lookup(o) \/ Dropped(o) \/ Index(o) \/ Answer(o) \/ Reserve(o)
  \/ Extract(o) \/ Verify(o) \/ Move(o) \/ Publish(o) \/ Fail(o)

Next ==
  \/ \E s \in Ids : Remove(s) \/ RemoveChild(s) \/ RemoveFiles(s) \/ Change(s)
  \/ \E o \in Ops : Ask(o) \/ Cancel(o) \/ OpStep(o)
  \/ Refresh \/ RefreshStep

\* Users come and go as they like; what the server has begun goes on.
Fairness ==
  /\ \A s \in Ids : WF_vars(RemoveChild(s) \/ RemoveFiles(s))
  /\ \A o \in Ops : WF_vars(OpStep(o))
  /\ WF_vars(RefreshStep)

Spec == Init /\ [][Next]_vars /\ Fairness
-----------------------------------------------------------------------------
OpRecord == [phase : {"idle", "queued", "lookup", "dropping", "index", "select", "extract", "verify",
                      "move", "settled"},
             at : Ids, aborted : BOOLEAN, prev : SUBSET Ops, expected : -1 .. MaxVersion,
             fp : -1 .. MaxVersion, kid : Kids \cup {None}, chosen : SUBSET Entries,
             moved : SUBSET Entries, held : 0 .. MaxBytes]

\* State types.
TypeOK ==
  /\ sessions \subseteq Ids /\ parent \in [Ids -> Ids \cup {None}]
  /\ source \in [Ids -> 0 .. MaxVersion]
  /\ \A s \in Ids : /\ record[s].fp \in -1 .. MaxVersion /\ record[s].kid \in Kids \cup {None}
                    /\ record[s].got \subseteq Entries /\ files[s] \subseteq Entries
                    /\ removal[s].phase \in {"none", "children", "gone"}
  /\ op \in [Ops -> OpRecord] /\ tracked \in [Ids -> SUBSET (Ops \cup {Refreshing})]
  /\ tail \subseteq Ops /\ used \in 0 .. MaxBytes
  /\ refresh.phase \in {"idle", "draining", "dropping", "work", "publish"}

\* A session outlives its parent only while the parent's removal works its way
\* down: no opening, extension or refresh leaves a child nobody can reach.
NoOrphans ==
  \A s \in sessions : parent[s] \in sessions \cup {None} \/ removal[parent[s]].phase = "children"

\* A removed session does not come back, however its removal meets the calls that
\* were about to publish it.
RemovedForGood == \A s \in Ids : removal[s].phase # "none" => s \notin sessions

\* "Serialize work owned by one root": no two calls of the chain work at once.
OneAtATime == \A a, b \in Ops : Running(a) /\ Running(b) => a = b

\* What the children hold, entry by entry, and what is reserved, byte by byte.
Kept == {p \in sessions \X Entries :
           LET k == record[p[1]].kid IN
           k # None /\ p[2] \in record[p[1]].got /\ Available(p[1]) /\ Available(k)}
Reserved == {p \in Ops \X (1 .. MaxBytes) : p[2] <= op[p[1]].held}

\* The limit holds for the whole chain: what the children hold and what is
\* reserved is accounted for, and fits.
ChainFits == used <= MaxBytes /\ Cardinality(Kept) + Cardinality(Reserved) <= used

\* What a child offers is on disk as long as it is served, and nothing else is once
\* nobody works on it.
PublishedFiles ==
  \A s \in sessions : LET k == record[s].kid IN
    k # None /\ Available(k) =>
      /\ record[s].got \subseteq files[k]
      /\ (\A o \in Ops : op[o].kid # k) => files[k] = record[s].got

\* The files of a session go when no call writes them any more.
DrainedFirst ==
  \A s \in Ids, o \in Ops :
    removal[s].phase = "gone" => ~(op[o].at = s /\ op[o].phase \in {"extract", "verify", "move"})

\* "Parent deletion drains pending work": neither does a call of a descendant.
DrainsDescendants ==
  \A s \in Ids, o \in Ops :
    removal[s].phase = "gone" => ~(op[o].at \in Under(s) /\ op[o].phase \in {"extract", "verify", "move"})

\* No session is being removed: a removal is over for good.
NoneIsRemoved == \A s \in Ids : removal[s].phase # "children"
=============================================================================
