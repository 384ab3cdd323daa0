--------------------------- MODULE SessionsProofs ---------------------------
(***************************************************************************)
(* Proofs about Sessions: an inductive invariant for each part, then the   *)
(* properties of the composition.                                          *)
(***************************************************************************)
EXTENDS Sessions, FiniteSetTheorems, TLAPS
-----------------------------------------------------------------------------
(* The tree.                                                               *)

\* The tree counts with the Cardinality of FiniteSets.
LEMMA SameCardinality == \A set : Tree!Cardinality(set) = Cardinality(set)
BY DEF Tree!Cardinality, Cardinality, Tree!IsFiniteSet, IsFiniteSet

\* What the constants are.
TreeConstants ==
  /\ Root \notin Kids /\ None \notin Kids \cup {Root} /\ Tree!Refreshing \notin Ops
  /\ IsFiniteSet(Kids) /\ IsFiniteSet(Ops) /\ IsFiniteSet(Entries)
  /\ Picks \subseteq SUBSET Entries /\ MaxBytes \in Nat

Phases == {"idle", "queued", "lookup", "dropping", "index", "select", "extract", "verify", "move", "settled"}
Call == [phase : Phases, at : Tree!Ids, aborted : BOOLEAN, prev : SUBSET Ops, expected : Int, fp : Int,
         kid : Kids \cup {None}, chosen : SUBSET Entries, moved : SUBSET Entries, held : 0 .. MaxBytes]
Calls == Ops \cup {Tree!Refreshing}

TreeTyped ==
  /\ sessions \subseteq Tree!Ids /\ parent \in [Tree!Ids -> Tree!Ids \cup {None}] /\ source \in [Tree!Ids -> Int]
  /\ record \in [Tree!Ids -> [fp : Int, kid : Kids \cup {None}, got : SUBSET Entries]]
  /\ files \in [Tree!Ids -> SUBSET Entries] /\ op \in [Ops -> Call]
  /\ tracked \in [Tree!Ids -> SUBSET Calls] /\ tail \subseteq Ops /\ used \in Int
  /\ removal \in [Tree!Ids -> [phase : {"none", "children", "gone"}, on : Kids \cup {None}, waits : SUBSET Calls]]
  /\ refresh \in [phase : {"idle", "draining", "dropping", "work", "publish"}, aborted : BOOLEAN,
                  waits : SUBSET Calls, drops : SUBSET Kids, on : Kids \cup {None}]

InProgress(o) == op[o].phase \notin {"idle", "settled"}
Working(o) == op[o].phase \in {"extract", "verify", "move"}
Gone(s) == removal[s].phase # "none"

\* One call at a time: each has waited for those that came before it.
InTurn ==
  /\ \A o \in Ops : InProgress(o) => o \in tail
  /\ \A a, b \in Ops : InProgress(a) /\ InProgress(b) /\ a # b => a \in op[b].prev \/ b \in op[a].prev
  /\ \A o \in Ops : Tree!Running(o) => \A p \in op[o].prev : op[p].phase = "settled"

\* The root has no parent; every session that is or was in the store descends from
\* it, and so do the children the records name.
Family ==
  /\ parent[Root] = None
  /\ \A k \in Kids : k \in sessions \/ Gone(k) => parent[k] # None
  /\ \A k \in Tree!Ids : parent[k] # None => parent[k] = Root \/ parent[parent[k]] # None
  /\ \A k \in Tree!Ids : k = Root \/ parent[k] # None => k \in Tree!Under(Root)
  /\ \A s \in Tree!Ids : IF record[s].kid = None THEN record[s].got = {} ELSE parent[record[s].kid] = s

\* A call that does not extract has nothing in its hands; one that does has reserved
\* it, and its child is that of the record or one that nobody has seen.
HandsOff ==
  \A o \in Ops : ~Working(o) =>
    /\ op[o].moved = {} /\ op[o].held = 0
    /\ op[o].phase # "dropping" => op[o].kid = None

OwnChild ==
  \A o \in Ops : Working(o) =>
    LET s == op[o].at  k == op[o].kid IN
    /\ k # None /\ parent[k] = s /\ record[s].kid \in {None, k}
    /\ record[s].kid = None => k \notin sessions /\ ~Gone(k) /\ \A x \in Tree!Ids : parent[x] # k
    /\ op[o].moved \subseteq op[o].chosen /\ (record[s].kid = k => op[o].chosen \cap record[s].got = {})
    /\ op[o].phase # "extract" => Cardinality(op[o].chosen) <= op[o].held

\* A removal waits for every call of its session.
Awaited ==
  \A o \in Ops : InProgress(o) =>
    LET s == op[o].at IN
    IF Gone(s) THEN o \in removal[s].waits /\ removal[s].phase = "children"
    ELSE s \in sessions /\ o \in tracked[s]

\* Extract more is told of the removal of the root; meanwhile no call adds a child
\* to the root.
Refreshed ==
  /\ ~Gone(Root) => Root \in sessions
  /\ Tree!Busy => /\ Tree!Refreshing \in tracked[Root]
                  /\ Gone(Root) => refresh.aborted
                  /\ \A o \in Ops : InProgress(o) /\ op[o].at = Root => op[o].aborted
  /\ refresh.phase \in {"draining", "dropping"} => Tree!Children(Root) \subseteq refresh.drops

\* What the child of a call holds: what the record says and what the call has moved.
Filled ==
  /\ \A k \in Kids : parent[k] = None => files[k] = {}
  /\ \A o \in Ops : Working(o) /\ Tree!Available(op[o].at) =>
       LET r == record[op[o].at]  k == op[o].kid IN
       /\ r.kid = None => files[k] = op[o].moved
       /\ k \in sessions => files[k] = r.got \cup op[o].moved

TreeInv ==
  /\ TreeTyped /\ InTurn /\ Family /\ HandsOff /\ OwnChild /\ Awaited /\ Refreshed /\ Filled
  /\ Tree!NoOrphans /\ Tree!RemovedForGood /\ Tree!ChainFits /\ Tree!PublishedFiles

\* What a step leaves of a call that does not take it: the call may be aborted.
SameCall(new, old) ==
  /\ new.phase = old.phase /\ new.at = old.at /\ new.prev = old.prev /\ new.kid = old.kid
  /\ new.chosen = old.chosen /\ new.moved = old.moved /\ new.held = old.held
  /\ old.aborted => new.aborted

\* A step that no call takes.
NoCallMoves == op' \in [Ops -> Call] /\ \A p \in Ops : SameCall(op'[p], op[p])

\* A step of call o, which goes on, or which settles.
Others(o) == op' \in [Ops -> Call] /\ \A p \in Ops \ {o} : SameCall(op'[p], op[p])
Becomes(o, phase, kid, asked, moved, held) ==
  /\ Others(o) /\ tail' = tail
  /\ op'[o].phase = phase /\ op'[o].kid = kid /\ op'[o].chosen = asked /\ op'[o].moved = moved /\ op'[o].held = held
  /\ op'[o].at = op[o].at /\ op'[o].prev = op[o].prev /\ (op[o].aborted => op'[o].aborted)
Ends(o) ==
  /\ Others(o) /\ tail' = tail
  /\ op'[o].phase = "settled" /\ op'[o].kid = None /\ op'[o].moved = {} /\ op'[o].held = 0
  /\ tracked' \in [Tree!Ids -> SUBSET Calls] /\ \A s \in Tree!Ids : tracked'[s] = tracked[s] \ {o}

\* Session x leaves the store and its removal begins.
LeavesStore(x) ==
  /\ x \in sessions /\ sessions' = sessions \ {x}
  /\ UNCHANGED <<parent, source, record, files, tracked, tail, used>>
  /\ removal' \in [Tree!Ids -> [phase : {"none", "children", "gone"}, on : Kids \cup {None}, waits : SUBSET Calls]]
  /\ removal'[x].phase = "children" /\ removal'[x].waits = tracked[x]
  /\ \A s \in Tree!Ids \ {x} : removal'[s].phase = removal[s].phase /\ removal'[s].waits = removal[s].waits

\* A step of call o.
CallMoves(o) ==
  /\ Others(o) /\ tail' = tail /\ InProgress(o)
  /\ \/ op'[o].phase = "settled" /\ op'[o].kid = None /\ op'[o].moved = {} /\ op'[o].held = 0
     \/ /\ op'[o].phase \in Phases \ {"idle", "queued", "settled"} /\ op'[o].at = op[o].at /\ op'[o].prev = op[o].prev
        /\ Tree!Running(o) \/ \A p \in op[o].prev : op[p].phase = "settled"
        /\ op[o].aborted => op'[o].aborted

\* Every step but those of calls and new calls.
OtherStep ==
  \/ \E s \in Tree!Ids : Tree!Remove(s) \/ Tree!RemoveChild(s) \/ Tree!RemoveFiles(s) \/ Tree!Change(s)
  \/ \E o \in Ops : Tree!Cancel(o)
  \/ Tree!Refresh \/ Tree!RefreshStep
-----------------------------------------------------------------------------
LEMMA CallsAborted ==
  ASSUME TreeTyped, NEW set
  PROVE  /\ Tree!Abort(set) \in [Ops -> Call]
         /\ \A o \in Ops : SameCall(Tree!Abort(set)[o], op[o]) /\ (o \in set => Tree!Abort(set)[o].aborted)
<1>1. op \in [Ops -> Call]
  BY DEF TreeTyped
<1>2. ASSUME NEW o \in Ops
      PROVE  /\ Tree!Abort(set)[o] \in Call /\ SameCall(Tree!Abort(set)[o], op[o])
             /\ o \in set => Tree!Abort(set)[o].aborted
  <2> DEFINE c == [op[o] EXCEPT !.aborted = TRUE]
  <2>1. op[o] \in Call
    BY <1>1
  <2>2. c \in Call /\ c.aborted /\ SameCall(c, op[o])
    BY <2>1 DEF Call, SameCall
  <2>3. Tree!Abort(set)[o] = IF o \in set THEN c ELSE op[o]
    BY DEF Tree!Abort
  <2>4. SameCall(op[o], op[o])
    BY DEF SameCall
  <2> HIDE DEF c
  <2>5. QED
    BY <2>1, <2>2, <2>3, <2>4
<1>3. Tree!Abort(set) = [o \in Ops |-> Tree!Abort(set)[o]]
  BY DEF Tree!Abort
<1>4. QED
  BY <1>2, <1>3

\* The call of a step has one new record; the others stay.
LEMMA CallSet ==
  ASSUME TreeTyped, NEW o \in Ops, NEW c \in Call, op' = [op EXCEPT ![o] = c]
  PROVE  op'[o] = c /\ Others(o)
<1>1. op \in [Ops -> Call]
  BY DEF TreeTyped
<1>2. op' \in [Ops -> Call] /\ op'[o] = c /\ \A p \in Ops \ {o} : op'[p] = op[p]
  BY <1>1
<1>3. QED
  BY <1>2 DEF Others, SameCall

LEMMA SettleEnds ==
  ASSUME TreeConstants, TreeTyped, NEW o \in Ops, Tree!Settle(o), tail' = tail
  PROVE  Ends(o)
<1> DEFINE c == [Tree!NoOp EXCEPT !.phase = "settled"]
<1>1. c \in Call /\ c.phase = "settled" /\ c.kid = None /\ c.moved = {} /\ c.held = 0
  <2>1. Tree!NoOp \in Call
    BY DEF Tree!NoOp, Call, Phases, Tree!Ids, TreeConstants
  <2>2. c.kid = Tree!NoOp.kid /\ c.moved = Tree!NoOp.moved /\ c.held = Tree!NoOp.held /\ c.phase = "settled" /\ c \in Call
    BY <2>1 DEF Call, Phases
  <2>3. QED
    BY <2>2 DEF Tree!NoOp
<1>2. op' = [op EXCEPT ![o] = c] /\ tracked' = [s \in Tree!Ids |-> tracked[s] \ {o}]
  BY DEF Tree!Settle
<1> HIDE DEF c
<1>3. op'[o] = c /\ Others(o)
  BY <1>1, <1>2, CallSet
<1>4. tracked' \in [Tree!Ids -> SUBSET Calls] /\ \A s \in Tree!Ids : tracked'[s] = tracked[s] \ {o}
  BY <1>2 DEF TreeTyped
<1>5. QED
  BY <1>1, <1>3, <1>4 DEF Ends

\* A call that only changes its phase.
LEMMA PhaseBecomes ==
  ASSUME TreeTyped, NEW o \in Ops, NEW phase \in Phases, NEW fp \in Int, tail' = tail,
         op' = [op EXCEPT ![o].phase = phase] \/ op' = [op EXCEPT ![o].phase = phase, ![o].fp = fp]
  PROVE  Becomes(o, phase, op[o].kid, op[o].chosen, op[o].moved, op[o].held)
<1> DEFINE c == [op[o] EXCEPT !.phase = phase]
           d == [op[o] EXCEPT !.phase = phase, !.fp = fp]
<1>1. op \in [Ops -> Call] /\ op[o] \in Call
  BY DEF TreeTyped
<1>2. /\ c \in Call /\ c.phase = phase /\ c.kid = op[o].kid /\ c.chosen = op[o].chosen /\ c.moved = op[o].moved
      /\ c.held = op[o].held /\ c.at = op[o].at /\ c.prev = op[o].prev /\ c.aborted = op[o].aborted
  BY <1>1 DEF Call
<1>3. /\ d \in Call /\ d.phase = phase /\ d.kid = op[o].kid /\ d.chosen = op[o].chosen /\ d.moved = op[o].moved
      /\ d.held = op[o].held /\ d.at = op[o].at /\ d.prev = op[o].prev /\ d.aborted = op[o].aborted
  BY <1>1 DEF Call
<1>4. op' = [op EXCEPT ![o] = c] \/ op' = [op EXCEPT ![o] = d]
  BY <1>1 DEF Call
<1> HIDE DEF c, d
<1>5. QED
  BY <1>2, <1>3, <1>4, CallSet DEF Becomes

LEMMA Started ==
  ASSUME TreeConstants, TreeTyped, NEW o \in Ops, Tree!Start(o)
  PROVE  /\ op[o].phase = "queued" /\ UNCHANGED <<sessions, parent, files, source, record, used, removal, refresh>>
         /\ \/ Ends(o)
            \/ /\ tracked' = tracked /\ \A p \in op[o].prev : op[p].phase = "settled"
               /\ Becomes(o, "lookup", op[o].kid, op[o].chosen, op[o].moved, op[o].held)
<1>1. op[o].phase = "queued" /\ UNCHANGED <<sessions, parent, files, source, record, used, removal, refresh>> /\ tail' = tail
  BY DEF Tree!Start, Tree!tree
<1>2. CASE Tree!Settle(o)
  BY <1>1, <1>2, SettleEnds
<1>3. CASE ~Tree!Settle(o)
  <2>1. op' = [op EXCEPT ![o].phase = "lookup"] /\ tracked' = tracked /\ \A p \in op[o].prev : Tree!Settled(p)
    BY <1>3 DEF Tree!Start, Tree!Turn
  <2>2. \A p \in op[o].prev : op[p].phase = "settled"
    <3>1. op[o].prev \subseteq Ops
      BY DEF TreeTyped, Call
    <3>2. QED
      BY <2>1, <3>1 DEF Tree!Settled, TreeConstants
  <2>3. "lookup" \in Phases /\ 0 \in Int
    BY DEF Phases
  <2>4. QED
    BY <1>1, <2>1, <2>2, <2>3, PhaseBecomes
<1>4. QED
  BY <1>2, <1>3

LEMMA LookedUp ==
  ASSUME TreeConstants, TreeTyped, NEW o \in Ops, Tree!Lookup(o)
  PROVE  LET s == op[o].at  r == record[s] IN
         /\ op[o].phase = "lookup" /\ UNCHANGED <<parent, source, files, tracked, used, refresh>>
         /\ \/ /\ UNCHANGED <<sessions, removal>>
               /\ record' = record \/ record' = [record EXCEPT ![s] = Tree!Unknown]
                  \/ (r.kid \notin sessions \cup {None} /\ record' = [record EXCEPT ![s].kid = None, ![s].got = {}])
               /\ \E phase \in {"select", "index"} : Becomes(o, phase, op[o].kid, op[o].chosen, op[o].moved, op[o].held)
            \/ /\ r.kid \in sessions /\ sessions' = sessions \ {r.kid} /\ record' = record
               /\ Tree!StartsRemoval(r.kid)
               /\ Becomes(o, "dropping", r.kid, op[o].chosen, op[o].moved, op[o].held)
<1> DEFINE s == op[o].at  r == record[s]
<1>0. /\ op[o].phase = "lookup" /\ tail' = tail /\ UNCHANGED <<parent, source, files, tracked, used, refresh>>
      /\ op \in [Ops -> Call] /\ s \in Tree!Ids /\ source[s] \in Int /\ r.kid \in Kids \cup {None}
      /\ "select" \in Phases /\ "index" \in Phases
  BY DEF Tree!Lookup, TreeTyped, Call, Phases
<1>1. CASE r.fp = source[s]
  <2>1. /\ UNCHANGED <<sessions, removal>> /\ op' = [op EXCEPT ![o].phase = "select"]
        /\ record' = record \/ (r.kid \notin sessions \cup {None} /\ record' = [record EXCEPT ![s].kid = None, ![s].got = {}])
    BY <1>1 DEF Tree!Lookup
  <2>2. QED
    BY <1>0, <2>1, PhaseBecomes
<1>2. CASE r.fp # source[s] /\ r.kid \in sessions
  <2> DEFINE aborts == Tree!Abort(tracked[r.kid])
             c == [aborts[o] EXCEPT !.phase = "dropping", !.kid = r.kid, !.fp = source[s]]
  <2>1. /\ sessions' = sessions \ {r.kid} /\ Tree!StartsRemoval(r.kid) /\ record' = record
        /\ op' = [aborts EXCEPT ![o] = c]
    BY <1>2 DEF Tree!Lookup
  <2>2. aborts \in [Ops -> Call] /\ \A p \in Ops : SameCall(aborts[p], op[p])
    BY CallsAborted
  <2>3. aborts[o] \in Call
    BY <2>2
  <2> HIDE DEF aborts
  <2>4. /\ c \in Call /\ c.phase = "dropping" /\ c.kid = r.kid /\ c.chosen = aborts[o].chosen /\ c.moved = aborts[o].moved
        /\ c.held = aborts[o].held /\ c.at = aborts[o].at /\ c.prev = aborts[o].prev /\ c.aborted = aborts[o].aborted
    BY <1>0, <2>3 DEF Call, Phases
  <2> HIDE DEF c
  <2>5. op' \in [Ops -> Call] /\ op'[o] = c /\ \A p \in Ops \ {o} : op'[p] = aborts[p]
    BY <2>1, <2>2, <2>4
  <2>6. QED
    BY <1>0, <1>2, <2>1, <2>2, <2>4, <2>5 DEF Becomes, Others, SameCall
<1>3. CASE r.fp # source[s] /\ r.kid \notin sessions
  <2>1. /\ UNCHANGED <<sessions, removal>> /\ op' = [op EXCEPT ![o].phase = "index", ![o].fp = source[s]]
        /\ record' = [record EXCEPT ![s] = Tree!Unknown]
    BY <1>3 DEF Tree!Lookup
  <2>2. QED
    BY <1>0, <2>1, PhaseBecomes
<1>4. QED
  BY <1>1, <1>2, <1>3

LEMMA WasDropped ==
  ASSUME TreeConstants, TreeTyped, NEW o \in Ops, Tree!Dropped(o)
  PROVE  /\ op[o].phase = "dropping" /\ Tree!Removed(op[o].kid)
         /\ UNCHANGED <<sessions, parent, files, source, tracked, used, removal, refresh>>
         /\ record' = [record EXCEPT ![op[o].at] = Tree!Unknown]
         /\ Becomes(o, "index", None, op[o].chosen, op[o].moved, op[o].held)
<1> DEFINE c == [op[o] EXCEPT !.phase = "index", !.kid = None]
<1>1. /\ op[o].phase = "dropping" /\ Tree!Removed(op[o].kid) /\ tail' = tail
      /\ UNCHANGED <<sessions, parent, files, source, tracked, used, removal, refresh>>
      /\ record' = [record EXCEPT ![op[o].at] = Tree!Unknown]
      /\ op \in [Ops -> Call] /\ op[o] \in Call
  BY DEF Tree!Dropped, Tree!tree, TreeTyped
<1>2. /\ c \in Call /\ c.phase = "index" /\ c.kid = None /\ c.chosen = op[o].chosen /\ c.moved = op[o].moved
      /\ c.held = op[o].held /\ c.at = op[o].at /\ c.prev = op[o].prev /\ c.aborted = op[o].aborted
  BY <1>1 DEF Call, Phases
<1>3. op' = [op EXCEPT ![o] = c]
  BY <1>1 DEF Tree!Dropped, Call
<1> HIDE DEF c
<1>4. QED
  BY <1>1, <1>2, <1>3, CallSet DEF Becomes

LEMMA Indexed ==
  ASSUME TreeConstants, TreeTyped, NEW o \in Ops, Tree!Index(o)
  PROVE  /\ op[o].phase = "index" /\ UNCHANGED <<sessions, parent, files, source, tracked, used, removal, refresh>>
         /\ record' = [record EXCEPT ![op[o].at] = [Tree!Unknown EXCEPT !.fp = op[o].fp]]
         /\ Becomes(o, "select", op[o].kid, op[o].chosen, op[o].moved, op[o].held)
<1>1. "select" \in Phases /\ 0 \in Int /\ tail' = tail /\ op' = [op EXCEPT ![o].phase = "select"]
  BY DEF Tree!Index, Phases
<1>2. QED
  BY <1>1, PhaseBecomes DEF Tree!Index, Tree!tree

LEMMA Answered ==
  ASSUME TreeConstants, TreeTyped, NEW o \in Ops, Tree!Answer(o)
  PROVE  op[o].phase = "select" /\ UNCHANGED <<sessions, parent, files, source, record, used, removal, refresh>> /\ Ends(o)
BY SettleEnds DEF Tree!Answer, Tree!tree

LEMMA ReservedFor ==
  ASSUME TreeConstants, TreeTyped, used >= 0, NEW o \in Ops, Tree!Reserve(o)
  PROVE  LET s == op[o].at  r == record[s]  new == op[o].chosen \ r.got IN
         /\ op[o].phase = "select" /\ ~op[o].aborted /\ s \in sessions /\ r.kid \in sessions \cup {None}
         /\ UNCHANGED <<sessions, source, record, files, removal, refresh>>
         /\ \E bytes \in Nat, k \in Kids :
              /\ used + bytes <= MaxBytes /\ used' = used + bytes
              /\ IF r.kid # None THEN k = r.kid ELSE parent[k] = None /\ k \notin sessions
              /\ parent' = [parent EXCEPT ![k] = s]
              /\ tracked' = IF k \in sessions THEN [tracked EXCEPT ![k] = @ \cup {o}] ELSE tracked
              /\ Becomes(o, "extract", k, new, op[o].moved, bytes)
<1> DEFINE s == op[o].at  r == record[s]  new == op[o].chosen \ r.got
<1>1. /\ op[o].phase = "select" /\ ~op[o].aborted /\ s \in sessions /\ r.kid \in sessions \cup {None}
      /\ UNCHANGED <<sessions, source, record, files, removal, refresh, tail>>
      /\ op \in [Ops -> Call] /\ op[o] \in Call /\ r.kid \in Kids \cup {None}
  BY SameCardinality DEF Tree!Reserve, TreeTyped, Call
<1>2. Tree!Selected(o) = new /\ new \in SUBSET Entries
  BY <1>1 DEF Tree!Selected, Call
<1>3. PICK bytes \in {Cardinality(new), MaxBytes - used}, k \in IF r.kid # None THEN {r.kid} ELSE {f \in Kids : parent[f] = None /\ f \notin sessions} :
       /\ Tree!Fits(bytes) /\ used' = used + bytes /\ parent' = [parent EXCEPT ![k] = s]
       /\ tracked' = IF k \in sessions THEN [tracked EXCEPT ![k] = @ \cup {o}] ELSE tracked
       /\ op' = [op EXCEPT ![o] = [@ EXCEPT !.phase = "extract", !.kid = k, !.held = bytes, !.chosen = new]]
  BY <1>2, SameCardinality DEF Tree!Reserve
<1>4. bytes \in Nat /\ used + bytes <= MaxBytes /\ bytes \in 0 .. MaxBytes
  <2>1. IsFiniteSet(new)
    BY <1>2, FS_Subset DEF TreeConstants
  <2>2. Cardinality(new) \in Nat
    BY <2>1, FS_CardinalityType
  <2>3. used \in Int /\ used >= 0 /\ MaxBytes \in Nat
    BY DEF TreeTyped, TreeConstants
  <2>4. bytes \in Int
    BY <1>3, <2>2, <2>3
  <2>5. QED
    BY <1>3, <2>3, <2>4 DEF Tree!Fits
<1>5. k \in Kids /\ (IF r.kid # None THEN k = r.kid ELSE parent[k] = None /\ k \notin sessions)
  BY <1>1, <1>3
<1> DEFINE c == [op[o] EXCEPT !.phase = "extract", !.kid = k, !.held = bytes, !.chosen = new]
<1>6. /\ c \in Call /\ c.phase = "extract" /\ c.kid = k /\ c.chosen = new /\ c.moved = op[o].moved
      /\ c.held = bytes /\ c.at = op[o].at /\ c.prev = op[o].prev /\ c.aborted = op[o].aborted
  BY <1>1, <1>2, <1>4, <1>5 DEF Call, Phases
<1>7. op' = [op EXCEPT ![o] = c]
  BY <1>3
<1> HIDE DEF c, new
<1>8. Becomes(o, "extract", k, new, op[o].moved, bytes)
  BY <1>1, <1>6, <1>7, CallSet DEF Becomes
<1>9. QED
  BY <1>1, <1>3, <1>4, <1>5, <1>8 DEF new

LEMMA WorksOn ==
  ASSUME TreeConstants, TreeTyped, NEW o \in Ops, Tree!Extract(o) \/ Tree!Verify(o)
  PROVE  /\ op[o].phase \in {"extract", "verify"}
         /\ op[o].phase = "extract" => Cardinality(op[o].chosen) <= op[o].held
         /\ UNCHANGED <<sessions, parent, files, source, record, tracked, used, removal, refresh>>
         /\ \E phase \in {"verify", "move"} : Becomes(o, phase, op[o].kid, op[o].chosen, op[o].moved, op[o].held)
<1>1. "verify" \in Phases /\ "move" \in Phases /\ source[op[o].at] \in Int /\ tail' = tail
  BY DEF Tree!Extract, Tree!Verify, Phases, TreeTyped, Call
<1>2. CASE Tree!Extract(o)
  BY <1>1, <1>2, PhaseBecomes, SameCardinality DEF Tree!Extract, Tree!tree
<1>3. CASE Tree!Verify(o)
  BY <1>1, <1>3, PhaseBecomes DEF Tree!Verify, Tree!tree
<1>4. QED
  BY <1>2, <1>3

LEMMA Moved ==
  ASSUME TreeConstants, TreeTyped, NEW o \in Ops, Tree!Move(o)
  PROVE  /\ op[o].phase = "move" /\ UNCHANGED <<sessions, parent, source, record, tracked, used, removal, refresh>>
         /\ \E e \in op[o].chosen :
              /\ files' = [files EXCEPT ![op[o].kid] = @ \cup {e}]
              /\ Becomes(o, "move", op[o].kid, op[o].chosen, op[o].moved \cup {e}, op[o].held)
<1>1. /\ op[o].phase = "move" /\ UNCHANGED <<sessions, parent, source, record, tracked, tail, used, removal, refresh>>
      /\ op \in [Ops -> Call] /\ op[o] \in Call
  BY DEF Tree!Move, TreeTyped
<1>2. PICK e \in op[o].chosen : files' = [files EXCEPT ![op[o].kid] = @ \cup {e}] /\ op' = [op EXCEPT ![o].moved = @ \cup {e}]
  BY DEF Tree!Move
<1> DEFINE c == [op[o] EXCEPT !.moved = op[o].moved \cup {e}]
<1>3. /\ c \in Call /\ c.phase = "move" /\ c.kid = op[o].kid /\ c.chosen = op[o].chosen /\ c.moved = op[o].moved \cup {e}
      /\ c.held = op[o].held /\ c.at = op[o].at /\ c.prev = op[o].prev /\ c.aborted = op[o].aborted
  BY <1>1, <1>2 DEF Call
<1>4. op' = [op EXCEPT ![o] = c]
  BY <1>2
<1> HIDE DEF c
<1>5. QED
  BY <1>1, <1>2, <1>3, <1>4, CallSet DEF Becomes

LEMMA Published ==
  ASSUME TreeConstants, TreeTyped, NEW o \in Ops, Tree!Publish(o)
  PROVE  LET s == op[o].at IN
         /\ op[o].phase = "move" /\ op[o].moved = op[o].chosen /\ Tree!Owned(o) /\ Ends(o)
         /\ sessions' = sessions \cup {op[o].kid} /\ UNCHANGED <<parent, source, files, removal, refresh>>
         /\ record' = [record EXCEPT ![s].kid = op[o].kid, ![s].got = @ \cup op[o].chosen]
         /\ used' = used - (op[o].held - Cardinality(op[o].chosen))
BY SettleEnds, SameCardinality DEF Tree!Publish, Tree!MayPublish

LEMMA Failed ==
  ASSUME TreeConstants, TreeTyped, NEW o \in Ops, Tree!Fail(o)
  PROVE  LET s == op[o].at  k == op[o].kid IN
         /\ Tree!Running(o) /\ op[o].phase # "dropping" /\ Ends(o) /\ UNCHANGED <<sessions, parent, source, removal, refresh>>
         /\ files' = Tree!Undo(o) /\ used' = used - op[o].held
         /\ \/ record' = record
            \/ record' = [record EXCEPT ![s].kid = None, ![s].got = {}] /\ (Working(o) => record[s].kid = k /\ k \notin sessions)
BY SettleEnds DEF Tree!Fail, Working
-----------------------------------------------------------------------------
LEMMA AbortsOnly ==
  ASSUME TreeTyped, NEW set, op' = Tree!Abort(set)
  PROVE  NoCallMoves /\ \A o \in Ops : o \in set => op'[o].aborted
BY CallsAborted DEF NoCallMoves

LEMMA StartsLeaving ==
  ASSUME TreeTyped, NEW x \in sessions, sessions' = sessions \ {x}, Tree!StartsRemoval(x),
         UNCHANGED <<parent, source, record, files, tracked, tail, used>>
  PROVE  LeavesStore(x)
<1>1. x \in Tree!Ids /\ tracked[x] \in SUBSET Calls
  BY DEF TreeTyped
<1> DEFINE new == [phase |-> "children", on |-> None, waits |-> tracked[x]]
<1>2. /\ new \in [phase : {"none", "children", "gone"}, on : Kids \cup {None}, waits : SUBSET Calls]
      /\ new.phase = "children" /\ new.waits = tracked[x]
  BY <1>1
<1>3. removal' = [removal EXCEPT ![x] = new]
  BY DEF Tree!StartsRemoval
<1> HIDE DEF new
<1>4. QED
  BY <1>1, <1>2, <1>3 DEF LeavesStore, TreeTyped

LEMMA RefreshTold ==
  ASSUME TreeTyped, NEW told \in BOOLEAN, refresh' = [refresh EXCEPT !.aborted = @ \/ told]
  PROVE  /\ refresh' \in [phase : {"idle", "draining", "dropping", "work", "publish"}, aborted : BOOLEAN,
                          waits : SUBSET Calls, drops : SUBSET Kids, on : Kids \cup {None}]
         /\ refresh'.phase = refresh.phase /\ refresh'.drops = refresh.drops
         /\ refresh.aborted \/ told => refresh'.aborted
BY DEF TreeTyped

LEMMA RemoveFacts ==
  ASSUME TreeTyped, NEW x \in Tree!Ids, Tree!Remove(x)
  PROVE  LeavesStore(x) /\ NoCallMoves /\ refresh' = [refresh EXCEPT !.aborted = @ \/ Tree!Refreshing \in tracked[x]]
BY StartsLeaving, AbortsOnly DEF Tree!Remove, Tree!Leaves

LEMMA RemoveChildFacts ==
  ASSUME TreeConstants, TreeTyped, Tree!RemovedForGood, parent[Root] = None, NEW s \in Tree!Ids, Tree!RemoveChild(s)
  PROVE  \E c \in sessions : /\ LeavesStore(c) /\ NoCallMoves /\ c # Root /\ c # s
                             /\ refresh' = [refresh EXCEPT !.aborted = @ \/ Tree!Refreshing \in tracked[c]]
<1>1. PICK c \in Tree!Children(s) :
       /\ Tree!Leaves(c)
       /\ removal' = [removal EXCEPT ![s].on = c, ![c] = [phase |-> "children", on |-> None, waits |-> tracked[c]]]
       /\ UNCHANGED <<parent, source, record, files, tracked, tail, used>>
  BY DEF Tree!RemoveChild
<1>2. c \in sessions /\ c \in Kids /\ c # s /\ tracked[c] \in SUBSET Calls /\ removal[s].phase = "children"
  BY <1>1 DEF Tree!Children, Tree!RemoveChild, TreeTyped, Tree!RemovedForGood, TreeConstants, Tree!Ids
<1> DEFINE Removals == [phase : {"none", "children", "gone"}, on : Kids \cup {None}, waits : SUBSET Calls]
           on == [removal[s] EXCEPT !.on = c]
           new == [phase |-> "children", on |-> None, waits |-> tracked[c]]
<1>3. removal \in [Tree!Ids -> Removals] /\ removal[s] \in Removals
  BY DEF TreeTyped
<1>4. on \in Removals /\ on.phase = removal[s].phase /\ on.waits = removal[s].waits
  BY <1>2, <1>3
<1>5. new \in Removals /\ new.phase = "children" /\ new.waits = tracked[c]
  BY <1>2
<1>6. removal' = [removal EXCEPT ![s] = on, ![c] = new]
  BY <1>1
<1> HIDE DEF on, new, Removals
<1>7. /\ removal' \in [Tree!Ids -> Removals] /\ removal'[c] = new /\ removal'[s] = on
      /\ \A k \in Tree!Ids \ {c, s} : removal'[k] = removal[k]
  BY <1>2, <1>3, <1>4, <1>5, <1>6 DEF Tree!Ids
<1>8. LeavesStore(c)
  BY <1>1, <1>2, <1>4, <1>5, <1>7 DEF LeavesStore, Tree!Leaves, Removals
<1>9. NoCallMoves
  BY <1>1, AbortsOnly DEF Tree!Leaves
<1>10. QED
  BY <1>1, <1>2, <1>8, <1>9 DEF Tree!Leaves, TreeConstants

LEMMA RefreshDropFacts ==
  ASSUME TreeConstants, TreeTyped, Tree!RefreshDrop
  PROVE  /\ refresh.phase = "dropping" /\ UNCHANGED <<parent, source, record, files, tracked, tail, used>> /\ NoCallMoves
         /\ \E c \in refresh.drops, on \in Kids \cup {None} :
              /\ refresh' = [refresh EXCEPT !.drops = @ \ {c}, !.on = on]
              /\ \/ LeavesStore(c)
                 \/ c \notin sessions /\ UNCHANGED <<sessions, op, removal>>
<1>1. refresh.phase = "dropping" /\ UNCHANGED <<parent, source, record, files, tracked, tail, used>>
  BY DEF Tree!RefreshDrop
<1>2. PICK c \in refresh.drops :
       IF c \in sessions
       THEN /\ sessions' = sessions \ {c} /\ op' = Tree!Abort(tracked[c]) /\ Tree!StartsRemoval(c)
            /\ refresh' = [refresh EXCEPT !.drops = @ \ {c}, !.on = c]
       ELSE /\ refresh' = [refresh EXCEPT !.drops = @ \ {c}, !.on = None]
            /\ UNCHANGED <<sessions, op, removal>>
  BY DEF Tree!RefreshDrop
<1>3. c \in Kids
  BY DEF TreeTyped
<1>4. CASE c \in sessions
  BY <1>1, <1>2, <1>3, <1>4, StartsLeaving, AbortsOnly
<1>5. CASE c \notin sessions
  <2>1. NoCallMoves
    BY <1>2, <1>5 DEF NoCallMoves, SameCall, TreeTyped
  <2>2. QED
    BY <1>1, <1>2, <1>5, <2>1
<1>6. QED
  BY <1>4, <1>5

LEMMA RemoveFilesFacts ==
  ASSUME TreeTyped, NEW s \in Tree!Ids, Tree!RemoveFiles(s)
  PROVE  /\ Tree!Drained(s) /\ UNCHANGED <<sessions, parent, source, record, op, tracked, tail, used, refresh>> /\ NoCallMoves
         /\ removal' \in [Tree!Ids -> [phase : {"none", "children", "gone"}, on : Kids \cup {None}, waits : SUBSET Calls]]
         /\ removal'[s].phase = "gone" /\ \A k \in Tree!Ids \ {s} : removal'[k] = removal[k]
         /\ files' \in [Tree!Ids -> SUBSET Entries] /\ \A k \in Tree!Ids : files'[k] = IF k \in Tree!Under(s) THEN {} ELSE files[k]
<1> DEFINE Removals == [phase : {"none", "children", "gone"}, on : Kids \cup {None}, waits : SUBSET Calls]
           new == [removal[s] EXCEPT !.phase = "gone"]
<1>1. removal \in [Tree!Ids -> Removals] /\ removal[s] \in Removals /\ op \in [Ops -> Call] /\ files \in [Tree!Ids -> SUBSET Entries]
  BY DEF TreeTyped
<1>2. new \in Removals /\ new.phase = "gone"
  BY <1>1
<1>3. removal' = [removal EXCEPT ![s] = new]
  BY DEF Tree!RemoveFiles
<1>4. UNCHANGED <<sessions, parent, source, record, op, tracked, tail, used, refresh>> /\ Tree!Drained(s)
  BY DEF Tree!RemoveFiles
<1> HIDE DEF new, Removals
<1>5. removal' \in [Tree!Ids -> Removals] /\ removal'[s] = new /\ \A k \in Tree!Ids \ {s} : removal'[k] = removal[k]
  BY <1>1, <1>2, <1>3
<1>6. NoCallMoves
  BY <1>1, <1>4 DEF NoCallMoves, SameCall
<1>7. files' \in [Tree!Ids -> SUBSET Entries] /\ \A k \in Tree!Ids : files'[k] = IF k \in Tree!Under(s) THEN {} ELSE files[k]
  BY <1>1 DEF Tree!RemoveFiles
<1>8. QED
  BY <1>2, <1>4, <1>5, <1>6, <1>7 DEF Removals

LEMMA CancelFacts ==
  ASSUME TreeTyped, NEW o \in Ops, Tree!Cancel(o)
  PROVE  UNCHANGED <<sessions, parent, files, source, record, tracked, tail, used, removal, refresh>> /\ NoCallMoves
<1> DEFINE c == [op[o] EXCEPT !.aborted = TRUE]
<1>1. op \in [Ops -> Call] /\ op[o] \in Call
  BY DEF TreeTyped
<1>2. c \in Call /\ SameCall(c, op[o])
  BY <1>1 DEF Call, SameCall
<1>3. op' = [op EXCEPT ![o] = c] /\ UNCHANGED <<sessions, parent, files, source, record, tracked, tail, used, removal, refresh>>
  BY DEF Tree!Cancel, Tree!tree
<1> HIDE DEF c
<1>4. QED
  BY <1>1, <1>2, <1>3, CallSet DEF NoCallMoves, Others

LEMMA RefreshFacts ==
  ASSUME TreeConstants, TreeTyped, Tree!Refresh
  PROVE  /\ ~Tree!Busy /\ Root \in sessions /\ UNCHANGED <<sessions, parent, files, source, record, tail, used, removal>>
         /\ NoCallMoves /\ (Tree!Available(Root) /\ Root \in Tree!Under(Root) => \A o \in Ops : o \in tracked[Root] => op'[o].aborted)
         /\ tracked' = [tracked EXCEPT ![Root] = @ \cup {Tree!Refreshing}]
         /\ refresh' \in [phase : {"draining"}, aborted : {FALSE}, waits : SUBSET Calls, drops : {Tree!Children(Root)}, on : {None}]
<1> DEFINE waits == UNION {tracked[s] : s \in Tree!Owns}
<1>1. /\ ~Tree!Busy /\ Root \in sessions /\ UNCHANGED <<sessions, parent, files, source, record, tail, used, removal>>
      /\ refresh' = [phase |-> "draining", aborted |-> FALSE, waits |-> waits, drops |-> Tree!Children(Root), on |-> None]
      /\ op' = Tree!Abort(waits) /\ tracked' = [tracked EXCEPT ![Root] = @ \cup {Tree!Refreshing}]
  BY DEF Tree!Refresh, Tree!tree
<1>2. NoCallMoves /\ \A o \in Ops : o \in waits => op'[o].aborted
  BY <1>1, AbortsOnly
<1>3. waits \in SUBSET Calls
  BY DEF Tree!Owns, TreeTyped
<1>4. Tree!Available(Root) /\ Root \in Tree!Under(Root) => tracked[Root] \subseteq waits
  BY <1>1 DEF Tree!Owns
<1> HIDE DEF waits
<1>5. QED
  BY <1>1, <1>2, <1>3, <1>4
-----------------------------------------------------------------------------
LEMMA BecomesMoves ==
  ASSUME NEW o \in Ops, NEW phase \in Phases \ {"idle", "queued", "settled"}, NEW kid, NEW asked, NEW moved, NEW held,
         Becomes(o, phase, kid, asked, moved, held), InProgress(o),
         Tree!Running(o) \/ \A p \in op[o].prev : op[p].phase = "settled"
  PROVE  CallMoves(o)
BY DEF Becomes, CallMoves

LEMMA CallStep ==
  ASSUME TreeConstants, TreeTyped, used >= 0, NEW o \in Ops, Tree!OpStep(o)
  PROVE  CallMoves(o)
<1> USE DEF InProgress, Tree!Running, Phases
<1>0. ASSUME Ends(o), InProgress(o)
      PROVE  CallMoves(o)
  BY <1>0 DEF Ends, CallMoves
<1>1. CASE Tree!Start(o)
  BY <1>0, <1>1, Started, BecomesMoves
<1>2. CASE Tree!Lookup(o)
  BY <1>2, LookedUp, BecomesMoves
<1>3. CASE Tree!Dropped(o)
  BY <1>3, WasDropped, BecomesMoves
<1>4. CASE Tree!Index(o)
  BY <1>4, Indexed, BecomesMoves
<1>5. CASE Tree!Answer(o)
  BY <1>0, <1>5, Answered
<1>6. CASE Tree!Reserve(o)
  BY <1>6, ReservedFor, BecomesMoves
<1>7. CASE Tree!Extract(o) \/ Tree!Verify(o)
  BY <1>7, WorksOn, BecomesMoves
<1>8. CASE Tree!Move(o)
  BY <1>8, Moved, BecomesMoves
<1>9. CASE Tree!Publish(o)
  BY <1>0, <1>9, Published
<1>10. CASE Tree!Fail(o)
  BY <1>0, <1>10, Failed
<1>11. QED
  BY <1>1, <1>2, <1>3, <1>4, <1>5, <1>6, <1>7, <1>8, <1>9, <1>10 DEF Tree!OpStep

LEMMA OtherCalls ==
  ASSUME TreeConstants, TreeTyped, Tree!RemovedForGood, parent[Root] = None, OtherStep
  PROVE  NoCallMoves
<1>1. ASSUME op' = op
      PROVE  NoCallMoves
  BY <1>1 DEF NoCallMoves, SameCall, TreeTyped
<1>2. ASSUME NEW s \in Tree!Ids, Tree!Remove(s) \/ Tree!RemoveChild(s) \/ Tree!RemoveFiles(s) \/ Tree!Change(s)
      PROVE  NoCallMoves
  <2>1. CASE Tree!Change(s)
    BY <1>1, <2>1 DEF Tree!Change
  <2>2. QED
    BY <1>2, <2>1, RemoveFacts, RemoveChildFacts, RemoveFilesFacts
<1>3. CASE Tree!RefreshStep
  <2>1. CASE Tree!RefreshDrop
    BY <2>1, RefreshDropFacts
  <2>2. CASE ~Tree!RefreshDrop
    BY <1>1, <1>3, <2>2 DEF Tree!RefreshStep, Tree!RefreshDrained, Tree!RefreshClear, Tree!RefreshReplace, Tree!RefreshPublish, Tree!RefreshFails
  <2>3. QED
    BY <2>1, <2>2
<1>4. QED
  BY <1>2, <1>3, CancelFacts, RefreshFacts DEF OtherStep

LEMMA Asked ==
  ASSUME TreeConstants, TreeTyped, NEW o \in Ops, Tree!Ask(o)
  PROVE  \E s \in sessions :
           /\ op[o].phase = "idle" /\ ~Tree!Busy /\ Others(o)
           /\ op'[o].phase = "queued" /\ op'[o].at = s /\ op'[o].prev = tail
           /\ op'[o].kid = None /\ op'[o].moved = {} /\ op'[o].held = 0
           /\ tracked' = [tracked EXCEPT ![s] = @ \cup {o}]
           /\ tail' = {p \in tail : op[p].phase # "settled"} \cup {o}
           /\ UNCHANGED <<sessions, parent, files, source, record, used, removal, refresh>>
<1>1. PICK s \in sessions, c \in Picks :
       /\ Tree!Admitted(s)
       /\ op' = [op EXCEPT ![o] = [Tree!NoOp EXCEPT !.phase = "queued", !.at = s, !.prev = tail, !.chosen = c,
                   !.expected = IF record[s] = Tree!Unknown THEN source[s] ELSE record[s].fp]]
       /\ tracked' = [tracked EXCEPT ![s] = @ \cup {o}]
  BY DEF Tree!Ask
<1> DEFINE expected == IF record[s] = Tree!Unknown THEN source[s] ELSE record[s].fp
           c1 == [Tree!NoOp EXCEPT !.phase = "queued", !.at = s, !.prev = tail, !.chosen = c, !.expected = expected]
<1>2. s \in Tree!Ids /\ c \in SUBSET Entries /\ tail \in SUBSET Ops /\ expected \in Int
  BY <1>1 DEF TreeTyped, TreeConstants
<1>3. Tree!NoOp \in Call
  BY DEF Tree!NoOp, Call, Phases, Tree!Ids, TreeConstants
<1>4. op' = [op EXCEPT ![o] = c1]
  BY <1>1
<1> HIDE DEF expected
<1>5. /\ c1 \in Call /\ c1.phase = "queued" /\ c1.at = s /\ c1.prev = tail /\ c1.kid = Tree!NoOp.kid /\ c1.moved = Tree!NoOp.moved
      /\ c1.held = Tree!NoOp.held
  BY <1>2, <1>3 DEF Call, Phases
<1>6. Tree!NoOp.kid = None /\ Tree!NoOp.moved = {} /\ Tree!NoOp.held = 0
  BY DEF Tree!NoOp
<1> HIDE DEF c1
<1>7. op'[o] = c1 /\ Others(o)
  BY <1>4, <1>5, CallSet
<1>8. tail' = {p \in tail : op[p].phase # "settled"} \cup {o}
  BY <1>2 DEF Tree!Ask, Tree!Settled, TreeConstants
<1>9. UNCHANGED <<sessions, parent, files, source, record, used, removal, refresh>> /\ op[o].phase = "idle"
  BY DEF Tree!Ask, Tree!tree
<1>10. ~Tree!Busy
  BY <1>1 DEF Tree!Admitted
<1>11. QED
  BY <1>1, <1>5, <1>6, <1>7, <1>8, <1>9, <1>10

-----------------------------------------------------------------------------
\* The order of the calls.
LEMMA TurnsKept ==
  ASSUME TreeConstants, TreeTyped, used >= 0, Tree!RemovedForGood, parent[Root] = None, InTurn, Tree!Next
  PROVE  InTurn'
<1> USE DEF InProgress, Tree!Running
<1>1. ASSUME NoCallMoves, tail' = tail \/ \A o \in Ops : ~InProgress(o)
      PROVE  InTurn'
  BY <1>1 DEF InTurn, NoCallMoves, SameCall, TreeTyped, Call
<1>2. CASE OtherStep
  <2>1. CASE Tree!RefreshClear
    <3>1. \A o \in tail : Tree!Settled(o)
      BY <2>1 DEF Tree!RefreshClear, Tree!TailEnded
    <3>2. \A o \in Ops : ~InProgress(o)
      BY <3>1 DEF InTurn, Tree!Settled, TreeConstants
    <3>3. QED
      BY <1>1, <1>2, <3>2, OtherCalls
  <2>2. CASE ~Tree!RefreshClear
    <3>1. tail' = tail
      BY <1>2, <2>2, RefreshDropFacts DEF OtherStep, Tree!Remove, Tree!RemoveChild, Tree!RemoveFiles, Tree!Change, Tree!Cancel, Tree!Refresh, Tree!RefreshStep, Tree!RefreshDrained,
           Tree!RefreshReplace, Tree!RefreshPublish, Tree!RefreshFails
    <3>2. QED
      BY <1>1, <1>2, <3>1, OtherCalls
  <2>3. QED
    BY <2>1, <2>2
<1>3. ASSUME NEW o \in Ops, Tree!OpStep(o)
      PROVE  InTurn'
  <2>1. CallMoves(o)
    BY <1>3, CallStep
  <2>2. \A p \in Ops \ {o} : op'[p].phase = op[p].phase /\ op'[p].prev = op[p].prev
    BY <2>1 DEF CallMoves, Others, SameCall
  <2>3. op'[o].phase # "idle" /\ (op'[o].phase # "settled" => op'[o].prev = op[o].prev)
    BY <2>1 DEF CallMoves
  <2>4. \A p \in Ops : op[p].prev \subseteq Ops
    BY DEF TreeTyped, Call
  <2>5. \A p \in Ops : op[p].phase = "settled" => op'[p].phase = "settled"
    BY <2>1, <2>2 DEF CallMoves
  <2>6. InProgress(o) /\ tail' = tail
    BY <2>1 DEF CallMoves
  <2>7. \A p \in Ops : Tree!Running(p)' => \A q \in op'[p].prev : op'[q].phase = "settled"
    <3>1. Tree!Running(o)' => \A q \in op[o].prev : op[q].phase = "settled"
      BY <2>1 DEF CallMoves, InTurn
    <3>2. QED
      BY <2>2, <2>3, <2>4, <2>5, <3>1 DEF InTurn
  <2>8. \A a, b \in Ops : InProgress(a)' /\ InProgress(b)' /\ a # b => a \in op'[b].prev \/ b \in op'[a].prev
    BY <2>2, <2>3, <2>6 DEF InTurn
  <2>9. QED
    BY <2>2, <2>6, <2>7, <2>8 DEF InTurn
<1>4. ASSUME NEW o \in Ops, Tree!Ask(o)
      PROVE  InTurn'
  <2>1. /\ op[o].phase = "idle" /\ op'[o].phase = "queued" /\ op'[o].prev = tail
        /\ tail' = {p \in tail : op[p].phase # "settled"} \cup {o}
        /\ \A p \in Ops \ {o} : op'[p].phase = op[p].phase /\ op'[p].prev = op[p].prev
    BY <1>4, Asked DEF Others, SameCall
  <2>2. \A p \in Ops : op[p].prev \subseteq Ops
    BY DEF TreeTyped, Call
  <2>3. QED
    BY <2>1, <2>2 DEF InTurn
<1>5. QED
  BY <1>2, <1>3, <1>4 DEF Tree!Next, OtherStep

\* At most one call runs, and while one runs no other has anything in its hands.
LEMMA OneRuns ==
  ASSUME TreeTyped, InTurn, NEW a \in Ops, NEW b \in Ops, Tree!Running(a), Tree!Running(b)
  PROVE  a = b
BY DEF InTurn, InProgress, Tree!Running
-----------------------------------------------------------------------------
\* Some call publishes its child.
Publishes == \E o \in Ops : Tree!Publish(o)

\* What is known of the archives stays, or is forgotten with what came of it.
Forgets ==
  \A s \in Tree!Ids : \/ record'[s].kid = record[s].kid /\ record'[s].got = record[s].got
                      \/ record'[s].kid = None /\ record'[s].got = {}

RecordType == [fp : Int, kid : Kids \cup {None}, got : SUBSET Entries]

LEMMA ForgetOne ==
  ASSUME TreeTyped, NEW s \in Tree!Ids, NEW r \in RecordType, r.kid = None, r.got = {}, record' = [record EXCEPT ![s] = r]
  PROVE  record' \in [Tree!Ids -> RecordType] /\ Forgets
BY DEF TreeTyped, RecordType, Forgets

LEMMA ForgetChild ==
  ASSUME TreeTyped, NEW s \in Tree!Ids, record' = [record EXCEPT ![s].kid = None, ![s].got = {}]
  PROVE  record' \in [Tree!Ids -> RecordType] /\ Forgets
<1> DEFINE r == [record[s] EXCEPT !.kid = None, !.got = {}]
<1>1. record \in [Tree!Ids -> RecordType] /\ record[s] \in RecordType
  BY DEF TreeTyped, RecordType
<1>2. r \in RecordType /\ r.kid = None /\ r.got = {}
  BY <1>1 DEF RecordType
<1>3. record' = [record EXCEPT ![s] = r]
  BY <1>1 DEF RecordType
<1> HIDE DEF r
<1>4. QED
  BY <1>2, <1>3, ForgetOne

LEMMA UnknownRecord ==
  /\ Tree!Unknown \in RecordType /\ Tree!Unknown.kid = None /\ Tree!Unknown.got = {}
  /\ \A fp \in Int : [Tree!Unknown EXCEPT !.fp = fp] \in RecordType /\ [Tree!Unknown EXCEPT !.fp = fp].kid = None /\ [Tree!Unknown EXCEPT !.fp = fp].got = {}
BY DEF Tree!Unknown, RecordType

LEMMA RecordStep ==
  ASSUME TreeConstants, TreeTyped, used >= 0, Tree!RemovedForGood, parent[Root] = None, Tree!Next, ~Publishes
  PROVE  record' \in [Tree!Ids -> RecordType] /\ Forgets
<1>1. ASSUME record' = record
      PROVE  record' \in [Tree!Ids -> RecordType] /\ Forgets
  BY <1>1 DEF TreeTyped, Forgets, RecordType
<1>2. ASSUME NEW s \in Tree!Ids, record' = [record EXCEPT ![s] = Tree!Unknown]
      PROVE  record' \in [Tree!Ids -> RecordType] /\ Forgets
  BY <1>2, ForgetOne, UnknownRecord
<1>3. Root \in Tree!Ids /\ \A o \in Ops : op[o].at \in Tree!Ids /\ op[o].fp \in Int
  BY DEF Tree!Ids, TreeTyped, Call
<1>4. ASSUME NEW o \in Ops, Tree!OpStep(o)
      PROVE  record' \in [Tree!Ids -> RecordType] /\ Forgets
  <2>1. CASE Tree!Start(o) \/ Tree!Answer(o) \/ Tree!Reserve(o) \/ Tree!Extract(o) \/ Tree!Verify(o) \/ Tree!Move(o)
    <3>1. record' = record
      BY <2>1 DEF Tree!Start, Tree!Answer, Tree!Reserve, Tree!Extract, Tree!Verify, Tree!Move
    <3>2. QED
      BY <1>1, <3>1
  <2>2. CASE Tree!Lookup(o)
    BY <1>1, <1>2, <1>3, <2>2, LookedUp, ForgetChild
  <2>3. CASE Tree!Dropped(o)
    BY <1>2, <1>3, <2>3, WasDropped
  <2>4. CASE Tree!Index(o)
    <3> DEFINE r == [Tree!Unknown EXCEPT !.fp = op[o].fp]
    <3>1. r \in RecordType /\ r.kid = None /\ r.got = {}
      BY <1>3, UnknownRecord
    <3>2. record' = [record EXCEPT ![op[o].at] = r]
      BY <2>4, Indexed
    <3> HIDE DEF r
    <3>3. QED
      BY <1>3, <3>1, <3>2, ForgetOne
  <2>5. CASE Tree!Fail(o)
    BY <1>1, <1>3, <2>5, Failed, ForgetChild
  <2>6. QED
    BY <1>4, <2>1, <2>2, <2>3, <2>4, <2>5 DEF Tree!OpStep, Publishes
<1>5. CASE Tree!RefreshClear
  BY <1>2, <1>3, <1>5 DEF Tree!RefreshClear
<1>6. CASE OtherStep /\ ~Tree!RefreshClear
  <2>1. record' = record
    BY <1>6, RefreshDropFacts DEF OtherStep, Tree!Remove, Tree!RemoveChild, Tree!RemoveFiles, Tree!Change, Tree!Cancel, Tree!Refresh, Tree!RefreshStep, Tree!RefreshDrained,
           Tree!RefreshReplace, Tree!RefreshPublish, Tree!RefreshFails
  <2>2. QED
    BY <1>1, <2>1
<1>7. CASE \E o \in Ops : Tree!Ask(o)
  BY <1>1, <1>7 DEF Tree!Ask
<1>8. QED
  BY <1>4, <1>5, <1>6, <1>7 DEF Tree!Next, OtherStep

\* Parents are given once, to identifiers out of the store.
LEMMA ParentStep ==
  ASSUME TreeConstants, TreeTyped, used >= 0, Family, Tree!Next
  PROVE  /\ parent' \in [Tree!Ids -> Tree!Ids \cup {None}]
         /\ \A x \in Tree!Ids : parent[x] # None \/ x \in sessions => parent'[x] = parent[x]
         /\ parent' = parent \/ \E o \in Ops : Tree!Reserve(o)
<1>1. ASSUME NEW o \in Ops, Tree!Reserve(o)
      PROVE  /\ parent' \in [Tree!Ids -> Tree!Ids \cup {None}]
             /\ \A x \in Tree!Ids : parent[x] # None \/ x \in sessions => parent'[x] = parent[x]
  <2> DEFINE s == op[o].at
  <2>1. PICK k \in Kids :
          /\ IF record[s].kid # None THEN k = record[s].kid ELSE parent[k] = None /\ k \notin sessions
          /\ parent' = [parent EXCEPT ![k] = s]
    BY <1>1, ReservedFor
  <2>2. s \in Tree!Ids /\ k \in Tree!Ids
    BY <2>1 DEF TreeTyped, Call, Tree!Ids
  <2>3. record[s].kid # None => parent[record[s].kid] = s
    BY <2>2 DEF Family
  <2>4. QED
    BY <2>1, <2>2, <2>3 DEF TreeTyped
<1>2. CASE ~\E o \in Ops : Tree!Reserve(o)
  <2>1. parent' = parent
    BY <1>2, RefreshDropFacts DEF Tree!Next, Tree!OpStep, Tree!Start, Tree!Lookup, Tree!Dropped, Tree!Index, Tree!Answer, Tree!Extract, Tree!Verify, Tree!Move, Tree!Publish, Tree!Fail, Tree!Ask, Tree!Remove,
       Tree!RemoveChild, Tree!RemoveFiles, Tree!Change, Tree!Cancel, Tree!Refresh, Tree!RefreshStep, Tree!RefreshDrained, Tree!RefreshClear, Tree!RefreshReplace,
       Tree!RefreshPublish, Tree!RefreshFails, Tree!tree
  <2>2. QED
    BY <2>1 DEF TreeTyped
<1>3. QED
  BY <1>1, <1>2

\* Who leaves the store, and who enters it.
LEMMA StoreStep ==
  ASSUME TreeConstants, TreeTyped, used >= 0, Tree!RemovedForGood, Refreshed, parent[Root] = None, Tree!Next
  PROVE  /\ ~Publishes => sessions' \subseteq sessions
         /\ \/ \E x \in sessions : LeavesStore(x)
            \/ removal' = removal /\ (sessions' = sessions \/ Publishes)
            \/ \E s \in Tree!Ids : Tree!RemoveFiles(s)
<1>1. ASSUME NEW x \in sessions, LeavesStore(x)
      PROVE  sessions' \subseteq sessions
  BY <1>1 DEF LeavesStore
<1>2. ASSUME NEW s \in Tree!Ids, Tree!Remove(s) \/ Tree!RemoveChild(s)
      PROVE  \E x \in sessions : LeavesStore(x)
  BY <1>2, RemoveFacts, RemoveChildFacts DEF Tree!Remove
<1>3. ASSUME NEW s \in Tree!Ids, Tree!RemoveFiles(s)
      PROVE  sessions' = sessions
  BY <1>3 DEF Tree!RemoveFiles
<1>4. ASSUME NEW o \in Ops, Tree!Lookup(o)
      PROVE  \/ UNCHANGED <<sessions, removal>>
             \/ \E x \in sessions : LeavesStore(x)
  BY <1>4, LookedUp, StartsLeaving DEF Becomes
<1>5. CASE Tree!RefreshDrop
  BY <1>1, <1>5, RefreshDropFacts DEF LeavesStore
<1>6. CASE Tree!RefreshPublish
  <2>1. removal' = removal /\ sessions' = sessions \cup {Root} /\ Tree!Busy /\ ~refresh.aborted
    BY <1>6 DEF Tree!RefreshPublish, Tree!RefreshMayPublish, Tree!Busy
  <2>2. Root \in sessions
    BY <2>1 DEF Refreshed
  <2>3. QED
    BY <2>1, <2>2
<1>7. CASE \E o \in Ops : Tree!Publish(o)
  BY <1>7 DEF Tree!Publish, Publishes
<1>8. CASE \/ \E s \in Tree!Ids : Tree!Change(s)
           \/ \E o \in Ops : \/ Tree!Ask(o) \/ Tree!Cancel(o) \/ Tree!Start(o) \/ Tree!Dropped(o) \/ Tree!Index(o) \/ Tree!Answer(o) \/ Tree!Reserve(o) \/ Tree!Extract(o)
                             \/ Tree!Verify(o) \/ Tree!Move(o) \/ Tree!Fail(o)
           \/ Tree!Refresh \/ Tree!RefreshDrained \/ Tree!RefreshClear \/ Tree!RefreshReplace \/ Tree!RefreshFails
  <2>1. UNCHANGED <<sessions, removal>>
    BY <1>8 DEF Tree!Change, Tree!Ask, Tree!Cancel, Tree!Start, Tree!Dropped, Tree!Index, Tree!Answer, Tree!Reserve, Tree!Extract, Tree!Verify, Tree!Move, Tree!Fail, Tree!Refresh, Tree!RefreshDrained, Tree!RefreshClear,
       Tree!RefreshReplace, Tree!RefreshFails, Tree!tree
  <2>2. QED
    BY <2>1
<1>9. QED
  BY <1>1, <1>2, <1>3, <1>4, <1>5, <1>6, <1>7, <1>8 DEF Tree!Next, Tree!OpStep, Tree!RefreshStep
-----------------------------------------------------------------------------
\* A chain that is held stays held when only parents are given.
LEMMA HoldsBefore ==
  ASSUME NEW set \in SUBSET Tree!Ids, NEW s, Tree!Holds(set, s)', \A x \in set : parent[x] # None => parent'[x] = parent[x]
  PROVE  Tree!Holds(set, s)
BY DEF Tree!Holds

LEMMA UnderGrows ==
  ASSUME \A x \in Tree!Ids : parent[x] # None => parent'[x] = parent[x], NEW s \in Tree!Ids, NEW k \in Tree!Under(s)
  PROVE  k \in Tree!Under(s)'
<1>1. k \in Tree!Ids /\ \A set \in SUBSET (Tree!Ids \ {s}) : ~Tree!Holds(set, k)
  BY DEF Tree!Under
<1>2. ASSUME NEW set \in SUBSET (Tree!Ids \ {s})
      PROVE  ~Tree!Holds(set, k)'
  BY <1>1, HoldsBefore
<1>3. QED
  BY <1>1, <1>2 DEF Tree!Under

\* What leaves the store takes with it what it holds, and nothing becomes available.
LEMMA AvailableBefore ==
  ASSUME TreeTyped, sessions' \subseteq sessions, \A x \in sessions : parent'[x] = parent[x], NEW s, Tree!Available(s)'
  PROVE  Tree!Available(s)
<1>1. PICK set \in SUBSET sessions' : Tree!Holds(set, s)'
  BY DEF Tree!Available
<1>2. Tree!Holds(set, s)
  BY <1>1, HoldsBefore DEF TreeTyped
<1>3. QED
  BY <1>1, <1>2 DEF Tree!Available

LEMMA AvailableParent ==
  ASSUME NEW k, Tree!Available(k), parent[k] # None
  PROVE  Tree!Available(parent[k]) /\ k \in sessions
BY DEF Tree!Available, Tree!Holds

LEMMA AvailableChild ==
  ASSUME NEW k \in sessions, Tree!Available(parent[k])
  PROVE  Tree!Available(k)
<1>1. PICK set \in SUBSET sessions : Tree!Holds(set, parent[k])
  BY DEF Tree!Available
<1>2. Tree!Holds(set \cup {k}, k)
  BY <1>1 DEF Tree!Holds
<1>3. QED
  BY <1>1, <1>2 DEF Tree!Available

\* What is under a session that has left is not available.
LEMMA UnderGone ==
  ASSUME TreeTyped, NEW s \in Tree!Ids, s \notin sessions, NEW k \in Tree!Under(s)
  PROVE  ~Tree!Available(k)
BY DEF Tree!Under, Tree!Available, TreeTyped

LEMMA RootUnder ==
  ASSUME TreeConstants, Family, Root \in sessions
  PROVE  Tree!Available(Root) /\ Root \in Tree!Under(Root)
<1>1. Root \in Tree!Ids /\ parent[Root] = None
  BY DEF Tree!Ids, Family
<1>2. Tree!Holds({Root}, Root)
  BY <1>1 DEF Tree!Holds
<1>3. QED
  BY <1>1, <1>2 DEF Tree!Available, Family

\* The child of a call at work, once it is published, has not changed who is available.
LEMMA PublishedAvailable ==
  ASSUME TreeConstants, TreeTyped, Family, OwnChild, NEW o \in Ops, Working(o), Tree!Owned(o), parent' = parent,
         sessions' = sessions \cup {op[o].kid}, NEW x, x # op[o].kid, Tree!Available(x)'
  PROVE  Tree!Available(x)
<1> DEFINE s == op[o].at  k == op[o].kid
<1>1. s \in Tree!Ids /\ k \in Kids /\ (k \notin sessions => record[s].kid = None)
  BY DEF TreeTyped, Call, OwnChild, Tree!Owned
<1>2. PICK set \in SUBSET (sessions \cup {k}) : Tree!Holds(set, x)
  <2>1. PICK set \in SUBSET sessions' : Tree!Holds(set, x)'
    BY DEF Tree!Available
  <2>2. Tree!Holds(set, x)
    BY <2>1 DEF Tree!Holds
  <2>3. QED
    BY <2>1, <2>2
<1>3. CASE k \in sessions
  BY <1>2, <1>3 DEF Tree!Available
<1>4. CASE k \notin sessions
  <2>1. \A y \in Tree!Ids : parent[y] # k
    BY <1>1, <1>4 DEF OwnChild
  <2>2. Tree!Holds(set \ {k}, x)
    BY <1>1, <1>2, <2>1 DEF Tree!Holds, TreeTyped, Tree!Ids
  <2>3. set \ {k} \in SUBSET sessions
    BY <1>2
  <2>4. QED
    BY <2>2, <2>3 DEF Tree!Available
<1>5. QED
  BY <1>3, <1>4
-----------------------------------------------------------------------------
LEMMA ComesBack ==
  ASSUME TreeConstants, TreeTyped, used >= 0, OwnChild, Tree!NoOrphans, Tree!RemovedForGood, Refreshed, Family, Tree!Next
  PROVE  Tree!NoOrphans' /\ Tree!RemovedForGood' /\ (\A s \in Tree!Ids : Gone(s) => Gone(s)') /\ (\A s \in Tree!Ids : Gone(s)' => Gone(s) \/ s \in sessions)
<1>0. parent[Root] = None /\ None \notin Tree!Ids
  BY DEF Family, TreeConstants, Tree!Ids
<1>1. \A x \in sessions : parent'[x] = parent[x]
  BY ParentStep DEF TreeTyped
<1>2. ASSUME NEW x \in sessions, LeavesStore(x)
      PROVE  /\ Tree!NoOrphans' /\ Tree!RemovedForGood' /\ \A s \in Tree!Ids : Gone(s) => Gone(s)'
             /\ \A s \in Tree!Ids : Gone(s)' => Gone(s) \/ s \in sessions
  <2>1. sessions' = sessions \ {x} /\ removal'[x].phase = "children" /\ \A s \in Tree!Ids \ {x} : removal'[s].phase = removal[s].phase
    BY <1>2 DEF LeavesStore
  <2>2. Tree!RemovedForGood' /\ (\A s \in Tree!Ids : Gone(s) => Gone(s)') /\ (\A s \in Tree!Ids : Gone(s)' => Gone(s) \/ s \in sessions)
    BY <2>1 DEF Tree!RemovedForGood, Gone
  <2>3. ASSUME NEW s \in sessions'
        PROVE  parent[s] \in sessions' \cup {None} \/ removal'[parent[s]].phase = "children"
    <3>1. parent[s] \in sessions \cup {None} \/ removal[parent[s]].phase = "children"
      BY <2>1 DEF Tree!NoOrphans
    <3>2. parent[s] \in Tree!Ids \cup {None}
      BY <2>1 DEF TreeTyped
    <3>3. QED
      BY <2>1, <3>1, <3>2
  <2>4. Tree!NoOrphans'
    BY <1>1, <2>1, <2>3 DEF Tree!NoOrphans
  <2>5. QED
    BY <2>2, <2>4
<1>3. ASSUME NEW o \in Ops, Tree!Publish(o)
      PROVE  /\ Tree!NoOrphans' /\ Tree!RemovedForGood' /\ \A s \in Tree!Ids : Gone(s) => Gone(s)'
             /\ \A s \in Tree!Ids : Gone(s)' => Gone(s) \/ s \in sessions
  <2> DEFINE s == op[o].at  k == op[o].kid
  <2>1. /\ sessions' = sessions \cup {k} /\ parent' = parent /\ removal' = removal /\ Tree!Owned(o) /\ Working(o)
    BY <1>3, Published DEF Working
  <2>2. k \in Tree!Ids /\ parent[k] = s /\ s \in sessions /\ ~Gone(k)
    BY <2>1 DEF OwnChild, Tree!Owned, Tree!RemovedForGood, Gone, TreeTyped, Call, Tree!Ids
  <2>3. Tree!NoOrphans'
    BY <2>1, <2>2 DEF Tree!NoOrphans
  <2>4. Tree!RemovedForGood'
    BY <2>1, <2>2 DEF Tree!RemovedForGood, Gone
  <2>5. QED
    BY <2>1, <2>3, <2>4 DEF Gone
<1>4. ASSUME NEW s \in Tree!Ids, Tree!RemoveFiles(s)
      PROVE  /\ Tree!NoOrphans' /\ Tree!RemovedForGood' /\ \A k \in Tree!Ids : Gone(k) => Gone(k)'
             /\ \A k \in Tree!Ids : Gone(k)' => Gone(k) \/ k \in sessions
  <2>1. /\ sessions' = sessions /\ parent' = parent /\ removal'[s].phase = "gone" /\ \A k \in Tree!Ids \ {s} : removal'[k] = removal[k]
        /\ removal[s].phase = "children" /\ \A k \in sessions : parent[k] # s
    BY <1>4, RemoveFilesFacts DEF Tree!Drained, Tree!Children
  <2>2. ASSUME NEW x \in sessions
        PROVE  parent[x] \in sessions \cup {None} \/ removal'[parent[x]].phase = "children"
    <3>1. parent[x] \in Tree!Ids \cup {None}
      BY DEF TreeTyped
    <3>2. QED
      BY <2>1, <3>1 DEF Tree!NoOrphans
  <2>3. Tree!NoOrphans'
    BY <2>1, <2>2 DEF Tree!NoOrphans
  <2>4. Tree!RemovedForGood' /\ (\A k \in Tree!Ids : Gone(k) => Gone(k)') /\ (\A k \in Tree!Ids : Gone(k)' => Gone(k) \/ k \in sessions)
    BY <2>1 DEF Tree!RemovedForGood, Gone
  <2>5. QED
    BY <2>3, <2>4
<1>5. CASE removal' = removal /\ sessions' = sessions
  BY <1>1, <1>5 DEF Tree!NoOrphans, Tree!RemovedForGood, Gone
<1>6. QED
  BY <1>0, <1>2, <1>3, <1>4, <1>5, StoreStep DEF Publishes

LEMMA FamilyKept ==
  ASSUME TreeConstants, TreeTyped, used >= 0, OwnChild, Tree!NoOrphans, Tree!RemovedForGood, Refreshed, Family, Tree!Next
  PROVE  Family'
<1>0. parent[Root] = None /\ None \notin Tree!Ids /\ Root \in Tree!Ids /\ Kids \subseteq Tree!Ids
  BY DEF Family, TreeConstants, Tree!Ids
<1>1. /\ parent' \in [Tree!Ids -> Tree!Ids \cup {None}]
      /\ \A x \in Tree!Ids : parent[x] # None \/ x \in sessions => parent'[x] = parent[x]
  BY ParentStep
<1>2. \A k \in Tree!Ids : parent[k] # None => parent'[k] # None
  BY <1>1
<1>3. \A k \in Kids : k \in sessions' => parent[k] # None
  <2>1. ASSUME NEW o \in Ops, Tree!Publish(o)
        PROVE  \A k \in Kids : k \in sessions' => parent[k] # None
    <3>1. sessions' = sessions \cup {op[o].kid} /\ Working(o) /\ op[o].at \in Tree!Ids
      BY <2>1, Published DEF Working, TreeTyped, Call
    <3>2. parent[op[o].kid] # None
      BY <1>0, <3>1 DEF OwnChild
    <3>3. QED
      BY <3>1, <3>2 DEF Family
  <2>2. QED
    BY <1>0, <2>1, StoreStep DEF Publishes, Family
<1>4. \A k \in Kids : k \in sessions' \/ Gone(k)' => parent'[k] # None
  BY <1>0, <1>2, <1>3, ComesBack DEF Family
<1>5. \A s \in Tree!Ids : IF record'[s].kid = None THEN record'[s].got = {} ELSE parent'[record'[s].kid] = s
  <2>1. ASSUME NEW o \in Ops, Tree!Publish(o), NEW s \in Tree!Ids
        PROVE  IF record'[s].kid = None THEN record'[s].got = {} ELSE parent'[record'[s].kid] = s
    <3>1. /\ record' = [record EXCEPT ![op[o].at].kid = op[o].kid, ![op[o].at].got = @ \cup op[o].chosen]
          /\ parent' = parent /\ Working(o) /\ op[o].at \in Tree!Ids
      BY <2>1, Published DEF Working, TreeTyped, Call
    <3>2. op[o].kid # None /\ parent[op[o].kid] = op[o].at
      BY <3>1 DEF OwnChild
    <3>3. record \in [Tree!Ids -> RecordType]
      BY DEF TreeTyped, RecordType
    <3>4. CASE s = op[o].at
      <4>1. record'[s].kid = op[o].kid
        BY <3>1, <3>3, <3>4 DEF RecordType
      <4>2. QED
        BY <3>1, <3>2, <3>4, <4>1
    <3>5. CASE s # op[o].at
      <4>1. record'[s] = record[s]
        BY <3>1, <3>3, <3>5
      <4>2. QED
        BY <3>1, <4>1 DEF Family
    <3>6. QED
      BY <3>4, <3>5
  <2>2. CASE ~Publishes
    <3>1. Forgets
      BY <1>0, <2>2, RecordStep
    <3>2. ASSUME NEW s \in Tree!Ids
          PROVE  IF record'[s].kid = None THEN record'[s].got = {} ELSE parent'[record'[s].kid] = s
      <4>1. record[s].kid \in Tree!Ids \cup {None} /\ (IF record[s].kid = None THEN record[s].got = {} ELSE parent[record[s].kid] = s)
        BY <1>0 DEF Family, TreeTyped
      <4>2. QED
        BY <1>0, <1>1, <3>1, <4>1 DEF Forgets
    <3>3. QED
      BY <3>2
  <2>3. QED
    BY <2>1, <2>2 DEF Publishes
<1>6. parent'[Root] = None
  <2>1. ASSUME NEW o \in Ops, Tree!Reserve(o)
        PROVE  parent'[Root] = None
    BY <1>0, <2>1, ReservedFor DEF TreeConstants, TreeTyped
  <2>2. QED
    BY <1>0, <2>1, ParentStep
<1>7. ASSUME NEW k \in Tree!Ids
      PROVE  /\ parent'[k] # None => parent'[k] = Root \/ parent'[parent'[k]] # None
             /\ k = Root \/ parent'[k] # None => k \in Tree!Under(Root)'
  <2>1. CASE k = Root \/ parent[k] # None
    <3>1. k \in Tree!Under(Root)'
      BY <1>0, <1>1, <2>1, UnderGrows DEF Family
    <3>2. parent[k] \in Tree!Ids \cup {None} /\ (k = Root => parent'[k] = None) /\ (k # Root => parent'[k] = parent[k])
      BY <1>1, <1>6, <2>1 DEF TreeTyped
    <3>3. QED
      BY <1>0, <1>2, <2>1, <3>1, <3>2 DEF Family
  <2>2. CASE k # Root /\ parent[k] = None /\ parent'[k] # None
    <3>1. PICK o \in Ops : Tree!Reserve(o)
      BY <2>2, ParentStep
    <3> DEFINE s == op[o].at
    <3>2. PICK k2 \in Kids : parent' = [parent EXCEPT ![k2] = s]
      BY <3>1, ReservedFor
    <3>3. k2 = k /\ parent'[k] = s /\ \A x \in Tree!Ids \ {k} : parent'[x] = parent[x]
      BY <2>2, <3>2 DEF TreeTyped
    <3>4. s \in sessions /\ s \in Tree!Ids
      BY <3>1, ReservedFor DEF TreeTyped
    <3>5. s = Root \/ parent[s] # None
      BY <3>4 DEF Family, Tree!Ids
    <3>6. parent'[s] = parent[s] /\ s # None
      BY <1>0, <1>1, <3>4
    <3>7. s \in Tree!Under(Root)
      BY <3>4, <3>5 DEF Family
    <3>8. ASSUME NEW set \in SUBSET (Tree!Ids \ {Root}), Tree!Holds(set, k)'
          PROVE  FALSE
      <4>1. s \in set /\ \A x \in set : parent'[x] # None => parent'[x] \in set
        BY <3>3, <3>6, <3>8 DEF Tree!Holds
      <4>2. Tree!Holds(set, s)
        BY <1>1, <4>1 DEF Tree!Holds
      <4>3. QED
        BY <3>7, <4>2 DEF Tree!Under
    <3>9. k \in Tree!Under(Root)'
      BY <3>8 DEF Tree!Under
    <3>10. QED
      BY <3>3, <3>5, <3>6, <3>9
  <2>3. QED
    BY <2>1, <2>2
<1>8. QED
  BY <1>4, <1>5, <1>6, <1>7 DEF Family
-----------------------------------------------------------------------------
LEMMA HandsOffKept ==
  ASSUME TreeConstants, TreeTyped, used >= 0, Tree!RemovedForGood, parent[Root] = None, HandsOff, Tree!Next
  PROVE  HandsOff'
<1> USE DEF Working
<1>1. ASSUME NEW p \in Ops, SameCall(op'[p], op[p])
      PROVE  ~Working(p)' => /\ op'[p].moved = {} /\ op'[p].held = 0
                             /\ op'[p].phase # "dropping" => op'[p].kid = None
  BY <1>1 DEF SameCall, HandsOff
<1>2. CASE OtherStep
  BY <1>1, <1>2, OtherCalls DEF NoCallMoves, HandsOff
<1>3. ASSUME NEW o \in Ops, Others(o), op'[o].moved = {}, op'[o].held = 0, op'[o].kid = None
      PROVE  HandsOff'
  BY <1>1, <1>3 DEF Others, HandsOff
<1>4. ASSUME NEW o \in Ops, NEW phase, NEW kid, NEW asked, NEW moved, NEW held, Becomes(o, phase, kid, asked, moved, held),
             \/ moved = {} /\ held = 0 /\ kid = None
             \/ moved = {} /\ held = 0 /\ phase = "dropping"
             \/ phase \in {"extract", "verify", "move"}
      PROVE  HandsOff'
  BY <1>1, <1>4 DEF Becomes, Others, HandsOff
<1>5. ASSUME NEW o \in Ops, Tree!OpStep(o)
      PROVE  HandsOff'
  <2>1. ASSUME Ends(o)
        PROVE  HandsOff'
    BY <1>3, <2>1 DEF Ends
  <2>2. ASSUME ~Working(o)
        PROVE  op[o].moved = {} /\ op[o].held = 0 /\ (op[o].phase # "dropping" => op[o].kid = None)
    BY <2>2 DEF HandsOff
  <2>3. CASE Tree!Start(o)
    BY <1>4, <2>1, <2>2, <2>3, Started
  <2>4. CASE Tree!Lookup(o)
    BY <1>4, <2>2, <2>4, LookedUp
  <2>5. CASE Tree!Dropped(o)
    BY <1>4, <2>2, <2>5, WasDropped
  <2>6. CASE Tree!Index(o)
    BY <1>4, <2>2, <2>6, Indexed
  <2>7. CASE Tree!Answer(o)
    BY <2>1, <2>7, Answered
  <2>8. CASE Tree!Reserve(o)
    BY <1>4, <2>8, ReservedFor
  <2>9. CASE Tree!Extract(o) \/ Tree!Verify(o)
    BY <1>4, <2>9, WorksOn
  <2>10. CASE Tree!Move(o)
    BY <1>4, <2>10, Moved
  <2>11. CASE Tree!Publish(o)
    BY <2>1, <2>11, Published
  <2>12. CASE Tree!Fail(o)
    BY <2>1, <2>12, Failed
  <2>13. QED
    BY <1>5, <2>3, <2>4, <2>5, <2>6, <2>7, <2>8, <2>9, <2>10, <2>11, <2>12 DEF Tree!OpStep
<1>6. ASSUME NEW o \in Ops, Tree!Ask(o)
      PROVE  HandsOff'
  BY <1>3, <1>6, Asked
<1>7. QED
  BY <1>2, <1>5, <1>6 DEF Tree!Next, OtherStep

\* What the child of a call that works has to be.
ChildOf(o) ==
  LET s == op[o].at  k == op[o].kid IN
  /\ k # None /\ parent[k] = s /\ record[s].kid \in {None, k}
  /\ record[s].kid = None => k \notin sessions /\ ~Gone(k) /\ \A x \in Tree!Ids : parent[x] # k
  /\ op[o].moved \subseteq op[o].chosen /\ (record[s].kid = k => op[o].chosen \cap record[s].got = {})
  /\ op[o].phase # "extract" => Cardinality(op[o].chosen) <= op[o].held

\* While a call works what is known of its archive stays, and so do its child and its calls.
LEMMA ChildStays ==
  ASSUME TreeConstants, TreeTyped, NEW o \in Ops, ChildOf(o), Working(o),
         LET s == op[o].at  k == op[o].kid IN
         /\ parent'[k] = parent[k] /\ \A x \in Tree!Ids : parent'[x] = parent[x]
         /\ record'[s].kid = record[s].kid /\ record'[s].got = record[s].got
         /\ k \in sessions' => k \in sessions
         /\ Gone(k)' => Gone(k) \/ k \in sessions
         /\ op'[o].at = s /\ op'[o].kid = k /\ op'[o].chosen = op[o].chosen
         /\ op'[o].moved \subseteq op'[o].chosen /\ op'[o].held = op[o].held
         /\ op'[o].phase # "extract" => op[o].phase # "extract" \/ Cardinality(op[o].chosen) <= op[o].held
  PROVE  ChildOf(o)'
<1>1. op[o].at \in Tree!Ids
  BY DEF TreeTyped, Call
<1>2. QED
  BY <1>1 DEF ChildOf, Gone

LEMMA OwnChildKept ==
  ASSUME TreeConstants, TreeTyped, used >= 0, InTurn, Tree!RemovedForGood, Tree!NoOrphans, Refreshed, Family, HandsOff, OwnChild, Tree!Next
  PROVE  OwnChild'
<1>0. /\ parent[Root] = None /\ None \notin Tree!Ids /\ Kids \subseteq Tree!Ids
      /\ \A o \in Ops : op[o].at \in Tree!Ids /\ op[o].kid \in Tree!Ids \cup {None} /\ (Working(o) => Tree!Running(o))
      /\ \A k \in Tree!Ids : Gone(k)' => Gone(k) \/ k \in sessions
  BY ComesBack DEF Family, TreeConstants, Tree!Ids, TreeTyped, Call, Working, Tree!Running
<1>1. \A o \in Ops : Working(o) => ChildOf(o)
  BY DEF OwnChild, ChildOf
<1>2. SUFFICES ASSUME NEW p \in Ops, Working(p)'
               PROVE  ChildOf(p)'
  BY DEF OwnChild, ChildOf
<1>3. ASSUME Working(p), SameCall(op'[p], op[p]), parent' = parent, record' = record, ~Publishes
      PROVE  ChildOf(p)'
  <2>1. op[p].moved \subseteq op[p].chosen /\ op[p].kid \in Tree!Ids
    BY <1>0, <1>1, <1>3 DEF ChildOf
  <2>2. sessions' \subseteq sessions
    BY <1>0, <1>3, StoreStep
  <2>3. QED
    BY <1>0, <1>1, <1>3, <2>1, <2>2, ChildStays DEF SameCall
<1>4. CASE OtherStep
  <2>1. SameCall(op'[p], op[p]) /\ Working(p)
    BY <1>0, <1>2, <1>4, OtherCalls DEF NoCallMoves, SameCall, Working
  <2>2. p \in tail /\ ~Tree!Settled(p)
    BY <2>1 DEF InTurn, InProgress, Working, Tree!Settled, TreeConstants
  <2>3. UNCHANGED <<parent, record>>
    BY <1>4, <2>2, RefreshDropFacts DEF OtherStep, Tree!Remove, Tree!RemoveChild, Tree!RemoveFiles, Tree!Change, Tree!Cancel, Tree!Refresh, Tree!RefreshStep, Tree!RefreshDrained,
           Tree!RefreshReplace, Tree!RefreshPublish, Tree!RefreshFails, Tree!RefreshClear, Tree!TailEnded, Tree!tree
  <2>4. CASE ~Publishes
    BY <1>3, <2>1, <2>3, <2>4
  <2>5. CASE Publishes
    <3>1. PICK o \in Ops : Tree!Publish(o)
      BY <2>5 DEF Publishes
    <3>2. op'[o].phase = "settled" /\ op[o].phase = "move"
      BY <3>1, Published DEF Ends
    <3>3. QED
      BY <1>0, <1>4, <3>2, OtherCalls DEF NoCallMoves, SameCall
  <2>6. QED
    BY <2>4, <2>5
<1>5. ASSUME NEW o \in Ops, Tree!Ask(o)
      PROVE  ChildOf(p)'
  <2>1. op'[o].phase = "queued" /\ op[o].phase = "idle" /\ UNCHANGED <<sessions, parent, record>> /\ Others(o)
    BY <1>5, Asked
  <2>2. p # o /\ SameCall(op'[p], op[p])
    BY <1>2, <2>1 DEF Others, Working
  <2>3. Working(p)
    BY <1>2, <2>2 DEF SameCall, Working
  <2>4. op[p].moved \subseteq op[p].chosen /\ op[p].kid \in Tree!Ids
    BY <1>0, <1>1, <2>3 DEF ChildOf
  <2>5. QED
    BY <1>0, <1>1, <2>1, <2>2, <2>3, <2>4, ChildStays DEF SameCall
<1>6. ASSUME NEW o \in Ops, Tree!OpStep(o), p # o
      PROVE  ChildOf(p)'
  <2>1. CallMoves(o)
    BY <1>6, CallStep
  <2>2. SameCall(op'[p], op[p])
    BY <1>6, <2>1 DEF CallMoves, Others
  <2>3. Working(p)
    BY <1>2, <2>2 DEF SameCall, Working
  <2>4. ~Tree!Running(o)
    BY <1>0, <1>6, <2>3, OneRuns
  <2>5. Tree!Start(o)
    BY <1>6, <2>4, LookedUp, WasDropped, Indexed, Answered, ReservedFor, WorksOn, Moved, Published, Failed DEF Tree!OpStep, Tree!Running
  <2>6. UNCHANGED <<parent, record, sessions>>
    BY <2>5, Started
  <2>7. op[p].moved \subseteq op[p].chosen /\ op[p].kid \in Tree!Ids
    BY <1>0, <1>1, <2>3 DEF ChildOf
  <2>8. QED
    BY <1>0, <1>1, <2>2, <2>3, <2>6, <2>7, ChildStays DEF SameCall
<1>7. ASSUME Tree!OpStep(p)
      PROVE  ChildOf(p)'
  <2> DEFINE s == op[p].at
  <2>1. CASE Tree!Reserve(p)
    <3>1. PICK bytes \in Nat, k \in Kids :
            /\ IF record[s].kid # None THEN k = record[s].kid ELSE parent[k] = None /\ k \notin sessions
            /\ parent' = [parent EXCEPT ![k] = s]
            /\ Becomes(p, "extract", k, op[p].chosen \ record[s].got, op[p].moved, bytes)
      BY <2>1, ReservedFor
    <3>2. /\ op[p].phase = "select" /\ s \in sessions /\ s \in Tree!Ids /\ UNCHANGED <<sessions, record, removal>>
      BY <2>1, ReservedFor DEF TreeTyped
    <3>3. op[p].moved = {}
      BY <3>2 DEF HandsOff, Working
    <3>4. /\ op'[p].at = s /\ op'[p].kid = k /\ op'[p].moved = {} /\ op'[p].phase = "extract"
          /\ op'[p].chosen = op[p].chosen \ record[s].got
      BY <3>1, <3>3 DEF Becomes
    <3>5. parent'[k] = s /\ k \in Tree!Ids /\ k # None
      BY <1>0, <3>1 DEF TreeTyped
    <3>6. record[s].kid = None => ~Gone(k) /\ \A x \in Tree!Ids : parent'[x] # k
      <4>1. SUFFICES ASSUME record[s].kid = None
                     PROVE  ~Gone(k) /\ \A x \in Tree!Ids : parent'[x] # k
        OBVIOUS
      <4>2. parent[k] = None /\ k \notin sessions
        BY <3>1, <4>1
      <4>3. ~Gone(k) /\ \A x \in Tree!Ids : parent[x] # k
        BY <1>0, <3>1, <3>5, <4>2 DEF Family, TreeConstants
      <4>4. s # k
        BY <3>2, <4>2
      <4>5. QED
        BY <3>1, <4>3, <4>4 DEF TreeTyped
    <3>7. QED
      BY <3>1, <3>2, <3>4, <3>5, <3>6 DEF ChildOf, Gone
  <2>2. CASE Tree!Extract(p) \/ Tree!Verify(p)
    <3>1. /\ UNCHANGED <<sessions, parent, record, removal>> /\ op[p].phase \in {"extract", "verify"}
          /\ op[p].phase = "extract" => Cardinality(op[p].chosen) <= op[p].held
          /\ op'[p].at = s /\ op'[p].kid = op[p].kid /\ op'[p].chosen = op[p].chosen
          /\ op'[p].moved = op[p].moved /\ op'[p].held = op[p].held
      BY <2>2, WorksOn DEF Becomes
    <3>2. Working(p)
      BY <3>1 DEF Working
    <3>3. QED
      BY <1>1, <3>1, <3>2, ChildStays DEF ChildOf, Gone
  <2>3. CASE Tree!Move(p)
    <3>1. /\ UNCHANGED <<sessions, parent, record, removal>> /\ op[p].phase = "move"
          /\ op'[p].at = s /\ op'[p].kid = op[p].kid /\ op'[p].chosen = op[p].chosen
          /\ (\E e \in op[p].chosen : op'[p].moved = op[p].moved \cup {e}) /\ op'[p].held = op[p].held
      BY <2>3, Moved DEF Becomes
    <3>2. Working(p)
      BY <3>1 DEF Working
    <3>3. QED
      BY <1>1, <3>1, <3>2, ChildStays DEF ChildOf, Gone
  <2>4. CASE Tree!Start(p) \/ Tree!Lookup(p) \/ Tree!Dropped(p) \/ Tree!Index(p) \/ Tree!Answer(p) \/ Tree!Publish(p) \/ Tree!Fail(p)
    <3>1. op'[p].phase \notin {"extract", "verify", "move"}
      BY <2>4, Started, LookedUp, WasDropped, Indexed, Answered, Published, Failed DEF Becomes, Ends
    <3>2. QED
      BY <1>2, <3>1 DEF Working
  <2>5. QED
    BY <1>7, <2>1, <2>2, <2>3, <2>4 DEF Tree!OpStep
<1>8. QED
  BY <1>4, <1>5, <1>6, <1>7 DEF Tree!Next, OtherStep

LEMMA AwaitedKept ==
  ASSUME TreeConstants, TreeTyped, used >= 0, InTurn, Tree!RemovedForGood, Tree!NoOrphans, Refreshed, Family, OwnChild, Awaited, Tree!Next
  PROVE  Awaited'
<1>0. /\ parent[Root] = None /\ Root \in Tree!Ids
      /\ \A o \in Ops : op[o].at \in Tree!Ids
  BY DEF Family, Tree!Ids, TreeTyped, Call
<1>1. SUFFICES ASSUME NEW p \in Ops, InProgress(p)'
               PROVE  IF removal'[op'[p].at].phase # "none" THEN p \in removal'[op'[p].at].waits /\ removal'[op'[p].at].phase = "children"
                      ELSE op'[p].at \in sessions' /\ p \in tracked'[op'[p].at]
  BY DEF Awaited, Gone
<1>2. CASE \E o \in Ops : Tree!Ask(o) /\ p = o
  <2>1. PICK s \in sessions : /\ op'[p].at = s /\ tracked' = [tracked EXCEPT ![s] = @ \cup {p}]
                              /\ UNCHANGED <<sessions, removal>>
    BY <1>2, Asked
  <2>2. s \in Tree!Ids /\ removal'[s].phase = "none" /\ p \in tracked'[s]
    BY <2>1 DEF TreeTyped, Tree!RemovedForGood
  <2>3. QED
    BY <2>1, <2>2
<1>3. CASE ~\E o \in Ops : Tree!Ask(o) /\ p = o
  <2> DEFINE s == op[p].at
  <2>1. InProgress(p) /\ op'[p].at = s
    <3>1. CASE OtherStep
      BY <1>0, <1>1, <3>1, OtherCalls DEF NoCallMoves, SameCall, InProgress
    <3>2. ASSUME NEW o \in Ops, Tree!OpStep(o)
          PROVE  InProgress(p) /\ op'[p].at = s
      <4>1. CallMoves(o)
        BY <3>2, CallStep
      <4>2. QED
        BY <1>1, <4>1 DEF CallMoves, Others, SameCall, InProgress
    <3>3. ASSUME NEW o \in Ops, Tree!Ask(o)
          PROVE  InProgress(p) /\ op'[p].at = s
      BY <1>1, <1>3, <3>3, Asked DEF Others, SameCall, InProgress
    <3>4. QED
      BY <3>1, <3>2, <3>3 DEF Tree!Next, OtherStep
  <2>2. /\ s \in Tree!Ids
        /\ IF Gone(s) THEN p \in removal[s].waits /\ removal[s].phase = "children"
           ELSE s \in sessions /\ p \in tracked[s]
    BY <1>0, <2>1 DEF Awaited
  <2>3. CASE \E x \in sessions : LeavesStore(x)
    <3>1. PICK x \in sessions : LeavesStore(x)
      BY <2>3
    <3>2. CASE x = s
      <4>1. removal'[s].phase = "children" /\ removal'[s].waits = tracked[s]
        BY <3>1, <3>2 DEF LeavesStore
      <4>2. ~Gone(s)
        BY <2>2, <3>2 DEF Tree!RemovedForGood, Gone
      <4>3. QED
        BY <2>1, <2>2, <4>1, <4>2 DEF Gone
    <3>3. CASE x # s
      <4>1. removal'[s].phase = removal[s].phase /\ removal'[s].waits = removal[s].waits
            /\ sessions' = sessions \ {x} /\ tracked' = tracked
        BY <2>2, <3>1, <3>3 DEF LeavesStore
      <4>2. QED
        BY <2>1, <2>2, <3>3, <4>1 DEF Gone
    <3>4. QED
      BY <3>2, <3>3
  <2>4. CASE \E k \in Tree!Ids : Tree!RemoveFiles(k)
    <3>1. PICK k \in Tree!Ids : Tree!RemoveFiles(k)
      BY <2>4
    <3>2. /\ UNCHANGED <<sessions, tracked>> /\ removal[k].phase = "children" /\ \A x \in removal[k].waits : Tree!Settled(x)
          /\ \A i \in Tree!Ids \ {k} : removal'[i] = removal[i]
      BY <3>1, RemoveFilesFacts DEF Tree!Drained
    <3>3. k # s
      BY <2>1, <2>2, <3>2 DEF Gone, Tree!Settled, InProgress, TreeConstants
    <3>4. QED
      BY <2>1, <2>2, <3>2, <3>3 DEF Gone
  <2>5. CASE removal' = removal /\ sessions \subseteq sessions'
    <3>1. p \in tracked[s] => p \in tracked'[s]
      <4>1. CASE Tree!RefreshStep \/ Tree!Refresh
        <5>1. p # Tree!Refreshing
          BY DEF TreeConstants
        <5>2. tracked' = tracked \/ tracked' = [tracked EXCEPT ![Root] = @ \cup {Tree!Refreshing}]
              \/ tracked' = [tracked EXCEPT ![Root] = @ \ {Tree!Refreshing}]
          BY <4>1 DEF Tree!RefreshStep, Tree!Refresh, Tree!RefreshDrained, Tree!RefreshDrop, Tree!RefreshClear, Tree!RefreshReplace, Tree!RefreshPublish, Tree!RefreshFails, Tree!RefreshEnds
        <5>3. \A k \in Tree!Ids : tracked[k] \ {Tree!Refreshing} \subseteq tracked'[k]
          BY <1>0, <5>2 DEF TreeTyped
        <5>4. QED
          BY <2>2, <5>1, <5>3
      <4>2. CASE \E o \in Ops : Tree!Ask(o)
        <5>1. PICK o \in Ops, k \in sessions : tracked' = [tracked EXCEPT ![k] = @ \cup {o}]
          BY <4>2, Asked
        <5>2. QED
          BY <2>2, <5>1 DEF TreeTyped
      <4>3. ASSUME NEW o \in Ops, Tree!OpStep(o)
            PROVE  p \in tracked[s] => p \in tracked'[s]
        <5>1. CASE Ends(o)
          <6>1. p # o
            BY <1>1, <5>1 DEF Ends, InProgress
          <6>2. QED
            BY <2>2, <5>1, <6>1 DEF Ends
        <5>2. CASE Tree!Reserve(o)
          <6>1. PICK k \in Kids : tracked' = IF k \in sessions THEN [tracked EXCEPT ![k] = @ \cup {o}] ELSE tracked
            BY <5>2, ReservedFor
          <6>2. QED
            BY <2>2, <6>1 DEF TreeTyped
        <5>3. CASE ~Ends(o) /\ ~Tree!Reserve(o)
          <6>1. tracked' = tracked
            BY <4>3, <5>3, Started, LookedUp, WasDropped, Indexed, Answered, WorksOn, Moved, Published, Failed DEF Tree!OpStep
          <6>2. QED
            BY <6>1
        <5>4. QED
          BY <5>1, <5>2, <5>3
      <4>4. CASE \/ \E k \in Tree!Ids : Tree!Remove(k) \/ Tree!RemoveChild(k) \/ Tree!RemoveFiles(k) \/ Tree!Change(k)
                 \/ \E o \in Ops : Tree!Cancel(o)
        BY <4>4 DEF Tree!Remove, Tree!RemoveChild, Tree!RemoveFiles, Tree!Change, Tree!Cancel
      <4>5. QED
        BY <4>1, <4>2, <4>3, <4>4 DEF Tree!Next
    <3>2. QED
      BY <2>1, <2>2, <2>5, <3>1 DEF Gone
  <2>6. QED
    BY <1>0, <2>3, <2>4, <2>5, StoreStep, Published DEF Publishes
<1>4. QED
  BY <1>2, <1>3
-----------------------------------------------------------------------------
RefreshType == [phase : {"idle", "draining", "dropping", "work", "publish"}, aborted : BOOLEAN,
                waits : SUBSET Calls, drops : SUBSET Kids, on : Kids \cup {None}]

\* Who is removed is not the root, unless extract more is told.
LEMMA RefreshStays ==
  ASSUME TreeConstants, TreeTyped, Refreshed, InTurn, Awaited, Tree!RemovedForGood, Tree!Next, used >= 0, parent[Root] = None, ~Tree!Refresh, ~Tree!RefreshStep
  PROVE  /\ refresh' \in RefreshType /\ refresh'.phase = refresh.phase /\ refresh'.drops = refresh.drops
         /\ refresh.aborted => refresh'.aborted
         /\ Tree!Busy /\ ~Gone(Root) /\ Gone(Root)' => refresh'.aborted
<1>0. refresh \in RefreshType /\ Root \in Tree!Ids
  BY DEF TreeTyped, RefreshType, Tree!Ids
<1>1. ASSUME NEW x \in Tree!Ids, Tree!Remove(x)
      PROVE  /\ refresh' \in RefreshType /\ refresh'.phase = refresh.phase /\ refresh'.drops = refresh.drops
             /\ refresh.aborted => refresh'.aborted
             /\ Tree!Busy /\ ~Gone(Root) /\ Gone(Root)' => refresh'.aborted
  <2>1. LeavesStore(x) /\ refresh' = [refresh EXCEPT !.aborted = @ \/ Tree!Refreshing \in tracked[x]]
    BY <1>1, RemoveFacts
  <2>2. /\ refresh' \in RefreshType /\ refresh'.phase = refresh.phase /\ refresh'.drops = refresh.drops
        /\ refresh.aborted \/ Tree!Refreshing \in tracked[x] => refresh'.aborted
    BY <2>1, RefreshTold DEF RefreshType
  <2>3. ~Gone(Root) /\ Gone(Root)' => x = Root
    BY <1>0, <2>1 DEF LeavesStore, Gone
  <2>4. QED
    BY <2>2, <2>3 DEF Refreshed
<1>2. ASSUME NEW s \in Tree!Ids, Tree!RemoveChild(s)
      PROVE  /\ refresh' \in RefreshType /\ refresh'.phase = refresh.phase /\ refresh'.drops = refresh.drops
             /\ refresh.aborted => refresh'.aborted
             /\ Tree!Busy /\ ~Gone(Root) /\ Gone(Root)' => refresh'.aborted
  <2>1. PICK c \in sessions : LeavesStore(c) /\ c # Root /\ refresh' = [refresh EXCEPT !.aborted = @ \/ Tree!Refreshing \in tracked[c]]
    BY <1>2, RemoveChildFacts
  <2>2. /\ refresh' \in RefreshType /\ refresh'.phase = refresh.phase /\ refresh'.drops = refresh.drops
        /\ refresh.aborted \/ Tree!Refreshing \in tracked[c] => refresh'.aborted
    BY <2>1, RefreshTold DEF RefreshType
  <2>3. ~(~Gone(Root) /\ Gone(Root)')
    BY <1>0, <2>1 DEF LeavesStore, Gone
  <2>4. QED
    BY <2>2, <2>3
<1>3. ASSUME NEW o \in Ops, Tree!Lookup(o)
      PROVE  refresh' = refresh /\ (Gone(Root)' => Gone(Root))
  <2>1. refresh' = refresh /\ record[op[o].at].kid \in Kids \cup {None}
    BY <1>3, LookedUp DEF TreeTyped, Call
  <2>2. CASE removal' = removal
    BY <2>1, <2>2 DEF Gone
  <2>3. CASE Tree!StartsRemoval(record[op[o].at].kid) /\ record[op[o].at].kid \in sessions
    <3>1. record[op[o].at].kid # Root
      BY <2>1, <2>3 DEF TreeTyped, TreeConstants
    <3>2. removal'[Root] = removal[Root]
      BY <1>0, <2>3, <3>1 DEF Tree!StartsRemoval, TreeTyped
    <3>3. QED
      BY <2>1, <3>2 DEF Gone
  <2>4. QED
    BY <1>3, <2>2, <2>3, LookedUp
<1>4. ASSUME NEW s \in Tree!Ids, Tree!RemoveFiles(s)
      PROVE  refresh' = refresh /\ (Gone(Root)' => Gone(Root))
  BY <1>0, <1>4, RemoveFilesFacts DEF Gone, Tree!Drained
<1>5. CASE refresh' = refresh /\ (Gone(Root)' => Gone(Root))
  BY <1>0, <1>5
<1>6. CASE \/ \E s \in Tree!Ids : Tree!Change(s)
           \/ \E o \in Ops : \/ Tree!Ask(o) \/ Tree!Cancel(o) \/ Tree!Start(o) \/ Tree!Dropped(o) \/ Tree!Index(o) \/ Tree!Answer(o) \/ Tree!Reserve(o) \/ Tree!Extract(o)
                             \/ Tree!Verify(o) \/ Tree!Move(o) \/ Tree!Publish(o) \/ Tree!Fail(o)
  <2>1. UNCHANGED <<refresh, removal>>
    BY <1>6 DEF Tree!Change, Tree!Ask, Tree!Cancel, Tree!Start, Tree!Dropped, Tree!Index, Tree!Answer, Tree!Reserve, Tree!Extract, Tree!Verify, Tree!Move, Tree!Publish, Tree!Fail
  <2>2. QED
    BY <1>5, <2>1 DEF Gone
<1>7. QED
  BY <1>1, <1>2, <1>3, <1>4, <1>5, <1>6 DEF Tree!Next, Tree!OpStep

\* No call adds a child to the root while it is refreshed.
LEMMA NoNewChildren ==
  ASSUME TreeConstants, TreeTyped, used >= 0, Refreshed, Tree!RemovedForGood, Family, OwnChild, Tree!Next, Tree!Busy
  PROVE  Tree!Children(Root)' \subseteq Tree!Children(Root)
<1>1. \A x \in sessions : parent'[x] = parent[x]
  BY ParentStep DEF TreeTyped
<1>2. CASE ~Publishes
  BY <1>1, <1>2, StoreStep DEF Tree!Children, Family
<1>3. ASSUME NEW o \in Ops, Tree!Publish(o)
      PROVE  Tree!Children(Root)' \subseteq Tree!Children(Root)
  <2>1. sessions' = sessions \cup {op[o].kid} /\ parent' = parent /\ Working(o) /\ ~op[o].aborted
    BY <1>3, Published DEF Working, Tree!Owned
  <2>2. op[o].at # Root
    BY <2>1 DEF Refreshed, InProgress, Working
  <2>3. parent[op[o].kid] = op[o].at
    BY <2>1 DEF OwnChild
  <2>4. QED
    BY <2>1, <2>2, <2>3 DEF Tree!Children
<1>4. QED
  BY <1>2, <1>3 DEF Publishes

LEMMA RefreshedKept ==
  ASSUME TreeConstants, TreeTyped, used >= 0, InTurn, Tree!RemovedForGood, Tree!NoOrphans, Refreshed, Family, OwnChild, Awaited, Tree!Next
  PROVE  Refreshed' /\ refresh' \in RefreshType
<1>0. /\ parent[Root] = None /\ Root \in Tree!Ids /\ refresh \in RefreshType /\ tracked \in [Tree!Ids -> SUBSET Calls]
      /\ (Tree!Busy => Tree!Refreshing \in tracked[Root]) /\ Tree!Refreshing \notin Ops
      /\ \A o \in Ops : op[o].at \in Tree!Ids
  BY DEF Family, Tree!Ids, TreeTyped, RefreshType, Refreshed, TreeConstants, Call
<1>1. ~Gone(Root)' => Root \in sessions'
  <2>1. Gone(Root) => Gone(Root)'
    BY <1>0, ComesBack
  <2>2. ASSUME NEW x \in sessions, LeavesStore(x), Root \in sessions
        PROVE  ~Gone(Root)' => Root \in sessions'
    BY <2>2 DEF LeavesStore, Gone
  <2>3. ASSUME NEW s \in Tree!Ids, Tree!RemoveFiles(s)
        PROVE  sessions' = sessions
    BY <2>3 DEF Tree!RemoveFiles
  <2>4. ASSUME Publishes
        PROVE  sessions \subseteq sessions'
    BY <2>4, Published DEF Publishes
  <2>5. QED
    BY <1>0, <2>1, <2>2, <2>3, <2>4, StoreStep DEF Refreshed
<1>2. CASE Tree!Refresh
  <2>1. /\ ~Tree!Busy /\ Root \in sessions /\ UNCHANGED <<sessions, parent, removal>> /\ NoCallMoves
        /\ tracked' = [tracked EXCEPT ![Root] = @ \cup {Tree!Refreshing}]
        /\ refresh' \in [phase : {"draining"}, aborted : {FALSE}, waits : SUBSET Calls, drops : {Tree!Children(Root)}, on : {None}]
        /\ \A o \in Ops : o \in tracked[Root] => op'[o].aborted
    BY <1>2, RefreshFacts, RootUnder
  <2>2. ~Gone(Root) /\ ~Gone(Root)'
    BY <1>0, <2>1 DEF Tree!RemovedForGood, Gone
  <2>3. Tree!Children(Root)' = Tree!Children(Root) /\ Tree!Children(Root) \subseteq Kids
    BY <1>0, <2>1 DEF Tree!Children, TreeTyped, Tree!Ids, TreeConstants
  <2>4. Tree!Refreshing \in tracked'[Root]
    BY <1>0, <2>1
  <2>5. \A o \in Ops : InProgress(o)' /\ op'[o].at = Root => op'[o].aborted
    <3>1. \A o \in Ops : InProgress(o)' => InProgress(o)
      BY <2>1 DEF NoCallMoves, SameCall, InProgress
    <3>2. \A o \in Ops : op'[o].at = op[o].at
      BY <2>1 DEF NoCallMoves, SameCall
    <3>3. QED
      BY <2>1, <2>2, <3>1, <3>2 DEF Awaited
  <2>6. refresh' \in RefreshType /\ refresh'.drops = Tree!Children(Root)
    BY <2>1, <2>3 DEF RefreshType
  <2>7. QED
    BY <1>1, <2>2, <2>3, <2>4, <2>5, <2>6 DEF Refreshed
<1>3. CASE Tree!RefreshStep
  <2>0. Tree!Busy
    BY <1>3, RefreshDropFacts DEF Tree!RefreshStep, Tree!RefreshDrained, Tree!RefreshClear, Tree!RefreshReplace, Tree!RefreshPublish, Tree!RefreshMayPublish, Tree!RefreshFails, Tree!Busy
  <2>1. CASE Tree!RefreshEnds
    <3>1. refresh' = Tree!NoRefresh
      BY <2>1 DEF Tree!RefreshEnds
    <3>2. Tree!NoRefresh \in RefreshType /\ Tree!NoRefresh.phase = "idle"
      BY DEF Tree!NoRefresh, RefreshType
    <3>3. QED
      BY <1>1, <3>1, <3>2 DEF Refreshed, Tree!Busy
  <2>2. CASE ~Tree!RefreshEnds /\ ~Tree!RefreshDrop
    <3>1. /\ UNCHANGED <<sessions, parent, op, removal, tracked>>
          /\ \E phase \in {"dropping", "work", "publish"} :
               refresh' = [refresh EXCEPT !.phase = phase] /\ (phase = "dropping" => refresh.phase = "draining")
      BY <1>3, <2>2 DEF Tree!RefreshStep, Tree!RefreshDrained, Tree!RefreshClear, Tree!RefreshReplace, Tree!RefreshPublish, Tree!RefreshFails, Tree!tree
    <3>2. /\ refresh' \in RefreshType /\ refresh'.aborted = refresh.aborted /\ refresh'.drops = refresh.drops
          /\ refresh'.phase \in {"draining", "dropping"} => refresh.phase = "draining"
      BY <1>0, <3>1 DEF RefreshType
    <3>3. QED
      BY <1>1, <2>0, <3>1, <3>2 DEF Refreshed, Gone, InProgress, Tree!Children
  <2>3. CASE Tree!RefreshDrop
    <3>1. /\ refresh.phase = "dropping" /\ tracked' = tracked /\ parent' = parent /\ NoCallMoves
      BY <2>3, RefreshDropFacts
    <3>2. PICK c \in refresh.drops, on \in Kids \cup {None} :
              /\ refresh' = [refresh EXCEPT !.drops = @ \ {c}, !.on = on]
              /\ \/ LeavesStore(c)
                 \/ c \notin sessions /\ UNCHANGED <<sessions, op, removal>>
      BY <2>3, RefreshDropFacts
    <3>3. /\ refresh' \in RefreshType /\ refresh'.aborted = refresh.aborted /\ refresh'.drops = refresh.drops \ {c}
      BY <1>0, <3>2 DEF RefreshType
    <3>4. c # Root
      BY <1>0, <3>2 DEF RefreshType, TreeConstants
    <3>5. Gone(Root)' => Gone(Root)
      BY <1>0, <3>2, <3>4 DEF LeavesStore, Gone
    <3>6. Tree!Children(Root)' \subseteq refresh'.drops
      <4>1. Tree!Children(Root) \subseteq refresh.drops
        BY <3>1 DEF Refreshed
      <4>2. c \notin sessions' /\ sessions' \subseteq sessions
        BY <3>2 DEF LeavesStore
      <4>3. QED
        BY <3>1, <3>3, <4>1, <4>2 DEF Tree!Children
    <3>7. \A o \in Ops : InProgress(o)' /\ op'[o].at = Root => op'[o].aborted
      BY <2>0, <3>1 DEF NoCallMoves, SameCall, InProgress, Refreshed
    <3>8. QED
      BY <1>0, <1>1, <2>0, <3>1, <3>3, <3>5, <3>6, <3>7 DEF Refreshed
  <2>4. QED
    BY <2>1, <2>2, <2>3
<1>4. CASE ~Tree!Refresh /\ ~Tree!RefreshStep
  <2>1. /\ refresh' \in RefreshType /\ refresh'.phase = refresh.phase /\ refresh'.drops = refresh.drops
        /\ refresh.aborted => refresh'.aborted
        /\ Tree!Busy /\ ~Gone(Root) /\ Gone(Root)' => refresh'.aborted
    BY <1>0, <1>4, RefreshStays
  <2>2. Tree!Busy' <=> Tree!Busy
    BY <2>1 DEF Tree!Busy
  <2>3. ASSUME Tree!Busy
        PROVE  Tree!Refreshing \in tracked'[Root]
    <3>1. CASE OtherStep
      <4>1. tracked' = tracked
        BY <1>4, <3>1 DEF OtherStep, Tree!Remove, Tree!RemoveChild, Tree!RemoveFiles, Tree!Change, Tree!Cancel
      <4>2. QED
        BY <1>0, <2>3, <4>1
    <3>2. ASSUME NEW o \in Ops, Tree!OpStep(o)
          PROVE  Tree!Refreshing \in tracked'[Root]
      <4>1. CASE Ends(o)
        BY <1>0, <2>3, <4>1 DEF Ends
      <4>2. CASE Tree!Reserve(o)
        <5>1. PICK k \in Kids : tracked' = IF k \in sessions THEN [tracked EXCEPT ![k] = @ \cup {o}] ELSE tracked
          BY <4>2, ReservedFor
        <5>2. QED
          BY <1>0, <2>3, <5>1
      <4>3. CASE ~Ends(o) /\ ~Tree!Reserve(o)
        <5>1. tracked' = tracked
          BY <3>2, <4>3, Started, LookedUp, WasDropped, Indexed, Answered, WorksOn, Moved, Published, Failed DEF Tree!OpStep
        <5>2. QED
          BY <1>0, <2>3, <5>1
      <4>4. QED
        BY <4>1, <4>2, <4>3
    <3>3. QED
      BY <1>4, <2>3, <3>1, <3>2, Asked DEF Tree!Next, OtherStep
  <2>4. ASSUME Tree!Busy, NEW p \in Ops, InProgress(p)', op'[p].at = Root
        PROVE  op'[p].aborted
    <3>1. CASE OtherStep
      BY <1>0, <2>4, <3>1, OtherCalls DEF NoCallMoves, SameCall, InProgress, Refreshed
    <3>2. ASSUME NEW o \in Ops, Tree!OpStep(o)
          PROVE  op'[p].aborted
      <4>1. CallMoves(o)
        BY <3>2, CallStep
      <4>2. QED
        BY <2>4, <4>1 DEF CallMoves, Others, SameCall, InProgress, Refreshed
    <3>3. QED
      BY <1>4, <2>4, <3>1, <3>2, Asked DEF Tree!Next, OtherStep
  <2>5. Gone(Root) => Gone(Root)'
    BY <1>0, ComesBack
  <2>6. refresh'.phase \in {"draining", "dropping"} => Tree!Children(Root)' \subseteq refresh'.drops
    BY <2>1, NoNewChildren DEF Refreshed, Tree!Busy
  <2>7. QED
    BY <1>1, <2>1, <2>2, <2>3, <2>4, <2>5, <2>6 DEF Refreshed
<1>5. QED
  BY <1>2, <1>3, <1>4
-----------------------------------------------------------------------------
\* What the calls f have reserved, and what those other than o have.
ReservedIn(f) == {p \in Ops \X (1 .. MaxBytes) : p[2] <= f[p[1]].held}
RestOf(f, o) == {p \in ReservedIn(f) : p[1] # o}

LEMMA ReservedBy ==
  ASSUME TreeConstants, NEW f \in [Ops -> Call], NEW o \in Ops
  PROVE  /\ Cardinality(ReservedIn(f)) \in Nat /\ Cardinality(RestOf(f, o)) \in Nat
         /\ Cardinality(ReservedIn(f)) = Cardinality(RestOf(f, o)) + f[o].held
<1> DEFINE mine == {o}  bytes == 1 .. f[o].held  own == mine \X bytes
<1>1. f[o].held \in Nat /\ f[o].held <= MaxBytes /\ MaxBytes \in Nat /\ 1 \in Int
  BY DEF Call, TreeConstants
<1>2. IsFiniteSet(1 .. MaxBytes)
  BY <1>1, FS_Interval
<1>3. IsFiniteSet(bytes) /\ Cardinality(bytes) = f[o].held
  <2>1. PICK h : h = f[o].held
    OBVIOUS
  <2>2. h \in Int /\ 1 \in Int /\ h \in Nat
    BY <1>1, <2>1
  <2>3. IsFiniteSet(1 .. h) /\ Cardinality(1 .. h) = IF 1 > h THEN 0 ELSE h - 1 + 1
    BY <2>2, FS_Interval
  <2>4. QED
    BY <2>1, <2>2, <2>3
<1>4. IsFiniteSet(Ops \X (1 .. MaxBytes))
  BY <1>2, FS_Product DEF TreeConstants
<1>5. IsFiniteSet(ReservedIn(f)) /\ Cardinality(ReservedIn(f)) \in Nat
  BY <1>4, FS_Subset, FS_CardinalityType DEF ReservedIn
<1>6. IsFiniteSet(RestOf(f, o)) /\ Cardinality(RestOf(f, o)) \in Nat
  BY <1>5, FS_Subset, FS_CardinalityType DEF RestOf
<1>7. IsFiniteSet(mine) /\ Cardinality(mine) = 1
  BY FS_Singleton
<1>8. ReservedIn(f) = RestOf(f, o) \cup own /\ RestOf(f, o) \cap own = {}
  BY <1>1 DEF ReservedIn, RestOf
<1> HIDE DEF bytes, mine
<1>9. IsFiniteSet(own) /\ Cardinality(own) = Cardinality(mine) * Cardinality(bytes)
  BY <1>3, <1>7, FS_Product
<1>10. Cardinality(own) = f[o].held
  BY <1>1, <1>3, <1>7, <1>9
<1> HIDE DEF own
<1>11. Cardinality(RestOf(f, o) \cup own) = Cardinality(RestOf(f, o)) + Cardinality(own) - Cardinality(RestOf(f, o) \cap own)
  BY <1>6, <1>9, FS_Union
<1>12. Cardinality(RestOf(f, o) \cap own) = 0
  BY <1>8, FS_EmptySet
<1> DEFINE all == Cardinality(ReservedIn(f))  rest == Cardinality(RestOf(f, o))
<1>13. all = rest + f[o].held - 0
  BY <1>8, <1>10, <1>11, <1>12
<1>14. rest \in Nat /\ all \in Nat
  BY <1>5, <1>6
<1> HIDE DEF all, rest
<1>15. all = rest + f[o].held
  BY <1>1, <1>13, <1>14
<1>16. QED
  BY <1>14, <1>15 DEF all, rest

LEMMA OthersReserved ==
  ASSUME TreeTyped, NEW o \in Ops, Others(o)
  PROVE  RestOf(op', o) = RestOf(op, o)
BY DEF RestOf, ReservedIn, Others, SameCall

LEMMA ReservedNat ==
  ASSUME TreeConstants, op \in [Ops -> Call]
  PROVE  Cardinality(Tree!Reserved) \in Nat /\ Tree!Reserved = ReservedIn(op)
<1>1. Tree!Reserved = ReservedIn(op)
  BY DEF Tree!Reserved, ReservedIn
<1>2. CASE Ops = {}
  <2>1. Tree!Reserved = {}
    BY <1>2 DEF Tree!Reserved
  <2>2. QED
    BY <1>1, <2>1, FS_EmptySet
<1>3. CASE Ops # {}
  BY <1>1, <1>3, ReservedBy
<1>4. QED
  BY <1>2, <1>3

LEMMA KeptFinite ==
  ASSUME TreeConstants, TreeTyped
  PROVE  IsFiniteSet(Tree!Kept) /\ Cardinality(Tree!Kept) \in Nat
<1>1. IsFiniteSet(Tree!Ids)
  <2>1. IsFiniteSet({Root})
    BY FS_Singleton
  <2>2. QED
    BY <2>1, FS_Union DEF Tree!Ids, TreeConstants
<1>2. IsFiniteSet(sessions)
  BY <1>1, FS_Subset DEF TreeTyped
<1>3. IsFiniteSet(sessions \X Entries)
  BY <1>2, FS_Product DEF TreeConstants
<1>4. QED
  BY <1>3, FS_Subset, FS_CardinalityType DEF Tree!Kept

LEMMA UsedNat ==
  ASSUME TreeConstants, TreeTyped, Tree!ChainFits
  PROVE  used \in 0 .. MaxBytes /\ used >= 0
<1>1. Cardinality(Tree!Kept) \in Nat
  BY KeptFinite
<1>2. Cardinality(Tree!Reserved) \in Nat
  BY ReservedNat DEF TreeTyped
<1>3. QED
  BY <1>1, <1>2, SameCardinality DEF Tree!ChainFits, TreeTyped, TreeConstants

LEMMA KeptShrinks ==
  ASSUME TreeConstants, TreeTyped, Forgets, sessions' \subseteq sessions, \A x \in sessions : parent'[x] = parent[x]
  PROVE  Tree!Kept' \subseteq Tree!Kept /\ Cardinality(Tree!Kept') <= Cardinality(Tree!Kept)
<1>1. Tree!Kept' \subseteq Tree!Kept
  <2>1. ASSUME NEW s \in sessions', NEW e \in Entries, record'[s].kid # None, e \in record'[s].got,
               Tree!Available(s)', Tree!Available(record[s].kid)'
        PROVE  <<s, e>> \in Tree!Kept
    <3>1. s \in Tree!Ids /\ s \in sessions
      BY DEF TreeTyped
    <3>2. record'[s].kid = record[s].kid /\ record'[s].got = record[s].got
      BY <2>1, <3>1 DEF Forgets
    <3>3. PICK k : k = record[s].kid
      OBVIOUS
    <3>4. Tree!Available(k)'
      BY <2>1, <3>2, <3>3
    <3>5. Tree!Available(s) /\ Tree!Available(k)
      BY <2>1, <3>4, AvailableBefore
    <3>6. QED
      BY <2>1, <3>1, <3>2, <3>3, <3>5 DEF Tree!Kept
  <2>2. QED
    BY <2>1 DEF Tree!Kept
<1>2. QED
  BY <1>1, KeptFinite, FS_Subset

LEMMA KeptGrows ==
  ASSUME TreeConstants, TreeTyped, NEW s, NEW new \in SUBSET Entries, Tree!Kept' \subseteq Tree!Kept \cup ({s} \X new)
  PROVE  IsFiniteSet(Tree!Kept') /\ Cardinality(Tree!Kept') <= Cardinality(Tree!Kept) + Cardinality(new) /\ Cardinality(new) \in Nat
<1>1. IsFiniteSet(new) /\ Cardinality(new) \in Nat
  BY FS_Subset, FS_CardinalityType DEF TreeConstants
<1> DEFINE one == {s}  added == one \X new
<1>2. IsFiniteSet(one) /\ Cardinality(one) = 1
  BY FS_Singleton
<1> HIDE DEF one
<1>3. IsFiniteSet(added) /\ Cardinality(added) = Cardinality(one) * Cardinality(new)
  BY <1>1, <1>2, FS_Product
<1>4. Cardinality(added) = Cardinality(new)
  BY <1>1, <1>2, <1>3
<1>5. Tree!Kept' \subseteq Tree!Kept \cup added
  BY DEF one
<1> HIDE DEF added
<1>6. IsFiniteSet(Tree!Kept) /\ Cardinality(Tree!Kept) \in Nat
  BY KeptFinite
<1>7. /\ IsFiniteSet(Tree!Kept \cup added)
      /\ Cardinality(Tree!Kept \cup added) = Cardinality(Tree!Kept) + Cardinality(added) - Cardinality(Tree!Kept \cap added)
  BY <1>3, <1>6, FS_Union
<1>8. IsFiniteSet(Tree!Kept \cap added) /\ Cardinality(Tree!Kept \cap added) \in Nat
  BY <1>6, FS_Subset, FS_CardinalityType
<1>9. IsFiniteSet(Tree!Kept') /\ Cardinality(Tree!Kept') <= Cardinality(Tree!Kept \cup added)
  BY <1>5, <1>7, FS_Subset
<1>10. Cardinality(Tree!Kept') \in Nat /\ Cardinality(Tree!Kept \cup added) \in Nat
  BY <1>7, <1>9, FS_CardinalityType
<1>11. QED
  BY <1>1, <1>4, <1>6, <1>7, <1>8, <1>9, <1>10

\* The budget after a step of call o that keeps no more than before.
LEMMA BudgetStep ==
  ASSUME TreeConstants, TreeTyped, Tree!ChainFits, NEW o \in Ops, Others(o), NEW more \in Nat,
         IsFiniteSet(Tree!Kept'), Cardinality(Tree!Kept') <= Cardinality(Tree!Kept) + more, used' \in Int,
         used' - used >= op'[o].held - op[o].held + more, used' <= MaxBytes
  PROVE  Tree!ChainFits'
<1>1. /\ Cardinality(ReservedIn(op)) = Cardinality(RestOf(op, o)) + op[o].held
      /\ Cardinality(ReservedIn(op)) \in Nat /\ Cardinality(RestOf(op, o)) \in Nat
      /\ Cardinality(ReservedIn(op')) = Cardinality(RestOf(op', o)) + op'[o].held
  BY ReservedBy DEF TreeTyped, Others
<1>2. Tree!Reserved = ReservedIn(op) /\ Tree!Reserved' = ReservedIn(op')
  BY DEF Tree!Reserved, ReservedIn
<1>3. RestOf(op', o) = RestOf(op, o)
  BY OthersReserved
<1>4. Cardinality(Tree!Kept') \in Nat /\ Cardinality(Tree!Kept) \in Nat
  BY KeptFinite, FS_CardinalityType
<1>5. op[o].held \in Nat /\ op'[o].held \in Nat /\ used \in Int /\ MaxBytes \in Nat
  BY DEF TreeTyped, Call, Others, TreeConstants
<1>6. Cardinality(Tree!Kept) + Cardinality(Tree!Reserved) <= used
  BY SameCardinality DEF Tree!ChainFits
<1>7. Cardinality(Tree!Kept') + Cardinality(Tree!Reserved') <= used'
  BY <1>1, <1>2, <1>3, <1>4, <1>5, <1>6
<1>8. QED
  BY <1>7, SameCardinality DEF Tree!ChainFits

\* When extract more has dropped every child nothing below the root is served.
LEMMA OnlyRoot ==
  ASSUME TreeConstants, TreeTyped, Family, Refreshed, refresh.phase = "dropping", refresh.drops = {}, NEW x, Tree!Available(x)
  PROVE  x = Root
<1>1. PICK set \in SUBSET sessions : Tree!Holds(set, x)
  BY DEF Tree!Available
<1>2. \A k \in sessions : parent[k] # Root
  BY DEF Refreshed, Tree!Children
<1>3. SUFFICES ASSUME x # Root
               PROVE  FALSE
  OBVIOUS
<1>4. Tree!Holds(set \ {Root}, x)
  BY <1>1, <1>2, <1>3 DEF Tree!Holds
<1>5. x \in sessions /\ x \in Kids
  BY <1>1, <1>3 DEF Tree!Holds, TreeTyped, Tree!Ids
<1>6. x \in Tree!Under(Root)
  BY <1>5 DEF Family, Tree!Ids
<1>7. QED
  BY <1>4, <1>6 DEF Tree!Under, TreeTyped

\* Nothing descends from a child that is not there yet.
LEMMA KidsOfTheirOwn ==
  ASSUME TreeConstants, TreeTyped, OwnChild, NEW o \in Ops, Working(o), Tree!Owned(o), op[o].kid \notin sessions, NEW x \in Tree!Ids
  PROVE  parent[x] # op[o].kid
<1>1. record[op[o].at].kid = None
  BY DEF Tree!Owned, OwnChild
<1>2. QED
  BY <1>1 DEF OwnChild

LEMMA ChainFitsKept ==
  ASSUME TreeConstants, TreeTyped, InTurn, Tree!RemovedForGood, Tree!NoOrphans, Refreshed, Family, HandsOff, OwnChild, Tree!ChainFits, Tree!Next
  PROVE  Tree!ChainFits' /\ used' \in Int
<1>0. /\ used \in 0 .. MaxBytes /\ used >= 0 /\ parent[Root] = None /\ Root \in Tree!Ids /\ None \notin Tree!Ids
      /\ \A x \in sessions : parent'[x] = parent[x]
      /\ \A o \in Ops : op[o] \in Call
  <2>1. used \in 0 .. MaxBytes /\ used >= 0
    BY UsedNat
  <2>2. QED
    BY <2>1, ParentStep DEF Family, TreeConstants, Tree!Ids, TreeTyped
<1>1. ASSUME ~Publishes
      PROVE  IsFiniteSet(Tree!Kept') /\ Cardinality(Tree!Kept') <= Cardinality(Tree!Kept) /\ Tree!Kept' \subseteq Tree!Kept
  <2>1. Tree!Kept' \subseteq Tree!Kept /\ Cardinality(Tree!Kept') <= Cardinality(Tree!Kept)
    BY <1>0, <1>1, RecordStep, StoreStep, KeptShrinks
  <2>2. QED
    BY <2>1, KeptFinite, FS_Subset
<1>2. ASSUME \A p \in Ops : op'[p].held = op[p].held, used' = used, ~Publishes
      PROVE  Tree!ChainFits'
  <2>1. Tree!Reserved' = Tree!Reserved
    BY <1>2 DEF Tree!Reserved
  <2>2. /\ Cardinality(Tree!Kept') \in Nat /\ Cardinality(Tree!Kept) \in Nat /\ Cardinality(Tree!Kept') <= Cardinality(Tree!Kept)
    BY <1>1, <1>2, KeptFinite, FS_CardinalityType
  <2>4. Cardinality(Tree!Reserved) \in Nat
    BY ReservedNat DEF TreeTyped
  <2>5. QED
    BY <1>0, <1>2, <2>1, <2>2, <2>4, SameCardinality DEF Tree!ChainFits
<1>3. CASE Tree!RefreshClear
  <2>1. /\ used' = 0 /\ refresh.phase = "dropping" /\ refresh.drops = {} /\ \A o \in tail : Tree!Settled(o)
        /\ UNCHANGED <<sessions, parent, op>> /\ record' = [record EXCEPT ![Root] = Tree!Unknown]
    BY <1>3 DEF Tree!RefreshClear, Tree!TailEnded
  <2>2. \A o \in Ops : op[o].held = 0
    BY <2>1 DEF InTurn, InProgress, Tree!Settled, TreeConstants, HandsOff, Working
  <2>3. Tree!Reserved' = {}
    BY <2>1, <2>2 DEF Tree!Reserved
  <2>4. Tree!Kept' = {}
    <3>1. ASSUME NEW s \in sessions', Tree!Available(s)'
          PROVE  record'[s].kid = None
      <4>1. Tree!Available(s)
        BY <1>0, <2>1, <3>1, AvailableBefore
      <4>2. s = Root
        BY <2>1, <4>1, OnlyRoot
      <4>3. QED
        BY <1>0, <2>1, <4>2 DEF TreeTyped, Tree!Unknown
    <3>2. QED
      BY <3>1 DEF Tree!Kept
  <2>5. used' \in Int /\ Tree!ChainFits'
    BY <2>1, <2>3, <2>4, FS_EmptySet, SameCardinality DEF Tree!ChainFits, TreeConstants
  <2>6. QED
    BY <2>5
<1>4. CASE OtherStep /\ ~Tree!RefreshClear /\ ~Publishes
  <2>1. used' = used
    BY <1>4, RefreshDropFacts DEF OtherStep, Tree!Remove, Tree!RemoveChild, Tree!RemoveFiles, Tree!Change, Tree!Cancel, Tree!Refresh, Tree!RefreshStep, Tree!RefreshDrained,
           Tree!RefreshReplace, Tree!RefreshPublish, Tree!RefreshFails
  <2>2. \A p \in Ops : op'[p].held = op[p].held /\ op'[p].phase = op[p].phase
    BY <1>0, <1>4, OtherCalls DEF NoCallMoves, SameCall
  <2>3. QED
    BY <1>0, <1>2, <1>4, <2>1, <2>2
<1>5. ASSUME NEW o \in Ops, Tree!Ask(o), ~Publishes
      PROVE  Tree!ChainFits' /\ used' \in Int
  <2>1. op[o].phase = "idle" /\ op'[o].held = 0 /\ op'[o].phase = "queued" /\ used' = used /\ Others(o)
    BY <1>5, Asked
  <2>2. op[o].held = 0
    BY <2>1 DEF HandsOff, Working
  <2>3. \A p \in Ops : op'[p].held = op[p].held
    BY <2>1, <2>2 DEF Others, SameCall
  <2>4. QED
    BY <1>0, <1>2, <1>5, <2>1, <2>3
<1>6. ASSUME NEW o \in Ops, Tree!Publish(o)
      PROVE  Tree!ChainFits' /\ used' \in Int
  <2> DEFINE s == op[o].at  k == op[o].kid  new == op[o].chosen
  <2>1. /\ op[o].phase = "move" /\ op[o].moved = op[o].chosen /\ Tree!Owned(o) /\ Ends(o) /\ Working(o)
        /\ sessions' = sessions \cup {k} /\ parent' = parent
        /\ record' = [record EXCEPT ![s].kid = k, ![s].got = @ \cup new]
        /\ used' = used - (op[o].held - Cardinality(new))
    BY <1>6, Published DEF Working
  <2>2. /\ s \in Tree!Ids /\ k \in Kids /\ k \in Tree!Ids /\ parent[k] = s /\ Cardinality(new) <= op[o].held /\ new \in SUBSET Entries
        /\ s \in sessions /\ record[s].kid \in {None, k} /\ (record[s].kid = k => k \in sessions)
    BY <1>0, <2>1 DEF OwnChild, Call, Tree!Ids, Tree!Owned
  <2>3. record'[s].kid = k /\ record'[s].got = record[s].got \cup new /\ \A x \in Tree!Ids \ {s} : record'[x] = record[x]
    <3>1. record \in [Tree!Ids -> RecordType]
      BY DEF TreeTyped, RecordType
    <3>2. QED
      BY <2>1, <2>2, <3>1 DEF RecordType
  <2>4. Tree!Kept' \subseteq Tree!Kept \cup ({s} \X new)
    <3>1. ASSUME NEW x \in sessions', NEW e \in Entries, NEW y, y = record'[x].kid, y # None, e \in record'[x].got,
                 Tree!Available(x)', Tree!Available(y)'
          PROVE  <<x, e>> \in Tree!Kept \cup ({s} \X new)
      <4>1. CASE x = s /\ e \in new
        BY <4>1
      <4>2. CASE x = s /\ e \notin new
        <5>1. e \in record[s].got /\ record[s].kid = k
          BY <2>2, <2>3, <3>1, <4>2 DEF Family
        <5>2. k \in sessions /\ sessions' = sessions /\ y = k
          BY <2>1, <2>2, <2>3, <3>1, <4>2, <5>1
        <5>3. Tree!Available(s) /\ Tree!Available(k)
          BY <1>0, <3>1, <4>2, <5>2, AvailableBefore
        <5>4. QED
          BY <1>0, <2>2, <4>2, <5>1, <5>3 DEF Tree!Kept
      <4>3. CASE x # s
        <5>1. x \in Tree!Ids
          BY <2>1, <2>2 DEF TreeTyped
        <5>2. record'[x] = record[x] /\ parent[y] = x
          BY <2>3, <3>1, <4>3, <5>1 DEF Family
        <5>3. y # k /\ (k \in sessions => sessions' = sessions)
          BY <2>1, <2>2, <4>3, <5>2
        <5>4. Tree!Available(x) /\ Tree!Available(y) /\ x \in sessions
          <6>1. CASE k \in sessions
            BY <1>0, <3>1, <5>3, <6>1, AvailableBefore
          <6>2. CASE k \notin sessions
            <7>0. y \in Tree!Ids
              BY <3>1, <5>1, <5>2 DEF TreeTyped, Tree!Ids
            <7>1. x # k
              BY <2>1, <5>2, <6>2, <7>0, KidsOfTheirOwn
            <7>2. QED
              BY <1>0, <1>6, <2>1, <3>1, <5>3, <7>1, PublishedAvailable
          <6>3. QED
            BY <6>1, <6>2
        <5>5. QED
          BY <3>1, <5>2, <5>4 DEF Tree!Kept
      <4>4. QED
        BY <4>1, <4>2, <4>3
    <3>2. QED
      BY <3>1 DEF Tree!Kept
  <2>5. IsFiniteSet(Tree!Kept') /\ Cardinality(Tree!Kept') <= Cardinality(Tree!Kept) + Cardinality(new) /\ Cardinality(new) \in Nat
    BY <2>2, <2>4, KeptFinite, KeptGrows
  <2>6. op'[o].held = 0 /\ op[o].held \in Nat /\ used \in Int /\ MaxBytes \in Nat /\ Others(o)
    BY <1>0, <2>1 DEF Ends, Call, TreeConstants
  <2> DEFINE more == Cardinality(new)
  <2>7. used' = used - (op[o].held - more) /\ more \in Nat /\ more <= op[o].held
    BY <2>1, <2>2, <2>5
  <2> HIDE DEF more
  <2>8. used' \in Int /\ used' - used >= op'[o].held - op[o].held + more /\ used' <= MaxBytes
    BY <1>0, <2>6, <2>7
  <2>9. QED
    BY <2>5, <2>6, <2>7, <2>8, BudgetStep DEF more
<1>7. ASSUME NEW o \in Ops, Tree!Fail(o), ~Publishes
      PROVE  Tree!ChainFits' /\ used' \in Int
  <2>1. Ends(o) /\ used' = used - op[o].held /\ Tree!Running(o)
    BY <1>7, Failed
  <2>2. op'[o].held = 0 /\ op[o].held \in Nat /\ used \in Int /\ MaxBytes \in Nat /\ Others(o)
    BY <1>0, <2>1 DEF Ends, Call, TreeConstants
  <2>4. used' \in Int /\ used' - used >= op'[o].held - op[o].held + 0 /\ used' <= MaxBytes
    BY <1>0, <2>1, <2>2
  <2>5. IsFiniteSet(Tree!Kept') /\ Cardinality(Tree!Kept') <= Cardinality(Tree!Kept) + 0
    BY <1>1, <1>7, KeptFinite
  <2>6. QED
    BY <2>2, <2>4, <2>5, BudgetStep
<1>8. ASSUME NEW o \in Ops, Tree!Reserve(o), ~Publishes
      PROVE  Tree!ChainFits' /\ used' \in Int
  <2>1. PICK bytes \in Nat : /\ used + bytes <= MaxBytes /\ used' = used + bytes /\ Others(o) /\ op'[o].held = bytes
                              /\ op[o].phase = "select"
    BY <1>0, <1>8, ReservedFor DEF Becomes
  <2>2. op[o].held = 0 /\ used \in Int /\ MaxBytes \in Nat
    BY <1>0, <2>1 DEF HandsOff, Working, TreeConstants
  <2>3. used' \in Int /\ used' - used >= op'[o].held - op[o].held + 0 /\ used' <= MaxBytes
    BY <1>0, <2>1, <2>2
  <2>4. IsFiniteSet(Tree!Kept') /\ Cardinality(Tree!Kept') <= Cardinality(Tree!Kept) + 0
    BY <1>1, <1>8, KeptFinite
  <2>5. QED
    BY <2>1, <2>3, <2>4, BudgetStep
<1>9. ASSUME NEW o \in Ops, Tree!OpStep(o), ~Publishes, ~Tree!Fail(o), ~Tree!Reserve(o)
      PROVE  Tree!ChainFits' /\ used' \in Int
  <2>1. /\ used' = used
        /\ Tree!Start(o) \/ Tree!Lookup(o) \/ Tree!Dropped(o) \/ Tree!Index(o) \/ Tree!Answer(o) \/ Tree!Extract(o) \/ Tree!Verify(o) \/ Tree!Move(o)
    BY <1>9 DEF Tree!OpStep, Publishes, Tree!Start, Tree!Lookup, Tree!Dropped, Tree!Index, Tree!Answer, Tree!Extract, Tree!Verify, Tree!Move
  <2>2. Others(o) /\ op'[o].held = op[o].held
    <3>1. CASE Tree!Start(o) \/ Tree!Lookup(o) \/ Tree!Dropped(o) \/ Tree!Index(o) \/ Tree!Answer(o)
      <4>1. Others(o) /\ (op'[o].held = op[o].held \/ op'[o].held = 0) /\ ~Working(o)
        BY <3>1, Started, LookedUp, WasDropped, Indexed, Answered DEF Becomes, Ends, Working
      <4>2. QED
        BY <4>1 DEF HandsOff
    <3>2. CASE Tree!Extract(o) \/ Tree!Verify(o) \/ Tree!Move(o)
      BY <3>2, WorksOn, Moved DEF Becomes
    <3>3. QED
      BY <2>1, <3>1, <3>2
  <2>3. \A p \in Ops : op'[p].held = op[p].held
    BY <2>2 DEF Others, SameCall
  <2>4. QED
    BY <1>0, <1>2, <1>9, <2>1, <2>3
<1>10. QED
  <2>1. CASE Publishes
    BY <1>6, <2>1 DEF Publishes
  <2>2. CASE ~Publishes
    <3>1. ASSUME NEW o \in Ops, Tree!OpStep(o)
          PROVE  Tree!ChainFits' /\ used' \in Int
      BY <1>7, <1>8, <1>9, <2>2, <3>1
    <3>2. CASE OtherStep
      BY <1>0, <1>3, <1>4, <2>2, <3>2
    <3>3. QED
      BY <1>5, <2>2, <3>1, <3>2 DEF Tree!Next, OtherStep
  <2>3. QED
    BY <2>1, <2>2
-----------------------------------------------------------------------------
\* What session s offers, and what the call o has in its child.
Offered(s) ==
  LET k == record[s].kid IN
  k # None /\ Tree!Available(k) => /\ record[s].got \subseteq files[k]
                                   /\ (\A o \in Ops : op[o].kid # k) => files[k] = record[s].got
FilledBy(o) ==
  LET r == record[op[o].at]  k == op[o].kid IN
  /\ r.kid = None => files[k] = op[o].moved
  /\ k \in sessions => files[k] = r.got \cup op[o].moved

LEMMA OfferedStays ==
  ASSUME TreeTyped, NEW s \in Tree!Ids, Offered(s), Forgets, sessions' \subseteq sessions, \A x \in sessions : parent'[x] = parent[x],
         NEW k, k = record[s].kid,
         Tree!Available(k) => files'[k] = files[k] /\ \A o \in Ops : op[o].kid = k => op'[o].kid = k
  PROVE  Offered(s)'
<1>1. CASE record'[s].kid = None
  BY <1>1 DEF Offered
<1>2. CASE record'[s].kid = k /\ record'[s].got = record[s].got
  <2>1. Tree!Available(k)' => Tree!Available(k)
    BY AvailableBefore
  <2>2. SUFFICES ASSUME k # None, Tree!Available(k)'
                 PROVE  record[s].got \subseteq files'[k] /\ ((\A o \in Ops : op'[o].kid # k) => files'[k] = record[s].got)
    BY <1>2 DEF Offered
  <2>3. QED
    BY <2>1, <2>2 DEF Offered
<1>3. QED
  BY <1>1, <1>2 DEF Forgets

\* The files of who is available stay when those of another session go.
LEMMA OutOfReach ==
  ASSUME TreeTyped, NEW s \in Tree!Ids, s \notin sessions, NEW k \in Tree!Ids, k # s,
         Tree!Available(k) \/ (parent[k] # None /\ Tree!Available(parent[k]))
  PROVE  k \notin Tree!Under(s)
<1>1. CASE Tree!Available(k)
  BY <1>1, UnderGone
<1>2. CASE parent[k] # None /\ Tree!Available(parent[k])
  <2>1. PICK set \in SUBSET sessions : Tree!Holds(set, parent[k])
    BY <1>2 DEF Tree!Available
  <2>2. Tree!Holds(set \cup {k}, k) /\ set \cup {k} \in SUBSET (Tree!Ids \ {s})
    BY <2>1 DEF Tree!Holds, TreeTyped
  <2>3. QED
    BY <2>2 DEF Tree!Under
<1>3. QED
  BY <1>1, <1>2

LEMMA FilesStep ==
  ASSUME TreeConstants, TreeTyped, Family, HandsOff, OwnChild, Tree!Next
  PROVE  /\ files' \in [Tree!Ids -> SUBSET Entries]
         /\ \A k \in Kids : parent[k] = None => files'[k] \subseteq files[k]
<1>1. ASSUME files' = files
      PROVE  /\ files' \in [Tree!Ids -> SUBSET Entries]
             /\ \A k \in Kids : parent[k] = None => files'[k] \subseteq files[k]
  BY <1>1 DEF TreeTyped
<1>2. ASSUME NEW s \in Tree!Ids, Tree!RemoveFiles(s)
      PROVE  /\ files' \in [Tree!Ids -> SUBSET Entries]
             /\ \A k \in Kids : parent[k] = None => files'[k] \subseteq files[k]
  BY <1>2, RemoveFilesFacts DEF Tree!Ids
<1>3. CASE Tree!RefreshClear
  BY <1>3 DEF Tree!RefreshClear, TreeTyped, Tree!Ids
<1>4. ASSUME NEW o \in Ops, Tree!Move(o)
      PROVE  /\ files' \in [Tree!Ids -> SUBSET Entries]
             /\ \A k \in Kids : parent[k] = None => files'[k] \subseteq files[k]
  <2>1. PICK e \in op[o].chosen : files' = [files EXCEPT ![op[o].kid] = @ \cup {e}]
    BY <1>4, Moved
  <2>2. /\ op[o].kid # None /\ parent[op[o].kid] = op[o].at /\ op[o].at # None /\ e \in Entries
        /\ op[o].kid \in Tree!Ids
    BY <1>4, <2>1, Moved DEF OwnChild, Working, TreeTyped, Call, TreeConstants, Tree!Ids
  <2>3. QED
    BY <2>1, <2>2 DEF TreeTyped, Tree!Ids
<1>5. ASSUME NEW o \in Ops, Tree!Fail(o)
      PROVE  /\ files' \in [Tree!Ids -> SUBSET Entries]
             /\ \A k \in Kids : parent[k] = None => files'[k] \subseteq files[k]
  <2>1. files' = Tree!Undo(o) /\ op[o].kid \in Tree!Ids \cup {None}
    BY <1>5, Failed DEF TreeTyped, Call, Tree!Ids
  <2>2. QED
    BY <2>1 DEF Tree!Undo, TreeTyped, Tree!Ids
<1>6. CASE ~Tree!RefreshClear /\ ~(\E s \in Tree!Ids : Tree!RemoveFiles(s)) /\ ~(\E o \in Ops : Tree!Move(o) \/ Tree!Fail(o))
  <2>1. files' = files
    BY <1>6, RefreshDropFacts DEF Tree!Next, Tree!OpStep, Tree!Start, Tree!Lookup, Tree!Dropped, Tree!Index, Tree!Answer, Tree!Reserve, Tree!Extract, Tree!Verify, Tree!Publish, Tree!Ask, Tree!Remove,
       Tree!RemoveChild, Tree!Change, Tree!Cancel, Tree!Refresh, Tree!RefreshStep, Tree!RefreshDrained, Tree!RefreshReplace, Tree!RefreshPublish, Tree!RefreshFails, Tree!tree
  <2>2. QED
    BY <1>1, <2>1
<1>7. QED
  BY <1>2, <1>3, <1>4, <1>5, <1>6

LEMMA PublishedFilesKept ==
  ASSUME TreeConstants, TreeTyped, used >= 0, InTurn, Tree!RemovedForGood, Tree!NoOrphans, Refreshed, Family, HandsOff, OwnChild, Filled,
         Tree!PublishedFiles, Tree!Next
  PROVE  Tree!PublishedFiles'
<1>0. /\ parent[Root] = None /\ None \notin Tree!Ids /\ Kids \subseteq Tree!Ids /\ \A x \in sessions : parent'[x] = parent[x]
      /\ \A s \in Tree!Ids : record[s].kid \in Kids \cup {None} /\ (record[s].kid # None => parent[record[s].kid] = s)
      /\ \A o \in Ops : op[o].at \in Tree!Ids
      /\ sessions \subseteq Tree!Ids
  BY ParentStep DEF Family, TreeConstants, Tree!Ids, TreeTyped, Call
<1>1. ASSUME NEW s \in Tree!Ids
      PROVE  Offered(s)
  <2>1. CASE record[s].kid # None /\ Tree!Available(record[s].kid)
    <3>1. s \in sessions
      BY <1>0, <2>1, AvailableParent DEF Tree!Available, Tree!Holds
    <3>2. QED
      BY <3>1 DEF Tree!PublishedFiles, Offered
  <2>2. QED
    BY <2>1 DEF Offered
<1>2. SUFFICES ASSUME NEW s \in Tree!Ids
               PROVE  Offered(s)'
  <2>1. sessions' \subseteq Tree!Ids
    <3>1. CASE Publishes
      <4>1. PICK o \in Ops : Tree!Publish(o)
        BY <3>1 DEF Publishes
      <4>2. sessions' = sessions \cup {op[o].kid} /\ op[o].kid \in Tree!Ids
        BY <1>0, <4>1, Published DEF OwnChild, Working, TreeTyped, Call
      <4>3. QED
        BY <1>0, <4>2
    <3>2. QED
      BY <1>0, <3>1, StoreStep
  <2>2. QED
    BY <2>1 DEF Tree!PublishedFiles, Offered
<1>3. ASSUME ~Publishes, NEW k, k = record[s].kid, k # None,
             Tree!Available(k) => files'[k] = files[k] /\ \A o \in Ops : op[o].kid = k => op'[o].kid = k
      PROVE  Offered(s)'
  BY <1>0, <1>1, <1>3, RecordStep, StoreStep, OfferedStays
<1>4. CASE record[s].kid = None /\ ~Publishes
  <2>1. record'[s].kid = None
    BY <1>0, <1>4, RecordStep DEF Forgets
  <2>2. QED
    BY <2>1 DEF Offered
<1>5. PICK k : k = record[s].kid
  OBVIOUS
<1>6. CASE Tree!RefreshClear /\ ~Publishes
  <2>1. /\ refresh.phase = "dropping" /\ refresh.drops = {} /\ UNCHANGED <<sessions, parent, op>>
        /\ record' = [record EXCEPT ![Root] = Tree!Unknown]
    BY <1>6 DEF Tree!RefreshClear
  <2>2. ASSUME NEW x, Tree!Available(x)'
        PROVE  x = Root
    BY <1>0, <2>1, <2>2, AvailableBefore, OnlyRoot
  <2>3. record'[s].kid # Root
    BY <1>0, <1>6, RecordStep DEF RecordType, TreeConstants
  <2>4. QED
    BY <2>2, <2>3 DEF Offered
<1>7. CASE OtherStep /\ ~Tree!RefreshClear /\ ~Publishes /\ k # None
  <2>1. \A o \in Ops : op[o].kid = k => op'[o].kid = k
    BY <1>0, <1>7, OtherCalls DEF NoCallMoves, SameCall
  <2>2. Tree!Available(k) => files'[k] = files[k]
    <3>1. ASSUME NEW x \in Tree!Ids, Tree!RemoveFiles(x), Tree!Available(k)
          PROVE  files'[k] = files[k]
      <4>1. k \in Tree!Ids
        BY <1>0, <1>5, <1>7
      <4>2. x \notin sessions
        BY <3>1 DEF Tree!RemoveFiles, Tree!Drained, Tree!RemovedForGood
      <4>3. k \notin Tree!Under(x)
        BY <3>1, <4>2, UnderGone
      <4>4. QED
        BY <3>1, <4>1, <4>3, RemoveFilesFacts
    <3>2. CASE ~\E x \in Tree!Ids : Tree!RemoveFiles(x)
      BY <1>7, <3>2, RefreshDropFacts DEF OtherStep, Tree!Remove, Tree!RemoveChild, Tree!Change, Tree!Cancel, Tree!Refresh, Tree!RefreshStep, Tree!RefreshDrained,
         Tree!RefreshReplace, Tree!RefreshPublish, Tree!RefreshFails, Tree!tree
    <3>3. QED
      BY <3>1, <3>2
  <2>3. QED
    BY <1>3, <1>5, <1>7, <2>1, <2>2
<1>8. ASSUME NEW o \in Ops, Tree!Ask(o), ~Publishes, k # None
      PROVE  Offered(s)'
  <2>1. op[o].phase = "idle" /\ files' = files /\ Others(o)
    BY <1>8, Asked
  <2>2. op[o].kid = None
    BY <2>1 DEF HandsOff, Working
  <2>3. \A p \in Ops : op[p].kid = k => op'[p].kid = k
    BY <1>8, <2>1, <2>2 DEF Others, SameCall
  <2>4. QED
    BY <1>3, <1>5, <1>8, <2>1, <2>3
<1>9. ASSUME NEW o \in Ops, Tree!OpStep(o), ~Tree!Move(o), ~Tree!Fail(o), ~Publishes, k # None
      PROVE  Offered(s)'
  <2>1. /\ files' = files
        /\ Tree!Start(o) \/ Tree!Lookup(o) \/ Tree!Dropped(o) \/ Tree!Index(o) \/ Tree!Answer(o) \/ Tree!Reserve(o) \/ Tree!Extract(o) \/ Tree!Verify(o)
    BY <1>9 DEF Tree!OpStep, Publishes, Tree!Start, Tree!Lookup, Tree!Dropped, Tree!Index, Tree!Answer, Tree!Reserve, Tree!Extract, Tree!Verify, Tree!tree
  <2>2. Others(o)
    BY <1>9, CallStep DEF CallMoves
  <2>3. Tree!Available(k) => (op[o].kid = k => op'[o].kid = k)
    <3>1. CASE Tree!Start(o) \/ Tree!Lookup(o) \/ Tree!Index(o) \/ Tree!Answer(o) \/ Tree!Reserve(o)
      <4>1. op[o].phase \in {"queued", "lookup", "index", "select"}
        BY <3>1, Started, LookedUp, Indexed, Answered, ReservedFor
      <4>2. op[o].kid = None
        BY <4>1 DEF HandsOff, Working
      <4>3. QED
        BY <1>9, <4>2
    <3>2. CASE Tree!Dropped(o)
      <4>1. op[o].kid = k => k \notin sessions
        BY <1>0, <1>5, <1>9, <3>2, WasDropped DEF Tree!Removed, Tree!RemovedForGood
      <4>2. QED
        BY <4>1 DEF Tree!Available, Tree!Holds
    <3>3. CASE Tree!Extract(o) \/ Tree!Verify(o)
      BY <3>3, WorksOn DEF Becomes
    <3>4. QED
      BY <2>1, <3>1, <3>2, <3>3
  <2>4. Tree!Available(k) => \A p \in Ops : op[p].kid = k => op'[p].kid = k
    BY <2>2, <2>3 DEF Others, SameCall
  <2>5. QED
    BY <1>3, <1>5, <1>9, <2>1, <2>4
<1>10. ASSUME NEW o \in Ops, Tree!Move(o), ~Publishes, k # None
      PROVE  Offered(s)'
  <2>1. PICK e \in op[o].chosen :
             /\ files' = [files EXCEPT ![op[o].kid] = @ \cup {e}]
             /\ Others(o) /\ op'[o].kid = op[o].kid
    BY <1>10, Moved DEF Becomes
  <2>2. UNCHANGED <<sessions, parent, record>>
    BY <1>10, Moved
  <2>3. \A p \in Ops : op'[p].kid = op[p].kid
    BY <2>1 DEF Others, SameCall
  <2>4. CASE op[o].kid # k
    BY <1>3, <1>5, <1>10, <2>1, <2>3, <2>4
  <2>5. CASE op[o].kid = k
    <3>1. Tree!Available(k)' => Tree!Available(k)
      BY <1>0, <2>2, AvailableBefore
    <3>2. files[k] \subseteq files'[k]
      BY <1>0, <1>5, <1>10, <2>1, <2>5 DEF TreeTyped
    <3>3. QED
      BY <1>1, <1>5, <2>2, <2>3, <2>5, <3>1, <3>2 DEF Offered
  <2>6. QED
    BY <2>4, <2>5
<1>11. ASSUME NEW o \in Ops, Tree!Fail(o), ~Publishes, k # None
      PROVE  Offered(s)'
  <2>1. /\ files' = Tree!Undo(o) /\ Tree!Running(o) /\ op[o].phase # "dropping" /\ Ends(o) /\ UNCHANGED <<sessions, parent>>
    BY <1>11, Failed
  <2>2. \A p \in Ops \ {o} : op'[p].kid = op[p].kid
    BY <2>1 DEF Ends, Others, SameCall
  <2>3. CASE op[o].kid # k
    <3>1. files'[k] = files[k]
      BY <1>0, <1>5, <1>11, <2>1, <2>3 DEF Tree!Undo, TreeTyped
    <3>2. QED
      BY <1>3, <1>5, <1>11, <2>2, <2>3, <3>1
  <2>4. CASE op[o].kid = k
    <3>1. Working(o)
      BY <1>11, <2>1, <2>4 DEF HandsOff
    <3>2. parent[k] = op[o].at /\ op[o].at = s
      BY <1>0, <1>5, <1>11, <2>4, <3>1 DEF OwnChild
    <3>3. SUFFICES ASSUME Tree!Available(k)', record'[s].kid = k
                   PROVE  record'[s].got \subseteq files'[k] /\ files'[k] = record'[s].got
      <4>1. record'[s].kid \in {None, k}
        BY <1>0, <1>5, <1>11, RecordStep DEF Forgets
      <4>2. QED
        BY <3>3, <4>1 DEF Offered
    <3>4. Tree!Available(k) /\ record'[s].got = record[s].got
      BY <1>0, <1>5, <1>11, <2>1, <3>3, AvailableBefore, RecordStep DEF Forgets
    <3>5. Tree!Available(s) /\ k \in sessions
      BY <1>0, <1>11, <3>2, <3>4, AvailableParent
    <3>6. files[k] = record[s].got \cup op[o].moved
      BY <2>4, <3>1, <3>2, <3>5 DEF Filled
    <3>7. op[o].moved \cap record[s].got = {}
      BY <1>5, <2>4, <3>1, <3>2 DEF OwnChild
    <3>8. files'[k] = files[k] \ op[o].moved
      BY <1>0, <1>5, <1>11, <2>1, <2>4, <3>2, <3>5 DEF Tree!Undo, TreeTyped
    <3>9. QED
      BY <3>4, <3>6, <3>7, <3>8
  <2>5. QED
    BY <2>3, <2>4
<1>12. ASSUME NEW o \in Ops, Tree!Publish(o)
       PROVE  Offered(s)'
  <2>0. PICK at, c : at = op[o].at /\ c = op[o].kid
    OBVIOUS
  <2>1. /\ op[o].moved = op[o].chosen /\ Tree!Owned(o) /\ Ends(o) /\ Working(o) /\ UNCHANGED <<parent, files>>
        /\ sessions' = sessions \cup {c}
        /\ record' = [record EXCEPT ![at].kid = c, ![at].got = @ \cup op[o].chosen]
    BY <1>12, <2>0, Published DEF Working
  <2>2. /\ at \in Tree!Ids /\ c \in Kids /\ parent[c] = at /\ at \in sessions /\ record[at].kid \in {None, c}
        /\ (record[at].kid = c => c \in sessions) /\ (record[at].kid = None => c \notin sessions)
    BY <1>0, <2>0, <2>1 DEF OwnChild, TreeTyped, Call, Tree!Owned
  <2>3. record'[at].kid = c /\ record'[at].got = record[at].got \cup op[o].chosen /\ \A x \in Tree!Ids \ {at} : record'[x] = record[x]
    <3>1. record \in [Tree!Ids -> RecordType]
      BY DEF TreeTyped, RecordType
    <3>2. QED
      BY <2>1, <2>2, <3>1 DEF RecordType
  <2>4. ASSUME NEW x, Tree!Available(x)', x # c \/ c \in sessions
        PROVE  Tree!Available(x)
    <3>1. CASE c \in sessions
      BY <1>0, <2>1, <2>4, <3>1, AvailableBefore
    <3>2. QED
      BY <1>12, <2>0, <2>1, <2>4, <3>1, PublishedAvailable
  <2>5. CASE s = at
    <3>1. SUFFICES ASSUME Tree!Available(c)'
                   PROVE  files[c] = record[s].got \cup op[o].chosen
      BY <2>1, <2>3, <2>5 DEF Offered
    <3>2. Tree!Available(at)'
      <4>1. PICK set \in SUBSET sessions' : Tree!Holds(set, c)'
        BY <3>1 DEF Tree!Available
      <4>2. Tree!Holds(set, at)'
        BY <1>0, <2>1, <2>2, <4>1 DEF Tree!Holds
      <4>3. QED
        BY <4>1, <4>2 DEF Tree!Available
    <3>3. Tree!Available(at)
      BY <2>2, <2>4, <3>2
    <3>4. CASE record[at].kid = None
      <4>1. files[c] = op[o].moved /\ record[at].got = {}
        BY <2>0, <2>1, <2>2, <3>3, <3>4 DEF Filled, Family
      <4>2. QED
        BY <2>1, <2>5, <4>1
    <3>5. CASE c \in sessions
      BY <2>0, <2>1, <2>5, <3>3, <3>5 DEF Filled
    <3>6. QED
      BY <2>2, <3>4, <3>5
  <2>6. CASE s # at
    <3>1. record'[s] = record[s]
      BY <2>3, <2>6
    <3>2. k # c
      BY <1>0, <1>5, <2>2, <2>6 DEF TreeConstants
    <3>3. SUFFICES ASSUME k # None, Tree!Available(k)'
                   PROVE  record[s].got \subseteq files[k] /\ ((\A p \in Ops : op'[p].kid # k) => files[k] = record[s].got)
      BY <1>5, <2>1, <3>1 DEF Offered
    <3>4. Tree!Available(k)
      BY <2>4, <3>2, <3>3
    <3>5. \A p \in Ops : op[p].kid = k => op'[p].kid = k
      BY <2>0, <2>1, <3>2 DEF Ends, Others, SameCall
    <3>6. QED
      BY <1>1, <1>5, <3>3, <3>4, <3>5 DEF Offered
  <2>7. QED
    BY <2>5, <2>6
<1>13. QED
  <2>1. CASE Publishes
    BY <1>12, <2>1 DEF Publishes
  <2>2. CASE ~Publishes /\ k # None
    BY <1>6, <1>7, <1>8, <1>9, <1>10, <1>11, <2>2 DEF Tree!Next, OtherStep
  <2>3. QED
    BY <1>4, <1>5, <2>1, <2>2

\* What a call at work has in its child stays while the archive and the files do.
LEMMA FilledStays ==
  ASSUME NEW o \in Ops, FilledBy(o), op'[o].at = op[o].at, op'[o].kid = op[o].kid, op'[o].moved = op[o].moved,
         LET s == op[o].at  k == op[o].kid IN
         /\ record'[s].kid = record[s].kid /\ record'[s].got = record[s].got
         /\ k \in sessions' => k \in sessions
         /\ record[s].kid = None \/ k \in sessions => files'[k] = files[k]
  PROVE  FilledBy(o)'
BY DEF FilledBy

LEMMA FilledKept ==
  ASSUME TreeConstants, TreeTyped, used >= 0, InTurn, Tree!RemovedForGood, Tree!NoOrphans, Refreshed, Family, HandsOff, OwnChild, Filled,
         Tree!PublishedFiles, Tree!Next
  PROVE  Filled'
<1>0. /\ parent[Root] = None /\ None \notin Tree!Ids /\ Kids \subseteq Tree!Ids /\ \A x \in sessions : parent'[x] = parent[x]
      /\ \A o \in Ops : op[o].at \in Tree!Ids /\ op[o].kid \in Tree!Ids \cup {None} /\ (Working(o) => Tree!Running(o))
      /\ sessions \subseteq Tree!Ids
  BY ParentStep DEF Family, TreeConstants, Tree!Ids, TreeTyped, Call, Working, Tree!Running
<1>1. ASSUME NEW k \in Kids, parent'[k] = None
      PROVE  files'[k] = {}
  <2>1. parent[k] = None
    BY <1>0, <1>1, ParentStep
  <2>2. files[k] = {}
    BY <2>1 DEF Filled
  <2>3. QED
    BY <2>1, <2>2, FilesStep
<1>2. SUFFICES ASSUME NEW p \in Ops, Working(p)', NEW at, at = op'[p].at, Tree!Available(at)'
               PROVE  FilledBy(p)'
  BY <1>1 DEF Filled, FilledBy
<1>3. ASSUME Working(p), Tree!Available(op[p].at)
      PROVE  /\ FilledBy(p) /\ op[p].kid \in Tree!Ids /\ parent[op[p].kid] = op[p].at /\ op[p].at # None
             /\ record[op[p].at].kid = None \/ op[p].kid \in sessions => ~Gone(op[p].kid)
  BY <1>0, <1>3 DEF Filled, FilledBy, OwnChild, Tree!RemovedForGood, Gone
\* A step of somebody else.
<1>5. ASSUME SameCall(op'[p], op[p]), ~Publishes
      PROVE  Working(p) /\ op'[p].at = op[p].at /\ sessions' \subseteq sessions /\ Tree!Available(op[p].at)
  <2>1. Working(p) /\ op'[p].at = op[p].at
    BY <1>2, <1>5 DEF SameCall, Working
  <2>2. PICK s : s = op[p].at
    OBVIOUS
  <2>3. sessions' \subseteq sessions
    BY <1>0, <1>5, StoreStep
  <2>4. Tree!Available(s)'
    BY <1>2, <2>1, <2>2
  <2>5. QED
    BY <1>0, <2>1, <2>2, <2>3, <2>4, AvailableBefore
<1>6. ASSUME SameCall(op'[p], op[p]), ~Publishes, record' = record, files' = files
      PROVE  FilledBy(p)'
  BY <1>3, <1>5, <1>6, FilledStays DEF SameCall
<1>7. CASE OtherStep /\ ~Publishes
  <2>1. SameCall(op'[p], op[p])
    BY <1>0, <1>7, OtherCalls DEF NoCallMoves
  <2>2. Working(p) /\ op'[p].at = op[p].at /\ sessions' \subseteq sessions /\ Tree!Available(op[p].at)
    BY <1>5, <1>7, <2>1
  <2>3. p \in tail /\ ~Tree!Settled(p)
    BY <2>2 DEF InTurn, InProgress, Working, Tree!Settled, TreeConstants
  <2>4. record' = record
    BY <1>7, <2>3, RefreshDropFacts DEF OtherStep, Tree!Remove, Tree!RemoveChild, Tree!RemoveFiles, Tree!Change, Tree!Cancel, Tree!Refresh, Tree!RefreshStep, Tree!RefreshDrained,
       Tree!RefreshReplace, Tree!RefreshPublish, Tree!RefreshFails, Tree!RefreshClear, Tree!TailEnded, Tree!tree
  <2>5. ASSUME NEW x \in Tree!Ids, Tree!RemoveFiles(x)
        PROVE  FilledBy(p)'
    <3> DEFINE s == op[p].at  k == op[p].kid
    <3>1. x \notin sessions /\ Gone(x)
      BY <2>5 DEF Tree!RemoveFiles, Tree!Drained, Tree!RemovedForGood, Gone
    <3>2. record[s].kid = None \/ k \in sessions => files'[k] = files[k]
      <4>1. SUFFICES ASSUME record[s].kid = None \/ k \in sessions
                     PROVE  files'[k] = files[k]
        OBVIOUS
      <4>2. k \in Tree!Ids /\ k # x /\ parent[k] # None /\ Tree!Available(parent[k])
        BY <1>3, <2>2, <3>1, <4>1
      <4>3. k \notin Tree!Under(x)
        BY <3>1, <4>2, OutOfReach
      <4>4. QED
        BY <2>5, <4>2, <4>3, RemoveFilesFacts
    <3>3. QED
      BY <1>3, <2>1, <2>2, <2>4, <3>2, FilledStays DEF SameCall
  <2>6. CASE ~\E x \in Tree!Ids : Tree!RemoveFiles(x)
    <3>1. files' = files
      BY <1>7, <2>3, <2>6, RefreshDropFacts DEF OtherStep, Tree!Remove, Tree!RemoveChild, Tree!Change, Tree!Cancel, Tree!Refresh, Tree!RefreshStep, Tree!RefreshDrained,
         Tree!RefreshReplace, Tree!RefreshPublish, Tree!RefreshFails, Tree!RefreshClear, Tree!TailEnded, Tree!tree
    <3>2. QED
      BY <1>6, <1>7, <2>1, <2>4, <3>1
  <2>7. QED
    BY <2>5, <2>6
<1>8. ASSUME NEW o \in Ops, Tree!Ask(o), ~Publishes
      PROVE  FilledBy(p)'
  <2>1. op'[o].phase = "queued" /\ UNCHANGED <<record, files>> /\ Others(o)
    BY <1>8, Asked
  <2>2. p # o
    BY <1>2, <2>1 DEF Working
  <2>3. QED
    BY <1>6, <1>8, <2>1, <2>2 DEF Others
<1>9. ASSUME NEW o \in Ops, Tree!OpStep(o), p # o
      PROVE  FilledBy(p)'
  <2>1. SameCall(op'[p], op[p])
    BY <1>9, CallStep DEF CallMoves, Others
  <2>2. Working(p)
    BY <1>2, <2>1 DEF SameCall, Working
  <2>3. ~Tree!Running(o)
    BY <1>0, <1>9, <2>2, OneRuns
  <2>4. Tree!Start(o)
    BY <1>9, <2>3, LookedUp, WasDropped, Indexed, Answered, ReservedFor, WorksOn, Moved, Published, Failed DEF Tree!OpStep, Tree!Running
  <2>5. UNCHANGED <<record, files, sessions>>
    BY <2>4, Started
  <2>6. op[p].at \in Tree!Ids /\ parent' = parent
    BY <1>0, <2>4, Started
  <2>7. PICK s : s = op[p].at
    OBVIOUS
  <2>8. Tree!Available(s)'
    BY <1>2, <2>1, <2>7 DEF SameCall
  <2>9. Tree!Available(op[p].at)
    BY <2>5, <2>6, <2>7, <2>8, AvailableBefore
  <2>10. QED
    BY <1>3, <2>1, <2>2, <2>5, <2>9, FilledStays DEF SameCall
<1>10. ASSUME Tree!OpStep(p)
       PROVE  FilledBy(p)'
  <2>0. PICK s, k : s = op[p].at /\ k = op'[p].kid
    OBVIOUS
  <2>1. CASE Tree!Reserve(p)
    <3>1. PICK bytes \in Nat, c \in Kids :
            /\ IF record[s].kid # None THEN c = record[s].kid ELSE parent[c] = None /\ c \notin sessions
            /\ parent' = [parent EXCEPT ![c] = s]
            /\ Becomes(p, "extract", c, op[p].chosen \ record[s].got, op[p].moved, bytes)
      BY <2>0, <2>1, ReservedFor
    <3>2. /\ op[p].phase = "select" /\ s \in sessions /\ s \in Tree!Ids /\ UNCHANGED <<sessions, record, files>>
          /\ record[s].kid \in sessions \cup {None}
      BY <2>0, <2>1, ReservedFor DEF TreeTyped
    <3>3. op[p].moved = {} /\ c = k /\ op'[p].moved = {} /\ op'[p].at = s
      BY <2>0, <3>1, <3>2 DEF HandsOff, Working, Becomes
    <3>4. CASE record[s].kid = None
      <4>1. files[k] = {} /\ k \notin sessions
        BY <3>1, <3>3, <3>4 DEF Filled
      <4>2. QED
        BY <2>0, <3>2, <3>3, <3>4, <4>1 DEF FilledBy
    <3>5. CASE record[s].kid # None
      <4>1. k = record[s].kid /\ k \in sessions /\ parent[k] = s
        BY <3>1, <3>2, <3>3, <3>5 DEF Family
      <4>2. Tree!Available(s)'
        BY <1>2, <3>3
      <4>3. Tree!Available(s)
        BY <1>0, <3>2, <4>2, AvailableBefore
      <4>4. Tree!Available(k)
        BY <4>1, <4>3, AvailableChild
      <4>5. \A o \in Ops : op[o].kid # k
        <5>1. ASSUME NEW o \in Ops, op[o].kid = k
              PROVE  FALSE
          <6>1. Working(o) \/ op[o].phase = "dropping"
            BY <1>0, <4>1, <5>1 DEF HandsOff
          <6>2. o = p
            BY <3>2, <6>1, OneRuns DEF Tree!Running, Working
          <6>3. QED
            BY <3>2, <6>1, <6>2 DEF Working
        <5>2. QED
          BY <5>1
      <4>6. files[k] = record[s].got
        BY <3>2, <3>5, <4>1, <4>4, <4>5 DEF Tree!PublishedFiles
      <4>7. QED
        BY <2>0, <3>2, <3>3, <3>5, <4>6 DEF FilledBy
    <3>6. QED
      BY <3>4, <3>5
  <2>2. CASE Tree!Extract(p) \/ Tree!Verify(p)
    <3>1. /\ UNCHANGED <<sessions, parent, record, files>> /\ op[p].phase \in {"extract", "verify"}
          /\ op'[p].at = s /\ op'[p].kid = op[p].kid /\ op'[p].moved = op[p].moved
      BY <2>0, <2>2, WorksOn DEF Becomes
    <3>2. Tree!Available(s)'
      BY <1>2, <3>1
    <3>3. Tree!Available(op[p].at)
      BY <1>0, <2>0, <3>1, <3>2, AvailableBefore
    <3>4. Working(p)
      BY <3>1 DEF Working
    <3>5. QED
      BY <1>3, <2>0, <3>1, <3>3, <3>4, FilledStays
  <2>3. CASE Tree!Move(p)
    <3>1. /\ UNCHANGED <<sessions, parent, record>> /\ op[p].phase = "move"
          /\ op'[p].at = s /\ op'[p].kid = op[p].kid
      BY <2>0, <2>3, Moved DEF Becomes
    <3>2. PICK e \in op[p].chosen : files' = [files EXCEPT ![op[p].kid] = @ \cup {e}] /\ op'[p].moved = op[p].moved \cup {e}
      BY <2>3, Moved DEF Becomes
    <3>3. Tree!Available(s)'
      BY <1>2, <3>1
    <3>4. Tree!Available(op[p].at)
      BY <1>0, <2>0, <3>1, <3>3, AvailableBefore
    <3>5. FilledBy(p) /\ op[p].kid = k /\ k \in Tree!Ids
      BY <1>3, <2>0, <3>1, <3>4 DEF Working
    <3>6. files'[k] = files[k] \cup {e}
      BY <3>2, <3>5 DEF TreeTyped
    <3>7. QED
      BY <2>0, <3>1, <3>2, <3>5, <3>6 DEF FilledBy
  <2>4. CASE Tree!Start(p) \/ Tree!Lookup(p) \/ Tree!Dropped(p) \/ Tree!Index(p) \/ Tree!Answer(p) \/ Tree!Publish(p) \/ Tree!Fail(p)
    <3>1. op'[p].phase \notin {"extract", "verify", "move"}
      BY <2>4, Started, LookedUp, WasDropped, Indexed, Answered, Published, Failed DEF Becomes, Ends
    <3>2. QED
      BY <1>2, <3>1 DEF Working
  <2>5. QED
    BY <1>10, <2>1, <2>2, <2>3, <2>4 DEF Tree!OpStep
<1>11. QED
  <2>1. CASE Publishes
    BY <1>9, <1>10, <2>1 DEF Publishes, Tree!OpStep
  <2>2. CASE ~Publishes
    BY <1>7, <1>8, <1>9, <1>10, <2>2 DEF Tree!Next, OtherStep
  <2>3. QED
    BY <2>1, <2>2
-----------------------------------------------------------------------------
LEMMA TrackedStep ==
  ASSUME TreeConstants, TreeTyped, used >= 0, Tree!RemovedForGood, parent[Root] = None, Tree!Next
  PROVE  op' \in [Ops -> Call] /\ tail' \subseteq Ops /\ tracked' \in [Tree!Ids -> SUBSET Calls] /\ source' \in [Tree!Ids -> Int]
<1>0. Root \in Tree!Ids /\ Ops \subseteq Calls /\ Tree!Refreshing \in Calls /\ tracked \in [Tree!Ids -> SUBSET Calls] /\ tail \subseteq Ops
      /\ source \in [Tree!Ids -> Int]
  BY DEF Tree!Ids, Calls, TreeTyped
<1>1. ASSUME NEW o \in Ops, Tree!OpStep(o)
      PROVE  op' \in [Ops -> Call] /\ tail' \subseteq Ops /\ tracked' \in [Tree!Ids -> SUBSET Calls] /\ source' \in [Tree!Ids -> Int]
  <2>1. op' \in [Ops -> Call] /\ tail' = tail
    BY <1>1, CallStep DEF CallMoves, Others
  <2>2. source' = source
    BY <1>1 DEF Tree!OpStep, Tree!Start, Tree!Lookup, Tree!Dropped, Tree!Index, Tree!Answer, Tree!Reserve, Tree!Extract, Tree!Verify, Tree!Move, Tree!Publish, Tree!Fail
  <2>3. CASE Tree!Reserve(o)
    <3>1. tracked' = tracked \/ \E k \in Tree!Ids : tracked' = [tracked EXCEPT ![k] = @ \cup {o}]
      BY <2>3, ReservedFor DEF Tree!Ids
    <3>2. QED
      BY <1>0, <2>1, <2>2, <3>1
  <2>4. CASE ~Tree!Reserve(o)
    <3>1. tracked' = tracked \/ Ends(o)
      BY <1>1, <2>4, Started, LookedUp, WasDropped, Indexed, Answered, WorksOn, Moved, Published, Failed DEF Tree!OpStep
    <3>2. QED
      BY <1>0, <2>1, <2>2, <3>1 DEF Ends
  <2>5. QED
    BY <2>3, <2>4
<1>2. ASSUME NEW o \in Ops, Tree!Ask(o)
      PROVE  op' \in [Ops -> Call] /\ tail' \subseteq Ops /\ tracked' \in [Tree!Ids -> SUBSET Calls] /\ source' \in [Tree!Ids -> Int]
  <2>1. PICK s \in sessions : /\ tracked' = [tracked EXCEPT ![s] = @ \cup {o}] /\ Others(o) /\ source' = source
                              /\ tail' = {p \in tail : op[p].phase # "settled"} \cup {o}
    BY <1>2, Asked
  <2>2. QED
    BY <1>0, <2>1 DEF Others, TreeTyped
<1>3. CASE OtherStep
  <2>1. op' \in [Ops -> Call]
    BY <1>3, OtherCalls DEF NoCallMoves
  <2>2. tail' = tail \/ tail' = {}
    BY <1>3, RefreshDropFacts DEF OtherStep, Tree!Remove, Tree!RemoveChild, Tree!RemoveFiles, Tree!Change, Tree!Cancel, Tree!Refresh, Tree!RefreshStep, Tree!RefreshDrained,
       Tree!RefreshReplace, Tree!RefreshPublish, Tree!RefreshFails, Tree!RefreshClear, Tree!tree
  <2>3. \/ tracked' = tracked \/ tracked' = [tracked EXCEPT ![Root] = @ \ {Tree!Refreshing}]
        \/ tracked' = [tracked EXCEPT ![Root] = @ \cup {Tree!Refreshing}]
    BY <1>3, RefreshDropFacts DEF OtherStep, Tree!Remove, Tree!RemoveChild, Tree!RemoveFiles, Tree!Change, Tree!Cancel, Tree!Refresh, Tree!RefreshStep, Tree!RefreshDrained,
       Tree!RefreshReplace, Tree!RefreshPublish, Tree!RefreshFails, Tree!RefreshClear, Tree!RefreshEnds, Tree!tree
  <2>4. source' = source \/ (\E s \in Tree!Ids : source' = [source EXCEPT ![s] = @ + 1])
        \/ source' = [source EXCEPT ![Root] = source[Root] + 1] \/ source' = [source EXCEPT ![Root] = source[Root]]
    BY <1>3, RefreshDropFacts DEF OtherStep, Tree!Remove, Tree!RemoveChild, Tree!RemoveFiles, Tree!Change, Tree!Cancel, Tree!Refresh, Tree!RefreshStep, Tree!RefreshDrained,
       Tree!RefreshReplace, Tree!RefreshPublish, Tree!RefreshFails, Tree!RefreshClear, Tree!tree
  <2>5. QED
    BY <1>0, <2>1, <2>2, <2>3, <2>4
<1>4. QED
  BY <1>1, <1>2, <1>3 DEF Tree!Next, OtherStep

RemovalType == [phase : {"none", "children", "gone"}, on : Kids \cup {None}, waits : SUBSET Calls]

LEMMA TypesKept ==
  ASSUME TreeConstants, TreeInv, Tree!Next
  PROVE  TreeTyped'
<1>0. /\ TreeTyped /\ used >= 0 /\ Tree!RemovedForGood /\ Refreshed /\ Family /\ HandsOff /\ OwnChild /\ InTurn /\ Tree!NoOrphans /\ Awaited
      /\ Tree!ChainFits /\ parent[Root] = None
  BY UsedNat DEF TreeInv, Family
<1>1. parent' \in [Tree!Ids -> Tree!Ids \cup {None}] /\ files' \in [Tree!Ids -> SUBSET Entries] /\ used' \in Int
  BY <1>0, ParentStep, FilesStep, ChainFitsKept
<1>2. op' \in [Ops -> Call] /\ tail' \subseteq Ops /\ tracked' \in [Tree!Ids -> SUBSET Calls] /\ source' \in [Tree!Ids -> Int]
  BY <1>0, TrackedStep
<1>3. refresh' \in RefreshType
  BY <1>0, RefreshedKept
<1>4. removal' \in [Tree!Ids -> RemovalType]
  <2>1. removal \in [Tree!Ids -> RemovalType]
    BY <1>0 DEF TreeTyped, RemovalType
  <2>2. QED
    BY <1>0, <2>1, StoreStep, RemoveFilesFacts DEF LeavesStore, RemovalType
<1>5. sessions' \subseteq Tree!Ids /\ record' \in [Tree!Ids -> RecordType]
  <2>1. CASE ~Publishes
    BY <1>0, <2>1, StoreStep, RecordStep DEF TreeTyped
  <2>2. CASE Publishes
    <3>1. PICK o \in Ops : Tree!Publish(o)
      BY <2>2 DEF Publishes
    <3> DEFINE s == op[o].at  k == op[o].kid
    <3>2. /\ Working(o) /\ sessions' = sessions \cup {k}
          /\ record' = [record EXCEPT ![s].kid = k, ![s].got = @ \cup op[o].chosen]
      BY <1>0, <3>1, Published DEF Working
    <3>3. k \in Kids /\ s \in Tree!Ids /\ op[o].chosen \in SUBSET Entries /\ k \in Tree!Ids /\ record \in [Tree!Ids -> RecordType]
      BY <1>0, <3>2 DEF OwnChild, TreeTyped, Call, Tree!Ids, RecordType
    <3>4. record' \in [Tree!Ids -> RecordType]
      BY <3>2, <3>3 DEF RecordType
    <3>5. QED
      BY <1>0, <3>2, <3>3, <3>4 DEF TreeTyped
  <2>3. QED
    BY <2>1, <2>2
<1>6. QED
  BY <1>1, <1>2, <1>3, <1>4, <1>5 DEF TreeTyped, RefreshType, RemovalType, RecordType

LEMMA TreeStarts ==
  ASSUME TreeConstants, Tree!Init
  PROVE  TreeInv
<1> USE DEF Tree!Init
<1>1. Root \in Tree!Ids /\ Kids \subseteq Tree!Ids /\ None \notin Tree!Ids
  BY DEF Tree!Ids, TreeConstants
<1>2. TreeTyped
  <2>1. Tree!NoOp \in Call
    BY <1>1 DEF Tree!NoOp, Call, Phases, TreeConstants
  <2>2. Tree!Unknown \in [fp : Int, kid : Kids \cup {None}, got : SUBSET Entries]
    BY DEF Tree!Unknown
  <2>3. Tree!NoRemoval \in [phase : {"none", "children", "gone"}, on : Kids \cup {None}, waits : SUBSET Calls]
    BY DEF Tree!NoRemoval
  <2>4. Tree!NoRefresh \in [phase : {"idle", "draining", "dropping", "work", "publish"}, aborted : BOOLEAN,
                       waits : SUBSET Calls, drops : SUBSET Kids, on : Kids \cup {None}]
    BY DEF Tree!NoRefresh
  <2>5. QED
    BY <1>1, <2>1, <2>2, <2>3, <2>4 DEF TreeTyped
<1>3. \A o \in Ops : op[o] = Tree!NoOp
  OBVIOUS
<1>4. \A s \in Tree!Ids : parent[s] = None /\ record[s].kid = None /\ record[s].got = {} /\ removal[s].phase = "none"
  BY DEF Tree!Unknown, Tree!NoRemoval
<1>5. InTurn /\ OwnChild /\ Awaited /\ HandsOff
  BY <1>3 DEF InTurn, OwnChild, Awaited, HandsOff, InProgress, Working, Tree!Running, Tree!NoOp
<1>6. Family
  <2>1. Root \in Tree!Under(Root)
    BY <1>1 DEF Tree!Under, Tree!Holds
  <2>2. \A k \in Kids : k \notin sessions /\ ~Gone(k)
    BY <1>1, <1>4 DEF TreeConstants, Gone
  <2>3. QED
    BY <1>1, <1>4, <2>1, <2>2 DEF Family
<1>7. Refreshed
  BY DEF Refreshed, Tree!Busy, Tree!NoRefresh
<1>8. Filled
  BY <1>1, <1>3 DEF Filled, Working, Tree!NoOp
<1>9. Tree!NoOrphans /\ Tree!RemovedForGood /\ Tree!PublishedFiles
  BY <1>1, <1>4 DEF Tree!NoOrphans, Tree!RemovedForGood, Tree!PublishedFiles
<1>10. Tree!ChainFits
  <2>1. Tree!Kept = {}
    BY <1>1, <1>4 DEF Tree!Kept
  <2>2. Tree!Reserved = {}
    BY <1>3 DEF Tree!Reserved, Tree!NoOp
  <2>3. QED
    BY <2>1, <2>2, FS_EmptySet, SameCardinality DEF Tree!ChainFits, TreeConstants
<1>11. QED
  BY <1>2, <1>5, <1>6, <1>7, <1>8, <1>9, <1>10 DEF TreeInv

LEMMA TreeKept ==
  ASSUME TreeConstants, TreeInv, Tree!Next
  PROVE  TreeInv'
<1>1. /\ TreeTyped /\ used >= 0 /\ Tree!RemovedForGood /\ Refreshed /\ Family /\ HandsOff /\ OwnChild /\ InTurn /\ Tree!NoOrphans /\ Awaited
      /\ Tree!ChainFits /\ Filled /\ Tree!PublishedFiles /\ parent[Root] = None
  BY UsedNat DEF TreeInv, Family
<1>2. TreeTyped'
  BY TypesKept
<1>3. InTurn' /\ HandsOff'
  BY <1>1, TurnsKept, HandsOffKept
<1>4. OwnChild' /\ Awaited' /\ Refreshed'
  BY <1>1, OwnChildKept, AwaitedKept, RefreshedKept
<1>5. Family'
  BY <1>1, FamilyKept
<1>6. Tree!NoOrphans' /\ Tree!RemovedForGood'
  BY <1>1, ComesBack
<1>7. Tree!ChainFits' /\ Filled' /\ Tree!PublishedFiles'
  BY <1>1, ChainFitsKept, FilledKept, PublishedFilesKept
<1>8. QED
  BY <1>2, <1>3, <1>4, <1>5, <1>6, <1>7 DEF TreeInv

LEMMA TreePromises ==
  ASSUME TreeConstants, TreeInv
  PROVE  Tree!NoOrphans /\ Tree!RemovedForGood /\ Tree!ChainFits /\ Tree!OneAtATime /\ Tree!DrainedFirst /\ Tree!PublishedFiles
<1>1. Tree!OneAtATime
  BY OneRuns DEF TreeInv, Tree!OneAtATime
<1>2. Tree!DrainedFirst
  <2>1. ASSUME NEW s \in Tree!Ids, NEW o \in Ops, removal[s].phase = "gone", op[o].at = s, op[o].phase \in {"extract", "verify", "move"}
        PROVE  FALSE
    BY <2>1 DEF TreeInv, Awaited, InProgress, Gone
  <2>2. QED
    BY <2>1 DEF Tree!DrainedFirst
<1>3. QED
  BY <1>1, <1>2 DEF TreeInv

-----------------------------------------------------------------------------
(* Publication.                                                            *)

\* None is no set of entries.
PublicationConstants == None \notin SUBSET Entries

\* Every change of the published is saved at once, and keeps what was published.
Saved == store = published /\ published.extracted \subseteq published.selected

\* What the directories hold at each step: the files put aside by an earlier
\* publication are gone before the new ones are extracted, all the chosen files
\* are staged when the renames begin, and are published when they end.
DirectoriesFollowStep ==
  /\ step \in {"extract", "aside"} => previous = None
  /\ step = "extract" => staging # None
  /\ step \in {"aside", "place"} => staging = published.selected
  /\ step = "place" => directory = None
  /\ step \in {"tidy", "complete"} => directory = published.selected

\* A session shows what its published has published, and lives in one run of the server.
SessionIsPublished ==
  session # None =>
    /\ session \subseteq published.extracted /\ step # "restart"
    /\ IF step = "place" THEN previous # None ELSE directory # None

PublicationInv ==
  /\ Publishing!TypeOK /\ Saved /\ DirectoriesFollowStep /\ SessionIsPublished /\ Publishing!NothingLost
-----------------------------------------------------------------------------
LEMMA PublicationInit == ASSUME PublicationConstants PROVE Publishing!Init => PublicationInv
BY DEF PublicationConstants, Publishing!Init, PublicationInv, Publishing!TypeOK, Publishing!Job, Saved, DirectoriesFollowStep,
       SessionIsPublished, Publishing!NothingLost

\* The steps before the first rename: only what is staged changes, and of what an
\* earlier publication put aside only what has been replaced is removed.
LEMMA PreparingKeeps ==
  ASSUME PublicationConstants, PublicationInv, Publishing!Choose \/ Publishing!Begin \/ Publishing!Recover \/ Publishing!Extract
  PROVE  PublicationInv'
<1> USE DEF PublicationInv, Publishing!TypeOK, Saved, DirectoriesFollowStep, SessionIsPublished, Publishing!NothingLost
<1>1. CASE Publishing!Choose
  <2>1. PICK ids \in (SUBSET Entries) \ {{}} :
          Publishing!Emit([published EXCEPT !.status = "queued", !.selected = published.extracted \cup ids])
    BY <1>1 DEF Publishing!Choose
  <2>2. /\ published' \in Publishing!Job /\ store' = published'
        /\ published'.extracted = published.extracted /\ published.extracted \subseteq published'.selected
    BY <2>1 DEF Publishing!Emit, Publishing!Job
  <2>3. QED
    BY <1>1, <2>2 DEF Publishing!Choose, Publishing!disk
<1>2. CASE Publishing!Begin
  <2>1. /\ published' \in Publishing!Job /\ store' = published'
        /\ published'.extracted = published.extracted /\ published'.selected = published.selected
    BY <1>2 DEF Publishing!Begin, Publishing!Emit, Publishing!Job
  <2>2. QED
    BY <1>2, <2>1 DEF Publishing!Begin, Publishing!disk
<1>3. CASE Publishing!Recover
  BY <1>3 DEF Publishing!Recover, Publishing!Recovered, PublicationConstants
<1>4. CASE Publishing!Extract
  BY <1>4 DEF Publishing!Extract, PublicationConstants, Publishing!Job
<1>5. QED
  BY <1>1, <1>2, <1>3, <1>4

\* The renames, and the record of what they have published.
LEMMA PublishingKeeps ==
  ASSUME PublicationConstants, PublicationInv, Publishing!PutAside \/ Publishing!Place \/ Publishing!Tidy \/ Publishing!Complete
  PROVE  PublicationInv'
<1> USE DEF PublicationInv, Publishing!TypeOK, Saved, DirectoriesFollowStep, SessionIsPublished, Publishing!NothingLost
<1>0. published.selected \subseteq Entries /\ published.selected # None
  BY DEF Publishing!Job, PublicationConstants
<1>1. CASE Publishing!PutAside
  BY <1>1 DEF Publishing!PutAside, Publishing!Aside
<1>2. CASE Publishing!Place
  BY <1>0, <1>2 DEF Publishing!Place
<1>3. CASE Publishing!Tidy
  BY <1>0, <1>3 DEF Publishing!Tidy
<1>4. CASE Publishing!Complete
  <2>1. /\ published' \in Publishing!Job /\ store' = published'
        /\ published'.extracted = published.selected /\ published'.selected = published.selected
    BY <1>4 DEF Publishing!Complete, Publishing!Emit, Publishing!Job
  <2>2. QED
    BY <1>0, <1>4, <2>1 DEF Publishing!Complete, Publishing!disk
<1>5. QED
  BY <1>1, <1>2, <1>3, <1>4

\* A failure puts back what was put aside; a stop leaves the disk as it is, and the
\* next start puts back for a failed published what the stop left aside.
LEMMA FailingKeeps ==
  ASSUME PublicationConstants, PublicationInv, Publishing!Fail \/ Publishing!Crash \/ Publishing!Restart
  PROVE  PublicationInv'
<1> USE DEF PublicationInv, Publishing!TypeOK, Saved, DirectoriesFollowStep, SessionIsPublished, Publishing!NothingLost
<1>1. CASE Publishing!Fail
  <2>1. /\ published' \in Publishing!Job /\ store' = published'
        /\ published'.extracted = published.extracted /\ published'.selected = published.selected
    BY <1>1 DEF Publishing!Fail, Publishing!Emit, Publishing!Job
  <2>2. QED
    BY <1>1, <2>1 DEF Publishing!Fail, Publishing!PutBack
<1>2. CASE Publishing!Crash
  BY <1>2 DEF Publishing!Crash, Publishing!disk
<1>3. CASE Publishing!Restart
  <2>1. CASE published.status # "error"
    <3>1. /\ published' \in Publishing!Job /\ store' = published'
          /\ published'.extracted = published.extracted /\ published'.selected = published.selected
      BY <1>3, <2>1 DEF Publishing!Restart, Publishing!Emit, Publishing!Job
    <3>2. QED
      BY <1>3, <2>1, <3>1 DEF Publishing!Restart
  <2>2. CASE published.status = "error"
    <3>1. published.extracted \subseteq Entries
      BY DEF Publishing!Job
    <3>2. QED
      BY <1>3, <2>2, <3>1 DEF Publishing!Restart, Publishing!Recovered, PublicationConstants
  <2>3. QED
    BY <2>1, <2>2
<1>4. QED
  BY <1>1, <1>2, <1>3

-----------------------------------------------------------------------------
(* The torrent.                                                            *)

Outcomes == {"none", "ok", "select", "confirm", "fatal", "broken", "aborted"}

\* What the variables hold.
Torrent == [phase : {"new", "added", "destroyed"}, completed : BOOLEAN, wanted : SUBSET Files]
TransferTyped ==
  /\ aborted \in BOOLEAN /\ chosen \subseteq Files
  /\ call \in [phase : {"none", "ending", "adding", "active", "settling", "destroying"},
               outcome : Outcomes, of : Transfers \cup {None}]
  /\ torrent \in [Transfers -> Torrent]
  /\ active \in Transfers \cup {None} /\ stored \subseteq Transfers
  /\ reader \in [Readers -> [phase : {"closed", "open", "aborted"}, of : Transfers \cup {None}]]

Read(t) == \E r \in Readers : reader[r].of = t

\* The transfer that runs has a torrent, in the client until it is destroyed, and
\* completed once it is left to its readers.
RunningTransfer ==
  /\ IF call.phase = "none" THEN call.of = None ELSE call.of \in Transfers
  /\ call.phase \in {"ending", "adding", "active", "destroying"} => torrent[call.of].phase = "added"
  /\ call.phase \in {"ending", "adding", "active"} => ~torrent[call.of].completed
  /\ call.phase = "active" => active = call.of
  /\ call.phase = "settling" /\ torrent[call.of].phase = "added" => active = call.of /\ torrent[active].completed /\ Read(active)

\* The client holds the torrent that runs and the one that is read.
TwoTorrents ==
  /\ \A t \in Transfers : torrent[t].phase = "added" => t \in {call.of, active}
  /\ \A t \in Transfers : torrent[t].phase = "new" => ~torrent[t].completed /\ ~Read(t)
  /\ active # None =>
       /\ torrent[active].phase = "added"
       /\ IF call.phase = "none" THEN torrent[active].completed /\ Read(active)
          ELSE active = call.of /\ call.phase \in {"active", "settling"}

\* Who waits for pieces reads the torrent of the map.
OpenReaders ==
  \A r \in Readers :
    /\ reader[r].phase = "closed" <=> reader[r].of = None
    /\ reader[r].phase = "open" => reader[r].of = active
    /\ reader[r].of # None /\ torrent[reader[r].of].completed => reader[r].of = active

\* Storage is that of the transfer that runs, which an ending one has given back.
Stored == stored \subseteq {call.of} /\ (call.phase = "ending" => stored = {})

TransferInv == TransferTyped /\ RunningTransfer /\ TwoTorrents /\ OpenReaders /\ Stored

-----------------------------------------------------------------------------
LEMMA TransferStarts ==
  ASSUME None \notin Transfers, Transfer!Init
  PROVE  TransferInv
<1> USE DEF Transfer!Init, Transfer!NoCall, Transfer!NotAdded
<1>1. TransferTyped
  BY DEF TransferTyped, Outcomes, Torrent
<1>2. RunningTransfer /\ TwoTorrents /\ OpenReaders /\ Stored
  BY DEF RunningTransfer, TwoTorrents, OpenReaders, Stored, Read
<1>3. QED
  BY <1>1, <1>2 DEF TransferInv

LEMMA TransferPromises ==
  ASSUME None \notin Transfers, TransferInv
  PROVE  Transfer!OneTorrent /\ Transfer!TorrentsHaveOwners /\ Transfer!ReadersAreServed /\ Transfer!ReservedWhileRunning
<1> USE DEF TransferInv, TransferTyped, RunningTransfer, TwoTorrents, OpenReaders, Transfer!Alive
<1>1. Transfer!OneTorrent
  BY DEF Transfer!OneTorrent
<1>2. Transfer!TorrentsHaveOwners
  BY DEF Transfer!TorrentsHaveOwners, Transfer!ReadersOf, Read
<1>3. Transfer!ReadersAreServed
  BY DEF Transfer!ReadersAreServed
<1>4. Transfer!ReservedWhileRunning
  BY DEF Transfer!ReservedWhileRunning, Stored
<1>5. QED
  BY <1>1, <1>2, <1>3, <1>4

\* A torrent to add is a new one.
LEMMA NextIsFresh ==
  ASSUME Transfer!Fresh # {}
  PROVE  Transfer!NextTransfer \in Transfers /\ torrent[Transfer!NextTransfer].phase = "new"
<1>1. Transfer!NextTransfer \in Transfer!Fresh
  BY DEF Transfer!NextTransfer
<1>2. QED
  BY <1>1 DEF Transfer!Fresh

\* What changes in a torrent.
LEMMA PhaseMoved ==
  ASSUME NEW f \in [Transfers -> Torrent], NEW g, NEW t \in Transfers, NEW p \in {"new", "added", "destroyed"},
         g = [f EXCEPT ![t].phase = p]
  PROVE  /\ g \in [Transfers -> Torrent] /\ \A u \in Transfers \ {t} : g[u] = f[u]
         /\ g[t].phase = p /\ g[t].completed = f[t].completed
<1>1. f[t] \in Torrent
  OBVIOUS
<1>2. [f[t] EXCEPT !.phase = p] \in Torrent
  BY <1>1 DEF Torrent
<1>3. g[t] = [f[t] EXCEPT !.phase = p]
  OBVIOUS
<1>4. QED
  BY <1>1, <1>2, <1>3 DEF Torrent

\* finish keeps the invariant, whatever the outcome, of a transfer that runs.
LEMMA FinishKeeps ==
  ASSUME None \notin Transfers, TransferInv, NEW outcome \in Outcomes \ {"none"}, Transfer!Finish(outcome),
         call.phase \in {"adding", "active"}, outcome = "ok" => call.phase = "active",
         UNCHANGED <<aborted, chosen, stored>>
  PROVE  TransferInv'
<1> DEFINE t == call.of
<1> USE DEF TransferInv, Outcomes
<1>0. t \in Transfers
  BY DEF RunningTransfer
<1>1. /\ call' = [phase |-> IF (outcome = "broken") \/ (outcome = "ok" /\ Transfer!ReadersOf(t) # {}) THEN "settling" ELSE "destroying",
                  outcome |-> outcome, of |-> t]
      /\ active' = IF outcome # "ok" \/ Transfer!ReadersOf(t) = {} THEN None ELSE active
  BY DEF Transfer!Finish
<1>2. /\ torrent'[t].completed = (outcome = "ok")
      /\ torrent'[t].phase = IF outcome = "broken" THEN "destroyed" ELSE torrent[t].phase
      /\ \A u \in Transfers \ {t} : torrent'[u] = torrent[u]
      /\ torrent' \in [Transfers -> Torrent]
  <2> DEFINE done == [torrent EXCEPT ![t].completed = (outcome = "ok")]
             p == IF outcome = "broken" THEN "destroyed" ELSE torrent[t].phase
  <2>1. torrent \in [Transfers -> Torrent] /\ p \in {"new", "added", "destroyed"} /\ (outcome = "ok") \in BOOLEAN
    BY <1>0 DEF TransferTyped, Torrent
  <2>2. /\ done \in [Transfers -> Torrent] /\ done[t].completed = (outcome = "ok") /\ done[t].phase = torrent[t].phase
        /\ \A u \in Transfers \ {t} : done[u] = torrent[u]
    BY <1>0, <2>1, Zenon DEF Torrent
  <2>3. torrent' = [done EXCEPT ![t].phase = p]
    BY <2>2 DEF Transfer!Finish
  <2> HIDE DEF done, p
  <2>4. QED
    BY <1>0, <2>1, <2>2, <2>3, PhaseMoved DEF p
<1>3. /\ reader' \in [Readers -> [phase : {"closed", "open", "aborted"}, of : Transfers \cup {None}]]
      /\ \A r \in Readers : /\ reader'[r].of = reader[r].of
                            /\ reader'[r].phase = IF outcome # "ok" /\ r \in Transfer!ReadersOf(t) THEN "aborted" ELSE reader[r].phase
  BY DEF Transfer!Finish, Transfer!AfterFinish, Transfer!AbortReaders, TransferTyped
<1>4. TransferTyped'
  BY <1>0, <1>1, <1>2, <1>3 DEF TransferTyped
<1>5. \A u \in Transfers : Read(u)' = Read(u)
  BY <1>3 DEF Read
<1>6. Transfer!ReadersOf(t) # {} <=> Read(t)
  BY <1>0 DEF Transfer!ReadersOf, Read, OpenReaders
<1>7. RunningTransfer'
  BY <1>0, <1>1, <1>2, <1>5, <1>6 DEF RunningTransfer, TransferTyped
<1>8. TwoTorrents'
  BY <1>0, <1>1, <1>2, <1>5, <1>6 DEF TwoTorrents, TransferTyped, RunningTransfer
<1>9. OpenReaders'
  <2> SUFFICES ASSUME NEW r \in Readers
               PROVE  /\ reader'[r].phase = "closed" <=> reader'[r].of = None
                      /\ reader'[r].phase = "open" => reader'[r].of = active'
                      /\ reader'[r].of # None /\ torrent'[reader'[r].of].completed => reader'[r].of = active'
    BY DEF OpenReaders
  <2>1. reader[r].of \in Transfers \cup {None}
    BY DEF TransferTyped
  <2>2. active \in {None, t}
    BY DEF TwoTorrents
  <2>3. r \in Transfer!ReadersOf(t) <=> reader[r].of = t
    BY <1>0 DEF Transfer!ReadersOf, OpenReaders
  <2>4. CASE reader[r].of = t
    <3>1. CASE outcome = "ok"
      <4>1. Transfer!ReadersOf(t) # {} /\ active = t
        BY <1>0, <2>3, <2>4, <3>1 DEF RunningTransfer
      <4>2. QED
        BY <1>0, <1>1, <1>3, <2>4, <3>1, <4>1 DEF OpenReaders
    <3>2. CASE outcome # "ok"
      <4>1. ~torrent'[t].completed
        BY <1>2, <3>2
      <4>2. QED
        BY <1>0, <1>3, <2>3, <2>4, <3>2, <4>1
    <3>3. QED
      BY <3>1, <3>2
  <2>5. CASE reader[r].of # t
    BY <1>0, <1>1, <1>2, <1>3, <2>1, <2>2, <2>3, <2>5 DEF OpenReaders
  <2>6. QED
    BY <2>4, <2>5
<1>10. Stored'
  BY <1>1 DEF Stored
<1>11. QED
  BY <1>4, <1>7, <1>8, <1>9, <1>10

LEMMA TransferKept ==
  ASSUME None \notin Transfers, TransferInv, [Transfer!Next]_ofTorrent
  PROVE  TransferInv'
<1> USE DEF TransferInv
<1>1. CASE Transfer!Start \/ Transfer!Abort \/ Transfer!Verify \/ Transfer!Indexed \/ Transfer!GiveUp \/ UNCHANGED ofTorrent
  <2>1. UNCHANGED <<call, torrent, active, stored, reader>> /\ aborted' \in BOOLEAN /\ chosen' \subseteq Files
    BY <1>1 DEF Transfer!Start, Transfer!Abort, Transfer!Verify, Transfer!Indexed, Transfer!GiveUp, ofTorrent, Transfer!user, TransferTyped
  <2>2. QED
    BY <2>1 DEF TransferTyped, RunningTransfer, TwoTorrents, OpenReaders, Stored, Read
<1>2. CASE Transfer!Download
  <2>1. CASE Transfer!NothingToEnd
    <3>1. /\ call' = [phase |-> "adding", outcome |-> "none", of |-> Transfer!NextTransfer]
          /\ torrent' = [torrent EXCEPT ![Transfer!NextTransfer].phase = "added"]
          /\ UNCHANGED <<active, reader, stored, aborted, chosen>>
      BY <1>2, <2>1 DEF Transfer!Download, Transfer!user
    <3>2. active = None /\ call.phase = "none" /\ stored = {}
      BY <1>2, <2>1 DEF Transfer!Download, Transfer!NothingToEnd, TwoTorrents, RunningTransfer, Transfer!NoCall, Stored, TransferTyped
    <3>3. Transfer!NextTransfer \in Transfers /\ torrent[Transfer!NextTransfer].phase = "new"
      BY <1>2, NextIsFresh DEF Transfer!Download
    <3>4. /\ torrent'[Transfer!NextTransfer].phase = "added" /\ torrent'[Transfer!NextTransfer].completed = torrent[Transfer!NextTransfer].completed
          /\ \A u \in Transfers \ {Transfer!NextTransfer} : torrent'[u] = torrent[u]
          /\ torrent' \in [Transfers -> Torrent]
      BY <3>1, <3>3, PhaseMoved DEF TransferTyped
    <3>5. TransferTyped'
      BY <3>1, <3>3, <3>4 DEF TransferTyped, Outcomes
    <3>6. RunningTransfer' /\ TwoTorrents' /\ Stored'
      BY <3>1, <3>2, <3>3, <3>4 DEF RunningTransfer, TwoTorrents, Stored, Read, TransferTyped
    <3>7. OpenReaders'
      BY <3>1, <3>2, <3>3, <3>4 DEF OpenReaders, TransferTyped, TwoTorrents
    <3>8. QED
      BY <3>5, <3>6, <3>7
  <2>2. CASE ~Transfer!NothingToEnd
    <3>1. /\ call' = [phase |-> "ending", outcome |-> "none", of |-> active]
          /\ torrent' = [torrent EXCEPT ![active].completed = FALSE]
          /\ reader' = Transfer!AbortReaders(active) /\ active' = None
          /\ UNCHANGED <<stored, aborted, chosen>>
      BY <1>2, <2>2 DEF Transfer!Download, Transfer!user
    <3>2. active \in Transfers /\ call.phase = "none" /\ stored = {} /\ torrent[active].phase = "added"
      BY <1>2, <2>2 DEF Transfer!Download, Transfer!NothingToEnd, RunningTransfer, TwoTorrents, Transfer!NoCall, Stored, TransferTyped
    <3>3. /\ torrent'[active].phase = "added" /\ ~torrent'[active].completed
          /\ \A u \in Transfers \ {active} : torrent'[u] = torrent[u]
          /\ torrent' \in [Transfers -> Torrent]
      <4>1. torrent \in [Transfers -> Torrent]
        BY DEF TransferTyped
      <4>2. QED
        BY <4>1, <3>1, <3>2, Zenon DEF Torrent
    <3>4. /\ reader' \in [Readers -> [phase : {"closed", "open", "aborted"}, of : Transfers \cup {None}]]
          /\ \A r \in Readers : /\ reader'[r].of = reader[r].of
                                /\ reader'[r].phase = IF reader[r].of = active THEN "aborted" ELSE reader[r].phase
      BY <3>1, <3>2 DEF Transfer!AbortReaders, Transfer!ReadersOf, TransferTyped, OpenReaders
    <3>5. TransferTyped'
      BY <3>1, <3>2, <3>3, <3>4 DEF TransferTyped, Outcomes
    <3>6. RunningTransfer' /\ Stored'
      BY <3>1, <3>2, <3>3 DEF RunningTransfer, Stored
    <3>7. TwoTorrents'
      BY <3>1, <3>2, <3>3, <3>4 DEF TwoTorrents, Read, TransferTyped, RunningTransfer
    <3>8. OpenReaders'
      BY <3>1, <3>2, <3>3, <3>4 DEF OpenReaders, TransferTyped
    <3>9. QED
      BY <3>5, <3>6, <3>7, <3>8
  <2>3. QED
    BY <2>1, <2>2
<1>3. CASE Transfer!PreviousEnded
  <2> DEFINE t == call.of
  <2>1. /\ call' = [phase |-> "adding", outcome |-> "none", of |-> Transfer!NextTransfer] /\ call.phase = "ending"
        /\ torrent' = [torrent EXCEPT ![t].phase = "destroyed", ![Transfer!NextTransfer].phase = "added"]
        /\ UNCHANGED <<active, reader, stored, aborted, chosen>>
    BY <1>3 DEF Transfer!PreviousEnded, Transfer!user
  <2>2. t \in Transfers /\ torrent[t].phase = "added" /\ active = None /\ stored = {}
    BY <2>1 DEF RunningTransfer, TwoTorrents, Stored
  <2>3. Transfer!NextTransfer \in Transfers /\ torrent[Transfer!NextTransfer].phase = "new"
    BY <1>3, NextIsFresh DEF Transfer!PreviousEnded
  <2>4. /\ torrent'[Transfer!NextTransfer].phase = "added" /\ torrent'[Transfer!NextTransfer].completed = torrent[Transfer!NextTransfer].completed
        /\ torrent'[t].phase = "destroyed" /\ torrent'[t].completed = torrent[t].completed
        /\ \A u \in Transfers \ {Transfer!NextTransfer, t} : torrent'[u] = torrent[u]
        /\ torrent' \in [Transfers -> Torrent]
    <3>1. torrent \in [Transfers -> Torrent] /\ torrent[t] \in Torrent /\ torrent[Transfer!NextTransfer] \in Torrent
      BY <2>2, <2>3 DEF TransferTyped
    <3> DEFINE gone == [torrent EXCEPT ![t].phase = "destroyed"]
    <3>2. /\ gone \in [Transfers -> Torrent] /\ gone[t].phase = "destroyed" /\ gone[t].completed = torrent[t].completed
          /\ \A u \in Transfers \ {t} : gone[u] = torrent[u]
      BY <2>2, <3>1, Zenon DEF Torrent
    <3>3. torrent' = [gone EXCEPT ![Transfer!NextTransfer].phase = "added"]
      BY <2>1
    <3>4. Transfer!NextTransfer # t
      BY <2>2, <2>3
    <3> HIDE DEF gone
    <3>5. gone[Transfer!NextTransfer] = torrent[Transfer!NextTransfer]
      BY <2>3, <3>2, <3>4
    <3>6. /\ torrent' \in [Transfers -> Torrent] /\ torrent'[Transfer!NextTransfer].phase = "added"
          /\ torrent'[Transfer!NextTransfer].completed = gone[Transfer!NextTransfer].completed
          /\ \A u \in Transfers \ {Transfer!NextTransfer} : torrent'[u] = gone[u]
      BY <2>3, <3>2, <3>3, PhaseMoved
    <3>7. QED
      BY <2>2, <3>2, <3>4, <3>5, <3>6
  <2>5. TransferTyped'
    BY <2>1, <2>3, <2>4 DEF TransferTyped, Outcomes
  <2>6. RunningTransfer' /\ TwoTorrents' /\ Stored'
    BY <2>1, <2>2, <2>3, <2>4 DEF RunningTransfer, TwoTorrents, Stored, Read, TransferTyped
  <2>7. OpenReaders'
    BY <2>1, <2>2, <2>3, <2>4 DEF OpenReaders, TransferTyped
  <2>8. QED
    BY <2>5, <2>6, <2>7
<1>4. CASE Transfer!Metadata
  <2>1. CASE \E outcome \in {"select", "confirm", "fatal"} : Transfer!Finish(outcome) /\ stored' = stored
    BY <1>4, <2>1, FinishKeeps DEF Transfer!Metadata, Transfer!user, Outcomes
  <2>2. CASE /\ stored' = stored \cup {call.of} /\ active' = call.of
             /\ torrent' = [torrent EXCEPT ![call.of].wanted = chosen]
             /\ call' = [call EXCEPT !.phase = "active"] /\ UNCHANGED reader
    <3> DEFINE t == call.of
    <3>1. t \in Transfers /\ call.phase = "adding" /\ torrent[t].phase = "added" /\ ~torrent[t].completed
          /\ UNCHANGED <<aborted, chosen>>
      BY <1>4 DEF Transfer!Metadata, RunningTransfer, Transfer!user
    <3>2. /\ torrent'[t].phase = "added" /\ ~torrent'[t].completed
          /\ \A u \in Transfers \ {t} : torrent'[u] = torrent[u]
          /\ torrent' \in [Transfers -> Torrent]
      <4>1. torrent \in [Transfers -> Torrent] /\ chosen \in SUBSET Files
        BY DEF TransferTyped
      <4>2. torrent' = [torrent EXCEPT ![t].wanted = chosen] /\ t \in Transfers
        BY <2>2, <3>1
      <4>3. /\ torrent' \in [Transfers -> Torrent] /\ \A u \in Transfers \ {t} : torrent'[u] = torrent[u]
            /\ torrent'[t].phase = torrent[t].phase /\ torrent'[t].completed = torrent[t].completed
        BY <4>1, <4>2, Zenon DEF Torrent
      <4>4. QED
        BY <3>1, <4>3
    <3>3. call'.phase = "active" /\ call'.of = t
      BY <2>2 DEF TransferTyped
    <3>4. TransferTyped'
      BY <2>2, <3>1, <3>2 DEF TransferTyped
    <3>5. active = None
      BY <3>1 DEF TwoTorrents
    <3>6. RunningTransfer' /\ TwoTorrents' /\ Stored'
      BY <2>2, <3>1, <3>2, <3>3, <3>5 DEF RunningTransfer, TwoTorrents, Stored, Read, TransferTyped
    <3>7. OpenReaders'
      BY <2>2, <3>1, <3>2, <3>5 DEF OpenReaders, TransferTyped
    <3>8. QED
      BY <3>4, <3>6, <3>7
  <2>3. QED
    BY <1>4, <2>1, <2>2 DEF Transfer!Metadata
<1>5. CASE Transfer!Complete
  BY <1>5, FinishKeeps DEF Transfer!Complete, Transfer!user, Outcomes
<1>6. CASE Transfer!Interrupt
  <2>1. PICK outcome \in {"aborted", "broken", "fatal"} : Transfer!Finish(outcome)
    BY <1>6 DEF Transfer!Interrupt
  <2>2. QED
    BY <1>6, <2>1, FinishKeeps DEF Transfer!Interrupt, Transfer!user, Outcomes
<1>7. CASE Transfer!Settle
  <2> DEFINE t == call.of
  <2>1. t \in Transfers /\ call' = Transfer!NoCall /\ stored' = stored \ {t} /\ UNCHANGED <<aborted, chosen, active, reader>>
        /\ call.phase \in {"settling", "destroying"}
    BY <1>7 DEF Transfer!Settle, Transfer!Released, RunningTransfer, Transfer!user
  <2>2. /\ torrent'[t].phase = IF call.phase = "destroying" THEN "destroyed" ELSE torrent[t].phase
        /\ torrent'[t].completed = torrent[t].completed
        /\ \A u \in Transfers \ {t} : torrent'[u] = torrent[u]
        /\ torrent' \in [Transfers -> Torrent]
    BY <1>7, <2>1, PhaseMoved DEF Transfer!Settle, TransferTyped
  <2>3. TransferTyped'
    BY <2>1, <2>2 DEF TransferTyped, Transfer!NoCall, Outcomes
  <2>4. RunningTransfer' /\ TwoTorrents' /\ Stored'
    BY <2>1, <2>2 DEF RunningTransfer, TwoTorrents, Stored, Read, Transfer!NoCall, TransferTyped
  <2>5. OpenReaders'
    BY <2>1, <2>2 DEF OpenReaders, TransferTyped
  <2>6. QED
    BY <2>3, <2>4, <2>5
<1>8. CASE \E r \in Readers : Transfer!Open(r)
  <2>1. PICK r \in Readers : Transfer!Open(r)
    BY <1>8
  <2>2. /\ active \in Transfers /\ active' = active /\ call' = call /\ torrent' = torrent /\ reader[r].phase = "closed"
        /\ stored' = stored /\ aborted' = aborted /\ chosen' = chosen
        /\ reader' = [reader EXCEPT ![r] = [phase |-> "open", of |-> active]]
    BY <2>1 DEF Transfer!Open, Transfer!user, TransferTyped
  <2>3. /\ reader'[r] = [phase |-> "open", of |-> active] /\ \A q \in Readers \ {r} : reader'[q] = reader[q]
        /\ reader' \in [Readers -> [phase : {"closed", "open", "aborted"}, of : Transfers \cup {None}]]
    BY <2>2 DEF TransferTyped
  <2>4. TransferTyped' /\ Stored'
    BY <2>2, <2>3 DEF TransferTyped, Stored
  <2>5. OpenReaders'
    BY <2>2, <2>3 DEF OpenReaders
  <2>6. Read(active)' /\ \A u \in Transfers \ {active} : Read(u)' => Read(u)
    BY <2>2, <2>3 DEF Read
  <2>7. RunningTransfer' /\ TwoTorrents'
    BY <2>2, <2>6 DEF RunningTransfer, TwoTorrents, TransferTyped
  <2>8. QED
    BY <2>4, <2>5, <2>7
<1>9. CASE \E r \in Readers : Transfer!Release(r)
  <2>1. PICK r \in Readers : Transfer!Release(r)
    BY <1>9
  <2> PICK t : t = reader[r].of
    OBVIOUS
  <2>2. /\ t \in Transfers /\ call' = call /\ reader[r].phase # "closed"
        /\ stored' = stored /\ aborted' = aborted /\ chosen' = chosen
        /\ reader' = [reader EXCEPT ![r] = [phase |-> "closed", of |-> None]]
    BY <2>1 DEF Transfer!Release, Transfer!user, TransferTyped, OpenReaders
  <2>3. /\ reader'[r] = [phase |-> "closed", of |-> None] /\ \A q \in Readers \ {r} : reader'[q] = reader[q]
        /\ reader' \in [Readers -> [phase : {"closed", "open", "aborted"}, of : Transfers \cup {None}]]
    BY <2>2 DEF TransferTyped
  <2>4. \A u \in Transfers : Read(u)' => Read(u)
    BY <2>2, <2>3 DEF Read
  <2>5. \A u \in Transfers \ {t} : Read(u)' = Read(u)
    BY <2>2, <2>3 DEF Read
  <2>6. CASE Transfer!LastReader(r)
    <3>1. active' = None /\ torrent' = [torrent EXCEPT ![t].phase = "destroyed"] /\ torrent[t].completed /\ t = active
      BY <2>1, <2>2, <2>6 DEF Transfer!Release, Transfer!LastReader, OpenReaders
    <3>2. /\ torrent'[t].phase = "destroyed" /\ torrent'[t].completed = torrent[t].completed
          /\ \A u \in Transfers \ {t} : torrent'[u] = torrent[u]
          /\ torrent' \in [Transfers -> Torrent]
      <4>1. torrent \in [Transfers -> Torrent]
        BY DEF TransferTyped
      <4>2. QED
        BY <4>1, <2>2, <3>1, Zenon DEF Torrent
    <3>3. TransferTyped' /\ Stored'
      BY <2>2, <2>3, <3>1, <3>2 DEF TransferTyped, Stored
    <3>4. \A q \in Readers \ {r} : reader[q].of # t
      BY <2>2, <2>6 DEF Transfer!LastReader, Transfer!ReadersOf, OpenReaders
    <3>5. OpenReaders'
      BY <2>2, <2>3, <3>1, <3>2, <3>4 DEF OpenReaders, TransferTyped
    <3>6. RunningTransfer' /\ TwoTorrents'
      BY <2>2, <2>4, <2>5, <3>1, <3>2 DEF RunningTransfer, TwoTorrents, TransferTyped
    <3>7. QED
      BY <3>3, <3>5, <3>6
  <2>7. CASE ~Transfer!LastReader(r)
    <3>1. UNCHANGED <<active, torrent>>
      BY <2>1, <2>7 DEF Transfer!Release
    <3>2. TransferTyped' /\ Stored' /\ OpenReaders'
      BY <2>2, <2>3, <3>1 DEF TransferTyped, Stored, OpenReaders
    <3>3. torrent[t].completed => Read(t)'
      BY <2>2, <2>3, <2>7 DEF Transfer!LastReader, Transfer!ReadersOf, Read, OpenReaders
    <3>4. RunningTransfer' /\ TwoTorrents'
      BY <2>2, <2>4, <2>5, <3>1, <3>3 DEF RunningTransfer, TwoTorrents, TransferTyped
    <3>5. QED
      BY <3>2, <3>4
  <2>8. QED
    BY <2>6, <2>7
<1>10. QED
  BY <1>1, <1>2, <1>3, <1>4, <1>5, <1>6, <1>7, <1>8, <1>9 DEF Transfer!Next, Transfer!TransferStep

-----------------------------------------------------------------------------
(* Retained jobs.                                                          *)

RetainedConstants == \A snapshot \in Retained!Snapshot : None # snapshot

\* What the variables hold.
RetainedTyped ==
  /\ server \in {"down", "restoring", "serving", "stopping"}
  /\ job \in [Jobs -> Retained!Snapshot \cup {None}] /\ row \in [Jobs -> Retained!Snapshot \cup {None}]
  /\ view \subseteq Jobs /\ pending \subseteq Jobs /\ worker \subseteq Jobs /\ stopped \subseteq Jobs
  /\ removing \in [Jobs -> {"no", "files", "row"}] /\ todo \subseteq Jobs

\* The queue and the workers have jobs, and what they are up to shows; one that is
\* ready has its shown and its row, and every snapshot that says so a shown.
JobInv(j) ==
  /\ removing[j] # "no" => job[j] # None
  /\ j \in pending \cup worker => Retained!Known(j)
  /\ j \in pending => job[j].status \in {"queued", "error"} /\ j \notin worker
  /\ j \in worker => job[j].status \notin {"queued", "ready"}
  /\ Retained!Known(j) /\ job[j].status \in {"queued", "downloading"} => j \in pending \cup worker
  /\ Retained!Known(j) /\ job[j].status = "ready" => j \in view /\ row[j] = job[j]
  /\ job[j] # None /\ job[j].status = "ready" => job[j].session
  /\ row[j] # None /\ row[j].status = "ready" => row[j].session
  /\ j \in todo => row[j] # None

\* A server that is down or restores has nothing else to do.
ServerInv ==
  /\ ~Retained!Up => pending = {} /\ worker = {} /\ \A j \in Jobs : removing[j] = "no"
  /\ server # "restoring" => todo = {}

RetainedInv == RetainedTyped /\ ServerInv /\ \A j \in Jobs : JobInv(j)

\* What a save of j leaves in memory, and of it in the row.
Puts(j, new) ==
  /\ new \in Retained!Snapshot /\ job' = [job EXCEPT ![j] = new]
  /\ row' = [row EXCEPT ![j] = new] \/ (new.status = "error" /\ row' = row)

-----------------------------------------------------------------------------
LEMMA SnapshotFields ==
  ASSUME NEW x \in Retained!Snapshot, NEW s \in Retained!Statuses
  PROVE  /\ [x EXCEPT !.status = s] \in Retained!Snapshot /\ [x EXCEPT !.status = s].status = s
         /\ [x EXCEPT !.status = s].session = x.session
BY DEF Retained!Snapshot

\* saveRetainedTorrent puts the snapshot, or one that says error.
LEMMA SavePuts ==
  ASSUME NEW j \in Jobs, NEW x \in Retained!Snapshot, NEW s \in Retained!Statuses, NEW y, y = [x EXCEPT !.status = s],
         Retained!Saved(j, y) \/ Retained!SaveFails(j, x) \/ Retained!SaveFails(j, y)
  PROVE  \E new \in Retained!Snapshot : Puts(j, new) /\ new.status \in {s, "error"} /\ new.session = x.session
<1>0. y \in Retained!Snapshot /\ y.status = s /\ y.session = x.session
  BY SnapshotFields
<1>1. CASE Retained!Saved(j, y)
  BY <1>0, <1>1 DEF Retained!Saved, Puts
<1>2. ASSUME NEW z \in Retained!Snapshot, Retained!SaveFails(j, z)
      PROVE  \E new \in Retained!Snapshot : Puts(j, new) /\ new.status = "error" /\ new.session = z.session
  <2> DEFINE failed == [z EXCEPT !.status = "error"]
  <2>1. failed \in Retained!Snapshot /\ failed.status = "error" /\ failed.session = z.session
    BY SnapshotFields DEF Retained!Statuses
  <2>2. job' = [job EXCEPT ![j] = failed] /\ (row' = row \/ row' = [row EXCEPT ![j] = failed])
    BY <1>2 DEF Retained!SaveFails
  <2> HIDE DEF failed
  <2>3. QED
    BY <2>1, <2>2 DEF Puts
<1>3. QED
  BY <1>0, <1>1, <1>2

\* A save leaves the types and the other jobs.
LEMMA PutsKeeps ==
  ASSUME RetainedTyped, NEW j \in Jobs, NEW new, Puts(j, new)
  PROVE  /\ job' \in [Jobs -> Retained!Snapshot \cup {None}] /\ row' \in [Jobs -> Retained!Snapshot \cup {None}]
         /\ job'[j] = new /\ (row'[j] = new \/ (new.status = "error" /\ row'[j] = row[j]))
         /\ \A k \in Jobs \ {j} : job'[k] = job[k] /\ row'[k] = row[k]
         /\ new \in Retained!Snapshot
BY DEF RetainedTyped, Puts

LEMMA OtherJob ==
  ASSUME NEW k \in Jobs, JobInv(k), job'[k] = job[k], row'[k] = row[k], removing'[k] = removing[k],
         k \in pending' <=> k \in pending, k \in worker' <=> k \in worker, k \in view => k \in view',
         k \in todo' => k \in todo
  PROVE  JobInv(k)'
BY DEF JobInv, Retained!Known

LEMMA RetainedStarts ==
  ASSUME RetainedConstants, Retained!Init
  PROVE  RetainedInv
BY DEF Retained!Init, RetainedInv, RetainedTyped, ServerInv, JobInv, Retained!Known, Retained!Up

LEMMA RetainedPromises ==
  ASSUME RetainedInv
  PROVE  Retained!NoGhosts /\ Retained!ReadyIsBrowsable /\ Retained!ReadyIsDurable
BY DEF RetainedInv, JobInv, Retained!NoGhosts, Retained!ReadyIsBrowsable, Retained!ReadyIsDurable

LEMMA RetainedKept ==
  ASSUME RetainedConstants, RetainedInv, [Retained!Next]_ofJobs
  PROVE  RetainedInv'
<1> USE DEF RetainedInv
<1>0. CASE UNCHANGED ofJobs
  BY <1>0 DEF ofJobs, RetainedTyped, ServerInv, JobInv, Retained!Known, Retained!Up
<1>1. ASSUME NEW j \in Jobs, Retained!Create(j)
      PROVE  RetainedInv'
  <2>1. /\ UNCHANGED <<server, view, worker, removing, todo>> /\ stopped' \subseteq Jobs
        /\ Retained!Up /\ job[j] = None /\ row[j] = None /\ pending' = pending \cup {j}
    BY <1>1 DEF Retained!Create, Retained!Emit, RetainedTyped
  <2>2. PICK new \in Retained!Snapshot : Puts(j, new) /\ new.status \in {"queued", "error"} /\ new.session = FALSE
    <3> DEFINE x == [status |-> "queued", session |-> FALSE]
    <3>1. x \in Retained!Snapshot /\ x = [x EXCEPT !.status = "queued"] /\ x.session = FALSE
      BY DEF Retained!Snapshot, Retained!Statuses
    <3>2. Retained!Saved(j, x) \/ Retained!SaveFails(j, x)
      BY <1>1 DEF Retained!Create, Retained!Emit
    <3> HIDE DEF x
    <3>3. QED
      BY <3>1, <3>2, SavePuts DEF Retained!Statuses
  <2>3. RetainedTyped' /\ ServerInv'
    BY <2>1, <2>2, PutsKeeps DEF RetainedTyped, ServerInv, Retained!Up
  <2>4. JobInv(j)'
    <3>1. removing[j] = "no" /\ todo = {} /\ new # None
      BY <2>1, <2>2 DEF JobInv, Retained!Known, ServerInv, RetainedConstants, Retained!Up
    <3>2. new.status \in {"queued", "error"} /\ job'[j] = new /\ row'[j] \in {row[j], new}
      BY <2>2, PutsKeeps
    <3>3. row[j] # None /\ row[j].status = "ready" => row[j].session
      BY DEF JobInv
    <3>4. QED
      BY <2>1, <3>1, <3>2, <3>3 DEF JobInv, Retained!Known
  <2>5. QED
    BY <2>1, <2>2, <2>3, <2>4, PutsKeeps, OtherJob
<1>2. ASSUME NEW j \in Jobs, Retained!Begin(j)
      PROVE  RetainedInv'
  <2>1. /\ UNCHANGED <<server, view, removing, todo>> /\ stopped' \subseteq Jobs /\ server = "serving"
        /\ j \in pending /\ pending' = pending \ {j} /\ worker' = worker \cup {j}
    BY <1>2 DEF Retained!Begin, RetainedTyped
  <2>2. PICK new \in Retained!Snapshot : Puts(j, new) /\ new.status \in {"downloading", "error"} /\ new.session = job[j].session
    <3>1. job[j] \in Retained!Snapshot
      BY <2>1 DEF JobInv, Retained!Known, RetainedTyped
    <3>2. QED
      BY <1>2, <3>1, SavePuts DEF Retained!Begin, Retained!Statuses
  <2>3. RetainedTyped' /\ ServerInv'
    BY <2>1, <2>2, PutsKeeps DEF RetainedTyped, ServerInv, Retained!Up
  <2>4. JobInv(j)'
    <3>1. new # None /\ job'[j] = new /\ (row'[j] = new \/ (new.status = "error" /\ row'[j] = row[j]))
      BY <2>2, PutsKeeps DEF RetainedConstants
    <3>2. QED
      BY <2>1, <2>2, <3>1 DEF JobInv, Retained!Known
  <2>5. QED
    BY <2>1, <2>2, <2>3, <2>4, PutsKeeps, OtherJob
<1>3. ASSUME NEW j \in Jobs, Retained!Complete(j)
      PROVE  RetainedInv'
  <2>1. /\ UNCHANGED <<server, pending, stopped, removing, todo>> /\ j \in worker
        /\ view' = view \cup {j} /\ worker' = worker \ {j}
    BY <1>3 DEF Retained!Complete
  <2>2. PICK new \in Retained!Snapshot : Puts(j, new) /\ new.status \in {"ready", "error"} /\ new.session = TRUE
    <3> DEFINE x == [status |-> "ready", session |-> TRUE]
    <3>1. x \in Retained!Snapshot /\ x = [x EXCEPT !.status = "ready"] /\ x.session = TRUE
      BY DEF Retained!Snapshot, Retained!Statuses
    <3>2. Retained!Saved(j, x) \/ Retained!SaveFails(j, x)
      BY <1>3 DEF Retained!Complete, Retained!Completed
    <3> HIDE DEF x
    <3>3. QED
      BY <3>1, <3>2, SavePuts DEF Retained!Statuses
  <2>3. RetainedTyped' /\ ServerInv'
    BY <2>1, <2>2, PutsKeeps DEF RetainedTyped, ServerInv, Retained!Up
  <2>4. JobInv(j)'
    <3>1. new # None /\ job'[j] = new /\ (row'[j] = new \/ (new.status = "error" /\ row'[j] = row[j]))
      BY <2>2, PutsKeeps DEF RetainedConstants
    <3>2. QED
      BY <2>1, <2>2, <3>1 DEF JobInv, Retained!Known
  <2>5. QED
    BY <2>1, <2>2, <2>3, <2>4, PutsKeeps, OtherJob
<1>4. ASSUME NEW j \in Jobs, Retained!End(j)
      PROVE  RetainedInv'
  <2>1. /\ UNCHANGED <<server, view, pending, removing, todo>> /\ j \in worker
        /\ worker' = worker \ {j} /\ stopped' = stopped \ {j}
    BY <1>4 DEF Retained!End
  <2>2. PICK new \in Retained!Snapshot : Puts(j, new) /\ new.status \in Retained!Statuses \ {"queued", "downloading", "ready"} /\ new.session = job[j].session
    <3>1. job[j] \in Retained!Snapshot /\ job[j].status \in Retained!Statuses \ {"queued", "ready"}
      BY <2>1 DEF JobInv, Retained!Known, RetainedTyped, Retained!Snapshot
    <3>2. PICK s \in Retained!Statuses \ {"queued", "downloading", "ready"} :
            Retained!Saved(j, [job[j] EXCEPT !.status = s]) \/ Retained!SaveFails(j, job[j])
      BY <1>4, <3>1 DEF Retained!End, Retained!Statuses
    <3>3. QED
      BY <3>1, <3>2, SavePuts DEF Retained!Statuses
  <2>3. RetainedTyped' /\ ServerInv'
    BY <2>1, <2>2, PutsKeeps DEF RetainedTyped, ServerInv, Retained!Up
  <2>4. JobInv(j)'
    <3>1. new # None /\ job'[j] = new /\ (row'[j] = new \/ (new.status = "error" /\ row'[j] = row[j]))
      BY <2>2, PutsKeeps DEF RetainedConstants
    <3>2. QED
      BY <2>1, <2>2, <3>1 DEF JobInv, Retained!Known
  <2>5. QED
    BY <2>1, <2>2, <2>3, <2>4, PutsKeeps, OtherJob
<1>5. ASSUME NEW j \in Jobs, Retained!Pause(j)
      PROVE  RetainedInv'
  <2>1. /\ UNCHANGED <<server, view, pending, worker, removing, todo>> /\ stopped' \subseteq Jobs /\ j \in worker
    BY <1>5 DEF Retained!Pause, Retained!Emit, RetainedTyped
  <2>2. PICK new \in Retained!Snapshot : Puts(j, new) /\ new.status \in {"paused", "error"} /\ new.session = job[j].session
    <3>1. job[j] \in Retained!Snapshot
      BY <2>1 DEF JobInv, Retained!Known, RetainedTyped
    <3>2. QED
      BY <1>5, <3>1, SavePuts DEF Retained!Pause, Retained!Emit, Retained!Statuses
  <2>3. RetainedTyped' /\ ServerInv'
    BY <2>1, <2>2, PutsKeeps DEF RetainedTyped, ServerInv, Retained!Up
  <2>4. JobInv(j)'
    <3>1. new # None /\ job'[j] = new /\ (row'[j] = new \/ (new.status = "error" /\ row'[j] = row[j]))
      BY <2>2, PutsKeeps DEF RetainedConstants
    <3>2. QED
      BY <2>1, <2>2, <3>1 DEF JobInv, Retained!Known
  <2>5. QED
    BY <2>1, <2>2, <2>3, <2>4, PutsKeeps, OtherJob
<1>6. ASSUME NEW j \in Jobs, Retained!Cancel(j)
      PROVE  RetainedInv'
  <2>1. /\ UNCHANGED <<server, view, worker, removing, todo>> /\ stopped' \subseteq Jobs
        /\ Retained!Up /\ Retained!Known(j) /\ pending' = pending \ {j}
    BY <1>6 DEF Retained!Cancel, Retained!Emit, RetainedTyped
  <2>2. PICK new \in Retained!Snapshot : Puts(j, new) /\ new.status \in {"cancelled", "error"} /\ new.session = job[j].session
    <3>1. job[j] \in Retained!Snapshot
      BY <2>1 DEF JobInv, Retained!Known, RetainedTyped
    <3>2. QED
      BY <1>6, <3>1, SavePuts DEF Retained!Cancel, Retained!Emit, Retained!Statuses
  <2>3. RetainedTyped' /\ ServerInv'
    BY <2>1, <2>2, PutsKeeps DEF RetainedTyped, ServerInv, Retained!Up
  <2>4. JobInv(j)'
    <3>1. new # None /\ job'[j] = new /\ (row'[j] = new \/ (new.status = "error" /\ row'[j] = row[j]))
      BY <2>2, PutsKeeps DEF RetainedConstants
    <3>2. QED
      BY <2>1, <2>2, <3>1 DEF JobInv, Retained!Known
  <2>5. QED
    BY <2>1, <2>2, <2>3, <2>4, PutsKeeps, OtherJob
<1>7. ASSUME NEW j \in Jobs, Retained!Requeue(j)
      PROVE  RetainedInv'
  <2>1. /\ UNCHANGED <<server, view, worker, removing, todo>> /\ stopped' \subseteq Jobs
        /\ Retained!Up /\ Retained!Known(j) /\ j \notin worker /\ pending' = pending \cup {j}
    BY <1>7 DEF Retained!Requeue, Retained!Emit, RetainedTyped
  <2>2. PICK new \in Retained!Snapshot : Puts(j, new) /\ new.status \in {"queued", "error"} /\ new.session = job[j].session
    <3>1. job[j] \in Retained!Snapshot
      BY <2>1 DEF JobInv, Retained!Known, RetainedTyped
    <3>2. QED
      BY <1>7, <3>1, SavePuts DEF Retained!Requeue, Retained!Emit, Retained!Statuses
  <2>3. RetainedTyped' /\ ServerInv'
    BY <2>1, <2>2, PutsKeeps DEF RetainedTyped, ServerInv, Retained!Up
  <2>4. JobInv(j)'
    <3>1. removing[j] = "no" /\ todo = {} /\ new # None
      BY <2>1, <2>2 DEF JobInv, Retained!Known, ServerInv, RetainedConstants, Retained!Up
    <3>2. new.status \in {"queued", "error"} /\ job'[j] = new /\ row'[j] \in {row[j], new}
      BY <2>2, PutsKeeps
    <3>3. row[j] # None /\ row[j].status = "ready" => row[j].session
      BY DEF JobInv
    <3>4. QED
      BY <2>1, <3>1, <3>2, <3>3 DEF JobInv, Retained!Known
  <2>5. QED
    BY <2>1, <2>2, <2>3, <2>4, PutsKeeps, OtherJob
<1>8. ASSUME NEW j \in Jobs, Retained!Advance(j)
      PROVE  RetainedInv'
  BY <1>8 DEF Retained!Advance, Retained!memory, RetainedTyped, ServerInv, JobInv, Retained!Known, Retained!Up
<1>9. ASSUME NEW j \in Jobs, Retained!Remove(j)
      PROVE  RetainedInv'
  <2>1. /\ UNCHANGED <<server, job, row, pending, worker, stopped, todo>> /\ Retained!Up /\ Retained!Known(j)
        /\ j \notin worker \cup pending /\ removing' = [removing EXCEPT ![j] = "files"] /\ view' = view \ {j}
    BY <1>9 DEF Retained!Remove
  <2>2. RetainedTyped' /\ ServerInv'
    BY <2>1 DEF RetainedTyped, ServerInv, Retained!Up
  <2>3. JobInv(j)'
    BY <2>1 DEF JobInv, Retained!Known, RetainedTyped
  <2>4. \A k \in Jobs \ {j} : JobInv(k)'
    BY <2>1, OtherJob DEF RetainedTyped
  <2>5. QED
    BY <2>2, <2>3, <2>4
<1>10. ASSUME NEW j \in Jobs, Retained!RemoveFiles(j)
       PROVE  RetainedInv'
  <2>1. /\ UNCHANGED <<server, job, row, view, pending, worker, stopped, todo>>
        /\ removing[j] = "files" /\ removing' = [removing EXCEPT ![j] = "row"]
    BY <1>10 DEF Retained!RemoveFiles
  <2>2. RetainedTyped' /\ ServerInv'
    BY <2>1 DEF RetainedTyped, ServerInv, Retained!Up
  <2>3. JobInv(j)'
    BY <2>1 DEF JobInv, Retained!Known, RetainedTyped
  <2>4. \A k \in Jobs \ {j} : JobInv(k)'
    BY <2>1, OtherJob DEF RetainedTyped
  <2>5. QED
    BY <2>2, <2>3, <2>4
<1>11. ASSUME NEW j \in Jobs, Retained!Forget(j)
       PROVE  RetainedInv'
  <2>1. /\ UNCHANGED <<server, view, pending, worker, stopped, todo>>
        /\ removing[j] = "row" /\ removing' = [removing EXCEPT ![j] = "no"]
        /\ job' = [job EXCEPT ![j] = None] /\ row' = [row EXCEPT ![j] = None]
    BY <1>11 DEF Retained!Forget
  <2>2. Retained!Up /\ todo = {}
    BY <2>1 DEF ServerInv, Retained!Up
  <2>3. RetainedTyped' /\ ServerInv'
    BY <2>1, <2>2 DEF RetainedTyped, ServerInv, Retained!Up
  <2>4. JobInv(j)'
    BY <2>1, <2>2 DEF JobInv, Retained!Known, RetainedTyped
  <2>5. \A k \in Jobs \ {j} : JobInv(k)'
    BY <2>1, OtherJob DEF RetainedTyped
  <2>6. QED
    BY <2>3, <2>4, <2>5
<1>12. CASE Retained!Shutdown
  BY <1>12 DEF Retained!Shutdown, RetainedTyped, ServerInv, JobInv, Retained!Known, Retained!Up
<1>13. CASE Retained!Exit
  <2>1. /\ server = "stopping" /\ server' = "down" /\ worker = {} /\ UNCHANGED <<worker, todo>>
        /\ row' = [j \in Jobs |-> IF job[j] = None THEN row[j] ELSE job[j]]
        /\ job' = [j \in Jobs |-> None] /\ view' = {} /\ pending' = {} /\ stopped' = {}
        /\ removing' = [j \in Jobs |-> "no"]
    BY <1>13 DEF Retained!Exit, Retained!Drained
  <2>2. RetainedTyped' /\ ServerInv'
    BY <2>1 DEF RetainedTyped, ServerInv, Retained!Up
  <2>3. ASSUME NEW j \in Jobs
        PROVE  JobInv(j)'
    BY <2>1 DEF JobInv, Retained!Known, ServerInv
  <2>4. QED
    BY <2>2, <2>3
<1>14. CASE Retained!Crash \/ Retained!StopStartup
  <2>1. Retained!Down
    BY <1>14 DEF Retained!Crash, Retained!StopStartup
  <2>2. RetainedTyped' /\ ServerInv'
    BY <2>1 DEF Retained!Down, RetainedTyped, ServerInv, Retained!Up
  <2>3. ASSUME NEW j \in Jobs
        PROVE  JobInv(j)'
    BY <2>1 DEF Retained!Down, JobInv, Retained!Known
  <2>4. QED
    BY <2>2, <2>3
<1>15. CASE Retained!Start
  BY <1>15 DEF Retained!Start, Retained!memory, RetainedTyped, ServerInv, JobInv, Retained!Known, Retained!Up
<1>16. CASE Retained!Serve
  BY <1>16 DEF Retained!Serve, Retained!memory, RetainedTyped, ServerInv, JobInv, Retained!Known, Retained!Up
<1>17. ASSUME NEW j \in Jobs, Retained!RestoreTorrent(j)
       PROVE  RetainedInv'
  <2>1. /\ UNCHANGED <<server, pending, worker, stopped, removing>> /\ server = "restoring" /\ j \in todo /\ todo' = todo \ {j}
    BY <1>17 DEF Retained!RestoreTorrent, Retained!memory
  <2>2. pending = {} /\ worker = {} /\ removing[j] = "no" /\ row[j] \in Retained!Snapshot
    BY <2>1 DEF ServerInv, Retained!Up, JobInv, RetainedTyped
  <2>3. PICK new \in Retained!Snapshot : /\ Puts(j, new) /\ new.status \notin {"queued", "downloading"}
                                         /\ new.session = row[j].session /\ view \subseteq view' /\ view' \subseteq Jobs
                                         /\ new.status = "ready" => row[j].status = "ready" /\ (row[j].session => j \in view')
    <3>1. PICK lost \in BOOLEAN, failed \in BOOLEAN :
            LET whole == data[j] = "complete" /\ ~lost
                says == IF failed THEN "error"
                          ELSE IF row[j].status = "ready" /\ whole THEN "ready" ELSE Retained!AtRest(row[j].status)
                restored == row[j].session /\ data[j] # "none" /\ (whole \/ lost) /\ ~failed IN
            /\ view' = IF restored THEN Retained!RestoredView(j) ELSE view
            /\ Retained!Saved(j, [row[j] EXCEPT !.status = says]) \/ Retained!SaveFails(j, row[j])
      BY <1>17 DEF Retained!RestoreTorrent
    <3> DEFINE whole == data[j] = "complete" /\ ~lost
               says == IF failed THEN "error"
                         ELSE IF row[j].status = "ready" /\ whole THEN "ready" ELSE Retained!AtRest(row[j].status)
               restored == row[j].session /\ data[j] # "none" /\ (whole \/ lost) /\ ~failed
    <3>2. says \in Retained!Statuses \ {"queued", "downloading"} /\ (says = "ready" => row[j].status = "ready" /\ whole /\ ~failed)
      BY DEF Retained!AtRest, Retained!Statuses
    <3>3. whole => data[j] # "none"
      OBVIOUS
    <3> HIDE DEF says, whole
    <3>4. PICK new \in Retained!Snapshot : Puts(j, new) /\ new.status \in {says, "error"} /\ new.session = row[j].session
      BY <2>2, <3>1, <3>2, SavePuts DEF says, whole
    <3>5. view' = IF restored THEN view \cup {j} ELSE view
      BY <3>1 DEF Retained!RestoredView, whole
    <3>6. view \subseteq view' /\ view' \subseteq Jobs /\ (says = "ready" /\ row[j].session => j \in view')
      BY <3>2, <3>3, <3>5 DEF RetainedTyped
    <3>7. new.status \notin {"queued", "downloading"} /\ (new.status = "ready" => says = "ready")
      BY <3>2, <3>4
    <3>8. QED
      BY <3>2, <3>4, <3>6, <3>7
  <2>4. RetainedTyped' /\ ServerInv'
    BY <2>1, <2>3, PutsKeeps DEF RetainedTyped, ServerInv, Retained!Up
  <2>5. JobInv(j)'
    <3>1. row[j].status = "ready" => row[j].session
      BY <2>2 DEF JobInv, RetainedConstants
    <3>2. new.status = "ready" => new.session /\ j \in view' /\ row'[j] = new
      BY <2>3, <3>1, PutsKeeps
    <3>3. job'[j] = new /\ new # None /\ (row'[j] = new \/ row'[j] = row[j])
      BY <2>3, PutsKeeps DEF RetainedConstants
    <3>4. QED
      BY <2>1, <2>2, <2>3, <3>1, <3>2, <3>3 DEF JobInv, Retained!Known
  <2>6. QED
    BY <2>1, <2>2, <2>3, <2>4, <2>5, PutsKeeps, OtherJob
<1>18. ASSUME NEW j \in Jobs, Retained!RestoreHttp(j)
       PROVE  RetainedInv'
  <2>1. /\ UNCHANGED <<server, pending, worker, stopped, removing>> /\ server = "restoring" /\ j \in todo /\ todo' = todo \ {j}
    BY <1>18 DEF Retained!RestoreHttp, Retained!memory
  <2>2. pending = {} /\ worker = {} /\ removing[j] = "no" /\ row[j] \in Retained!Snapshot
    BY <2>1 DEF ServerInv, Retained!Up, JobInv, RetainedTyped
  <2>3. PICK new \in Retained!Snapshot : /\ Puts(j, new) /\ new.status \notin {"queued", "downloading"}
                                         /\ view \subseteq view' /\ view' \subseteq Jobs
                                         /\ new.status = "ready" => new.session /\ j \in view'
    <3>1. PICK lost \in BOOLEAN, outcome \in {"ready", "awaiting", "error"}, kept \in BOOLEAN :
       LET whole == data[j] = "complete" /\ ~lost
           again == whole /\ row[j].status \notin {"paused", "cancelled", "error"}
           says == CASE again -> outcome
                       [] ~again /\ outcome = "error" -> "error"
                       [] OTHER -> Retained!AtRest(row[j].status)
           shown == (again /\ outcome = "ready") \/ (~again /\ whole /\ kept /\ row[j].session /\ outcome # "error")
           next == [status |-> says, session |-> shown] IN
       /\ view' = IF shown THEN Retained!RestoredView(j) ELSE view
       /\ Retained!Saved(j, next) \/ Retained!SaveFails(j, next)
      BY <1>18 DEF Retained!RestoreHttp
    <3> DEFINE whole == data[j] = "complete" /\ ~lost
               again == whole /\ row[j].status \notin {"paused", "cancelled", "error"}
               says == CASE again -> outcome
                           [] ~again /\ outcome = "error" -> "error"
                           [] OTHER -> Retained!AtRest(row[j].status)
               shown == (again /\ outcome = "ready") \/ (~again /\ whole /\ kept /\ row[j].session /\ outcome # "error")
               next == [status |-> says, session |-> shown]
    <3>2. says \in Retained!Statuses \ {"queued", "downloading"} /\ (says = "ready" => again /\ outcome = "ready")
      BY DEF Retained!AtRest, Retained!Statuses
    <3>3. shown \in BOOLEAN /\ (says = "ready" => shown)
      BY <3>2
    <3>4. next \in Retained!Snapshot /\ next.session = shown /\ next = [next EXCEPT !.status = says]
      BY <3>2, <3>3 DEF Retained!Snapshot
    <3>5. (Retained!Saved(j, next) \/ Retained!SaveFails(j, next)) /\ view' = IF shown THEN view \cup {j} ELSE view
      BY <3>1 DEF Retained!RestoredView
    <3> HIDE DEF says, shown, next
    <3>6. PICK new \in Retained!Snapshot : Puts(j, new) /\ new.status \in {says, "error"} /\ new.session = next.session
      BY <3>2, <3>4, <3>5, SavePuts
    <3>7. view \subseteq view' /\ view' \subseteq Jobs /\ (shown => j \in view')
      BY <3>5 DEF RetainedTyped
    <3>8. QED
      BY <3>2, <3>3, <3>4, <3>6, <3>7
  <2>4. RetainedTyped' /\ ServerInv'
    BY <2>1, <2>3, PutsKeeps DEF RetainedTyped, ServerInv, Retained!Up
  <2>5. JobInv(j)'
    <3>1. row[j].status = "ready" => row[j].session
      BY <2>2 DEF JobInv, RetainedConstants
    <3>2. new.status = "ready" => row'[j] = new
      BY <2>3, PutsKeeps
    <3>3. job'[j] = new /\ new # None /\ (row'[j] = new \/ row'[j] = row[j])
      BY <2>3, PutsKeeps DEF RetainedConstants
    <3>4. QED
      BY <2>1, <2>2, <2>3, <3>1, <3>2, <3>3 DEF JobInv, Retained!Known
  <2>6. QED
    BY <2>1, <2>2, <2>3, <2>4, <2>5, PutsKeeps, OtherJob
<1>19. QED
  BY <1>0, <1>1, <1>2, <1>3, <1>4, <1>5, <1>6, <1>7, <1>8, <1>9, <1>10, <1>11, <1>12, <1>13, <1>14, <1>15, <1>16,
     <1>17, <1>18 DEF Retained!Next, Retained!UserStep, Retained!ServerStep

-----------------------------------------------------------------------------
(* The composition.                                                        *)

\* What the parts assume of the constants is what Sessions assumes.
LEMMA PartConstants == TreeConstants /\ PublicationConstants /\ None \notin Transfers /\ RetainedConstants
<1>1. None \notin SUBSET Entries
  BY SessionConstants
<1>2. QED
  BY <1>1, SessionConstants DEF TreeConstants, PublicationConstants, RetainedConstants

\* A step of the whole is a step of one part and leaves the others alone.
LEMMA PartsMove ==
  [Next]_vars => /\ [Tree!Next]_ofTree /\ [Publishing!Next]_ofFiles
                 /\ [Transfer!Next]_ofTorrent /\ [Retained!Next]_ofJobs
BY DEF Next, vars, TreeMoves, FilesMove, TorrentMoves, JobsMove

LEMMA TreeInductive == TreeInv /\ [Tree!Next]_ofTree => TreeInv'
<1>1. ASSUME TreeInv, Tree!Next
      PROVE  TreeInv'
  BY <1>1, PartConstants, TreeKept
<1>2. ASSUME TreeInv, UNCHANGED ofTree
      PROVE  TreeInv'
  <2>1. Tree!NoOrphans' /\ Tree!RemovedForGood' /\ Tree!ChainFits' /\ Tree!PublishedFiles'
    BY <1>2 DEF TreeInv, ofTree, Tree!NoOrphans, Tree!RemovedForGood, Tree!ChainFits, Tree!Kept, Tree!Reserved, Tree!PublishedFiles,
         Tree!Available, Tree!Holds
  <2>2. TreeTyped' /\ InTurn' /\ HandsOff'
    BY <1>2 DEF TreeInv, ofTree, TreeTyped, InTurn, HandsOff, InProgress, Tree!Running, Working
  <2>3. Family'
    BY <1>2 DEF TreeInv, ofTree, Family, Gone, Tree!Under, Tree!Holds
  <2>4. OwnChild' /\ Awaited'
    BY <1>2 DEF TreeInv, ofTree, OwnChild, Awaited, Gone, InProgress, Working
  <2>5. Refreshed'
    BY <1>2 DEF TreeInv, ofTree, Refreshed, Gone, InProgress, Tree!Busy, Tree!Children
  <2>6. Filled'
    BY <1>2 DEF TreeInv, ofTree, Filled, Working, Tree!Available, Tree!Holds
  <2>7. QED
    BY <2>1, <2>2, <2>3, <2>4, <2>5, <2>6 DEF TreeInv
<1>3. QED
  BY <1>1, <1>2

LEMMA PublicationInductive == PublicationInv /\ [Publishing!Next]_ofFiles => PublicationInv'
<1>1. ASSUME PublicationInv, Publishing!Next
      PROVE  PublicationInv'
  BY <1>1, PartConstants, PreparingKeeps, PublishingKeeps, FailingKeeps DEF Publishing!Next
<1>2. ASSUME PublicationInv, UNCHANGED ofFiles
      PROVE  PublicationInv'
  BY <1>2 DEF ofFiles, PublicationInv, Publishing!TypeOK, Saved, DirectoriesFollowStep, SessionIsPublished, Publishing!NothingLost
<1>3. QED
  BY <1>1, <1>2

LEMMA TransferInductive == TransferInv /\ [Transfer!Next]_ofTorrent => TransferInv'
BY PartConstants, TransferKept

LEMMA RetainedInductive == RetainedInv /\ [Retained!Next]_ofJobs => RetainedInv'
BY PartConstants, RetainedKept

LEMMA SessionsStart == Init => TreeInv /\ PublicationInv /\ TransferInv /\ RetainedInv
BY PartConstants, TreeStarts, PublicationInit, TransferStarts, RetainedStarts DEF Init

\* sessionManager.ts, nestedArchives.ts: wherever a removal meets the calls that were
\* about to publish a child, no session is left that nobody can reach, and none that
\* was removed comes back; for any identifiers, calls and limits.
THEOREM SessionsNoOrphans == Spec => []NoOrphans
<1>1. TreeInv => NoOrphans
  BY DEF TreeInv, NoOrphans
<1>2. TreeInv /\ [Next]_vars => TreeInv'
  BY PartsMove, TreeInductive
<1>3. QED
  BY <1>1, <1>2, SessionsStart, PTL DEF Spec

\* nestedArchives.ts, open: what the archives of one chain hold and what is reserved for
\* them is accounted for and fits limits.bytes, whichever calls fail, end or are
\* aborted, and whatever is removed meanwhile.
THEOREM SessionsChainFits == Spec => []ChainFits
<1>1. TreeInv => ChainFits
  BY DEF TreeInv, ChainFits
<1>2. TreeInv /\ [Next]_vars => TreeInv'
  BY PartsMove, TreeInductive
<1>3. QED
  BY <1>1, <1>2, SessionsStart, PTL DEF Spec

\* nestedArchives.ts: the calls of one root take turns; and the files of a session
\* that is removed go when none of its calls writes them.
THEOREM SessionsDrainedFirst == Spec => []DrainedFirst
<1>1. TreeInv => DrainedFirst
  BY PartConstants, TreePromises DEF DrainedFirst
<1>2. TreeInv /\ [Next]_vars => TreeInv'
  BY PartsMove, TreeInductive
<1>3. QED
  BY <1>1, <1>2, SessionsStart, PTL DEF Spec

\* nestedArchiveSelection.ts, stagedExtraction.ts, restoreHttpDownloads.ts: what a
\* child offers is on disk; what the store says was published can be read back
\* wherever the server stops; a job that is ready has its session and its row.
THEOREM SessionsNothingLost == Spec => []NothingLost
<1>1. TreeInv => Tree!PublishedFiles
  BY DEF TreeInv
<1>2. PublicationInv => Publishing!NothingLost /\ Publishing!ShowsWhatIsThere
  BY DEF PublicationInv, Saved, SessionIsPublished, Publishing!NothingLost, Publishing!ShowsWhatIsThere
<1>3. RetainedInv => Retained!ReadyIsBrowsable /\ Retained!ReadyIsDurable
  BY PartConstants, RetainedPromises
<1>4. TreeInv /\ PublicationInv /\ RetainedInv /\ [Next]_vars => (TreeInv /\ PublicationInv /\ RetainedInv)'
  BY PartsMove, TreeInductive, PublicationInductive, RetainedInductive
<1>5. TreeInv /\ PublicationInv /\ RetainedInv => NothingLost
  BY <1>1, <1>2, <1>3 DEF NothingLost
<1>6. QED
  BY <1>4, <1>5, SessionsStart, PTL DEF Spec

\* torrentTransfers.ts: the client never holds two torrents of a job, each it holds is
\* downloaded or read, and storage is reserved for the download that runs only.
THEOREM SessionsTorrentsHaveOwners == Spec => []TorrentsHaveOwners
<1>1. TransferInv => TorrentsHaveOwners
  BY PartConstants, TransferPromises DEF TorrentsHaveOwners
<1>2. TransferInv /\ [Next]_vars => TransferInv'
  BY PartsMove, TransferInductive
<1>3. QED
  BY <1>1, <1>2, SessionsStart, PTL DEF Spec

\* earlyVideo.ts, retainedJobs.ts: nobody waits for pieces of a torrent that is gone,
\* and a job that seems to run has a worker or a place in the queue.
THEOREM SessionsNobodyIsForgotten == Spec => []NobodyIsForgotten
<1>1. TransferInv /\ RetainedInv => NobodyIsForgotten
  BY PartConstants, TransferPromises, RetainedPromises DEF NobodyIsForgotten
<1>2. TransferInv /\ RetainedInv /\ [Next]_vars => (TransferInv /\ RetainedInv)'
  BY PartsMove, TransferInductive, RetainedInductive
<1>3. QED
  BY <1>1, <1>2, SessionsStart, PTL DEF Spec
=============================================================================
