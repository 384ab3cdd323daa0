------------------------------ MODULE TextPages ------------------------------
(***************************************************************************)
(* The text preview: the page asked for, the request for it, the cache of  *)
(* chunks and what is shown.  `now' is what the hook renders for; a page   *)
(* kept for another file is ignored but not forgotten.                     *)
(***************************************************************************)
EXTENDS Naturals

CONSTANTS Texts, Offsets, MaxAttempt, None

VARIABLES
    text,       \* the owner: the selected text file
    page,       \* [owner, offset, attempt]
    result,     \* [owner, offset, attempt, chunk, failed], None without one
    pending,    \* requests that were not aborted
    chunks      \* the cached <<owner, offset>>

vars == <<text, page, result, pending, chunks>>

Now == IF page.owner = text THEN page ELSE [owner |-> text, offset |-> 0, attempt |-> 0]
Page == [owner : Texts \cup {None}, offset : Offsets, attempt : 0 .. MaxAttempt]
Nothing == [owner |-> None, offset |-> 0, attempt |-> 0]

TypeOK ==
    /\ text \in Texts \cup {None} /\ page \in Page /\ pending \subseteq Page
    /\ result = None \/ result \in [page : Page, chunk : (Texts \X Offsets) \cup {None}, failed : BOOLEAN]
    /\ chunks \subseteq Texts \X Offsets

Init == text = None /\ page = Nothing /\ result = None /\ pending = {} /\ chunks = {}

\* FAULT: the request before is not aborted.
AskBeside(next) ==
    LET hit == <<next.owner, next.offset>> \in chunks
    IN  /\ pending' = IF next.owner = None \/ hit THEN pending ELSE pending \cup {next}
        /\ result' = IF next.owner # None /\ hit
                     THEN [page |-> next, chunk |-> <<next.owner, next.offset>>, failed |-> FALSE] ELSE result

\* The effect of a render that asks for another page; a cached chunk is at hand.
Ask(next) ==
    LET hit == <<next.owner, next.offset>> \in chunks
    IN  /\ pending' = IF next.owner = None \/ hit THEN {} ELSE {next}
        /\ result' = IF next.owner # None /\ hit
                     THEN [page |-> next, chunk |-> <<next.owner, next.offset>>, failed |-> FALSE] ELSE result

SelectText(f) ==
    /\ f # text
    /\ text' = f
    /\ Ask(IF page.owner = f THEN page ELSE [owner |-> f, offset |-> 0, attempt |-> 0])
    /\ UNCHANGED <<page, chunks>>

\* Retry asks for the offset it has, with another attempt.
LoadOffset(offset) ==
    /\ text # None /\ page.attempt < MaxAttempt
    /\ page' = [owner |-> text, offset |-> offset, attempt |-> page.attempt + 1]
    /\ Ask(page')
    /\ UNCHANGED <<text, chunks>>

Leave ==
    /\ text' = None /\ page' = Nothing /\ result' = None /\ pending' = {} /\ chunks' = {}

\* Old chunks may be evicted for the new one.
Answered(r) ==
    /\ pending' = pending \ {r}
    /\ result' = [page |-> r, chunk |-> <<r.owner, r.offset>>, failed |-> FALSE]
    /\ \E kept \in SUBSET chunks : chunks' = kept \cup {<<r.owner, r.offset>>}
    /\ UNCHANGED <<text, page>>

OwnChunk(r) == IF result = None THEN None ELSE IF result.page.owner = r.owner THEN result.chunk ELSE None

Failed(r) ==
    /\ pending' = pending \ {r}
    /\ result' = [page |-> r, chunk |-> OwnChunk(r), failed |-> TRUE]
    /\ UNCHANGED <<text, page, chunks>>

Next ==
    \/ \E f \in Texts \cup {None} : SelectText(f)
    \/ \E offset \in Offsets : LoadOffset(offset)
    \/ Leave
    \/ \E r \in pending : Answered(r)
    \/ \E r \in pending : Failed(r)

Spec == Init /\ [][Next]_vars
-----------------------------------------------------------------------------
Ours == IF result = None THEN FALSE ELSE result.page.owner = text
Current == IF result = None THEN FALSE ELSE result.page = Now

\* A page that says it is loading has its request under way, and one that says it
\* is read shows the chunk at the offset asked for last (useTextPreview.ts:63-79).
PageIsAsked ==
    text # None =>
        /\ ~Current => Now \in pending
        /\ Current => result.failed \/ result.chunk = <<text, Now.offset>>
        /\ Ours => result.chunk = None \/ result.chunk[1] = text
=============================================================================
