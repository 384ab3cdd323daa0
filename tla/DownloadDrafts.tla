--------------------------- MODULE DownloadDrafts ---------------------------
(***************************************************************************)
(* The dialog that adds downloads: the lines typed and not yet taken over  *)
(* (`source'), the drafts, and the batch that is sent.  The state outlives *)
(* a closed dialog, and stays editable while a batch is on its way.        *)
(***************************************************************************)
EXTENDS Naturals, Sequences, SequencesExt

CONSTANTS
    Urls, Magnets, Valid,   \* lines; those that are magnet links; those that are URLs
    Limit,                  \* drafts in a batch (50 in the code)
    MaxLines, MaxId         \* bounds: lines typed at once, drafts ever made

VARIABLES
    open, source,
    drafts,     \* sequence of [id, url, http]; http: the source type is HTTP Direct
    nextId,     \* nextDraftId
    submitting,
    batch,      \* what was sent last, <<>> without one
    changed     \* the user changed the lines or the drafts since then

vars == <<open, source, drafts, nextId, submitting, batch, changed>>

Draft == [id : 0 .. MaxId, url : Urls, http : BOOLEAN]
Items(ds) == [i \in DOMAIN ds |-> [url |-> ds[i].url, http |-> ds[i].http]]

TypeOK ==
    /\ open \in BOOLEAN /\ submitting \in BOOLEAN /\ changed \in BOOLEAN /\ nextId \in 0 .. MaxId
    /\ source \in BoundedSeq(Urls, MaxLines) /\ drafts \in BoundedSeq(Draft, Limit)

Init ==
    /\ open = FALSE /\ source = <<>> /\ drafts = <<>> /\ nextId = 0
    /\ submitting = FALSE /\ batch = <<>> /\ changed = FALSE

\* The lines that still fit are drafts to be; the others are dropped with the text.
parseDrafts(startId) ==
    LET n == IF Len(source) < Limit - Len(drafts) THEN Len(source) ELSE Limit - Len(drafts)
    IN  [i \in 1 .. n |-> [id |-> startId + i - 1, url |-> source[i], http |-> FALSE]]

\* FAULT: the identifiers start at the number of drafts that are left.
AddedFromLength == parseDrafts(Len(drafts))

\* The lines taken over, with identifiers of their own.
Added == parseDrafts(nextId)

Submission == drafts \o Added
validDraft(draft) == draft.url \in Valid /\ ~(draft.url \in Magnets /\ draft.http)

\* FAULT: the lines stay in the box when they become drafts.
PromoteKeeping == drafts' = Submission /\ nextId' = nextId + Len(Added) /\ source' = source

Promote == drafts' = Submission /\ nextId' = nextId + Len(Added) /\ source' = <<>>

ShowDialog == ~open /\ open' = TRUE /\ UNCHANGED <<source, drafts, nextId, submitting, batch, changed>>
CloseDialog == open /\ open' = FALSE /\ UNCHANGED <<source, drafts, nextId, submitting, batch, changed>>

\* The user types, leaves the box, edits and removes drafts.
Type(lines) ==
    /\ open /\ lines # source
    /\ source' = lines /\ changed' = TRUE
    /\ UNCHANGED <<open, drafts, nextId, submitting, batch>>
LeaveBox == open /\ source # <<>> /\ nextId + Len(Added) <= MaxId /\ Promote /\ UNCHANGED <<open, submitting, batch, changed>>
\* Edits go to the draft with the identifier of the row.
Edit(id, url, http) ==
    /\ open
    /\ drafts' = [i \in DOMAIN drafts |-> IF drafts[i].id = id THEN [id |-> id, url |-> url, http |-> http] ELSE drafts[i]]
    /\ changed' = TRUE
    /\ UNCHANGED <<open, source, nextId, submitting, batch>>
RemoveDraft(id) ==
    /\ open
    /\ drafts' = FlattenSeq([i \in DOMAIN drafts |-> IF drafts[i].id = id THEN <<>> ELSE <<drafts[i]>>]) /\ changed' = TRUE
    /\ UNCHANGED <<open, source, nextId, submitting, batch>>

\* FAULT: the drafts are checked, the lines not yet taken over are not.
ReadyDrafts == drafts \o Added # <<>> /\ (\A i \in DOMAIN drafts : validDraft(drafts[i])) /\ IsInjective([i \in DOMAIN drafts |-> drafts[i].url])

Ready ==
    /\ Submission # <<>>
    /\ \A i \in DOMAIN Submission : validDraft(Submission[i])
    /\ IsInjective([i \in DOMAIN Submission |-> Submission[i].url])

\* The button is disabled while a batch is on its way.
Submit ==
    /\ open /\ ~submitting /\ Ready /\ nextId + Len(Added) <= MaxId
    /\ IF Added # <<>> THEN Promote ELSE UNCHANGED <<drafts, nextId, source>>
    /\ batch' = Items(Submission)
    /\ submitting' = TRUE /\ changed' = FALSE
    /\ UNCHANGED open

\* The batch is in the queue: the dialog is emptied and closed.
Succeeds ==
    /\ submitting
    /\ source' = <<>> /\ drafts' = <<>> /\ submitting' = FALSE /\ batch' = <<>> /\ changed' = FALSE /\ open' = FALSE
    /\ UNCHANGED nextId

\* FAULT: a failure empties the dialog as well.
FailsEmpty ==
    /\ submitting
    /\ source' = <<>> /\ drafts' = <<>> /\ submitting' = FALSE
    /\ UNCHANGED <<open, nextId, batch, changed>>

Fails == submitting /\ submitting' = FALSE /\ UNCHANGED <<open, source, drafts, nextId, batch, changed>>

Next ==
    \/ ShowDialog \/ CloseDialog \/ LeaveBox \/ Submit \/ Succeeds \/ Fails
    \/ \E lines \in BoundedSeq(Urls, MaxLines) : Type(lines)
    \/ \E i \in DOMAIN drafts : RemoveDraft(drafts[i].id)
    \/ \E i \in DOMAIN drafts, url \in Urls, http \in BOOLEAN : Edit(drafts[i].id, url, http)

Spec == Init /\ [][Next]_vars
-----------------------------------------------------------------------------
\* An edit reaches one draft: their identifiers differ (DownloadDialog.tsx:276-281).
OneRowEach == IsInjective([i \in DOMAIN drafts |-> drafts[i].id])

\* A batch that was sent is in the dialog, in full and as sent, until the user
\* changes it or the queue has it (DownloadDialog.tsx:256, :285-311) ...
BatchIsKept == batch # <<>> /\ ~changed => Items(Submission) = batch

\* ... and holds no duplicate and nothing invalid, within the limit of a batch.
BatchIsSound ==
    /\ Len(batch) <= Limit /\ IsInjective([i \in DOMAIN batch |-> batch[i].url])
    /\ \A i \in DOMAIN batch : validDraft(batch[i])
=============================================================================
