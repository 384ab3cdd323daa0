----------------------------- MODULE FileChoices -----------------------------
(***************************************************************************)
(* The dialogs in which the user chooses the files of a ZIP archive to     *)
(* extract, or of a torrent to download, against the job on the server,    *)
(* which other clients drive too.  The page knows the job as last polled;  *)
(* the ZIP dialog also holds the manifest it fetched.  Search, folders and *)
(* pages only decide which boxes one click changes.  An entry's id is its  *)
(* place in the archive, so that ids mean files only with a fingerprint.   *)
(***************************************************************************)
EXTENDS Naturals, FiniteSets

CONSTANTS Ids, MaxPrint, MaxSent, None

VARIABLES
    kind,       \* "zip" or "torrent"
    status,     \* of the job: awaiting_selection, busy, ready, paused or error
    print,      \* the fingerprint of its archive
    taken,      \* the ids extracted, or selected for download
    wanted,     \* the ids to extract
    seen,       \* the job as last polled: [status, taken]
    list,       \* the manifest fetched last: [print, taken], None without one
    open, adding, selected, busy,   \* the dialog
    sent,       \* requests without an answer yet: [print, ids, checked, own, done]
    accepted    \* what the server took last and the page awaits: [files, checked]

vars == <<kind, status, print, taken, wanted, seen, list, open, adding, selected, busy, sent, accepted>>

Prints == 1 .. MaxPrint
Files == Prints \X Ids

TypeOK ==
    /\ kind \in {"zip", "torrent"} /\ status \in {"awaiting_selection", "busy", "ready", "paused", "error"}
    /\ print \in Prints /\ taken \subseteq Ids /\ wanted \subseteq Ids /\ seen.taken \subseteq Ids
    /\ list = None \/ list \in [print : Prints, taken : SUBSET Ids]
    /\ open \in BOOLEAN /\ adding \in BOOLEAN /\ busy \in BOOLEAN /\ selected \subseteq Ids
    /\ sent \subseteq [print : Prints, ids : SUBSET Ids, checked : SUBSET Files, own : BOOLEAN, done : BOOLEAN]

Nothing == [files |-> {}, checked |-> {}]
Job == <<kind, status, print, taken, wanted>>
Dialog == <<open, adding, selected, busy>>

Init ==
    /\ kind \in {"zip", "torrent"} /\ status = "awaiting_selection" /\ print = 1 /\ taken = {} /\ wanted = {}
    /\ seen = [status |-> status, taken |-> taken] /\ list = None
    /\ open = FALSE /\ adding = FALSE /\ selected = {} /\ busy = FALSE
    /\ sent = {} /\ accepted = Nothing
-----------------------------------------------------------------------------
\* The server.  The ids of a request must be of the archive as it is now.
\* FAULT: known ids are taken whatever archive they were read from.
AcceptsAnyPrint(r) ==
    /\ r.ids # {} /\ r.ids \subseteq Ids
    /\ status \in IF kind = "zip" THEN {"awaiting_selection", "ready"} ELSE {"awaiting_selection", "ready", "paused"}

Accepts(r) ==
    /\ r.ids # {} /\ r.ids \subseteq Ids
    /\ kind = "zip" => r.print = print
    /\ status \in IF kind = "zip" THEN {"awaiting_selection", "ready"} ELSE {"awaiting_selection", "ready", "paused"}

\* What was extracted stays chosen; so does what a torrent downloads, unless it
\* waits for its selection.
Take(ids) ==
    /\ status' = "busy"
    /\ IF kind = "zip" THEN wanted' = taken \cup ids /\ taken' = taken
       ELSE /\ taken' = IF status = "awaiting_selection" THEN ids ELSE taken \cup ids
            /\ wanted' = wanted

\* Another client chooses.
OthersChoose(ids) ==
    /\ Accepts([print |-> print, ids |-> ids]) /\ Take(ids)
    /\ UNCHANGED <<kind, print, seen, list, Dialog, sent, accepted>>

\* The job ends, is paused, resumed and tried again.  A torrent may hold a ZIP whose
\* contents are to be chosen, and a download made again may be another archive.
JobMoves ==
    /\ \/ status = "busy" /\ status' = "ready" /\ taken' = taken \cup wanted /\ UNCHANGED <<print, wanted>>
       \/ status = "busy" /\ status' = "error" /\ UNCHANGED <<print, taken, wanted>>
       \/ status = "busy" /\ kind = "torrent" /\ status' \in {"paused", "awaiting_selection"}
          /\ UNCHANGED <<print, taken, wanted>>
       \/ status \in {"paused", "error"} /\ status' = "busy" /\ UNCHANGED <<print, taken, wanted>>
       \/ status = "error" /\ kind = "zip" /\ print < MaxPrint
          /\ status' = "awaiting_selection" /\ print' = print + 1 /\ taken' = {} /\ wanted' = {}
    /\ UNCHANGED <<kind, seen, list, Dialog, sent, accepted>>

\* The page polls the jobs every second (useWorkspaceQueue.ts).
Poll == seen' = [status |-> status, taken |-> taken] /\ UNCHANGED <<Job, list, Dialog, sent, accepted>>
-----------------------------------------------------------------------------
\* The ids the dialog has boxes for, and whether they can be changed.
Available ==
    IF kind = "zip" THEN IF list = None THEN {} ELSE Ids \ list.taken
    ELSE IF adding THEN Ids \ seen.taken ELSE Ids
CanSelect ==
    IF kind = "zip" THEN list # None /\ seen.status \in {"awaiting_selection", "ready"}
    ELSE adding \/ seen.status = "awaiting_selection"
ShownPrint == IF kind = "zip" THEN list.print ELSE print
Checked == {<<ShownPrint, id>> : id \in {i \in Available : i \in selected}}

\* FAULT: every id that was ever checked is sent.
ChosenEver == selected

Chosen == Available \cap selected

\* A manifest kept from before is shown at once; all that can be chosen is checked.
OpenDialog ==
    /\ ~open /\ open' = TRUE /\ adding' = FALSE /\ busy' = FALSE
    /\ selected' = IF kind = "torrent" THEN Ids ELSE IF list = None THEN {} ELSE Ids \ list.taken
    /\ UNCHANGED <<Job, seen, list, sent, accepted>>

\* The manifest arrives.  Another fingerprint makes the choices anew, and leaves the
\* request of the old ones to itself.
Manifest ==
    LET same == IF list = None THEN FALSE ELSE list.print = print
    IN  /\ open /\ kind = "zip"
        /\ list' = [print |-> print, taken |-> taken]
        /\ selected' = IF same THEN selected ELSE Ids \ taken
        /\ busy' = (same /\ busy)
        /\ sent' = IF same THEN sent ELSE {[r EXCEPT !.own = FALSE] : r \in sent}
        /\ UNCHANGED <<Job, seen, open, adding, accepted>>

\* A box, a folder, or all of them.
Change(ids, checked) ==
    /\ open /\ CanSelect /\ ~busy
    /\ selected' = IF checked THEN selected \cup ids ELSE selected \ ids
    /\ UNCHANGED <<Job, seen, list, open, adding, busy, sent, accepted>>

\* Download skipped files.
StartAdding ==
    /\ open /\ kind = "torrent" /\ ~CanSelect
    /\ seen.status \in {"ready", "paused"} /\ seen.taken # Ids
    /\ selected' = Ids \ seen.taken /\ adding' = TRUE
    /\ UNCHANGED <<Job, seen, list, open, busy, sent, accepted>>

Submit ==
    /\ open /\ CanSelect /\ ~busy /\ Chosen # {} /\ Cardinality(sent) < MaxSent
    /\ busy' = TRUE
    /\ sent' = sent \cup {[print |-> ShownPrint, ids |-> Chosen, checked |-> Checked, own |-> TRUE, done |-> FALSE]}
    /\ UNCHANGED <<Job, seen, list, open, adding, selected, accepted>>

\* The ZIP dialog closes at any time, the torrent dialog not while it submits.
Close ==
    /\ open /\ (kind = "torrent" => ~busy)
    /\ open' = FALSE /\ adding' = FALSE /\ selected' = {} /\ busy' = FALSE
    /\ sent' = {[r EXCEPT !.own = FALSE] : r \in sent}
    /\ UNCHANGED <<Job, seen, list, accepted>>

\* The server accepts.
Accepted(r) ==
    /\ ~r.done /\ Accepts(r) /\ Take(r.ids)
    /\ accepted' = [files |-> {<<print, id>> : id \in r.ids}, checked |-> r.checked]
    /\ sent' = (sent \ {r}) \cup {[r EXCEPT !.done = TRUE]}
    /\ UNCHANGED <<kind, print, seen, list, Dialog>>

\* The page hears of it, fetches everything again and closes the dialog, also one
\* that was opened since.
Answered(r) ==
    /\ r.done
    /\ seen' = [status |-> status, taken |-> taken]
    /\ list' = IF kind = "zip" THEN [print |-> print, taken |-> taken] ELSE list
    /\ open' = FALSE /\ adding' = FALSE /\ selected' = {} /\ busy' = FALSE
    /\ sent' = {[q EXCEPT !.own = FALSE] : q \in sent \ {r}}
    /\ accepted' = Nothing /\ UNCHANGED Job

\* FAULT: the dialog says it is starting after a refusal.
RefusedBusy(r) == sent' = sent \ {r} /\ UNCHANGED <<Job, seen, list, Dialog, accepted>>

\* The server refuses, cannot be reached, or its answer is lost; the dialog takes
\* choices again.
Refused(r) ==
    /\ sent' = sent \ {r}
    /\ busy' = (busy /\ ~r.own)
    /\ accepted' = IF r.done THEN Nothing ELSE accepted
    /\ UNCHANGED <<Job, seen, list, open, adding, selected>>

Next ==
    \/ \E ids \in SUBSET Ids : OthersChoose(ids)
    \/ JobMoves \/ Poll \/ OpenDialog \/ Manifest \/ StartAdding \/ Submit \/ Close
    \/ \E ids \in SUBSET Available, checked \in BOOLEAN : ids # {} /\ Change(ids, checked)
    \/ \E r \in sent : Accepted(r)
    \/ \E r \in sent : Answered(r)
    \/ \E r \in sent : Refused(r)

Spec == Init /\ [][Next]_vars
-----------------------------------------------------------------------------
\* The files the server takes are those whose boxes were checked when the user sent
\* them, whatever became of the archive and of the job in between
\* (ArchiveFileDialog.tsx:46-49, archiveSelection.ts:54-59).
AcceptedIsChecked == accepted.files = accepted.checked

\* A dialog that says it is starting has its one request on its way, and no other.
BusyIsSending == /\ busy <=> \E r \in sent : r.own
                 /\ Cardinality({r \in sent : r.own}) <= 1
=============================================================================
