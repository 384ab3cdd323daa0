---------------------------- MODULE NestedDialog ----------------------------
(***************************************************************************)
(* The dialog that opens an archive inside a session.  Opening and         *)
(* cancelling are calls to the server; closing the dialog lets go of the   *)
(* opening it waits for, cancels the work and waits for that.  (What the   *)
(* calls do on the server is SessionTree's.)                               *)
(***************************************************************************)
EXTENDS Naturals

CONSTANT MaxCalls   \* bound on the calls on their way, of each kind

VARIABLES
    mounted,
    mutation,   \* of the opening: idle, pending, done or failed
    loose,      \* openings on their way that the dialog let go of
    cancels,    \* cancellations that the dialog waits for
    closing, canceling,
    wants,      \* the user asked for the contents, and did not close since
    child       \* the page shows the child session

vars == <<mounted, mutation, loose, cancels, closing, canceling, wants, child>>

TypeOK ==
    /\ mounted \in BOOLEAN /\ mutation \in {"idle", "pending", "done", "failed"}
    /\ loose \in 0 .. MaxCalls /\ cancels \in 0 .. MaxCalls
    /\ closing \in BOOLEAN /\ canceling \in BOOLEAN /\ wants \in BOOLEAN /\ child \in BOOLEAN

Init ==
    /\ mounted = FALSE /\ mutation = "idle" /\ loose = 0 /\ cancels = 0
    /\ closing = FALSE /\ canceling = FALSE /\ wants = FALSE /\ child = FALSE

Mount ==
    /\ ~mounted /\ mounted' = TRUE /\ mutation' = "idle" /\ closing' = FALSE /\ canceling' = FALSE
    /\ wants' = FALSE /\ child' = FALSE /\ cancels' = 0
    /\ UNCHANGED loose

Busy == mutation = "pending" \/ canceling
Freed == IF mutation = "pending" THEN loose + 1 ELSE loose

\* Open selected files.
Extract ==
    /\ mounted /\ ~Busy
    /\ mutation' = "pending" /\ wants' = TRUE
    /\ UNCHANGED <<mounted, loose, cancels, closing, canceling, child>>

Opened == mutation = "pending" /\ mutation' = "done" /\ UNCHANGED <<mounted, loose, cancels, closing, canceling, wants, child>>
OpenFailed == mutation = "pending" /\ mutation' = "failed" /\ UNCHANGED <<mounted, loose, cancels, closing, canceling, wants, child>>
\* Nobody hears of an opening that was let go.
LooseEnds == loose > 0 /\ loose' = loose - 1 /\ UNCHANGED <<mounted, mutation, cancels, closing, canceling, wants, child>>

\* The effect of a success: the dialog closes and the page opens the child.
OpenChild ==
    /\ mounted /\ mutation = "done" /\ ~closing
    /\ mutation' = "idle" /\ mounted' = FALSE /\ child' = TRUE
    /\ UNCHANGED <<loose, cancels, closing, canceling, wants>>

\* FAULT: the dialog goes on waiting for the opening while it closes.
CloseWaiting ==
    /\ mounted /\ cancels < MaxCalls /\ Freed <= MaxCalls
    /\ closing' = TRUE /\ canceling' = TRUE /\ cancels' = cancels + 1 /\ wants' = FALSE
    /\ UNCHANGED <<mounted, mutation, loose, child>>

\* The Close button is disabled while a cancellation is awaited, the Escape key is not.
Close ==
    /\ mounted /\ cancels < MaxCalls /\ Freed <= MaxCalls
    /\ mutation' = "idle" /\ loose' = Freed
    /\ closing' = TRUE /\ canceling' = TRUE /\ cancels' = cancels + 1 /\ wants' = FALSE
    /\ UNCHANGED <<mounted, child>>

Cancelled ==
    /\ mounted /\ cancels > 0
    /\ mounted' = FALSE /\ cancels' = cancels - 1 /\ canceling' = FALSE
    /\ mutation' = "idle" /\ loose' = IF Freed <= MaxCalls THEN Freed ELSE MaxCalls
    /\ UNCHANGED <<closing, wants, child>>

\* FAULT: a failed cancellation leaves the dialog closing.
CancelFailsClosing ==
    /\ mounted /\ cancels > 0
    /\ cancels' = cancels - 1 /\ canceling' = FALSE
    /\ UNCHANGED <<mounted, mutation, loose, closing, wants, child>>

\* The dialog is open again, and says that it could not cancel.
CancelFails ==
    /\ mounted /\ cancels > 0
    /\ cancels' = cancels - 1 /\ closing' = FALSE /\ canceling' = FALSE
    /\ UNCHANGED <<mounted, mutation, loose, wants, child>>

\* Another file is selected: the dialog goes, and cancels behind itself.
Leave ==
    /\ mounted /\ Freed <= MaxCalls
    /\ mounted' = FALSE /\ mutation' = "idle" /\ loose' = Freed /\ wants' = FALSE
    /\ UNCHANGED <<cancels, closing, canceling, child>>

Next ==
    \/ Mount \/ Extract \/ Opened \/ OpenFailed \/ LooseEnds \/ OpenChild
    \/ Close \/ Cancelled \/ CancelFails \/ Leave

Spec == Init /\ [][Next]_vars
-----------------------------------------------------------------------------
\* The page opens the child only for a user who still wants it: an opening that ends
\* after the dialog was closed opens nothing, also when the cancellation fails
\* (NestedArchiveDialog.tsx:42-65).
OpenedIsWanted == child => wants

\* A dialog that is closing waits for a cancellation; otherwise it takes a choice.
ClosingWaits == mounted /\ (closing \/ canceling) => cancels > 0
=============================================================================
