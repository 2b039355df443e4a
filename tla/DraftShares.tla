---------------------------- MODULE DraftShares -----------------------------
(***************************************************************************)
(* Drafts too long for a URL, kept under a random code for some days       *)
(* (scenarioDraftShareService.js). A reader that meets an expired row      *)
(* deletes it by its code, and an hourly job deletes them all              *)
(* (kernels/jobs/scenarioDraftShareCleanupJob.js).                         *)
(***************************************************************************)
EXTENDS Naturals

CONSTANTS
    DraftCode,      \* what generateDraftShareCode draws from
    DraftReader,    \* requests that open a draft
    MaxDrafts       \* bound: drafts stored

ASSUME DraftAssumption == MaxDrafts \in Nat

VARIABLES
    draftRows,      \* for each code the draft stored (0: none), and whether it is expired
    drafts,         \* the last draft stored
    opening,        \* readers that found an expired row and are about to delete it
    promised,       \* history: drafts whose code was answered and whose days are not over
    drawnAgain      \* history: drafts under a code that a reader is about to delete

draftVars == <<draftRows, drafts, opening, promised, drawnAgain>>

Draft == 1..MaxDrafts
NoDraft == [draft |-> 0, expired |-> FALSE]

DraftTypeOK ==
    /\ draftRows \in [DraftCode -> [draft : 0..MaxDrafts, expired : BOOLEAN]]
    /\ drafts \in 0..MaxDrafts
    /\ opening \subseteq DraftReader \X DraftCode
    /\ promised \subseteq Draft /\ drawnAgain \subseteq Draft

DraftInit ==
    /\ draftRows = [c \in DraftCode |-> NoDraft]
    /\ drafts = 0
    /\ opening = {} /\ promised = {} /\ drawnAgain = {}

-----------------------------------------------------------------------------
\* Slip: an upsert, which no row refuses.
UpsertDraft(c) ==
    /\ drafts < MaxDrafts
    /\ drafts' = drafts + 1
    /\ draftRows' = [draftRows EXCEPT ![c] = [draft |-> drafts + 1, expired |-> FALSE]]
    /\ promised' = promised \cup {drafts + 1}
    /\ drawnAgain' = IF \E o \in opening : o[2] = c
                     THEN drawnAgain \cup {drafts + 1} ELSE drawnAgain
    /\ UNCHANGED opening

\* createDraftShare. An insert under a code that a row holds is refused, and another
\* code drawn; five refusals end with 503 and no row.
CreateDraft(c) ==
    /\ draftRows[c] = NoDraft
    /\ drafts < MaxDrafts
    /\ drafts' = drafts + 1
    /\ draftRows' = [draftRows EXCEPT ![c] = [draft |-> drafts + 1, expired |-> FALSE]]
    /\ promised' = promised \cup {drafts + 1}
    /\ drawnAgain' = IF \E o \in opening : o[2] = c
                     THEN drawnAgain \cup {drafts + 1} ELSE drawnAgain
    /\ UNCHANGED opening

\* getDraftShareContent of an expired row goes on to delete it. Of any other it answers
\* the content, or 404, and changes nothing.
FindDraft(r, c) ==
    /\ \A o \in opening : o[1] # r
    /\ draftRows[c].expired
    /\ opening' = opening \cup {<<r, c>>}
    /\ UNCHANGED <<draftRows, drafts, promised, drawnAgain>>

\* row.destroy, by the primary key Code.
DestroyDraft(r, c) ==
    /\ <<r, c>> \in opening
    /\ draftRows' = [draftRows EXCEPT ![c] = NoDraft]
    /\ opening' = opening \ {<<r, c>>}
    /\ UNCHANGED <<drafts, promised, drawnAgain>>

\* The DELETE fails, or the process dies.
DestroyDraftFails(r, c) ==
    /\ <<r, c>> \in opening
    /\ opening' = opening \ {<<r, c>>}
    /\ UNCHANGED <<draftRows, drafts, promised, drawnAgain>>

CleanupExpiredDrafts ==
    /\ draftRows' = [c \in DraftCode |-> IF draftRows[c].expired THEN NoDraft ELSE draftRows[c]]
    /\ UNCHANGED <<drafts, opening, promised, drawnAgain>>

ExpireDraft(c) ==
    /\ draftRows[c] # NoDraft
    /\ draftRows' = [draftRows EXCEPT ![c].expired = TRUE]
    /\ promised' = promised \ {draftRows[c].draft}
    /\ UNCHANGED <<drafts, opening, drawnAgain>>

DraftNext ==
    \/ \E c \in DraftCode :
          \/ CreateDraft(c) \/ ExpireDraft(c)
          \/ \E r \in DraftReader :
                FindDraft(r, c) \/ DestroyDraft(r, c) \/ DestroyDraftFails(r, c)
    \/ CleanupExpiredDrafts

DraftSpec == DraftInit /\ [][DraftNext]_draftVars

-----------------------------------------------------------------------------
(* Properties.                                                             *)

\* A draft whose code was answered opens until its days are over: neither the readers
\* that delete expired rows nor the clean-up, however they interleave, take another row
\* with them (scenarioDraftShareService.js:58-70). A code drawn again between a reader's
\* look and its DELETE is excepted: the key is the code.
DraftsOpen ==
    \A d \in promised \ drawnAgain :
        \E c \in DraftCode : draftRows[c] = [draft |-> d, expired |-> FALSE]
=============================================================================
