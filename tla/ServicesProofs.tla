---------------------------- MODULE ServicesProofs ----------------------------
(***************************************************************************)
(* What the components do together. MCServices lets one of them move at a  *)
(* time; each sees steps of its own and steps that leave it alone, so the  *)
(* whole implements every component's specification, and what is proved of *)
(* a component alone holds of it here.                                     *)
(***************************************************************************)
EXTENDS MCServices, LeaseLimitProofs, AuthProofs, ContentProofs

\* The components start where they start alone.
LEMMA EachStarts ==
    Init => /\ LeaseInit /\ RateInit /\ TokenInit /\ AccountInit /\ ResetInit /\ ViewInit
            /\ ImageInit /\ ShareInit /\ DraftInit /\ FileInit /\ PageInit
BY DEF Init

\* A step of the whole is a step of one component, and leaves the others as they are.
LEMMA EachSteps ==
    ASSUME [Next]_allVars
    PROVE  /\ [LeaseNext]_leaseVars /\ [RateNext]_rateVars /\ [TokenNext]_tokenVars
           /\ [AccountNext]_accountVars /\ [ResetNext]_resetVars /\ [ViewNext]_viewVars
           /\ [ImageNext]_imageVars /\ [ShareNext]_shareVars /\ [DraftNext]_draftVars
           /\ [FileNext]_fileVars /\ [PageNext]_pageVars
<1>1. CASE UNCHANGED allVars
  BY <1>1 DEF allVars
<1>2. CASE focus = "lease" /\ LeaseNext
           /\ UNCHANGED <<focus, rateVars, tokenVars, accountVars, resetVars, viewVars,
                          imageVars, shareVars, draftVars, fileVars, pageVars>>
  BY <1>2
<1>3. CASE focus = "limiter" /\ RateNext
           /\ UNCHANGED <<focus, leaseVars, tokenVars, accountVars, resetVars, viewVars,
                          imageVars, shareVars, draftVars, fileVars, pageVars>>
  BY <1>3
<1>4. CASE focus = "tokens" /\ TokenNext
           /\ UNCHANGED <<focus, leaseVars, rateVars, accountVars, resetVars, viewVars,
                          imageVars, shareVars, draftVars, fileVars, pageVars>>
  BY <1>4
<1>5. CASE focus = "accounts" /\ AccountNext
           /\ UNCHANGED <<focus, leaseVars, rateVars, tokenVars, resetVars, viewVars,
                          imageVars, shareVars, draftVars, fileVars, pageVars>>
  BY <1>5
<1>6. CASE focus = "resets" /\ ResetNext
           /\ UNCHANGED <<focus, leaseVars, rateVars, tokenVars, accountVars, viewVars,
                          imageVars, shareVars, draftVars, fileVars, pageVars>>
  BY <1>6
<1>7. CASE focus = "content" /\ ViewNext
           /\ UNCHANGED <<focus, leaseVars, rateVars, tokenVars, accountVars, resetVars,
                          imageVars, shareVars, draftVars, fileVars, pageVars>>
  BY <1>7
<1>8. CASE focus = "images" /\ ImageNext
           /\ UNCHANGED <<focus, leaseVars, rateVars, tokenVars, accountVars, resetVars,
                          viewVars, shareVars, draftVars, fileVars, pageVars>>
  BY <1>8
<1>9. CASE focus = "sharing" /\ ShareNext
           /\ UNCHANGED <<focus, leaseVars, rateVars, tokenVars, accountVars, resetVars,
                          viewVars, imageVars, draftVars, fileVars, pageVars>>
  BY <1>9
<1>10. CASE focus = "drafts" /\ DraftNext
            /\ UNCHANGED <<focus, leaseVars, rateVars, tokenVars, accountVars, resetVars,
                           viewVars, imageVars, shareVars, fileVars, pageVars>>
  BY <1>10
<1>11. CASE focus = "files" /\ FileNext
            /\ UNCHANGED <<focus, leaseVars, rateVars, tokenVars, accountVars, resetVars,
                           viewVars, imageVars, shareVars, draftVars, pageVars>>
  BY <1>11
<1>12. CASE focus = "lists" /\ PageNext
            /\ UNCHANGED <<focus, leaseVars, rateVars, tokenVars, accountVars, resetVars,
                           viewVars, imageVars, shareVars, draftVars, fileVars>>
  BY <1>12
<1> QED BY <1>1, <1>2, <1>3, <1>4, <1>5, <1>6, <1>7, <1>8, <1>9, <1>10, <1>11, <1>12 DEF Next

\* The whole implements the specification of every component: the behaviours that the
\* run looks through are behaviours of each of them.
THEOREM ServicesImplementEach ==
    FairServices => /\ LeaseSpec /\ RateSpec /\ TokenSpec /\ AccountSpec /\ ResetSpec
                    /\ ViewSpec /\ ImageSpec /\ ShareSpec /\ DraftSpec /\ FileSpec /\ PageSpec
<1>1. FairServices => Init /\ [][Next]_allVars
  BY PTL DEF FairServices
<1>2. Init /\ [][Next]_allVars =>
          /\ LeaseSpec /\ RateSpec /\ TokenSpec /\ AccountSpec /\ ResetSpec
          /\ ViewSpec /\ ImageSpec /\ ShareSpec /\ DraftSpec /\ FileSpec /\ PageSpec
  BY EachStarts, EachSteps, PTL
     DEF LeaseSpec, RateSpec, TokenSpec, AccountSpec, ResetSpec, ViewSpec, ImageSpec,
         ShareSpec, DraftSpec, FileSpec, PageSpec
<1> QED BY <1>1, <1>2

\* The types of all the components, whichever of them moves.
THEOREM ServicesTypeCorrect == FairServices => []ServicesTypeOK
<1>1. FairServices => /\ []LeaseTypeOK /\ []RateTypeOK /\ []TokenTypeOK /\ []AccountTypeOK
                      /\ []ResetTypeOK /\ []ViewTypeOK /\ []ImageTypeOK /\ []ShareTypeOK
                      /\ []DraftTypeOK /\ []FileTypeOK /\ []PageTypeOK
  BY ServicesImplementEach, LeaseTypeCorrect, AdmissionsStayBounded, TokenTypeCorrect,
     AccountTypeCorrect, ResetTypeCorrect, ViewTypeCorrect, ShownImagesExist,
     OwnersAreToldTruth, DraftsStayOpen, CleanFilesAreSaved, PagesHideNothing, PTL
<1>2. /\ LeaseTypeOK /\ RateTypeOK /\ TokenTypeOK /\ AccountTypeOK
      /\ ResetTypeOK /\ ViewTypeOK /\ ImageTypeOK /\ ShareTypeOK
      /\ DraftTypeOK /\ FileTypeOK /\ PageTypeOK
      => ServicesTypeOK
  BY DEF ServicesTypeOK
<1> QED BY <1>1, <1>2, PTL

\* Every safety property that the run checks, for every value of the constants: all of
\* its properties but LeaseJobComesRound and RefusalsEnd, which take fairness.
THEOREM ServicesStaySafe ==
    FairServices =>
        /\ []( /\ LockedRunsAlone /\ AdmissionsBounded /\ StaysLoggedIn
               /\ PasswordOfCode /\ MailedCodeWorks /\ CodeResetsOnce /\ LastCodeWorks
               /\ ReadsSeeSaves /\ OldBlocksShown /\ ShownImageExists /\ ReplacedImageGone
               /\ OwnerToldTruth /\ DraftsOpen /\ CleanFilesSave /\ CleanFlowRuns
               /\ NothingHidden )
        /\ DeadTokensStayDead /\ OpenedStays /\ ExportRestores
BY ServicesImplementEach, LockedRunsAreAlone, AdmissionsStayBounded, BrowserStaysLoggedIn,
   RevokedTokensStayDead, CodeKeepsPassword, OpenedAccountsStay,
   MailedCodeKept, CodesResetOnce, LastCodeKept, ReadsSeeTheirSaves, OldBlocksStayShown,
   ShownImagesExist, ReplacedImagesGo, OwnersAreToldTruth, DraftsStayOpen,
   CleanFilesAreSaved, CleanFlowsLeadOn, ExportsRestore, PagesHideNothing, PTL
=============================================================================
