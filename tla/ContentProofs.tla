--------------------------- MODULE ContentProofs ----------------------------
(***************************************************************************)
(* Theorems about what clients are shown of a scenario, for any number of  *)
(* requests, rows, codes, saves and failures: the blocks a read answers,   *)
(* its images, its share code, drafts under a code, the lists it is in,    *)
(* and the file it is checked and saved as.                                *)
(***************************************************************************)
EXTENDS ContentView, DraftShares, ShareLinks, FeatureImages, ListPages, ScenarioFile,
        SequenceLemmas, FiniteSetTheorems, TLAPS

-----------------------------------------------------------------------------
(* What a reader sees: the inductive invariant.                            *)

Place == {"idle", "row", "cache", "firestore", "fill", "shown"}
ReaderState == [pc : Place, got : Content, floor : 0..MaxSaves, failed : BOOLEAN]
Job == [content : Content, pc : {"commit", "invalidate"}]

\* Blocks, or a save: what an answer is made of.
Answer(c) == c.save > 0 \/ c.blocks

\* Only the older version's row sends a read past MySQL, and then no save came before it.
FloorsKept ==
    \A r \in Reader :
        /\ reader[r].floor <= column.save
        /\ reader[r].pc \in {"cache", "firestore", "fill"} => reader[r].floor = 0

\* The document and its cache hold the older version's blocks, or a save.
CopiesFull ==
    /\ Answer(document) /\ Answer(cached)
    /\ \A job \in unsynced : job.content.save > 0
    /\ \A r \in Reader : reader[r].pc = "fill" => Answer(reader[r].got)

ViewInv == ViewTypeOK /\ FloorsKept /\ CopiesFull /\ ReadsSeeSaves /\ OldBlocksShown

LEMMA ViewFacts ==
  /\ MaxSaves \in Nat /\ MaxViewFaults \in Nat
  /\ OldBlocks \in Content /\ Nothing \in Content /\ OldBlocks.blocks /\ Nothing.save = 0
  /\ NoKey.save = MaxSaves + 1
  /\ \A c \in Content : c.save \in 0..MaxSaves /\ c.blocks \in BOOLEAN
  /\ NotReading \in ReaderState /\ NotReading.pc = "idle" /\ NotReading.floor = 0
BY ViewAssumption DEF OldBlocks, Nothing, NoKey, Content, NotReading, ReaderState, Place

LEMMA InitView == ViewInit => ViewInv
<1> SUFFICES ASSUME ViewInit PROVE ViewInv
  OBVIOUS
<1>1. /\ column = Nothing /\ document = OldBlocks /\ cached = NoKey /\ unsynced = {}
      /\ reader = [r \in Reader |-> NotReading] /\ viewFaults = 0
  BY DEF ViewInit
<1>2. ViewTypeOK
  <2>1. viewFaults \in 0..MaxViewFaults
    BY <1>1, ViewFacts
  <2>2. reader \in [Reader -> ReaderState]
    BY <1>1, ViewFacts
  <2> QED BY <1>1, <2>1, <2>2, ViewFacts DEF ViewTypeOK, ReaderState, Place
<1>3. FloorsKept /\ ReadsSeeSaves /\ OldBlocksShown
  BY <1>1, ViewFacts DEF FloorsKept, ReadsSeeSaves, OldBlocksShown
<1>4. CopiesFull
  BY <1>1, ViewFacts DEF CopiesFull, Answer
<1> QED BY <1>2, <1>3, <1>4 DEF ViewInv

\* A read goes on; the rows and copies stay.
LEMMA ReaderMoves ==
  ASSUME ViewInv, NEW r \in Reader, NEW s \in ReaderState,
         reader' = [reader EXCEPT ![r] = s],
         UNCHANGED <<column, document, unsynced>>, cached' \in Content \cup {NoKey},
         Answer(cached'), viewFaults' \in 0..MaxViewFaults,
         s.floor <= column.save,
         s.pc \in {"cache", "firestore", "fill"} => s.floor = 0,
         s.pc = "fill" => Answer(s.got),
         s.pc = "shown" => s.got.save >= s.floor /\ (~s.failed => Answer(s.got))
  PROVE  ViewInv'
<1>1. reader \in [Reader -> ReaderState]
  BY DEF ViewInv, ViewTypeOK, ReaderState, Place
<1>2. /\ reader' \in [Reader -> ReaderState] /\ reader'[r] = s
      /\ \A p \in Reader : p # r => reader'[p] = reader[p]
  BY <1>1
<1>3. ViewTypeOK'
  BY <1>2 DEF ViewInv, ViewTypeOK, ReaderState, Place
<1>4. FloorsKept' /\ CopiesFull' /\ ReadsSeeSaves' /\ OldBlocksShown'
  BY <1>2 DEF ViewInv, FloorsKept, CopiesFull, ReadsSeeSaves, OldBlocksShown, Answer
<1> QED BY <1>3, <1>4 DEF ViewInv

LEMMA ReaderIs ==
  ASSUME ViewInv, NEW r \in Reader
  PROVE  /\ reader[r] \in ReaderState /\ reader[r].got \in Content
         /\ reader[r].floor \in 0..MaxSaves /\ reader[r].floor <= column.save
         /\ column \in Content /\ column.save \in 0..MaxSaves
<1>1. reader[r] \in ReaderState /\ column \in Content /\ reader[r].floor <= column.save
  BY DEF ViewInv, ViewTypeOK, FloorsKept, ReaderState, Place
<1>2. reader[r].got \in Content /\ reader[r].floor \in 0..MaxSaves
  BY <1>1 DEF ReaderState
<1>3. column.save \in 0..MaxSaves
  BY <1>1, ViewFacts
<1> QED BY <1>1, <1>2, <1>3

LEMMA ReadStep ==
  ASSUME ViewInv, NEW r \in Reader,
         StartRead(r) \/ ReadRow(r) \/ CacheGet(r) \/ CacheGetFails(r)
  PROVE  ViewInv'
<1>0. /\ reader \in [Reader -> ReaderState] /\ cached \in Content \cup {NoKey} /\ Answer(cached)
      /\ viewFaults \in 0..MaxViewFaults
  BY DEF ViewInv, ViewTypeOK, CopiesFull, ReaderState, Place
<1>1. CASE StartRead(r)
  <2> DEFINE s == [NotReading EXCEPT !.pc = "row", !.floor = column.save]
  <2>1. s \in ReaderState /\ s.pc = "row" /\ s.floor = column.save
    BY ReaderIs, ViewFacts DEF NotReading, ReaderState, Place
  <2>2. /\ reader' = [reader EXCEPT ![r] = s]
        /\ UNCHANGED <<column, document, cached, unsynced, viewFaults>>
    BY <1>1 DEF StartRead
  <2> HIDE DEF s
  <2>3. column.save \in 0..MaxSaves
    BY ReaderIs
  <2>4. s.floor <= column.save
    BY <2>1, <2>3, ViewFacts
  <2>5. /\ cached' \in Content \cup {NoKey} /\ Answer(cached')
        /\ viewFaults' \in 0..MaxViewFaults
    BY <1>0, <2>2
  <2> QED BY <2>1, <2>2, <2>4, <2>5, ReaderMoves
<1>2. CASE ReadRow(r)
  <2> DEFINE pc == IF HasStoredMysqlContent(column) THEN "shown" ELSE "cache"
             s == [reader[r] EXCEPT !.pc = pc, !.got = column]
  <2>1. pc \in Place
    BY DEF Place
  <2>2. /\ reader' = [reader EXCEPT ![r] = s]
        /\ UNCHANGED <<column, document, cached, unsynced, viewFaults>>
    BY <1>0, <1>2 DEF ReadRow, Holds
  <2>3. column.save \in 0..MaxSaves /\ reader[r].floor \in 0..MaxSaves
        /\ reader[r].floor <= column.save
    BY ReaderIs
  <2>4. /\ pc = "shown" => column.save > 0
        /\ pc = "cache" => reader[r].floor = 0
    BY <2>3, ViewFacts DEF HasStoredMysqlContent
  <2>5. pc \in {"shown", "cache"}
    OBVIOUS
  <2> HIDE DEF pc
  <2>6. s \in ReaderState /\ s.pc = pc /\ s.got = column /\ s.floor = reader[r].floor
    <3>1. reader[r] \in ReaderState /\ column \in Content
      BY ReaderIs
    <3> QED BY <2>1, <3>1 DEF ReaderState
  <2> HIDE DEF s
  <2> QED BY <1>0, <2>2, <2>3, <2>4, <2>5, <2>6, ReaderMoves DEF Answer
<1>3. CASE CacheGet(r) \/ CacheGetFails(r)
  <2>1. /\ reader[r].pc = "cache" /\ UNCHANGED <<column, document, cached, unsynced>>
        /\ \/ Holds(r, "firestore", Nothing)
           \/ cached # NoKey /\ Holds(r, "shown", cached)
    BY <1>3 DEF CacheGet, CacheGetFails
  <2>2. viewFaults' \in 0..MaxViewFaults
    BY <1>0, <1>3, ViewFacts DEF CacheGet, CacheGetFails, ViewFault
  <2>3. reader[r].floor = 0 /\ 0 <= column.save
    BY <2>1, ReaderIs, ViewFacts DEF ViewInv, FloorsKept
  <2>4. CASE Holds(r, "firestore", Nothing)
    <3> DEFINE s == [reader[r] EXCEPT !.pc = "firestore", !.got = Nothing]
    <3>1. reader' = [reader EXCEPT ![r] = s]
      BY <1>0, <2>4 DEF Holds
    <3>2. s \in ReaderState /\ s.pc = "firestore" /\ s.floor = 0
      <4>1. reader[r] \in ReaderState /\ Nothing \in Content
        BY ReaderIs, ViewFacts
      <4> QED BY <2>3, <4>1 DEF ReaderState, Place
    <3> HIDE DEF s
    <3> QED BY <1>0, <2>1, <2>2, <2>3, <3>1, <3>2, ReaderMoves
  <2>5. CASE cached # NoKey /\ Holds(r, "shown", cached)
    <3> DEFINE s == [reader[r] EXCEPT !.pc = "shown", !.got = cached]
    <3>1. reader' = [reader EXCEPT ![r] = s]
      BY <1>0, <2>5 DEF Holds
    <3>2. cached \in Content /\ cached.save >= 0
      BY <1>0, <2>5, ViewFacts
    <3>3. s \in ReaderState /\ s.pc = "shown" /\ s.floor = 0 /\ s.got = cached
      <4>1. reader[r] \in ReaderState
        BY ReaderIs
      <4> QED BY <2>3, <3>2, <4>1 DEF ReaderState, Place
    <3> HIDE DEF s
    <3> QED BY <1>0, <2>1, <2>2, <2>3, <3>1, <3>2, <3>3, ReaderMoves
  <2> QED BY <2>1, <2>4, <2>5
<1> QED BY <1>1, <1>2, <1>3

LEMMA FetchStep ==
  ASSUME ViewInv, NEW r \in Reader,
         FirestoreGet(r) \/ FirestoreGetFails(r) \/ CacheSet(r) \/ CacheSetFails(r)
  PROVE  ViewInv'
<1>0. /\ reader \in [Reader -> ReaderState] /\ cached \in Content \cup {NoKey} /\ Answer(cached)
      /\ viewFaults \in 0..MaxViewFaults /\ document \in Content /\ Answer(document)
      /\ reader[r] \in ReaderState
  BY DEF ViewInv, ViewTypeOK, CopiesFull, ReaderState, Place
<1>a. /\ viewFaults' \in 0..MaxViewFaults /\ UNCHANGED <<column, document, unsynced>>
      /\ reader[r].pc \in {"firestore", "fill"}
  BY <1>0, ViewFacts DEF FirestoreGet, FirestoreGetFails, CacheSet, CacheSetFails, ViewFault
<1>b. reader[r].floor = 0 /\ 0 <= column.save
  BY <1>a, ReaderIs, ViewFacts DEF ViewInv, FloorsKept
<1>1. CASE FirestoreGet(r)
  <2> DEFINE s == [reader[r] EXCEPT !.pc = "fill", !.got = document]
  <2>1. reader' = [reader EXCEPT ![r] = s] /\ cached' = cached
    BY <1>0, <1>1 DEF FirestoreGet, Holds
  <2>2. s \in ReaderState /\ s.pc = "fill" /\ s.floor = 0 /\ s.got = document
    BY <1>0, <1>b DEF ReaderState, Place
  <2> HIDE DEF s
  <2> QED BY <1>0, <1>a, <1>b, <2>1, <2>2, ReaderMoves
<1>2. CASE FirestoreGetFails(r)
  <2> DEFINE s == [reader[r] EXCEPT !.pc = "shown", !.got = Nothing, !.failed = TRUE]
  <2>1. reader' = [reader EXCEPT ![r] = s] /\ cached' = cached
    BY <1>0, <1>2 DEF FirestoreGetFails
  <2>2. s \in ReaderState /\ s.pc = "shown" /\ s.floor = 0 /\ s.got = Nothing /\ s.failed = TRUE
    BY <1>0, <1>b, ViewFacts DEF ReaderState, Place
  <2>3. s.got.save >= s.floor
    BY <2>2, ViewFacts
  <2> HIDE DEF s
  <2> QED BY <1>0, <1>a, <1>b, <2>1, <2>2, <2>3, ReaderMoves
<1>3. CASE CacheSet(r) \/ CacheSetFails(r)
  <2> DEFINE s == [reader[r] EXCEPT !.pc = "shown", !.got = reader[r].got]
  <2>1. /\ reader' = [reader EXCEPT ![r] = s] /\ cached' \in {cached, reader[r].got}
        /\ reader[r].pc = "fill"
    BY <1>0, <1>3 DEF CacheSet, CacheSetFails, Holds
  <2>2. reader[r].got \in Content /\ Answer(reader[r].got)
    BY <2>1, ReaderIs DEF ViewInv, CopiesFull
  <2>3. s \in ReaderState /\ s.pc = "shown" /\ s.floor = 0 /\ s.got = reader[r].got
    BY <1>0, <1>b DEF ReaderState, Place
  <2>4. s.got.save >= s.floor
    BY <2>2, <2>3, ViewFacts
  <2> HIDE DEF s
  <2>5. cached' \in Content \cup {NoKey} /\ Answer(cached')
    BY <1>0, <2>1, <2>2
  <2> QED BY <1>0, <1>a, <1>b, <2>1, <2>2, <2>3, <2>4, <2>5, ReaderMoves
<1> QED BY <1>1, <1>2, <1>3

LEMMA SaveStep ==
  ASSUME ViewInv, NEW r \in Reader, SaveShown(r)
  PROVE  ViewInv'
<1>1. PICK blocks \in BOOLEAN :
         /\ column.save < MaxSaves
         /\ column' = [save |-> column.save + 1, blocks |-> blocks]
         /\ unsynced' = unsynced \cup
               {[content |-> [save |-> column.save + 1, blocks |-> blocks], pc |-> "commit"]}
         /\ reader' = [reader EXCEPT ![r] = NotReading]
         /\ UNCHANGED <<document, cached, viewFaults>>
  BY DEF SaveShown
<1> DEFINE new == [save |-> column.save + 1, blocks |-> blocks]
           job == [content |-> new, pc |-> "commit"]
<1>2. column.save \in 0..MaxSaves
  BY ReaderIs
<1>3. new \in Content /\ new.save = column.save + 1
  BY <1>1, <1>2, ViewFacts DEF Content
<1>4. column' = new /\ unsynced' = unsynced \cup {job}
  BY <1>1
<1> HIDE DEF new
<1>5. job \in Job /\ job.content = new
  BY <1>3 DEF Job
<1> HIDE DEF job
<1>6. reader \in [Reader -> ReaderState] /\ unsynced \subseteq Job
  BY DEF ViewInv, ViewTypeOK, ReaderState, Place, Job
<1>7. /\ reader' \in [Reader -> ReaderState] /\ reader'[r] = NotReading
      /\ \A p \in Reader : p # r => reader'[p] = reader[p]
  BY <1>1, <1>6, ViewFacts
<1>8. ViewTypeOK'
  <2>1. unsynced' \subseteq Job
    BY <1>4, <1>5, <1>6
  <2> QED BY <1>1, <1>3, <1>4, <1>7, <2>1
          DEF ViewInv, ViewTypeOK, ReaderState, Place, Job
<1>9. FloorsKept'
  <2>1. \A p \in Reader : reader[p].floor <= column'.save
    BY <1>2, <1>3, <1>4, ReaderIs, ViewFacts
  <2> QED BY <1>2, <1>3, <1>4, <1>7, <2>1, ViewFacts DEF ViewInv, FloorsKept
<1>10. CopiesFull'
  <2>1. new.save > 0
    BY <1>2, <1>3, ViewFacts
  <2> QED BY <1>1, <1>4, <1>5, <1>7, <2>1, ViewFacts DEF ViewInv, CopiesFull, Answer
<1>11. ReadsSeeSaves' /\ OldBlocksShown'
  BY <1>7, ViewFacts DEF ViewInv, ReadsSeeSaves, OldBlocksShown
<1> QED BY <1>8, <1>9, <1>10, <1>11 DEF ViewInv

\* The worker brings a save into the document, and drops the cache.
LEMMA WorkerStep ==
  ASSUME ViewInv,
         \/ CacheExpires
         \/ \E job \in unsynced :
                  CommitDocument(job) \/ InvalidateCache(job) \/ InvalidateFails(job)
  PROVE  ViewInv'
<1>0. /\ unsynced \subseteq Job /\ document \in Content /\ cached \in Content \cup {NoKey}
      /\ viewFaults \in 0..MaxViewFaults /\ Answer(document) /\ Answer(cached)
      /\ \A job \in unsynced : job.content.save > 0
  BY DEF ViewInv, ViewTypeOK, CopiesFull, Job
<1>1. UNCHANGED <<column, reader>> /\ cached' \in {cached, NoKey}
  BY DEF CacheExpires, CommitDocument, InvalidateCache, InvalidateFails
<1>2. Answer(NoKey)
  BY ViewFacts DEF Answer
<1>3. viewFaults' \in 0..MaxViewFaults
  BY <1>0, ViewFacts DEF CacheExpires, CommitDocument, InvalidateCache, InvalidateFails, ViewFault
<1>4. /\ document' \in Content /\ Answer(document') /\ unsynced' \subseteq Job
      /\ \A job \in unsynced' : job.content.save > 0
  <2>1. ASSUME NEW job \in unsynced, CommitDocument(job)
        PROVE  /\ document' \in Content /\ Answer(document') /\ unsynced' \subseteq Job
               /\ \A k \in unsynced' : k.content.save > 0
    <3> DEFINE done == [job EXCEPT !.pc = "invalidate"]
    <3>1. done \in Job /\ done.content = job.content /\ job.content \in Content
      BY <1>0 DEF Job
    <3>2. document' = job.content /\ unsynced' = (unsynced \ {job}) \cup {done}
      BY <2>1 DEF CommitDocument
    <3> HIDE DEF done
    <3> QED BY <1>0, <3>1, <3>2 DEF Answer
  <2>2. CASE /\ document' = document /\ unsynced' \subseteq unsynced
    BY <1>0, <2>2
  <2> QED BY <2>1, <2>2 DEF CacheExpires, InvalidateCache, InvalidateFails
<1>5. ViewTypeOK'
  BY <1>0, <1>1, <1>3, <1>4 DEF ViewInv, ViewTypeOK, Job
<1>6. FloorsKept' /\ CopiesFull' /\ ReadsSeeSaves' /\ OldBlocksShown'
  BY <1>0, <1>1, <1>2, <1>4
     DEF ViewInv, FloorsKept, CopiesFull, ReadsSeeSaves, OldBlocksShown
<1> QED BY <1>5, <1>6 DEF ViewInv

LEMMA ViewStep ==
  ASSUME ViewInv, [ViewNext]_viewVars
  PROVE  ViewInv'
<1>1. CASE UNCHANGED viewVars
  BY <1>1 DEF viewVars, ViewInv, ViewTypeOK, FloorsKept, CopiesFull, ReadsSeeSaves, OldBlocksShown
<1>2. CASE ViewNext
  BY <1>2, ReadStep, FetchStep, SaveStep, WorkerStep DEF ViewNext
<1> QED BY <1>1, <1>2

\* Every state of the read path is of its type.
THEOREM ViewTypeCorrect == ViewSpec => []ViewTypeOK
<1>1. ViewInv => ViewTypeOK
  BY DEF ViewInv
<1> QED BY <1>1, InitView, ViewStep, PTL DEF ViewSpec

\* A read answers no older blocks than those saved when it began, however late the
\* worker is and whatever the cache holds (scenarioContentMapper.js:4-7, 17-20).
THEOREM ReadsSeeTheirSaves == ViewSpec => []ReadsSeeSaves
<1>1. ViewInv => ReadsSeeSaves
  BY DEF ViewInv
<1> QED BY <1>1, InitView, ViewStep, PTL DEF ViewSpec

\* Blocks of the older version are shown until they are saved, except to the read that
\* Firestore failed (scenarioFirestoreService.js:137-144).
THEOREM OldBlocksStayShown == ViewSpec => []OldBlocksShown
<1>1. ViewInv => OldBlocksShown
  BY DEF ViewInv
<1> QED BY <1>1, InitView, ViewStep, PTL DEF ViewSpec

-----------------------------------------------------------------------------
(* Drafts under a code.                                                    *)

DraftRow == [draft : 0..MaxDrafts, expired : BOOLEAN]

\* Whoever is about to delete a row by its code deletes none whose days are not over,
\* unless the code was drawn again.
OpeningSound ==
    \A o \in opening :
        LET row == draftRows[o[2]]
        IN  row = NoDraft \/ row.expired \/ row.draft \in drawnAgain

DraftInv == DraftTypeOK /\ OpeningSound /\ DraftsOpen

LEMMA InitDraft == DraftInit => DraftInv
<1> SUFFICES ASSUME DraftInit PROVE DraftInv
  OBVIOUS
<1>1. NoDraft \in DraftRow /\ 0 \in 0..MaxDrafts
  BY DraftAssumption DEF NoDraft, DraftRow
<1>2. DraftTypeOK
  BY <1>1 DEF DraftInit, DraftTypeOK, DraftRow
<1> QED BY <1>2 DEF DraftInv, DraftInit, OpeningSound, DraftsOpen

LEMMA DraftStep ==
  ASSUME DraftInv, [DraftNext]_draftVars
  PROVE  DraftInv'
<1>0. /\ draftRows \in [DraftCode -> DraftRow] /\ drafts \in 0..MaxDrafts /\ MaxDrafts \in Nat
      /\ opening \subseteq DraftReader \X DraftCode /\ promised \subseteq Draft
      /\ drawnAgain \subseteq Draft /\ NoDraft \in DraftRow
      /\ NoDraft.draft = 0 /\ NoDraft.expired = FALSE
  BY DraftAssumption DEF DraftInv, DraftTypeOK, DraftRow, NoDraft
<1>1. ASSUME NEW c \in DraftCode, CreateDraft(c)
      PROVE  DraftInv'
  <2> DEFINE d == drafts + 1
             row == [draft |-> d, expired |-> FALSE]
  <2>1. /\ draftRows[c] = NoDraft /\ d \in Draft /\ drafts' = d /\ opening' = opening
        /\ draftRows' = [draftRows EXCEPT ![c] = row] /\ promised' = promised \cup {d}
        /\ drawnAgain' = IF \E o \in opening : o[2] = c THEN drawnAgain \cup {d} ELSE drawnAgain
    BY <1>0, <1>1 DEF CreateDraft, Draft
  <2>2. row \in DraftRow /\ row.draft = d /\ row.expired = FALSE
    BY <1>0, <2>1 DEF DraftRow, Draft
  <2> HIDE DEF d, row
  <2>3. /\ draftRows' \in [DraftCode -> DraftRow] /\ draftRows'[c] = row
        /\ \A b \in DraftCode : b # c => draftRows'[b] = draftRows[b]
    BY <1>0, <2>1, <2>2
  <2>4. DraftTypeOK'
    BY <1>0, <2>1, <2>3 DEF DraftTypeOK, DraftRow, Draft
  <2>5. OpeningSound'
    <3> SUFFICES ASSUME NEW o \in opening
                 PROVE  LET new == draftRows'[o[2]]
                        IN  new = NoDraft \/ new.expired \/ new.draft \in drawnAgain'
      BY <2>1 DEF OpeningSound
    <3>1. o[2] \in DraftCode
      BY <1>0
    <3>2. CASE o[2] = c
      BY <2>1, <2>2, <2>3, <3>2
    <3>3. CASE o[2] # c
      BY <2>1, <2>3, <3>1, <3>3 DEF DraftInv, OpeningSound
    <3> QED BY <3>2, <3>3
  <2>6. DraftsOpen'
    <3> SUFFICES ASSUME NEW e \in promised' \ drawnAgain'
                 PROVE  \E b \in DraftCode : draftRows'[b] = [draft |-> e, expired |-> FALSE]
      BY DEF DraftsOpen
    <3>1. CASE e = d
      BY <2>3, <3>1 DEF row
    <3>2. CASE e # d
      <4>1. e \in promised \ drawnAgain /\ e \in Draft
        BY <1>0, <2>1, <3>2
      <4>2. PICK b \in DraftCode : draftRows[b] = [draft |-> e, expired |-> FALSE]
        BY <4>1 DEF DraftInv, DraftsOpen
      <4>3. b # c
        BY <1>0, <2>1, <4>1, <4>2 DEF Draft
      <4> QED BY <2>3, <4>2, <4>3
    <3> QED BY <3>1, <3>2
  <2> QED BY <2>4, <2>5, <2>6 DEF DraftInv
<1>2. ASSUME NEW c \in DraftCode, ExpireDraft(c)
      PROVE  DraftInv'
  <2> DEFINE row == [draftRows[c] EXCEPT !.expired = TRUE]
  <2>1. /\ draftRows' = [draftRows EXCEPT ![c].expired = TRUE]
        /\ promised' = promised \ {draftRows[c].draft}
        /\ UNCHANGED <<drafts, opening, drawnAgain>>
    BY <1>2 DEF ExpireDraft
  <2>2. row \in DraftRow /\ row.expired = TRUE
    BY <1>0 DEF DraftRow
  <2>3. draftRows' = [draftRows EXCEPT ![c] = row]
    BY <2>1
  <2> HIDE DEF row
  <2>4. /\ draftRows' \in [DraftCode -> DraftRow] /\ draftRows'[c] = row
        /\ \A b \in DraftCode : b # c => draftRows'[b] = draftRows[b]
    BY <1>0, <2>2, <2>3
  <2>5. DraftTypeOK'
    BY <1>0, <2>1, <2>4 DEF DraftTypeOK, DraftRow
  <2>6. OpeningSound'
    BY <1>0, <2>1, <2>2, <2>4 DEF DraftInv, OpeningSound
  <2>7. DraftsOpen'
    <3> SUFFICES ASSUME NEW e \in promised' \ drawnAgain'
                 PROVE  \E b \in DraftCode : draftRows'[b] = [draft |-> e, expired |-> FALSE]
      BY DEF DraftsOpen
    <3>1. e \in promised \ drawnAgain /\ e # draftRows[c].draft
      BY <2>1
    <3>2. PICK b \in DraftCode : draftRows[b] = [draft |-> e, expired |-> FALSE]
      BY <3>1 DEF DraftInv, DraftsOpen
    <3> QED BY <2>4, <3>1, <3>2
  <2> QED BY <2>5, <2>6, <2>7 DEF DraftInv
<1>3. ASSUME NEW r \in DraftReader, NEW c \in DraftCode, FindDraft(r, c)
      PROVE  DraftInv'
  <2>1. /\ draftRows[c].expired /\ opening' = opening \cup {<<r, c>>}
        /\ UNCHANGED <<draftRows, drafts, promised, drawnAgain>>
    BY <1>3 DEF FindDraft
  <2>2. DraftTypeOK'
    BY <1>0, <2>1 DEF DraftInv, DraftTypeOK
  <2>3. OpeningSound' /\ DraftsOpen'
    BY <2>1 DEF DraftInv, OpeningSound, DraftsOpen
  <2> QED BY <2>2, <2>3 DEF DraftInv
<1>4. ASSUME NEW r \in DraftReader, NEW c \in DraftCode, DestroyDraft(r, c)
      PROVE  DraftInv'
  <2>1. /\ <<r, c>> \in opening /\ draftRows' = [draftRows EXCEPT ![c] = NoDraft]
        /\ opening' \subseteq opening
        /\ UNCHANGED <<drafts, promised, drawnAgain>>
    BY <1>4 DEF DestroyDraft
  <2>2. /\ draftRows' \in [DraftCode -> DraftRow] /\ draftRows'[c] = NoDraft
        /\ \A b \in DraftCode : b # c => draftRows'[b] = draftRows[b]
    BY <1>0, <2>1
  <2>3. DraftTypeOK'
    BY <1>0, <2>1, <2>2 DEF DraftInv, DraftTypeOK, DraftRow
  <2>4. OpeningSound'
    BY <1>0, <2>1, <2>2 DEF DraftInv, OpeningSound
  <2>5. DraftsOpen'
    <3> SUFFICES ASSUME NEW e \in promised \ drawnAgain
                 PROVE  \E b \in DraftCode : draftRows'[b] = [draft |-> e, expired |-> FALSE]
      BY <2>1 DEF DraftsOpen
    <3>1. PICK b \in DraftCode : draftRows[b] = [draft |-> e, expired |-> FALSE]
      BY DEF DraftInv, DraftsOpen
    <3>2. draftRows[c] = NoDraft \/ draftRows[c].expired \/ draftRows[c].draft \in drawnAgain
      BY <2>1 DEF DraftInv, OpeningSound
    <3>3. e # 0
      BY <1>0 DEF Draft
    <3>4. b # c
      BY <1>0, <3>1, <3>2, <3>3
    <3> QED BY <2>2, <3>1, <3>4
  <2> QED BY <2>3, <2>4, <2>5 DEF DraftInv
<1>5. ASSUME NEW r \in DraftReader, NEW c \in DraftCode, DestroyDraftFails(r, c)
      PROVE  DraftInv'
  BY <1>5 DEF DestroyDraftFails, DraftInv, DraftTypeOK, OpeningSound, DraftsOpen
<1>6. CASE CleanupExpiredDrafts
  <2>1. /\ draftRows' = [c \in DraftCode |-> IF draftRows[c].expired THEN NoDraft ELSE draftRows[c]]
        /\ UNCHANGED <<drafts, opening, promised, drawnAgain>>
    BY <1>6 DEF CleanupExpiredDrafts
  <2>2. DraftTypeOK'
    BY <1>0, <2>1 DEF DraftInv, DraftTypeOK, DraftRow
  <2>3. OpeningSound'
    BY <1>0, <2>1 DEF DraftInv, OpeningSound
  <2>4. DraftsOpen'
    BY <2>1 DEF DraftInv, DraftsOpen
  <2> QED BY <2>2, <2>3, <2>4 DEF DraftInv
<1>7. CASE UNCHANGED draftVars
  BY <1>7 DEF draftVars, DraftInv, DraftTypeOK, OpeningSound, DraftsOpen
<1> QED BY <1>1, <1>2, <1>3, <1>4, <1>5, <1>6, <1>7 DEF DraftNext

\* A draft whose code was answered opens until its days are over: neither the readers
\* that delete expired rows nor the clean-up take another row with them
\* (scenarioDraftShareService.js:58-70), but for a code drawn again meanwhile.
THEOREM DraftsStayOpen == DraftSpec => [](DraftTypeOK /\ DraftsOpen)
<1>1. DraftInv => DraftTypeOK /\ DraftsOpen
  BY DEF DraftInv
<1> QED BY <1>1, InitDraft, DraftStep, PTL DEF DraftSpec

-----------------------------------------------------------------------------
(* Share codes.                                                            *)

RowState == {Deleted} \cup [shared : BOOLEAN, code : ShareCode \cup {NoCode}]
ToggleState == {NotToggling} \cup [of : Sharer, was : BOOLEAN, left : 1..ShareTries]

\* The unique index.
CodesUnique ==
    \A r, s \in Sharer : shareRow[r].code \in ShareCode /\ shareRow[r].code = shareRow[s].code
                            => r = s

\* Where nothing overlapped one toggle at most is under way, and its row is there.
TogglesSound ==
    \A s \in Sharer :
        /\ Toggling(s) # {} => told[s] = Unknown
        /\ s \notin contended =>
              \A t \in Toggling(s) : shareRow[s] # Deleted /\ \A u \in Toggling(s) : u = t

\* What the owner was told is what the row says.
ToldSound ==
    \A s \in Sharer :
        /\ told[s] = Stopped => shareRow[s].code \notin ShareCode \/ ~shareRow[s].shared
        /\ \A c \in ShareCode : told[s] = Told(c) => shareRow[s].shared /\ shareRow[s].code = c

ShareInv == ShareTypeOK /\ CodesUnique /\ TogglesSound /\ ToldSound

LEMMA ShareFacts ==
  /\ NoCode \notin ShareCode /\ "deleted" \notin ShareCode /\ NoCode \notin Sharer
  /\ ShareTries \in Nat \ {0} /\ MaxShareFaults \in Nat
  /\ Deleted.shared = FALSE /\ Deleted.code = "deleted" /\ Deleted \in RowState
  /\ Private.shared = FALSE /\ Private.code = NoCode /\ Private \in RowState
  /\ Unknown # Stopped /\ \A c \in ShareCode : Unknown # Told(c) /\ Stopped # Told(c)
  /\ \A c, d \in ShareCode : Told(c) = Told(d) => c = d
  /\ \A c \in ShareCode \cup {NoCode} :
        Told(c) \in [known : BOOLEAN, code : ShareCode \cup {NoCode}]
  /\ Unknown \in [known : BOOLEAN, code : ShareCode \cup {NoCode}]
  /\ NotToggling.of = NoCode /\ NotToggling \in ToggleState
<1>1. /\ Unknown.known = FALSE /\ \A c : Told(c).known = TRUE /\ Told(c).code = c
  BY DEF Unknown, Told
<1>2. /\ \A c \in ShareCode \cup {NoCode} :
            Told(c) \in [known : BOOLEAN, code : ShareCode \cup {NoCode}]
      /\ Unknown \in [known : BOOLEAN, code : ShareCode \cup {NoCode}]
  BY DEF Unknown, Told
<1>3. Unknown # Stopped /\ \A c \in ShareCode : Unknown # Told(c) /\ Stopped # Told(c)
  BY <1>1, ShareAssumption DEF Stopped
<1>4. \A c, d \in ShareCode : Told(c) = Told(d) => c = d
  BY <1>1
<1>5. /\ Deleted.shared = FALSE /\ Deleted.code = "deleted" /\ Deleted \in RowState
      /\ Private.shared = FALSE /\ Private.code = NoCode /\ Private \in RowState
      /\ NotToggling.of = NoCode /\ NotToggling \in ToggleState
  BY DEF Deleted, Private, RowState, NotToggling, ToggleState
<1> QED BY <1>2, <1>3, <1>4, <1>5, ShareAssumption

LEMMA InitShare == ShareInit => ShareInv
<1> SUFFICES ASSUME ShareInit PROVE ShareInv
  OBVIOUS
<1>1. /\ shareRow = [s \in Sharer |-> Private] /\ toggle = [t \in Toggle |-> NotToggling]
      /\ told = [s \in Sharer |-> Unknown] /\ contended = {} /\ shareFaults = 0
  BY DEF ShareInit
<1>2. ShareTypeOK
  <2>1. /\ shareRow \in [Sharer -> RowState] /\ toggle \in [Toggle -> ToggleState]
        /\ told \in [Sharer -> [known : BOOLEAN, code : ShareCode \cup {NoCode}]]
        /\ shareFaults \in 0..MaxShareFaults
    BY <1>1, ShareFacts
  <2> QED BY <1>1, <2>1 DEF ShareTypeOK, RowState, ToggleState
<1>3. CodesUnique /\ ToldSound
  BY <1>1, ShareFacts DEF CodesUnique, ToldSound
<1>4. TogglesSound
  BY <1>1, ShareFacts DEF TogglesSound, Toggling
<1> QED BY <1>2, <1>3, <1>4 DEF ShareInv

LEMMA RowIs ==
  ASSUME ShareInv, NEW s \in Sharer
  PROVE  /\ shareRow[s] \in RowState /\ shareRow[s].shared \in BOOLEAN
         /\ shareRow[s].code \in ShareCode \cup {NoCode, "deleted"}
         /\ shareRow[s] # Deleted =>
               shareRow[s] \in [shared : BOOLEAN, code : ShareCode \cup {NoCode}]
         /\ shareRow \in [Sharer -> RowState] /\ toggle \in [Toggle -> ToggleState]
<1>1. shareRow \in [Sharer -> RowState] /\ toggle \in [Toggle -> ToggleState]
  BY DEF ShareInv, ShareTypeOK, RowState, ToggleState
<1> QED BY <1>1, ShareFacts DEF RowState

\* The row's code is no other row's; what is answered of it is true, if it is there.
CodeIsFree(row, s) ==
    row.code \in ShareCode => \A r \in Sharer \ {s} : shareRow[r].code # row.code
AnswerFits(answer, row, s) ==
    /\ answer = Stopped => ~row.shared
    /\ \A c \in ShareCode :
          answer = Told(c) /\ shareRow[s] # Deleted => row.shared /\ row.code = c

\* A toggle ends: the row it has written is what its owner is told of.
LEMMA TellStep ==
  ASSUME ShareInv, NEW t \in Toggle, toggle[t] # NotToggling, NEW s \in Sharer,
         s = toggle[t].of, NEW answer \in [known : BOOLEAN, code : ShareCode \cup {NoCode}],
         Tell(t, answer), NEW row \in RowState, shareRow' = [shareRow EXCEPT ![s] = row],
         CodeIsFree(row, s), AnswerFits(answer, row, s),
         shareFaults' \in 0..MaxShareFaults
  PROVE  ShareInv'
<1>1. /\ shareRow \in [Sharer -> RowState] /\ toggle \in [Toggle -> ToggleState]
      /\ told \in [Sharer -> [known : BOOLEAN, code : ShareCode \cup {NoCode}]]
      /\ contended \subseteq Sharer
  BY RowIs DEF ShareInv, ShareTypeOK
<1>2. /\ toggle' = [toggle EXCEPT ![t] = NotToggling]
      /\ told' = IF s \in contended THEN told ELSE [told EXCEPT ![s] = answer]
      /\ contended' = IF Toggling(s) = {t} THEN contended \ {s} ELSE contended
  BY DEF Tell
<1>3. /\ shareRow' \in [Sharer -> RowState] /\ shareRow'[s] = row
      /\ \A r \in Sharer : r # s => shareRow'[r] = shareRow[r] /\ told'[r] = told[r]
  BY <1>1, <1>2
<1>4. told[s] = Unknown /\ t \in Toggling(s)
  BY DEF ShareInv, TogglesSound, Toggling
<1>5. ShareTypeOK'
  <2>1. told' \in [Sharer -> [known : BOOLEAN, code : ShareCode \cup {NoCode}]]
    BY <1>1, <1>2
  <2>2. toggle' \in [Toggle -> ToggleState]
    BY <1>1, <1>2, ShareFacts
  <2> QED BY <1>1, <1>2, <1>3, <2>1, <2>2 DEF ShareTypeOK, RowState, ToggleState
<1>6. CodesUnique'
  BY <1>3 DEF ShareInv, CodesUnique, CodeIsFree
<1>7. TogglesSound'
  <2> SUFFICES ASSUME NEW r \in Sharer
               PROVE  /\ Toggling(r)' # {} => told'[r] = Unknown
                      /\ r \notin contended' =>
                            \A p \in Toggling(r)' :
                               shareRow'[r] # Deleted /\ \A u \in Toggling(r)' : u = p
    BY DEF TogglesSound
  <2>1. \A p \in Toggle : p # t => toggle'[p] = toggle[p]
    BY <1>1, <1>2
  <2>2. toggle'[t] = NotToggling
    BY <1>1, <1>2
  <2>3. Toggling(r)' = Toggling(r) \ {t}
    BY <2>1, <2>2, ShareFacts DEF Toggling
  <2>4. CASE r # s
    BY <1>2, <1>3, <2>3, <2>4 DEF ShareInv, TogglesSound
  <2>5. CASE r = s /\ s \in contended
    <3>1. told'[s] = Unknown
      BY <1>2, <1>4, <2>5
    <3>2. s \notin contended' => Toggling(s)' = {}
      BY <1>2, <2>3, <2>5
    <3> QED BY <2>5, <3>1, <3>2
  <2>6. CASE r = s /\ s \notin contended
    <3>1. Toggling(s)' = {}
      BY <1>4, <2>3, <2>6 DEF ShareInv, TogglesSound
    <3> QED BY <2>6, <3>1
  <2> QED BY <2>4, <2>5, <2>6
<1>8. ToldSound'
  <2> SUFFICES ASSUME NEW r \in Sharer
               PROVE  /\ told'[r] = Stopped =>
                            shareRow'[r].code \notin ShareCode \/ ~shareRow'[r].shared
                      /\ \A c \in ShareCode : told'[r] = Told(c) =>
                            shareRow'[r].shared /\ shareRow'[r].code = c
    BY DEF ToldSound
  <2>1. CASE r # s
    BY <1>3, <2>1 DEF ShareInv, ToldSound
  <2>2. CASE r = s /\ s \in contended
    BY <1>2, <1>4, <2>2, ShareFacts
  <2>3. CASE r = s /\ s \notin contended
    <3>1. told'[s] = answer
      BY <1>1, <1>2, <2>3
    <3>2. shareRow[s] # Deleted
      BY <1>4, <2>3 DEF ShareInv, TogglesSound
    <3> QED BY <1>3, <2>3, <3>1, <3>2, ShareFacts DEF AnswerFits
  <2> QED BY <2>1, <2>2, <2>3
<1> QED BY <1>5, <1>6, <1>7, <1>8 DEF ShareInv

LEMMA SaveCode ==
  ASSUME ShareInv, NEW t \in Toggle, SaveShared(t) \/ SavePrivate(t) \/ ToggleFails(t)
  PROVE  ShareInv'
<1> DEFINE s == toggle[t].of
<1>1. /\ toggle[t] # NotToggling /\ s \in Sharer /\ shareRow \in [Sharer -> RowState]
      /\ toggle \in [Toggle -> ToggleState]
  <2>1. toggle[t] # NotToggling /\ toggle[t] \in ToggleState
    BY RowIs DEF SaveShared, SavePrivate, ToggleFails, ShareInv, ShareTypeOK, ToggleState
  <2>2. s \in Sharer
    BY <2>1 DEF ToggleState
  <2> QED BY <2>1, <2>2, RowIs
<1>2. shareFaults' \in 0..MaxShareFaults
  BY ShareFacts DEF SaveShared, SavePrivate, ToggleFails, ShareInv, ShareTypeOK
<1>s. s = toggle[t].of
  OBVIOUS
<1> HIDE DEF s
<1>3. \A c \in ShareCode \ Taken(s), r \in Sharer \ {s} : shareRow[r].code # c
  BY DEF Taken
<1>4. ASSUME NEW c \in ShareCode \ Taken(s), NEW answer \in {Unknown, Told(c)},
             Tell(t, answer), NEW new, new = [shared |-> TRUE, code |-> c],
             shareRow' = [shareRow EXCEPT ![s] = IF @ = Deleted THEN @ ELSE new]
      PROVE  ShareInv'
  <2> DEFINE row == IF shareRow[s] = Deleted THEN shareRow[s] ELSE new
  <2>1. new \in RowState /\ new.shared /\ new.code = c
    BY <1>4 DEF RowState
  <2>2. shareRow' = [shareRow EXCEPT ![s] = row]
    BY <1>1, <1>4
  <2>3. row \in RowState /\ (row.code \in ShareCode => row = new)
        /\ (shareRow[s] # Deleted => row.shared /\ row.code = c)
    BY <1>1, <2>1, ShareFacts
  <2> HIDE DEF row
  <2>4. answer \in [known : BOOLEAN, code : ShareCode \cup {NoCode}]
    BY ShareFacts
  <2>5. CodeIsFree(row, s)
    BY <1>3, <2>1, <2>3 DEF CodeIsFree
  <2>6. AnswerFits(answer, row, s)
    BY <2>3, ShareFacts DEF AnswerFits
  <2>7. row \in RowState /\ Tell(t, answer) /\ toggle[t] # NotToggling
    BY <1>1, <1>4, <2>3
  <2> QED BY <1>1, <1>2, <1>s, <2>2, <2>4, <2>5, <2>6, <2>7, TellStep
<1>5. ASSUME NEW answer \in {Unknown, Stopped}, Tell(t, answer), NEW row \in RowState,
             shareRow' = [shareRow EXCEPT ![s] = row], row.code = shareRow[s].code,
             answer = Stopped => ~row.shared
      PROVE  ShareInv'
  <2>1. CodeIsFree(row, s)
    BY <1>1, <1>5 DEF ShareInv, CodesUnique, CodeIsFree
  <2>2. AnswerFits(answer, row, s)
    BY <1>5, ShareFacts DEF AnswerFits
  <2>3. answer \in [known : BOOLEAN, code : ShareCode \cup {NoCode}]
    BY ShareFacts DEF Stopped
  <2> QED BY <1>1, <1>2, <1>5, <1>s, <2>1, <2>2, <2>3, TellStep
<1>6. ASSUME shareRow[s] # Deleted
      PROVE  LET row == [shareRow[s] EXCEPT !.shared = FALSE]
             IN  row \in RowState /\ row.code = shareRow[s].code /\ ~row.shared
  <2>1. shareRow[s] \in [shared : BOOLEAN, code : ShareCode \cup {NoCode}]
    BY <1>1, <1>6, RowIs
  <2> QED BY <2>1 DEF RowState
<1>7. CASE SaveShared(t)
  <2>1. PICK c \in ShareCode \ Taken(s) :
           /\ Tell(t, Told(c))
           /\ shareRow' = [shareRow EXCEPT ![s] =
                              IF @ = Deleted THEN @ ELSE [shared |-> TRUE, code |-> c]]
    BY <1>7 DEF SaveShared, s
  <2> QED BY <1>4, <2>1
<1>8. CASE SavePrivate(t)
  <2> DEFINE row == IF shareRow[s] = Deleted THEN shareRow[s]
                    ELSE [shareRow[s] EXCEPT !.shared = FALSE]
  <2>1. Tell(t, Stopped) /\ shareRow' = [shareRow EXCEPT ![s] = row]
    BY <1>1, <1>8 DEF SavePrivate, s
  <2>2. row \in RowState /\ row.code = shareRow[s].code /\ ~row.shared
    BY <1>1, <1>6, ShareFacts
  <2> HIDE DEF row
  <2> QED BY <1>5, <2>1, <2>2
<1>9. CASE ToggleFails(t)
  <2>1. Tell(t, Unknown)
    BY <1>9 DEF ToggleFails
  <2>2. Unknown # Stopped
    BY ShareFacts
  <2>3. CASE shareRow' = shareRow
    <3>1. shareRow' = [shareRow EXCEPT ![s] = shareRow[s]] /\ shareRow[s] \in RowState
      BY <1>1, <2>3
    <3> QED BY <1>5, <2>1, <2>2, <3>1
  <2>4. CASE shareRow[s] # Deleted /\ shareRow' = [shareRow EXCEPT ![s].shared = FALSE]
    <3> DEFINE row == [shareRow[s] EXCEPT !.shared = FALSE]
    <3>1. row \in RowState /\ row.code = shareRow[s].code /\ ~row.shared
      BY <1>6, <2>4
    <3>2. shareRow' = [shareRow EXCEPT ![s] = row]
      BY <2>4
    <3> HIDE DEF row
    <3> QED BY <1>5, <2>1, <2>2, <3>1, <3>2
  <2>5. ASSUME shareRow[s] # Deleted, NEW c \in ShareCode \ Taken(s),
               shareRow' = [shareRow EXCEPT ![s] = [shared |-> TRUE, code |-> c]]
        PROVE  ShareInv'
    <3>1. shareRow' = [shareRow EXCEPT ![s] =
                         IF @ = Deleted THEN @ ELSE [shared |-> TRUE, code |-> c]]
      BY <1>1, <2>5
    <3> QED BY <1>4, <2>1, <3>1
  <2> QED BY <1>9, <2>3, <2>4, <2>5 DEF ToggleFails, s
<1> QED BY <1>7, <1>8, <1>9

\* The toggle's code is taken: it draws again, or gives up.
LEMMA CollideStep ==
  ASSUME ShareInv, NEW t \in Toggle, SaveCollides(t)
  PROVE  ShareInv'
<1> DEFINE s == toggle[t].of
<1>1. /\ toggle[t] # NotToggling /\ shareRow \in [Sharer -> RowState]
      /\ toggle \in [Toggle -> ToggleState] /\ UNCHANGED <<shareRow, shareFaults>>
      /\ toggle[t] \in [of : Sharer, was : BOOLEAN, left : 1..ShareTries] /\ s \in Sharer
  <2>1. /\ toggle[t] # NotToggling /\ shareRow \in [Sharer -> RowState]
        /\ toggle \in [Toggle -> ToggleState] /\ UNCHANGED <<shareRow, shareFaults>>
    BY RowIs DEF SaveCollides, ShareInv, ShareTypeOK, RowState, ToggleState
  <2> QED BY <2>1 DEF ToggleState
<1>2. CASE Tell(t, Unknown)
  <2>1. shareRow' = [shareRow EXCEPT ![s] = shareRow[s]] /\ shareRow[s] \in RowState
        /\ shareFaults' \in 0..MaxShareFaults
    BY <1>1 DEF ShareInv, ShareTypeOK
  <2>2. AnswerFits(Unknown, shareRow[s], s)
    BY ShareFacts DEF AnswerFits
  <2>3. CodeIsFree(shareRow[s], s)
    BY <1>1 DEF ShareInv, CodesUnique, CodeIsFree
  <2>4. Unknown \in [known : BOOLEAN, code : ShareCode \cup {NoCode}] /\ s = toggle[t].of
    BY ShareFacts
  <2> HIDE DEF s
  <2> QED BY <1>1, <1>2, <2>1, <2>2, <2>3, <2>4, TellStep
<1>3. CASE /\ toggle[t].left > 1 /\ toggle' = [toggle EXCEPT ![t].left = @ - 1]
           /\ UNCHANGED <<told, contended>>
  <2> DEFINE new == [toggle[t] EXCEPT !.left = @ - 1]
  <2>1. new \in ToggleState /\ new.of = s
    BY <1>1, <1>3, ShareFacts DEF ToggleState
  <2>2. toggle' = [toggle EXCEPT ![t] = new]
    BY <1>3
  <2> HIDE DEF new
  <2>3. toggle' \in [Toggle -> ToggleState] /\ \A p \in Toggle : toggle'[p].of = toggle[p].of
    BY <1>1, <2>1, <2>2
  <2>4. ShareTypeOK'
    BY <1>1, <1>3, <2>3 DEF ShareInv, ShareTypeOK, RowState, ToggleState
  <2>5. \A r : Toggling(r)' = Toggling(r)
    BY <2>3 DEF Toggling
  <2>6. CodesUnique' /\ TogglesSound' /\ ToldSound'
    BY <1>1, <1>3, <2>5 DEF ShareInv, CodesUnique, TogglesSound, ToldSound
  <2> QED BY <2>4, <2>6 DEF ShareInv
<1> QED BY <1>2, <1>3 DEF SaveCollides

\* Somebody touches the scenario: a new toggle, its deletion, an administrator.
LEMMA TouchStep ==
  ASSUME ShareInv, NEW s \in Sharer, ShareTypeOK',
         NEW row \in RowState, shareRow' = [shareRow EXCEPT ![s] = row],
         row.code \in {shareRow[s].code, "deleted"},
         NEW answer, told' = [told EXCEPT ![s] = answer],
         answer = Unknown \/ (/\ toggle' = toggle /\ answer = told[s] /\ answer # Stopped
                              /\ (shareRow[s].shared => row.shared) /\ row.code = shareRow[s].code),
         contended' = IF Toggling(s) = {} THEN contended ELSE contended \cup {s},
         \/ toggle' = toggle
         \/ /\ row # Deleted
            /\ \E t \in Toggle : /\ toggle[t] = NotToggling /\ toggle'[t].of = s
                                 /\ \A p \in Toggle \ {t} : toggle'[p] = toggle[p]
  PROVE  ShareInv'
<1>1. /\ shareRow \in [Sharer -> RowState]
      /\ told \in [Sharer -> [known : BOOLEAN, code : ShareCode \cup {NoCode}]]
  BY RowIs DEF ShareInv, ShareTypeOK
<1>2. /\ shareRow'[s] = row /\ told'[s] = answer
      /\ \A r \in Sharer : r # s => shareRow'[r] = shareRow[r] /\ told'[r] = told[r]
  BY <1>1
<1>3. CodesUnique'
  BY <1>2, ShareFacts DEF ShareInv, CodesUnique
<1>4. ToldSound'
  BY <1>2, ShareFacts DEF ShareInv, ToldSound
<1>5. \A r \in Sharer : r # s => Toggling(r)' = Toggling(r)
  BY ShareFacts DEF Toggling
<1>6. \/ Toggling(s)' = Toggling(s) /\ toggle' = toggle
      \/ row # Deleted /\ \E t \in Toggle : Toggling(s)' = Toggling(s) \cup {t}
  <2>1. ASSUME NEW t \in Toggle, toggle'[t].of = s, \A p \in Toggle \ {t} : toggle'[p] = toggle[p]
        PROVE  Toggling(s)' = Toggling(s) \cup {t}
    BY <2>1 DEF Toggling
  <2>2. CASE toggle' = toggle
    BY <2>2 DEF Toggling
  <2> QED BY <2>1, <2>2
<1>7. ASSUME NEW r \in Sharer
      PROVE  /\ Toggling(r)' # {} => told'[r] = Unknown
             /\ r \notin contended' =>
                   \A p \in Toggling(r)' :
                      shareRow'[r] # Deleted /\ \A u \in Toggling(r)' : u = p
  <2>1. CASE r # s
    BY <1>2, <1>5, <2>1 DEF ShareInv, TogglesSound
  <2>2. CASE r = s
    <3>a. Toggling(s) # {} => told[s] = Unknown
      BY DEF ShareInv, TogglesSound
    <3>b. answer = Unknown \/ (toggle' = toggle /\ answer = told[s])
      OBVIOUS
    <3>c. toggle' = toggle => Toggling(s)' = Toggling(s)
      BY DEF Toggling
    <3>1. Toggling(s)' # {} => told'[s] = Unknown
      BY <1>2, <3>a, <3>b, <3>c
    <3>2. s \notin contended' => Toggling(s) = {}
      OBVIOUS
    <3> QED BY <1>2, <1>6, <2>2, <3>1, <3>2
  <2> QED BY <2>1, <2>2
<1> QED BY <1>3, <1>4, <1>7 DEF ShareInv, TogglesSound

LEMMA FindToggledStep ==
  ASSUME ShareInv, NEW t \in Toggle, NEW s \in Sharer, FindToggled(t, s)
  PROVE  ShareInv'
<1> DEFINE new == [of |-> s, was |-> shareRow[s].shared, left |-> ShareTries]
<1>1. /\ toggle[t] = NotToggling /\ shareRow[s] # Deleted
      /\ toggle' = [toggle EXCEPT ![t] = new] /\ told' = [told EXCEPT ![s] = Unknown]
      /\ contended' = IF Toggling(s) = {} THEN contended ELSE contended \cup {s}
      /\ UNCHANGED <<shareRow, shareFaults>>
  BY DEF FindToggled
<1>2. new \in ToggleState /\ new.of = s
  BY RowIs, ShareFacts DEF ToggleState
<1> HIDE DEF new
<1>3. /\ shareRow \in [Sharer -> RowState] /\ toggle \in [Toggle -> ToggleState]
      /\ shareRow' = [shareRow EXCEPT ![s] = shareRow[s]] /\ shareRow[s] \in RowState
  BY <1>1, RowIs
<1>4. /\ toggle' \in [Toggle -> ToggleState] /\ toggle'[t].of = s
      /\ \A p \in Toggle \ {t} : toggle'[p] = toggle[p]
  BY <1>1, <1>2, <1>3
<1>5. ShareTypeOK'
  <2>1. told' \in [Sharer -> [known : BOOLEAN, code : ShareCode \cup {NoCode}]]
    BY <1>1, ShareFacts DEF ShareInv, ShareTypeOK
  <2> QED BY <1>1, <1>4, <2>1 DEF ShareInv, ShareTypeOK, ToggleState
<1> QED BY <1>1, <1>3, <1>4, <1>5, TouchStep

LEMMA OthersTouch ==
  ASSUME ShareInv, NEW s \in Sharer, DeleteShared(s) \/ ApproveShared(s)
  PROVE  ShareInv'
<1>0. /\ shareRow \in [Sharer -> RowState] /\ UNCHANGED <<toggle, shareFaults>>
      /\ contended' = IF Toggling(s) = {} THEN contended ELSE contended \cup {s}
      /\ told \in [Sharer -> [known : BOOLEAN, code : ShareCode \cup {NoCode}]]
      /\ shareRow[s] # Deleted
  BY RowIs DEF DeleteShared, ApproveShared, ShareInv, ShareTypeOK
<1>a. ASSUME NEW row \in RowState, shareRow' = [shareRow EXCEPT ![s] = row],
             NEW answer \in {Unknown, told[s]}, told' = [told EXCEPT ![s] = answer]
      PROVE  ShareTypeOK'
  <2>1. answer \in [known : BOOLEAN, code : ShareCode \cup {NoCode}]
    BY <1>0, ShareFacts
  <2>2. shareRow' \in [Sharer -> RowState]
        /\ told' \in [Sharer -> [known : BOOLEAN, code : ShareCode \cup {NoCode}]]
    BY <1>0, <1>a, <2>1
  <2> QED BY <1>0, <2>2 DEF ShareInv, ShareTypeOK, RowState
<1>1. CASE DeleteShared(s)
  <2>1. shareRow' = [shareRow EXCEPT ![s] = Deleted] /\ told' = [told EXCEPT ![s] = Unknown]
    BY <1>1 DEF DeleteShared
  <2>2. Deleted \in RowState /\ Deleted.code = "deleted"
    BY ShareFacts
  <2>3. ShareTypeOK'
    BY <1>a, <2>1, <2>2
  <2> QED BY <1>0, <2>1, <2>2, <2>3, TouchStep
<1>2. CASE ApproveShared(s)
  <2> DEFINE row == [shareRow[s] EXCEPT !.shared = TRUE]
             answer == IF told[s] = Stopped THEN Unknown ELSE told[s]
  <2>1. shareRow' = [shareRow EXCEPT ![s] = row] /\ told' = [told EXCEPT ![s] = answer]
    BY <1>0, <1>2 DEF ApproveShared
  <2>2. row \in RowState /\ row.code = shareRow[s].code /\ row.shared
    <3>1. shareRow[s] \in [shared : BOOLEAN, code : ShareCode \cup {NoCode}]
      BY <1>0, RowIs
    <3> QED BY <3>1 DEF RowState
  <2>3. answer = Unknown \/ (answer = told[s] /\ answer # Stopped)
    OBVIOUS
  <2> HIDE DEF row, answer
  <2>4. ShareTypeOK'
    BY <1>a, <2>1, <2>2, <2>3
  <2> QED BY <1>0, <2>1, <2>2, <2>3, <2>4, TouchStep
<1> QED BY <1>1, <1>2

LEMMA ShareStep ==
  ASSUME ShareInv, [ShareNext]_shareVars
  PROVE  ShareInv'
<1>1. CASE UNCHANGED shareVars
  BY <1>1 DEF shareVars, ShareInv, ShareTypeOK, CodesUnique, TogglesSound, ToldSound, Toggling
<1>2. CASE ShareNext
  BY <1>2, SaveCode, CollideStep, FindToggledStep, OthersTouch DEF ShareNext
<1> QED BY <1>1, <1>2

LEMMA ToldIsTrue ==
  ASSUME ShareInv
  PROVE  OwnerToldTruth
<1>1. ASSUME NEW s \in Sharer, told[s] = Stopped, NEW c \in ShareCode
      PROVE  s \notin Opens(c)
  BY <1>1 DEF ShareInv, ToldSound, Opens
<1>2. ASSUME NEW s \in Sharer, NEW c \in ShareCode, told[s] = Told(c)
      PROVE  Opens(c) = {s}
  BY <1>2 DEF ShareInv, ToldSound, CodesUnique, Opens
<1> QED BY <1>1, <1>2 DEF OwnerToldTruth

\* The owner is told the truth: the code answered opens this scenario and no other, and
\* after "stopped" no code opens it, until it is toggled again, approved by an
\* administrator or deleted (scenarioSharing.js:35-58). Overlapping toggles are excepted.
THEOREM OwnersAreToldTruth == ShareSpec => [](ShareTypeOK /\ OwnerToldTruth)
<1>1. ShareInv => ShareTypeOK /\ OwnerToldTruth
  BY ToldIsTrue DEF ShareInv
<1> QED BY <1>1, InitShare, ShareStep, PTL DEF ShareSpec

-----------------------------------------------------------------------------
(* Feature images.                                                         *)

\* A URL that a row holds, or that a request has read from one, is in the history; one
\* that a request writes names images that were uploaded.
ImagesKnown ==
    /\ \A s \in Scenario : featureImage[s] \in Url => featureImage[s] \in used
    /\ \A e \in Editor :
          /\ editor[e].old \in Url => editor[e].old \in used
          /\ editor[e].new \in Url => editor[e].new \in Sendable
          /\ editor[e].pc = "commit" => featureImage[editor[e].of] # NoRow

\* What no row has had to do with is still stored, and two rows share only entangled
\* images.
FreshStored == uploaded \ UsedImages \subseteq objects

ShownOnce ==
    \A r, s \in Scenario :
        r # s => Touched(featureImage[r]) \cap Touched(featureImage[s]) \subseteq entangled

\* A request about to write has read the row's URL; or the row was deleted, or others
\* came in between, and its images are entangled.
Current(r) ==
    \/ featureImage[r.of] = r.old
    \/ featureImage[r.of] = Gone /\ Touched(r.old) \subseteq entangled
    \/ Touched(r.old) \cup Touched(r.new) \cup Touched(featureImage[r.of]) \subseteq entangled

ReadsCurrent == \A e \in Editor : editor[e].pc = "commit" => Current(editor[e])

\* What a request is about to delete no row shows or names.
Unshown(u) == \A s \in Scenario : Touched(u) \cap Touched(featureImage[s]) \subseteq entangled

UnlinksUnshown ==
    \A e \in Editor : editor[e].pc = "unlink" => editor[e].old \in Url /\ Unshown(editor[e].old)

ImageInv ==
    /\ ImageTypeOK /\ ImagesKnown /\ FreshStored /\ ShownOnce /\ ReadsCurrent /\ UnlinksUnshown
    /\ ShownImageExists /\ ReplacedImageGone

CommitState == [pc : {"commit"}, of : Scenario,
                old : Url \cup {NoImage}, new : Url \cup {NoImage, Gone}]
EditorState == {Resting} \cup {Unlinking(u) : u \in Url} \cup CommitState
ImageRow == Url \cup {NoImage, NoRow, Gone}

LEMMA ImageFacts ==
  /\ NoImage \notin Url /\ NoRow \notin Url /\ Gone \notin Url /\ NoImage \notin Image
  /\ NoRow # NoImage /\ NoRow # Gone /\ NoImage # Gone
  /\ MaxImageEdits \in Nat /\ MaxImageFaults \in Nat
  /\ Resting \in EditorState
  /\ Resting.pc = "idle" /\ Resting.of = NoRow /\ Resting.old = NoImage /\ Resting.new = NoImage
BY ImageAssumption DEF Resting, EditorState

\* The objects of a row are images, among them the one it shows and the one it names.
LEMMA TouchedImages ==
  /\ \A u : Touched(u) \subseteq Image /\ (u \notin Url => Touched(u) = {})
  /\ \A u \in Url : /\ Shows[u] = NoImage \/ Shows[u] \in Touched(u)
                    /\ Names[u] = NoImage \/ Names[u] \in Touched(u)
BY ImageAssumption DEF Touched

LEMMA ImageTypes ==
  ASSUME ImageTypeOK
  PROVE  /\ objects \subseteq uploaded /\ uploaded \subseteq Image
         /\ featureImage \in [Scenario -> ImageRow] /\ editor \in [Editor -> EditorState]
         /\ used \subseteq Sendable /\ entangled \subseteq uploaded
         /\ imageEdits \in 0..MaxImageEdits /\ imageFaults \in 0..MaxImageFaults
BY DEF ImageTypeOK, ImageRow, EditorState, CommitState

LEMMA ImageTypesNext ==
  ASSUME objects' \subseteq uploaded', uploaded' \subseteq Image,
         featureImage' \in [Scenario -> ImageRow], editor' \in [Editor -> EditorState],
         used' \subseteq Sendable', entangled' \subseteq uploaded',
         imageEdits' \in 0..MaxImageEdits, imageFaults' \in 0..MaxImageFaults
  PROVE  ImageTypeOK'
BY DEF ImageTypeOK, ImageRow, EditorState, CommitState

\* The objects of URLs that rows have held, or that a client may send, were uploaded.
LEMMA SentUploaded ==
  /\ \A u \in Sendable : u \in Url /\ Touched(u) \subseteq uploaded
  /\ \A u \in Url : Touched(u) \subseteq uploaded => u \in Sendable
  /\ \A u \in used : Touched(u) \subseteq UsedImages
BY DEF Sendable, UsedImages

LEMMA UnlinkingIs ==
  ASSUME NEW u
  PROVE  /\ Unlinking(u).pc = "unlink" /\ Unlinking(u).old = u
         /\ Unlinking(u).of = NoRow /\ Unlinking(u).new = NoImage
BY DEF Unlinking, Resting

LEMMA EditorIs ==
  ASSUME ImageInv, NEW e \in Editor
  PROVE  /\ editor[e] \in EditorState
         /\ editor[e].pc \in {"idle", "unlink", "commit"}
         /\ editor[e].pc = "commit" => editor[e] \in CommitState /\ editor[e].of \in Scenario
         /\ editor[e].old \in Url \cup {NoImage}
         /\ editor[e].new \in Url \cup {NoImage, Gone}
<1>1. editor[e] \in EditorState
  BY ImageTypes DEF ImageInv
<1>2. CASE editor[e] = Resting
  BY <1>1, <1>2, ImageFacts
<1>3. CASE \E u \in Url : editor[e] = Unlinking(u)
  BY <1>1, <1>3, UnlinkingIs
<1>4. CASE editor[e] \in CommitState
  BY <1>1, <1>4 DEF CommitState
<1> QED BY <1>1, <1>2, <1>3, <1>4 DEF EditorState

LEMMA InitImages == ImageInit => ImageInv
<1> SUFFICES ASSUME ImageInit PROVE ImageInv
  OBVIOUS
<1>1. /\ objects = {} /\ uploaded = {} /\ used = {} /\ entangled = {}
      /\ imageEdits = 0 /\ imageFaults = 0
      /\ featureImage = [s \in Scenario |-> NoRow] /\ editor = [e \in Editor |-> Resting]
  BY DEF ImageInit
<1>2. ImageTypeOK
  <2>1. featureImage \in [Scenario -> ImageRow] /\ editor \in [Editor -> EditorState]
    BY <1>1, ImageFacts DEF ImageRow
  <2> QED BY <1>1, <2>1, ImageFacts DEF ImageTypeOK, ImageRow, EditorState, CommitState
<1>3. \A s \in Scenario : featureImage[s] = NoRow /\ Touched(featureImage[s]) = {}
  BY <1>1, ImageFacts, TouchedImages
<1>4. ImagesKnown /\ ShownOnce
  BY <1>1, <1>3, ImageFacts DEF ImagesKnown, ShownOnce
<1>5. ReadsCurrent /\ UnlinksUnshown
  BY <1>1, ImageFacts DEF ReadsCurrent, UnlinksUnshown
<1>6. FreshStored /\ ShownImageExists /\ ReplacedImageGone
  BY <1>1, <1>3, ImageFacts DEF FreshStored, ShownImageExists, ReplacedImageGone
<1> QED BY <1>2, <1>4, <1>5, <1>6 DEF ImageInv

LEMMA UploadStep ==
  ASSUME ImageInv, NEW i \in Image, Upload(i)
  PROVE  ImageInv'
<1>1. /\ i \notin uploaded /\ objects' = objects \cup {i} /\ uploaded' = uploaded \cup {i}
      /\ UNCHANGED <<featureImage, editor, used, entangled, imageEdits, imageFaults>>
  BY DEF Upload
<1>2. /\ objects \subseteq uploaded /\ uploaded \subseteq Image
      /\ featureImage \in [Scenario -> ImageRow] /\ editor \in [Editor -> EditorState]
      /\ used \subseteq Sendable /\ entangled \subseteq uploaded
      /\ imageEdits \in 0..MaxImageEdits /\ imageFaults \in 0..MaxImageFaults
  BY ImageTypes DEF ImageInv
<1>3. Sendable \subseteq Sendable' /\ UsedImages' = UsedImages
  BY <1>1 DEF Sendable, UsedImages, Touched
<1>4. ImageTypeOK'
  BY <1>1, <1>2, <1>3, ImageTypesNext
<1>5. ImagesKnown'
  BY <1>1, <1>3 DEF ImageInv, ImagesKnown
<1>6. FreshStored'
  BY <1>1, <1>3 DEF ImageInv, FreshStored
<1>7. ShownOnce' /\ ReadsCurrent' /\ UnlinksUnshown'
  BY <1>1 DEF ImageInv, ShownOnce, ReadsCurrent, UnlinksUnshown, Current, Unshown, Touched
<1>8. ShownImageExists'
  BY <1>1 DEF ImageInv, ShownImageExists
<1>9. ReplacedImageGone'
  <2> SUFFICES ASSUME imageFaults = 0, NEW u \in used, Names[u] \in objects' \ entangled
               PROVE  \/ \E s \in Scenario : featureImage[s] = u
                      \/ \E e \in Editor : editor[e].pc = "unlink" /\ editor[e].old = u
    BY <1>1 DEF ReplacedImageGone
  <2>1. u \in Url /\ Touched(u) \subseteq uploaded
    BY <1>2, SentUploaded
  <2>2. Names[u] # i
    BY <1>1, <2>1, TouchedImages, ImageFacts
  <2> QED BY <1>1, <2>2 DEF ImageInv, ReplacedImageGone
<1> QED BY <1>4, <1>5, <1>6, <1>7, <1>8, <1>9 DEF ImageInv

\* A URL that a row gets, and that is not the one it had: its images are new, or entangled.
\* The steps that write a row share what follows; `was` is what the row held.
LEMMA RowWritten ==
  ASSUME ImageInv, NEW s \in Scenario, NEW u \in Sendable \cup {NoImage, Gone},
         featureImage' = [featureImage EXCEPT ![s] = u],
         used' = used \cup ({u} \cap Url), entangled \subseteq entangled',
         UNCHANGED <<objects, uploaded>>,
         \/ Touched(u) \cap UsedImages \subseteq entangled'
         \/ u = featureImage[s]
         \/ Touched(u) \subseteq entangled'
  PROVE  /\ featureImage' \in [Scenario -> ImageRow] /\ featureImage'[s] = u
         /\ \A r \in Scenario : r # s => featureImage'[r] = featureImage[r]
         /\ used' \subseteq Sendable' /\ Sendable' = Sendable
         /\ \A r \in Scenario : featureImage'[r] \in Url => featureImage'[r] \in used'
         /\ FreshStored' /\ ShownOnce' /\ ShownImageExists'
         /\ \A v \in used : Unshown(v) =>
               \A r \in Scenario : Touched(v) \cap Touched(featureImage'[r]) \subseteq entangled'
<1>1. /\ objects \subseteq uploaded /\ uploaded \subseteq Image
      /\ featureImage \in [Scenario -> ImageRow] /\ used \subseteq Sendable
      /\ Sendable \subseteq Url
  BY ImageTypes, SentUploaded DEF ImageInv
<1>2. /\ featureImage' \in [Scenario -> ImageRow] /\ featureImage'[s] = u
      /\ \A r \in Scenario : r # s => featureImage'[r] = featureImage[r]
  BY <1>1 DEF ImageRow
<1>3. used' \subseteq Sendable /\ Sendable' = Sendable
  BY <1>1, ImageFacts DEF Sendable, Touched
<1>4. \A r \in Scenario : featureImage'[r] \in Url => featureImage'[r] \in used'
  BY <1>2 DEF ImageInv, ImagesKnown
<1>5. UsedImages \subseteq UsedImages'
  BY DEF UsedImages, Touched
<1>6. FreshStored'
  BY <1>5 DEF ImageInv, FreshStored
\* What the row gets, others have had to do with only if it is entangled.
<1>7. ASSUME NEW X, X \subseteq UsedImages,
             Touched(featureImage[s]) \cap X \subseteq entangled
      PROVE  Touched(u) \cap X \subseteq entangled'
  BY <1>7
<1>8. \A r \in Scenario : Touched(featureImage[r]) \subseteq UsedImages
  BY <1>1, SentUploaded, TouchedImages DEF ImageInv, ImagesKnown
<1>9. ASSUME NEW r \in Scenario, r # s
      PROVE  Touched(u) \cap Touched(featureImage[r]) \subseteq entangled'
  <2>1. Touched(featureImage[s]) \cap Touched(featureImage[r]) \subseteq entangled
    BY <1>9 DEF ImageInv, ShownOnce
  <2> QED BY <1>7, <1>8, <2>1
<1>10. ShownOnce'
  <2> SUFFICES ASSUME NEW q \in Scenario, NEW r \in Scenario, q # r
               PROVE  Touched(featureImage'[q]) \cap Touched(featureImage'[r]) \subseteq entangled'
    BY DEF ShownOnce, Touched
  <2>1. CASE q = s
    BY <1>2, <1>9, <2>1
  <2>2. CASE r = s
    BY <1>2, <1>9, <2>2
  <2>3. CASE q # s /\ r # s
    BY <1>2, <2>3 DEF ImageInv, ShownOnce
  <2> QED BY <2>1, <2>2, <2>3
<1>11. ShownImageExists'
  <2> SUFFICES ASSUME NEW r \in Scenario, featureImage'[r] \in Url
               PROVE  Shows[featureImage'[r]] \in objects \cup entangled' \cup {NoImage}
    BY DEF ShownImageExists
  <2>1. CASE r # s \/ u = featureImage[s]
    BY <1>2, <2>1 DEF ImageInv, ShownImageExists
  <2>2. CASE r = s /\ u # featureImage[s]
    <3>1. u \in Url /\ u \in Sendable
      BY <1>2, <2>2, ImageFacts
    <3>2. Touched(u) \subseteq uploaded /\ Touched(u) \cap UsedImages \subseteq entangled'
      BY <2>2, <3>1, SentUploaded
    <3>3. Touched(u) \subseteq objects \cup entangled'
      BY <3>2 DEF ImageInv, FreshStored
    <3> QED BY <1>2, <2>2, <3>1, <3>3, TouchedImages
  <2> QED BY <2>1, <2>2
<1>12. ASSUME NEW v \in used, Unshown(v), NEW r \in Scenario
       PROVE  Touched(v) \cap Touched(featureImage'[r]) \subseteq entangled'
  <2>1. CASE r = s
    <3>1. /\ Touched(v) \subseteq UsedImages
          /\ Touched(featureImage[s]) \cap Touched(v) \subseteq entangled
      BY <1>12, SentUploaded DEF Unshown
    <3>2. Touched(u) \cap Touched(v) \subseteq entangled'
      BY <1>7, <3>1
    <3> QED BY <1>2, <2>1, <3>2
  <2>2. CASE r # s
    BY <1>2, <1>12, <2>2 DEF Unshown
  <2> QED BY <2>1, <2>2
<1> QED BY <1>2, <1>3, <1>4, <1>6, <1>10, <1>11, <1>12

LEMMA CreateScenarioStep ==
  ASSUME ImageInv, NEW s \in Scenario, CreateScenario(s)
  PROVE  ImageInv'
<1>1. PICK u \in Sendable \cup {NoImage} :
         /\ featureImage' = [featureImage EXCEPT ![s] = u]
         /\ used' = used \cup ({u} \cap Url)
         /\ entangled' = entangled \cup (Touched(u) \cap UsedImages)
  BY DEF CreateScenario
<1>2. /\ objects \subseteq uploaded /\ uploaded \subseteq Image
      /\ featureImage \in [Scenario -> ImageRow] /\ editor \in [Editor -> EditorState]
      /\ used \subseteq Sendable /\ entangled \subseteq uploaded
      /\ imageEdits \in 0..MaxImageEdits /\ imageFaults \in 0..MaxImageFaults
  BY ImageTypes DEF ImageInv
<1>3. /\ featureImage[s] = NoRow
      /\ UNCHANGED <<objects, uploaded, editor, imageEdits, imageFaults>>
  BY DEF CreateScenario
<1>4. /\ featureImage' \in [Scenario -> ImageRow] /\ featureImage'[s] = u
      /\ \A r \in Scenario : r # s => featureImage'[r] = featureImage[r]
      /\ used' \subseteq Sendable' /\ Sendable' = Sendable
      /\ \A r \in Scenario : featureImage'[r] \in Url => featureImage'[r] \in used'
      /\ FreshStored' /\ ShownOnce' /\ ShownImageExists'
      /\ \A v \in used : Unshown(v) =>
            \A r \in Scenario : Touched(v) \cap Touched(featureImage'[r]) \subseteq entangled'
  BY <1>1, <1>3, RowWritten
<1>5. ImageTypeOK'
  <2>1. entangled' \subseteq uploaded
    BY <1>1, <1>2, SentUploaded, TouchedImages, ImageFacts
  <2> QED BY <1>2, <1>3, <1>4, <2>1, ImageTypesNext
<1>6. ImagesKnown'
  <2>1. ASSUME NEW e \in Editor
        PROVE  /\ editor[e].old \in Url => editor[e].old \in used'
               /\ editor[e].new \in Url => editor[e].new \in Sendable
               /\ editor[e].pc = "commit" => featureImage'[editor[e].of] # NoRow
    <3>1. u # NoRow
      BY <1>2, SentUploaded, ImageFacts
    <3> QED BY <1>1, <1>3, <1>4, <3>1, EditorIs DEF ImageInv, ImagesKnown
  <2> QED BY <1>3, <1>4, <2>1 DEF ImagesKnown
<1>7. ReadsCurrent'
  <2> SUFFICES ASSUME NEW e \in Editor, editor[e].pc = "commit"
               PROVE  Current(editor[e])'
    BY <1>3 DEF ReadsCurrent, Current, Touched
  <2>1. editor[e].of \in Scenario /\ editor[e].of # s
    BY <1>3, EditorIs DEF ImageInv, ImagesKnown
  <2>2. featureImage'[editor[e].of] = featureImage[editor[e].of]
    BY <1>4, <2>1
  <2>3. Current(editor[e])
    BY DEF ImageInv, ReadsCurrent
  <2> QED BY <1>1, <1>3, <2>2, <2>3 DEF Current, Touched
<1>8. UnlinksUnshown'
  <2> SUFFICES ASSUME NEW e \in Editor, editor[e].pc = "unlink"
               PROVE  /\ editor[e].old \in Url
                      /\ \A r \in Scenario : Touched(editor[e].old) \cap Touched(featureImage'[r])
                                               \subseteq entangled'
    BY <1>3 DEF UnlinksUnshown, Unshown, Touched
  <2>1. editor[e].old \in Url /\ editor[e].old \in used /\ Unshown(editor[e].old)
    BY DEF ImageInv, UnlinksUnshown, ImagesKnown
  <2> QED BY <1>4, <2>1
<1>9. ReplacedImageGone'
  <2> SUFFICES ASSUME imageFaults = 0, NEW v \in used', Names[v] \in objects \ entangled'
               PROVE  \/ \E r \in Scenario : featureImage'[r] = v
                      \/ \E e \in Editor : editor[e].pc = "unlink" /\ editor[e].old = v
    BY <1>3 DEF ReplacedImageGone
  <2>1. CASE v = u
    BY <1>4, <2>1
  <2>2. CASE v # u
    <3>1. v \in used /\ Names[v] \in objects \ entangled
      BY <1>1, <2>2
    <3>2. NoRow # v
      BY <1>2, <3>1, SentUploaded, ImageFacts
    <3> QED BY <1>3, <1>4, <3>1, <3>2 DEF ImageInv, ReplacedImageGone
  <2> QED BY <2>1, <2>2
<1> QED BY <1>4, <1>5, <1>6, <1>7, <1>8, <1>9 DEF ImageInv

\* The administrator deletes a row, whose image is entangled from then on.
LEMMA DeleteSharedConfigStep ==
  ASSUME ImageInv, NEW s \in Scenario, DeleteSharedConfig(s)
  PROVE  ImageInv'
<1>1. /\ featureImage' = [featureImage EXCEPT ![s] = Gone]
      /\ entangled' = entangled \cup Touched(featureImage[s])
      /\ UNCHANGED <<objects, uploaded, editor, used, imageEdits, imageFaults>>
  BY DEF DeleteSharedConfig
<1>2. /\ objects \subseteq uploaded /\ uploaded \subseteq Image
      /\ featureImage \in [Scenario -> ImageRow] /\ editor \in [Editor -> EditorState]
      /\ used \subseteq Sendable /\ entangled \subseteq uploaded
      /\ imageEdits \in 0..MaxImageEdits /\ imageFaults \in 0..MaxImageFaults
  BY ImageTypes DEF ImageInv
<1>3. used' = used \cup ({Gone} \cap Url) /\ Touched(Gone) = {}
  BY <1>1, ImageFacts, TouchedImages
<1>4. /\ featureImage' \in [Scenario -> ImageRow] /\ featureImage'[s] = Gone
      /\ \A r \in Scenario : r # s => featureImage'[r] = featureImage[r]
      /\ used' \subseteq Sendable' /\ Sendable' = Sendable
      /\ \A r \in Scenario : featureImage'[r] \in Url => featureImage'[r] \in used'
      /\ FreshStored' /\ ShownOnce' /\ ShownImageExists'
      /\ \A v \in used : Unshown(v) =>
            \A r \in Scenario : Touched(v) \cap Touched(featureImage'[r]) \subseteq entangled'
  BY <1>1, <1>3, RowWritten
<1>5. ImageTypeOK'
  <2>1. Touched(featureImage[s]) \subseteq uploaded
    BY <1>2, SentUploaded, TouchedImages DEF ImageInv, ImagesKnown
  <2> QED BY <1>1, <1>2, <1>4, <2>1, ImageTypesNext
<1>6. ImagesKnown'
  <2>1. ASSUME NEW e \in Editor, editor[e].pc = "commit"
        PROVE  featureImage'[editor[e].of] # NoRow
    BY <1>4, <2>1, EditorIs, ImageFacts DEF ImageInv, ImagesKnown
  <2> QED BY <1>1, <1>4, <2>1 DEF ImageInv, ImagesKnown
<1>7. ReadsCurrent'
  <2> SUFFICES ASSUME NEW e \in Editor, editor[e].pc = "commit"
               PROVE  Current(editor[e])'
    BY <1>1 DEF ReadsCurrent, Current, Touched
  <2>1. editor[e].of \in Scenario /\ Current(editor[e])
    BY EditorIs DEF ImageInv, ReadsCurrent
  <2>2. CASE editor[e].of # s
    BY <1>1, <1>4, <2>1, <2>2 DEF Current, Touched
  <2>3. CASE editor[e].of = s
    <3>1. Touched(editor[e].old) \subseteq entangled'
      BY <1>1, <2>1, <2>3 DEF Current
    <3> QED BY <1>1, <1>4, <2>3, <3>1 DEF Current, Touched
  <2> QED BY <2>2, <2>3
<1>8. UnlinksUnshown'
  <2> SUFFICES ASSUME NEW e \in Editor, editor[e].pc = "unlink"
               PROVE  /\ editor[e].old \in Url
                      /\ \A r \in Scenario : Touched(editor[e].old) \cap Touched(featureImage'[r])
                                               \subseteq entangled'
    BY <1>1 DEF UnlinksUnshown, Unshown, Touched
  <2>1. editor[e].old \in Url /\ editor[e].old \in used /\ Unshown(editor[e].old)
    BY DEF ImageInv, UnlinksUnshown, ImagesKnown
  <2> QED BY <1>4, <2>1
<1>9. ReplacedImageGone'
  <2> SUFFICES ASSUME imageFaults = 0, NEW v \in used, Names[v] \in objects \ entangled'
               PROVE  \/ \E r \in Scenario : featureImage'[r] = v
                      \/ \E e \in Editor : editor[e].pc = "unlink" /\ editor[e].old = v
    BY <1>1 DEF ReplacedImageGone
  <2>1. v \in Url /\ Names[v] # NoImage
    BY <1>2, SentUploaded, ImageFacts
  <2>2. v # featureImage[s]
    BY <1>1, <2>1, TouchedImages
  <2>3. \/ \E r \in Scenario : featureImage[r] = v
        \/ \E e \in Editor : editor[e].pc = "unlink" /\ editor[e].old = v
    BY <1>1 DEF ImageInv, ReplacedImageGone
  <2> QED BY <1>4, <2>2, <2>3
<1> QED BY <1>4, <1>5, <1>6, <1>7, <1>8, <1>9 DEF ImageInv

LEMMA EditStep ==
  ASSUME ImageInv, NEW e \in Editor, NEW s \in Scenario, Edit(e, s)
  PROVE  ImageInv'
<1>1. PICK u \in Sendable \cup {NoImage, Gone} :
         editor' = [editor EXCEPT ![e] = [pc |-> "commit", of |-> s,
                                          old |-> featureImage[s], new |-> u]]
  BY DEF Edit
<1>2. /\ objects \subseteq uploaded /\ uploaded \subseteq Image
      /\ featureImage \in [Scenario -> ImageRow] /\ editor \in [Editor -> EditorState]
      /\ used \subseteq Sendable /\ entangled \subseteq uploaded
      /\ imageEdits \in 0..MaxImageEdits /\ imageFaults \in 0..MaxImageFaults
  BY ImageTypes DEF ImageInv
<1> DEFINE new == [pc |-> "commit", of |-> s, old |-> featureImage[s], new |-> u]
<1>3. /\ editor[e] = Resting /\ featureImage[s] \in Url \cup {NoImage}
      /\ imageEdits' = imageEdits + 1 /\ imageEdits < MaxImageEdits
      /\ UNCHANGED <<objects, uploaded, featureImage, used, entangled, imageFaults>>
  BY <1>2 DEF Edit, Exists, ImageRow
<1>4. /\ new \in EditorState /\ new.pc = "commit" /\ new.of = s /\ new.old = featureImage[s]
      /\ new.new = u
  BY <1>2, <1>3, SentUploaded DEF EditorState, CommitState
<1> HIDE DEF new
<1>5. /\ editor' \in [Editor -> EditorState] /\ editor'[e] = new
      /\ \A f \in Editor : f # e => editor'[f] = editor[f]
  BY <1>1, <1>2, <1>4 DEF new
<1>6. imageEdits' \in 0..MaxImageEdits
  BY <1>2, <1>3, ImageFacts
<1>7. ImageTypeOK'
  <2>1. Sendable' = Sendable
    BY <1>3 DEF Sendable, Touched
  <2> QED BY <1>2, <1>3, <1>5, <1>6, <2>1, ImageTypesNext
<1>8. ImagesKnown'
  <2>1. Sendable' = Sendable
    BY <1>3 DEF Sendable, Touched
  <2> QED BY <1>2, <1>3, <1>4, <1>5, <2>1, ImageFacts DEF ImageInv, ImagesKnown
<1>9. FreshStored' /\ ShownOnce' /\ ShownImageExists'
  BY <1>3 DEF ImageInv, FreshStored, ShownOnce, ShownImageExists, UsedImages, Touched
<1>10. ReadsCurrent'
  BY <1>3, <1>4, <1>5 DEF ImageInv, ReadsCurrent, Current, Touched
<1>11. UnlinksUnshown'
  BY <1>3, <1>4, <1>5 DEF ImageInv, UnlinksUnshown, Unshown, Touched
<1>12. ReplacedImageGone'
  BY <1>3, <1>5, ImageFacts DEF ImageInv, ReplacedImageGone
<1> QED BY <1>7, <1>8, <1>9, <1>10, <1>11, <1>12 DEF ImageInv

\* A request that comes to rest.
LEMMA RestIs ==
  ASSUME ImageInv, NEW e \in Editor, Rest(e)
  PROVE  /\ editor' \in [Editor -> EditorState] /\ editor'[e] = Resting
         /\ \A f \in Editor : f # e => editor'[f] = editor[f]
BY ImageTypes, ImageFacts DEF ImageInv, Rest

LEMMA UnlinkStep ==
  ASSUME ImageInv, NEW e \in Editor, Unlink(e)
  PROVE  ImageInv'
<1> DEFINE old == editor[e].old
<1>1. /\ editor[e].pc = "unlink" /\ objects' = objects \ {Names[old]}
      /\ UNCHANGED <<uploaded, featureImage, used, entangled, imageEdits, imageFaults>>
  BY DEF Unlink
<1>2. /\ objects \subseteq uploaded /\ uploaded \subseteq Image
      /\ featureImage \in [Scenario -> ImageRow] /\ editor \in [Editor -> EditorState]
      /\ used \subseteq Sendable /\ entangled \subseteq uploaded
      /\ imageEdits \in 0..MaxImageEdits /\ imageFaults \in 0..MaxImageFaults
  BY ImageTypes DEF ImageInv
<1>3. /\ editor' \in [Editor -> EditorState] /\ editor'[e] = Resting
      /\ \A f \in Editor : f # e => editor'[f] = editor[f]
  BY RestIs DEF Unlink
<1>4. old \in Url /\ old \in used /\ Unshown(old)
  BY <1>1 DEF ImageInv, UnlinksUnshown, ImagesKnown
<1>5. /\ objects' \subseteq objects
      /\ \A i \in objects \ objects' : i = Names[old] /\ i \in Touched(old)
  BY <1>1, <1>2, <1>4, TouchedImages, ImageFacts
<1>6. Sendable' = Sendable /\ UsedImages' = UsedImages
  BY <1>1 DEF Sendable, UsedImages, Touched
<1> HIDE DEF old
<1>7. ImageTypeOK'
  BY <1>1, <1>2, <1>3, <1>5, <1>6, ImageTypesNext
<1>8. ImagesKnown'
  BY <1>1, <1>3, <1>6, ImageFacts DEF ImageInv, ImagesKnown
<1>9. FreshStored'
  <2>1. Touched(old) \subseteq UsedImages
    BY <1>4, SentUploaded
  <2> QED BY <1>1, <1>5, <1>6, <2>1 DEF ImageInv, FreshStored
<1>10. ShownOnce' /\ ReadsCurrent' /\ UnlinksUnshown'
  BY <1>1, <1>3, ImageFacts
     DEF ImageInv, ShownOnce, ReadsCurrent, UnlinksUnshown, Current, Unshown, Touched
<1>11. ShownImageExists'
  <2> SUFFICES ASSUME NEW s \in Scenario, featureImage[s] \in Url
               PROVE  Shows[featureImage[s]] \in objects' \cup entangled \cup {NoImage}
    BY <1>1 DEF ShownImageExists
  <2>1. Shows[featureImage[s]] \in objects \cup entangled \cup {NoImage}
    BY DEF ImageInv, ShownImageExists
  <2>2. Touched(old) \cap Touched(featureImage[s]) \subseteq entangled
    BY <1>4 DEF Unshown
  <2> QED BY <1>5, <2>1, <2>2, TouchedImages
<1>12. ReplacedImageGone'
  <2> SUFFICES ASSUME imageFaults = 0, NEW u \in used, Names[u] \in objects' \ entangled
               PROVE  \/ \E s \in Scenario : featureImage[s] = u
                      \/ \E f \in Editor : editor'[f].pc = "unlink" /\ editor'[f].old = u
    BY <1>1 DEF ReplacedImageGone
  <2>1. u # old /\ Names[u] \in objects
    BY <1>1, <1>5 DEF old
  <2>2. \/ \E s \in Scenario : featureImage[s] = u
        \/ \E f \in Editor : editor[f].pc = "unlink" /\ editor[f].old = u
    BY <2>1 DEF ImageInv, ReplacedImageGone
  <2> QED BY <1>3, <2>1, <2>2 DEF old
<1> QED BY <1>7, <1>8, <1>9, <1>10, <1>11, <1>12 DEF ImageInv

LEMMA EditFailsStep ==
  ASSUME ImageInv, NEW e \in Editor, EditFails(e)
  PROVE  ImageInv'
<1>1. /\ imageFaults < MaxImageFaults /\ imageFaults' = imageFaults + 1
      /\ UNCHANGED <<objects, uploaded, featureImage, used, entangled, imageEdits>>
  BY DEF EditFails, ImageFault
<1>2. /\ objects \subseteq uploaded /\ uploaded \subseteq Image
      /\ featureImage \in [Scenario -> ImageRow] /\ editor \in [Editor -> EditorState]
      /\ used \subseteq Sendable /\ entangled \subseteq uploaded
      /\ imageEdits \in 0..MaxImageEdits /\ imageFaults \in 0..MaxImageFaults
  BY ImageTypes DEF ImageInv
<1>3. /\ editor' \in [Editor -> EditorState] /\ editor'[e] = Resting
      /\ \A f \in Editor : f # e => editor'[f] = editor[f]
  BY RestIs DEF EditFails
<1>4. imageFaults' \in 0..MaxImageFaults /\ imageFaults' # 0
  BY <1>1, <1>2, ImageFacts
<1>5. Sendable' = Sendable
  BY <1>1 DEF Sendable, Touched
<1>6. ImageTypeOK'
  BY <1>1, <1>2, <1>3, <1>4, <1>5, ImageTypesNext
<1>7. ImagesKnown'
  BY <1>1, <1>3, <1>5, ImageFacts DEF ImageInv, ImagesKnown
<1>8. ReadsCurrent' /\ UnlinksUnshown'
  BY <1>1, <1>3, ImageFacts DEF ImageInv, ReadsCurrent, UnlinksUnshown, Current, Unshown, Touched
<1>9. FreshStored' /\ ShownOnce' /\ ShownImageExists'
  BY <1>1 DEF ImageInv, FreshStored, ShownOnce, ShownImageExists, UsedImages, Touched
<1>10. ReplacedImageGone'
  BY <1>4 DEF ReplacedImageGone
<1> QED BY <1>6, <1>7, <1>8, <1>9, <1>10 DEF ImageInv

\* What a commit makes of its request: at rest, or about to delete the old image.
LEMMA CommitEditors ==
  ASSUME ImageInv, NEW e \in Editor, editor[e].pc = "commit",
         \/ Rest(e)
         \/ MustUnlink(editor[e]) /\ StartUnlink(e)
  PROVE  /\ editor' \in [Editor -> EditorState]
         /\ \A f \in Editor : f # e => editor'[f] = editor[f]
         /\ \/ editor'[e] = Resting
            \/ MustUnlink(editor[e]) /\ editor'[e] = Unlinking(editor[e].old)
<1>1. CASE Rest(e)
  BY <1>1, RestIs
<1>2. CASE MustUnlink(editor[e]) /\ StartUnlink(e)
  <2>1. editor[e].old \in Url /\ editor \in [Editor -> EditorState]
    BY <1>2, EditorIs, ImageTypes DEF ImageInv, MustUnlink
  <2>2. Unlinking(editor[e].old) \in EditorState
    BY <2>1 DEF EditorState
  <2> QED BY <1>2, <2>1, <2>2 DEF StartUnlink
<1> QED BY <1>1, <1>2

\* An update of a row that is gone.
LEMMA CommitGoneStep ==
  ASSUME ImageInv, NEW e \in Editor, editor[e].pc = "commit", ~Exists(editor[e].of),
         IF editor[e].new # Gone /\ MustUnlink(editor[e]) THEN StartUnlink(e) ELSE Rest(e),
         UNCHANGED <<objects, uploaded, featureImage, used, entangled, imageEdits, imageFaults>>
  PROVE  ImageInv'
<1> DEFINE old == editor[e].old
<1>1. /\ editor' \in [Editor -> EditorState]
      /\ \A f \in Editor : f # e => editor'[f] = editor[f]
      /\ \/ editor'[e] = Resting
         \/ MustUnlink(editor[e]) /\ editor'[e] = Unlinking(old)
  BY CommitEditors
<1>2. /\ objects \subseteq uploaded /\ uploaded \subseteq Image
      /\ featureImage \in [Scenario -> ImageRow]
      /\ used \subseteq Sendable /\ entangled \subseteq uploaded
      /\ imageEdits \in 0..MaxImageEdits /\ imageFaults \in 0..MaxImageFaults
  BY ImageTypes DEF ImageInv
<1>3. Sendable' = Sendable /\ UsedImages' = UsedImages
  BY DEF Sendable, UsedImages, Touched
<1>4. ImageTypeOK'
  BY <1>1, <1>2, <1>3, ImageTypesNext
<1>5. /\ old \in Url \cup {NoImage} /\ (old \in Url => old \in used)
      /\ MustUnlink(editor[e]) => old \in Url
  BY EditorIs DEF MustUnlink, ImageInv, ImagesKnown
<1>6. Touched(old) \subseteq entangled
  <2>1. featureImage[editor[e].of] # old
    BY <1>5, ImageFacts DEF Exists
  <2> QED BY <2>1 DEF ImageInv, ReadsCurrent, Current
<1> HIDE DEF old
<1>7. /\ Unlinking(old).pc = "unlink" /\ Unlinking(old).old = old
      /\ Unlinking(old).of = NoRow /\ Unlinking(old).new = NoImage
  BY UnlinkingIs
<1>8. ImagesKnown'
  <2>1. ASSUME NEW f \in Editor
        PROVE  /\ editor'[f].old \in Url => editor'[f].old \in used
               /\ editor'[f].new \in Url => editor'[f].new \in Sendable
               /\ editor'[f].pc = "commit" => featureImage[editor'[f].of] # NoRow
    <3>1. CASE f # e
      BY <1>1, <3>1 DEF ImageInv, ImagesKnown
    <3>2. CASE editor'[f] = Resting
      BY <3>2, ImageFacts
    <3>3. CASE editor'[f] = Unlinking(old)
      BY <1>5, <1>7, <3>3, ImageFacts
    <3> QED BY <1>1, <3>1, <3>2, <3>3
  <2> QED BY <1>3, <2>1 DEF ImageInv, ImagesKnown
<1>9. FreshStored' /\ ShownOnce' /\ ShownImageExists'
  BY <1>3 DEF ImageInv, FreshStored, ShownOnce, ShownImageExists, Touched
<1>10. ReadsCurrent'
  BY <1>1, <1>7, ImageFacts DEF ImageInv, ReadsCurrent, Current, Touched
<1>11. UnlinksUnshown'
  <2> SUFFICES ASSUME NEW f \in Editor, editor'[f].pc = "unlink"
               PROVE  editor'[f].old \in Url /\ Unshown(editor'[f].old)
    BY DEF UnlinksUnshown, Unshown, Touched
  <2>1. CASE f # e
    BY <1>1, <2>1 DEF ImageInv, UnlinksUnshown
  <2>2. CASE f = e
    <3>1. MustUnlink(editor[e]) /\ editor'[e] = Unlinking(old)
      BY <1>1, <2>2, ImageFacts
    <3> QED BY <1>5, <1>6, <1>7, <2>2, <3>1 DEF Unshown
  <2> QED BY <2>1, <2>2
<1>12. ReplacedImageGone'
  BY <1>1, ImageFacts DEF ImageInv, ReplacedImageGone
<1> QED BY <1>4, <1>8, <1>9, <1>10, <1>11, <1>12 DEF ImageInv

\* A commit that writes the row.
LEMMA CommitRowStep ==
  ASSUME ImageInv, NEW e \in Editor, editor[e].pc = "commit", NEW s \in Scenario,
         s = editor[e].of, Exists(s),
         featureImage' = [featureImage EXCEPT ![s] = editor[e].new],
         Written(e, s, editor[e].old, editor[e].new),
         IF MustUnlink(editor[e]) THEN StartUnlink(e) ELSE Rest(e),
         UNCHANGED <<objects, uploaded, imageEdits, imageFaults>>
  PROVE  ImageInv'
<1> DEFINE old == editor[e].old
           new == editor[e].new
           was == featureImage[s]
<1>1. /\ editor' \in [Editor -> EditorState]
      /\ \A f \in Editor : f # e => editor'[f] = editor[f]
      /\ \/ editor'[e] = Resting
         \/ MustUnlink(editor[e]) /\ editor'[e] = Unlinking(old)
  BY CommitEditors
<1>2. MustUnlink(editor[e]) => editor'[e] = Unlinking(old)
  BY ImageTypes DEF ImageInv, StartUnlink
<1>3. /\ objects \subseteq uploaded /\ uploaded \subseteq Image
      /\ featureImage \in [Scenario -> ImageRow]
      /\ used \subseteq Sendable /\ entangled \subseteq uploaded
      /\ imageEdits \in 0..MaxImageEdits /\ imageFaults \in 0..MaxImageFaults
  BY ImageTypes DEF ImageInv
<1>4. /\ old \in Url \cup {NoImage} /\ new \in Sendable \cup {NoImage, Gone}
      /\ old \in Url => old \in used
      /\ was \in Url \cup {NoImage}
      /\ was \in Url => was \in used
      /\ MustUnlink(editor[e]) <=> old \in Url /\ old # new
  BY <1>3, EditorIs, ImageFacts DEF ImageInv, ImagesKnown, Exists, ImageRow, MustUnlink
<1>5. was = old \/ Touched(old) \cup Touched(new) \cup Touched(was) \subseteq entangled
  BY <1>4, ImageFacts DEF ImageInv, ReadsCurrent, Current
<1>6. /\ used' = used \cup ({new} \cap Url) /\ entangled \subseteq entangled'
      /\ new # old => Touched(new) \cap UsedImages \subseteq entangled'
      /\ Others(e, s) # {} => Touched(old) \cup Touched(new) \cup Touched(was) \subseteq entangled'
      /\ \A f \in Others(e, s) :
            Touched(editor[f].old) \cup Touched(editor[f].new) \subseteq entangled'
  BY DEF Written
<1>7. entangled' \subseteq uploaded
  <2>1. \A u \in Url : u \in used \/ u \in Sendable => Touched(u) \subseteq uploaded
    BY <1>3, SentUploaded
  <2>2. \A f \in Editor : Touched(editor[f].old) \cup Touched(editor[f].new) \subseteq uploaded
    BY <2>1, TouchedImages DEF ImageInv, ImagesKnown
  <2>3. Touched(new) \subseteq uploaded /\ Touched(was) \subseteq uploaded
    BY <1>4, <2>1, SentUploaded, TouchedImages, ImageFacts
  <2>4. UNION {Touched(editor[f].old) \cup Touched(editor[f].new) : f \in Others(e, s)}
           \subseteq uploaded
    BY <2>2 DEF Others
  <2>5. Touched(old) \subseteq uploaded
    BY <2>2
  <2>6. entangled' \subseteq entangled \cup Touched(new) \cup Touched(old) \cup Touched(was)
          \cup UNION {Touched(editor[f].old) \cup Touched(editor[f].new) : f \in Others(e, s)}
    BY DEF Written, old, new, was
  <2> QED BY <1>3, <2>3, <2>4, <2>5, <2>6
<1> HIDE DEF old, new, was
<1>8. /\ featureImage' \in [Scenario -> ImageRow] /\ featureImage'[s] = new
      /\ \A r \in Scenario : r # s => featureImage'[r] = featureImage[r]
      /\ used' \subseteq Sendable' /\ Sendable' = Sendable
      /\ \A r \in Scenario : featureImage'[r] \in Url => featureImage'[r] \in used'
      /\ FreshStored' /\ ShownOnce' /\ ShownImageExists'
      /\ \A v \in used : Unshown(v) =>
            \A r \in Scenario : Touched(v) \cap Touched(featureImage'[r]) \subseteq entangled'
  <2>1. \/ Touched(new) \cap UsedImages \subseteq entangled'
        \/ new = featureImage[s]
        \/ Touched(new) \subseteq entangled'
    BY <1>5, <1>6 DEF was
  <2>2. featureImage' = [featureImage EXCEPT ![s] = new]
    BY DEF new
  <2> QED BY <1>4, <1>6, <2>1, <2>2, RowWritten
<1>9. ImageTypeOK'
  BY <1>1, <1>3, <1>7, <1>8, ImageTypesNext
<1>10. /\ Unlinking(old).pc = "unlink" /\ Unlinking(old).old = old
       /\ Unlinking(old).of = NoRow /\ Unlinking(old).new = NoImage
  BY UnlinkingIs
<1>11. ImagesKnown'
  <2>1. ASSUME NEW f \in Editor
        PROVE  /\ editor'[f].old \in Url => editor'[f].old \in used'
               /\ editor'[f].new \in Url => editor'[f].new \in Sendable
               /\ editor'[f].pc = "commit" => featureImage'[editor'[f].of] # NoRow
    <3>1. CASE f # e
      <4>1. new # NoRow
        BY <1>4, SentUploaded, ImageFacts
      <4> QED BY <1>1, <1>6, <1>8, <3>1, <4>1, EditorIs DEF ImageInv, ImagesKnown
    <3>2. CASE editor'[f] = Resting
      BY <3>2, ImageFacts
    <3>3. CASE editor'[f] = Unlinking(old)
      BY <1>4, <1>6, <1>10, <3>3, ImageFacts
    <3> QED BY <1>1, <3>1, <3>2, <3>3
  <2> QED BY <1>8, <2>1 DEF ImagesKnown
<1>12. ReadsCurrent'
  <2> SUFFICES ASSUME NEW f \in Editor, editor'[f].pc = "commit"
               PROVE  Current(editor[f])'
    BY DEF ReadsCurrent, Current, Touched
  <2>1. f # e /\ editor'[f] = editor[f] /\ editor[f].of \in Scenario
    BY <1>1, <1>10, ImageFacts, EditorIs
  <2>2. Current(editor[f])
    BY <2>1 DEF ImageInv, ReadsCurrent
  <2>3. CASE editor[f].of = s
    <3>1. f \in Others(e, s)
      BY <2>1, <2>3 DEF Others
    <3>2. Touched(editor[f].old) \cup Touched(editor[f].new) \cup Touched(new) \subseteq entangled'
      BY <1>6, <3>1
    <3> QED BY <1>8, <2>1, <2>3, <3>2 DEF Current, Touched
  <2>4. CASE editor[f].of # s
    BY <1>6, <1>8, <2>1, <2>2, <2>4 DEF Current, Touched
  <2> QED BY <2>3, <2>4
<1>13. UnlinksUnshown'
  <2> SUFFICES ASSUME NEW f \in Editor, editor'[f].pc = "unlink"
               PROVE  /\ editor'[f].old \in Url
                      /\ \A r \in Scenario : Touched(editor'[f].old) \cap Touched(featureImage'[r])
                                               \subseteq entangled'
    BY DEF UnlinksUnshown, Unshown, Touched
  <2>1. CASE f # e
    <3>1. editor[f].old \in Url /\ editor[f].old \in used /\ Unshown(editor[f].old)
      BY <1>1, <2>1 DEF ImageInv, UnlinksUnshown, ImagesKnown
    <3> DEFINE v == editor[f].old
    <3>2. v \in Url /\ v \in used /\ Unshown(v) /\ editor'[f].old = v
      BY <1>1, <2>1, <3>1
    <3> HIDE DEF v
    <3>3. \A r \in Scenario : Touched(v) \cap Touched(featureImage'[r]) \subseteq entangled'
      BY <1>8, <3>2
    <3> QED BY <3>2, <3>3
  <2>2. CASE f = e
    <3>1. old \in Url /\ old \in used /\ old # new /\ editor'[f].old = old
      BY <1>1, <1>4, <1>10, <2>2, ImageFacts
    <3>2. ASSUME NEW r \in Scenario
          PROVE  Touched(old) \cap Touched(featureImage'[r]) \subseteq entangled'
      <4>1. CASE r = s
        BY <1>6, <1>8, <3>1, <4>1, SentUploaded
      <4>2. CASE r # s /\ was = old
        BY <1>6, <1>8, <4>2 DEF ImageInv, ShownOnce, was
      <4>3. CASE was # old
        BY <1>5, <1>6, <4>3
      <4> QED BY <4>1, <4>2, <4>3
    <3> QED BY <2>2, <3>1, <3>2
  <2> QED BY <2>1, <2>2
<1>14. ReplacedImageGone'
  <2> SUFFICES ASSUME imageFaults = 0, NEW u \in used', Names[u] \in objects \ entangled'
               PROVE  \/ \E r \in Scenario : featureImage'[r] = u
                      \/ \E f \in Editor : editor'[f].pc = "unlink" /\ editor'[f].old = u
    BY DEF ReplacedImageGone
  <2>1. CASE u = new
    BY <1>8, <2>1
  <2>2. CASE u # new
    <3>1. u \in used /\ Names[u] \in objects \ entangled
      BY <1>6, <2>2
    <3>2. u \in Url /\ Names[u] \in Touched(u)
      BY <1>3, <3>1, SentUploaded, TouchedImages, ImageFacts
    <3>3. CASE u = was
      <4>1. u = old
        BY <1>5, <3>1, <3>2, <3>3
      <4> QED BY <1>2, <1>4, <1>10, <2>2, <3>2, <4>1
    <3>4. CASE u # was
      <4>1. \/ \E r \in Scenario : featureImage[r] = u
            \/ \E f \in Editor : editor[f].pc = "unlink" /\ editor[f].old = u
        BY <3>1 DEF ImageInv, ReplacedImageGone
      <4> QED BY <1>1, <1>8, <3>4, <4>1 DEF was
    <3> QED BY <3>3, <3>4
  <2> QED BY <2>1, <2>2
<1> QED BY <1>8, <1>9, <1>11, <1>12, <1>13, <1>14 DEF ImageInv

LEMMA CommitStep ==
  ASSUME ImageInv, NEW e \in Editor, Commit(e)
  PROVE  ImageInv'
<1>1. editor[e].of \in Scenario
  BY EditorIs DEF Commit
<1>2. CASE Exists(editor[e].of)
  BY <1>1, <1>2, CommitRowStep DEF Commit
<1>3. CASE ~Exists(editor[e].of)
  BY <1>3, CommitGoneStep DEF Commit
<1> QED BY <1>2, <1>3

LEMMA ImageStep ==
  ASSUME ImageInv, [ImageNext]_imageVars
  PROVE  ImageInv'
<1>1. CASE UNCHANGED imageVars
  BY <1>1 DEF imageVars, ImageInv, ImageTypeOK, ImagesKnown, FreshStored, ShownOnce, ReadsCurrent,
     Current, UnlinksUnshown, Unshown, ShownImageExists, ReplacedImageGone, Sendable, UsedImages,
     Touched
<1>2. CASE ImageNext
  BY <1>2, UploadStep, CreateScenarioStep, DeleteSharedConfigStep, EditStep, CommitStep,
     UnlinkStep, EditFailsStep DEF ImageNext
<1> QED BY <1>1, <1>2

\* A row shows an image that exists, whatever fails between commit and deletion
\* (scenarioCrud.js:129-154, 165-193), as long as no other row, no other spelling of its
\* URL, no earlier save and no overlapping request has had to do with it.
THEOREM ShownImagesExist == ImageSpec => [](ImageTypeOK /\ ShownImageExists)
<1>1. ImageInv => ImageTypeOK /\ ShownImageExists
  BY DEF ImageInv
<1> QED BY <1>1, InitImages, ImageStep, PTL DEF ImageSpec

\* The image that a URL names is deleted, or about to be, when no row has the URL any
\* longer, where nothing failed, the storage deletes anything and no administrator has
\* deleted the row (objectUploadService.js:45-49, 79-91, adminService.js:10-17); and as
\* long as no other row, spelling or overlapping request has had to do with it.
THEOREM ReplacedImagesGo == ImageSpec => []ReplacedImageGone
<1>1. ImageInv => ReplacedImageGone
  BY DEF ImageInv
<1> QED BY <1>1, InitImages, ImageStep, PTL DEF ImageSpec

-----------------------------------------------------------------------------
(* Pages of a list.                                                        *)

PageState == [pc : {"idle", "ask", "counted", "fetched", "answer", "done"}, limit : Nat,
              offset : Nat, count : Nat, rows : SUBSET Item, got : SUBSET Item]

\* What was there all the time still is, and is got or lies ahead.
StillListed == before \subseteq ToSet(listed)
LiesAhead ==
    ~shifted => \A k \in 1..Len(listed) : listed[k] \in before \ page.got => k > Passed

\* The count of a page is that of the list, or a greater one: what lies ahead counts.
CountReaches ==
    ~shifted /\ ~uncounted =>
        /\ page.pc = "counted" => page.count >= Len(listed)
        /\ page.pc = "answer" /\ before \ page.got # {} => page.count > page.offset + page.limit

PageFits ==
    page.pc \in {"fetched", "answer"} =>
        Cardinality(page.rows) \in Nat /\ Cardinality(page.rows) <= page.limit

PageInv == PageTypeOK /\ StillListed /\ LiesAhead /\ CountReaches /\ PageFits /\ NothingHidden

LEMMA PageTypes ==
  ASSUME PageTypeOK
  PROVE  /\ list \in {"mine", "newest", "oldest", "activities"} /\ listed \in Seq(Item)
         /\ Len(listed) \in Nat /\ \A k \in 1..Len(listed) : listed[k] \in Item
         /\ ToSet(listed) = {listed[k] : k \in 1..Len(listed)} /\ ToSet(listed) \subseteq Item
         /\ page \in PageState /\ before \subseteq Item /\ shifted \in BOOLEAN
         /\ uncounted \in BOOLEAN /\ listChanges \in 0..MaxListChanges
         /\ page.offset \in Nat /\ page.limit \in Nat /\ page.count \in Nat
         /\ Passed \in Nat
<1>1. /\ listed \in Seq(Item) /\ page \in PageState
      /\ list \in {"mine", "newest", "oldest", "activities"}
      /\ before \subseteq Item /\ shifted \in BOOLEAN
      /\ uncounted \in BOOLEAN /\ listChanges \in 0..MaxListChanges
  BY DEF PageTypeOK, PageState
<1>2. Len(listed) \in Nat /\ \A k \in 1..Len(listed) : listed[k] \in Item
  BY <1>1
<1>3. ToSet(listed) = {listed[k] : k \in 1..Len(listed)}
  BY <1>1, ElementsByIndex
<1>4. page.offset \in Nat /\ page.limit \in Nat /\ page.count \in Nat
  BY <1>1 DEF PageState
<1> QED BY <1>1, <1>2, <1>3, <1>4 DEF Passed

LEMMA InitPages == PageInit => PageInv
<1> SUFFICES ASSUME PageInit PROVE PageInv
  OBVIOUS
<1>1. /\ list \in {"mine", "newest", "oldest", "activities"} /\ listed = First
      /\ page = NotPaging /\ before = {} /\ shifted = FALSE /\ uncounted = FALSE
      /\ listChanges = 0 /\ page.pc = "idle"
  BY DEF PageInit, NotPaging
<1>2. PageTypeOK
  <2>1. NotPaging \in PageState
    BY DEF NotPaging, PageState
  <2>2. First \in Seq(Item) /\ 0 \in 0..MaxListChanges
    BY PageAssumption
  <2> QED BY <1>1, <2>1, <2>2 DEF PageTypeOK, PageState
<1> QED BY <1>1, <1>2 DEF PageInv, StillListed, LiesAhead, CountReaches, PageFits, NothingHidden

LEMMA OpenListStep ==
  ASSUME PageInv, OpenList
  PROVE  PageInv'
<1>1. PICK n \in Asked : /\ list # "mine" => n >= 0
                         /\ page' = [NotPaging EXCEPT !.pc = "ask", !.limit = Limit(n)]
  BY Zenon DEF OpenList
<1>2. /\ before' = ToSet(listed)
      /\ UNCHANGED <<list, listed, shifted, uncounted, listChanges>>
  BY DEF OpenList
<1>3. Limit(n) \in Nat
  BY <1>1, PageAssumption DEF Limit, Least
<1>4. page' = [pc |-> "ask", limit |-> Limit(n), offset |-> 0, count |-> 0, rows |-> {}, got |-> {}]
  BY <1>1 DEF NotPaging
<1>5. page' \in PageState /\ page'.pc = "ask" /\ page'.offset = 0
  BY <1>3, <1>4 DEF PageState
<1>6. PageTypeOK'
  BY <1>2, <1>5, PageTypes DEF PageInv, PageTypeOK, PageState
<1>7. Passed' = 0
  BY <1>5 DEF Passed
<1> QED BY <1>2, <1>5, <1>6, <1>7
        DEF PageInv, StillListed, LiesAhead, CountReaches, PageFits, NothingHidden

LEMMA CountRowsStep ==
  ASSUME PageInv, CountRows
  PROVE  PageInv'
<1> DEFINE pc == IF page.pc = "ask" THEN "counted" ELSE "answer"
<1>1. /\ page.pc \in {"ask", "fetched"}
      /\ UNCHANGED <<list, listed, before, shifted, uncounted, listChanges>>
      /\ page' = [page EXCEPT !.pc = pc, !.count = Len(listed)]
  BY DEF CountRows
<1>2. page \in PageState /\ Len(listed) \in Nat
  BY PageTypes DEF PageInv
<1>3. /\ page' \in PageState /\ page'.pc = pc /\ page'.count = Len(listed)
      /\ page'.limit = page.limit /\ page'.offset = page.offset
      /\ page'.rows = page.rows /\ page'.got = page.got
  BY <1>1, <1>2 DEF PageState
<1>4. Passed' = Passed
  BY <1>1, <1>3 DEF Passed
<1>5. PageTypeOK'
  BY <1>1, <1>3 DEF PageInv, PageTypeOK, PageState
<1>6. StillListed' /\ LiesAhead' /\ PageFits' /\ NothingHidden'
  BY <1>1, <1>3, <1>4 DEF PageInv, StillListed, LiesAhead, PageFits, NothingHidden
<1>7. ASSUME ~shifted, pc = "answer", before \ page.got # {}
      PROVE  Len(listed) > page.offset + page.limit
  <2>1. PICK k \in 1..Len(listed) : listed[k] \in before \ page.got
    BY <1>7, PageTypes DEF PageInv, StillListed
  <2>2. k > Passed /\ Passed = page.offset + page.limit
    BY <1>1, <1>7, <2>1 DEF PageInv, LiesAhead, Passed
  <2> QED BY <1>2, <2>2, PageTypes DEF PageInv
<1>8. CountReaches'
  BY <1>1, <1>2, <1>3, <1>7 DEF CountReaches
<1> QED BY <1>5, <1>6, <1>8 DEF PageInv

LEMMA LeastIs ==
  ASSUME NEW a \in Nat, NEW b \in Nat
  PROVE  /\ Least(a, b) \in Nat /\ Least(a, b) <= a /\ Least(a, b) <= b
         /\ Least(a, b) \in {a, b}
BY DEF Least

\* A page has no more rows than its limit.
LEMMA PageBounded ==
  ASSUME NEW S, NEW s \in Seq(S), NEW n \in Nat, Len(s) <= n
  PROVE  Cardinality(ToSet(s)) \in Nat /\ Cardinality(ToSet(s)) <= n
<1>1. Len(s) \in Nat /\ ToSet(s) = {s[i] : i \in 1..Len(s)} /\ s \in [1..Len(s) -> ToSet(s)]
  BY ElementsByIndex
<1>2. s \in Surjection(1..Len(s), ToSet(s))
  BY <1>1 DEF Surjection
<1>3. IsFiniteSet(1..Len(s)) /\ Cardinality(1..Len(s)) = Len(s)
  <2>1. 1 \in Int /\ Len(s) \in Int
    BY <1>1
  <2>2. IsFiniteSet(1..Len(s))
        /\ Cardinality(1..Len(s)) = IF 1 > Len(s) THEN 0 ELSE Len(s) - 1 + 1
    BY <2>1, FS_Interval
  <2> QED BY <1>1, <2>2
<1>4. IsFiniteSet(ToSet(s)) /\ Cardinality(ToSet(s)) <= Len(s)
  BY <1>2, <1>3, FS_Surjection
<1>5. Cardinality(ToSet(s)) \in Nat
  BY <1>4, FS_CardinalityType
<1> QED BY <1>1, <1>4, <1>5

LEMMA FetchRowsStep ==
  ASSUME PageInv, FetchRows
  PROVE  PageInv'
<1> DEFINE pc == IF page.pc = "ask" THEN "fetched" ELSE "answer"
           last == Least(page.offset + page.limit, Len(listed))
           fetched == SubSeq(listed, page.offset + 1, last)
           rows == ToSet(fetched)
<1>1. /\ page.pc \in {"ask", "counted"}
      /\ UNCHANGED <<list, listed, before, shifted, uncounted, listChanges>>
      /\ page' = [page EXCEPT !.pc = pc, !.rows = rows, !.got = @ \cup rows]
  BY DEF FetchRows
<1>2. /\ page \in PageState /\ listed \in Seq(Item) /\ Len(listed) \in Nat
      /\ page.offset \in Nat /\ page.limit \in Nat
      /\ last \in Nat /\ last <= Len(listed) /\ last <= page.offset + page.limit
      /\ \A k \in 1..Len(listed) : k <= page.offset + page.limit => k <= last
  <2>1. /\ page \in PageState /\ listed \in Seq(Item) /\ Len(listed) \in Nat
        /\ page.offset \in Nat
    BY PageTypes DEF PageInv
  <2>a. page.limit \in Nat
    BY PageTypes DEF PageInv
  <2>b. page.limit \in Nat
    BY <2>a
  <2>2. page.limit \in Nat /\ page.offset + page.limit \in Nat
    BY <2>1, <2>b
  <2>3. /\ last \in Nat /\ last <= Len(listed) /\ last <= page.offset + page.limit
        /\ last \in {page.offset + page.limit, Len(listed)}
    BY <2>1, <2>2, LeastIs
  <2> HIDE DEF last
  <2> QED BY <2>1, <2>2, <2>3
<1> HIDE DEF last
<1>3. /\ fetched \in Seq(Item)
      /\ Len(fetched) = IF page.offset + 1 <= last THEN last - (page.offset + 1) + 1 ELSE 0
      /\ \A i \in 1..last - (page.offset + 1) + 1 : fetched[i] = listed[page.offset + 1 + i - 1]
  <2>1. \A i \in page.offset + 1 .. last : listed[i] \in Item
    BY <1>2
  <2> QED BY <1>2, <2>1, SubSeqProperties
<1> HIDE DEF fetched
<1>4. Cardinality(rows) \in Nat /\ Cardinality(rows) <= page.limit
  <2>1. Len(fetched) <= page.limit
    <3>1. CASE page.offset + 1 <= last
      <4>1. Len(fetched) = last - (page.offset + 1) + 1
        BY <1>3, <3>1
      <4> QED BY <1>2, <4>1
    <3>2. CASE ~(page.offset + 1 <= last)
      <4>1. Len(fetched) = 0
        BY <1>3, <3>2
      <4> QED BY <1>2, <4>1
    <3> QED BY <3>1, <3>2
  <2> QED BY <1>2, <1>3, <2>1, PageBounded
<1>5. ASSUME NEW k \in 1..Len(listed), k > page.offset, k <= page.offset + page.limit
      PROVE  listed[k] \in rows
  <2> DEFINE i == k - page.offset
  <2>1. i \in 1..last - (page.offset + 1) + 1 /\ page.offset + 1 + i - 1 = k
        /\ page.offset + 1 <= last
    <3>1. /\ k \in Int /\ k <= last /\ k > page.offset
          /\ page.offset \in Nat /\ last \in Nat
      BY <1>2, <1>5
    <3>2. i \in Int /\ i >= 1 /\ i <= last - page.offset /\ page.offset + i = k
      BY <3>1
    <3> HIDE DEF i
    <3> QED BY <3>1, <3>2
  <2> HIDE DEF i
  <2>2. i \in 1..Len(fetched) /\ fetched[i] = listed[k]
    BY <1>3, <2>1
  <2> QED BY <1>3, <2>2, ElementsByIndex
<1>6. rows \subseteq Item
  BY <1>3, ElementsInRange
<1> HIDE DEF rows
<1>7. /\ page' \in PageState /\ page'.pc = pc /\ page'.count = page.count
      /\ page'.limit = page.limit /\ page'.offset = page.offset
      /\ page'.rows = rows /\ page'.got = page.got \cup rows
  BY <1>1, <1>2, <1>6 DEF PageState
<1>8. Passed = page.offset /\ Passed' = page.offset + page.limit
  BY <1>1, <1>2, <1>7 DEF Passed
<1>9. PageTypeOK'
  BY <1>1, <1>7 DEF PageInv, PageTypeOK, PageState
<1>10. StillListed' /\ PageFits' /\ NothingHidden'
  BY <1>1, <1>4, <1>7 DEF PageInv, StillListed, PageFits, NothingHidden
<1>11. ASSUME ~shifted, NEW k \in 1..Len(listed), listed[k] \in before \ (page.got \cup rows)
       PROVE  k > page.offset + page.limit
  <2>1. k > page.offset
    BY <1>8, <1>11 DEF PageInv, LiesAhead
  <2> QED BY <1>2, <1>5, <1>11, <2>1
<1>12. LiesAhead'
  BY <1>1, <1>7, <1>8, <1>11 DEF LiesAhead
<1>13. CountReaches'
  <2> SUFFICES ASSUME ~shifted, ~uncounted, pc = "answer", before \ (page.got \cup rows) # {}
               PROVE  page.count > page.offset + page.limit
    BY <1>1, <1>7 DEF CountReaches
  <2>1. PICK k \in 1..Len(listed) : listed[k] \in before \ (page.got \cup rows)
    BY PageTypes DEF PageInv, StillListed
  <2>2. page.count >= Len(listed)
    BY <1>1 DEF PageInv, CountReaches
  <2> QED BY <1>2, <1>11, <2>1, <2>2, PageTypes DEF PageInv
<1> QED BY <1>9, <1>10, <1>12, <1>13 DEF PageInv

LEMMA FollowPagesStep ==
  ASSUME PageInv, FollowPages
  PROVE  PageInv'
<1>1. /\ page.pc = "answer"
      /\ UNCHANGED <<list, listed, before, shifted, uncounted, listChanges>>
      /\ page' = IF HasMore THEN [page EXCEPT !.pc = "ask", !.offset = @ + page.limit,
                                              !.count = 0, !.rows = {}]
                 ELSE [page EXCEPT !.pc = "done"]
  BY DEF FollowPages
<1>2. /\ page \in PageState /\ Len(listed) \in Nat /\ page.offset \in Nat /\ page.limit \in Nat
      /\ page.count \in Nat /\ Passed = page.offset + page.limit
  BY <1>1, PageTypes DEF PageInv, Passed
<1>3. CASE HasMore
  <2>1. /\ page' \in PageState /\ page'.pc = "ask" /\ page'.offset = page.offset + page.limit
        /\ page'.got = page.got
    <3>1. page' = [page EXCEPT !.pc = "ask", !.offset = @ + page.limit,
                               !.count = 0, !.rows = {}]
      BY <1>1, <1>3
    <3>2. page.offset + page.limit \in Nat
      BY <1>2
    <3> QED BY <1>2, <3>1, <3>2 DEF PageState
  <2>2. Passed' = Passed
    BY <1>2, <2>1 DEF Passed
  <2>3. PageTypeOK'
    BY <1>1, <2>1 DEF PageInv, PageTypeOK, PageState
  <2> QED BY <1>1, <2>1, <2>2, <2>3
          DEF PageInv, StillListed, LiesAhead, CountReaches, PageFits, NothingHidden
<1>4. CASE ~HasMore
  <2>1. /\ page' \in PageState /\ page'.pc = "done" /\ page'.offset = page.offset
        /\ page'.got = page.got
    BY <1>1, <1>2, <1>4 DEF PageState
  <2>2. Passed' = page.offset
    BY <1>2, <2>1 DEF Passed
  <2>3. PageTypeOK'
    BY <1>1, <2>1 DEF PageInv, PageTypeOK, PageState
  <2>4. LiesAhead'
    <3>1. ASSUME ~shifted, NEW k \in 1..Len(listed), listed[k] \in before \ page.got
          PROVE  k > page.offset
      <4>1. k > Passed
        BY <3>1 DEF PageInv, LiesAhead
      <4> QED BY <1>2, <4>1
    <3> QED BY <1>1, <2>1, <2>2, <3>1 DEF LiesAhead
  <2>5. NothingHidden'
    <3> SUFFICES ASSUME list # "activities", ~shifted, ~uncounted PROVE before \subseteq page.got
      BY <1>1, <2>1 DEF NothingHidden
    <3>1. /\ Cardinality(page.rows) \in Nat /\ Cardinality(page.rows) <= page.limit
      BY <1>1 DEF PageInv, PageFits
    <3>2. ~(page.count > page.offset + Cardinality(page.rows))
      BY <1>4 DEF HasMore
    <3>3. ~(page.count > page.offset + page.limit)
      BY <1>2, <3>1, <3>2
    <3> QED BY <1>1, <3>3 DEF PageInv, CountReaches
  <2> QED BY <1>1, <2>1, <2>3, <2>4, <2>5 DEF PageInv, StillListed, CountReaches, PageFits
<1> QED BY <1>3, <1>4

\* The list changes: whoever is still to be got moves down, or up no further than to the
\* edge of what was passed.
LEMMA ListMoves ==
  ASSUME PageInv, page.pc \notin {"idle", "done"}, listed' \in Seq(Item),
         UNCHANGED <<list, page>>, before' \subseteq before, before' \subseteq ToSet(listed'),
         shifted' \in BOOLEAN, uncounted' \in BOOLEAN, listChanges' \in 0..MaxListChanges,
         shifted => shifted', uncounted => uncounted',
         page.pc = "counted" /\ ~uncounted' => Len(listed') <= Len(listed),
         ~shifted' => \A j \in 1..Len(listed') : listed'[j] \in before' =>
            \E k \in 1..Len(listed) : listed[k] = listed'[j] /\ (k <= j \/ j > Passed)
  PROVE  PageInv'
<1>1. /\ page \in PageState /\ list \in {"mine", "newest", "oldest", "activities"}
      /\ Len(listed) \in Nat /\ Len(listed') \in Nat /\ before \subseteq Item
      /\ page.count \in Nat /\ Passed \in Nat
  BY PageTypes DEF PageInv
<1>2. PageTypeOK'
  BY <1>1 DEF PageTypeOK, PageState
<1>3. StillListed' /\ PageFits' /\ NothingHidden'
  BY DEF PageInv, StillListed, PageFits, NothingHidden
<1>4. Passed' = Passed
  BY DEF Passed
<1>5. LiesAhead'
  <2> SUFFICES ASSUME ~shifted', NEW j \in 1..Len(listed'), listed'[j] \in before' \ page.got
               PROVE  j > Passed
    BY <1>4 DEF LiesAhead
  <2>1. PICK k \in 1..Len(listed) : listed[k] = listed'[j] /\ (k <= j \/ j > Passed)
    OBVIOUS
  <2>2. k > Passed
    BY <2>1 DEF PageInv, LiesAhead
  <2> QED BY <1>1, <2>1, <2>2
<1>6. CountReaches'
  <2> SUFFICES ASSUME ~shifted', ~uncounted'
               PROVE  /\ page.pc = "counted" => page.count >= Len(listed')
                      /\ page.pc = "answer" /\ before' \ page.got # {} =>
                            page.count > page.offset + page.limit
    BY DEF CountReaches
  <2>1. /\ page.pc = "counted" => page.count >= Len(listed)
        /\ page.pc = "answer" /\ before \ page.got # {} => page.count > page.offset + page.limit
    BY DEF PageInv, CountReaches
  <2>2. page.pc = "counted" => page.count >= Len(listed')
    BY <1>1, <2>1
  <2>3. before' \ page.got # {} => before \ page.got # {}
    OBVIOUS
  <2> QED BY <2>1, <2>2, <2>3
<1> QED BY <1>2, <1>3, <1>5, <1>6 DEF PageInv

LEMMA AddRowStep ==
  ASSUME PageInv, NEW i \in Item, AddRow(i)
  PROVE  PageInv'
<1>1. /\ page.pc \notin {"idle", "done"} /\ listChanges < MaxListChanges
      /\ listChanges' = listChanges + 1 /\ i \notin ToSet(listed)
      /\ uncounted' = (uncounted \/ page.pc = "counted")
      /\ UNCHANGED <<list, page, before, shifted>>
  BY DEF AddRow, Changes
<1>2. /\ listed \in Seq(Item) /\ Len(listed) \in Nat
      /\ ToSet(listed) = {listed[k] : k \in 1..Len(listed)} /\ before \subseteq ToSet(listed)
      /\ shifted \in BOOLEAN /\ uncounted \in BOOLEAN /\ listChanges \in 0..MaxListChanges
  BY PageTypes DEF PageInv, StillListed
<1>3. listChanges' \in 0..MaxListChanges /\ uncounted' \in BOOLEAN
  BY <1>1, <1>2, PageAssumption
<1>4. \E p \in 1..Len(listed) + 1 :
         /\ listed' \in Seq(Item) /\ Len(listed') = Len(listed) + 1
         /\ \A j \in 1..Len(listed) + 1 : listed'[j] =
               IF j < p THEN listed[j] ELSE IF j = p THEN i ELSE listed[j - 1]
  <2>1. CASE listed' = <<i>> \o listed
    <3>1. /\ <<i>> \o listed \in Seq(Item) /\ Len(<<i>> \o listed) = Len(listed) + 1
          /\ \A j \in 1..Len(listed) + 1 :
                (<<i>> \o listed)[j] = IF j = 1 THEN i ELSE listed[j - 1]
      BY <1>2, PutInFront
    <3>2. 1 \in 1..Len(listed) + 1
      BY <1>2
    <3>3. \A j \in 1..Len(listed) + 1 : ~(j < 1)
      BY <1>2
    <3> QED BY <2>1, <3>1, <3>2, <3>3
  <2>2. ASSUME NEW p \in 1..Len(listed) + 1, listed' = InsertAt(listed, p, i)
        PROVE  /\ listed' \in Seq(Item) /\ Len(listed') = Len(listed) + 1
               /\ \A j \in 1..Len(listed) + 1 : listed'[j] =
                     IF j < p THEN listed[j] ELSE IF j = p THEN i ELSE listed[j - 1]
    <3>1. /\ InsertAt(listed, p, i) \in Seq(Item) /\ Len(InsertAt(listed, p, i)) = Len(listed) + 1
          /\ \A j \in 1..Len(listed) + 1 : InsertAt(listed, p, i)[j] =
                IF j < p THEN listed[j] ELSE IF j = p THEN i ELSE listed[j - 1]
      BY <1>2, InsertedAt
    <3> QED BY <2>2, <3>1
  <2> QED BY <2>1, <2>2 DEF AddRow
<1>5. PICK p \in 1..Len(listed) + 1 :
         /\ listed' \in Seq(Item) /\ Len(listed') = Len(listed) + 1
         /\ \A j \in 1..Len(listed) + 1 : listed'[j] =
               IF j < p THEN listed[j] ELSE IF j = p THEN i ELSE listed[j - 1]
  BY <1>4
<1>6. before \subseteq ToSet(listed')
  <2> SUFFICES ASSUME NEW b \in before PROVE b \in ToSet(listed')
    OBVIOUS
  <2>1. PICK k \in 1..Len(listed) : listed[k] = b
    BY <1>2
  <2>2. ToSet(listed') = {listed'[j] : j \in 1..Len(listed')}
    BY <1>5, ElementsByIndex
  <2>3. CASE k < p
    BY <1>2, <1>5, <2>1, <2>2, <2>3
  <2>4. CASE ~(k < p)
    <3>1. /\ k + 1 \in 1..Len(listed) + 1 /\ ~(k + 1 < p) /\ k + 1 # p /\ (k + 1) - 1 = k
      BY <1>2, <2>4
    <3>2. listed'[k + 1] = b
      BY <1>5, <2>1, <3>1
    <3> QED BY <1>5, <2>2, <3>1, <3>2
  <2> QED BY <2>3, <2>4
<1>7. ASSUME NEW j \in 1..Len(listed'), listed'[j] \in before
      PROVE  \E k \in 1..Len(listed) : listed[k] = listed'[j] /\ k <= j
  <2>1. j # p
    BY <1>1, <1>2, <1>5, <1>7
  <2>2. CASE j < p
    <3>1. j \in 1..Len(listed) /\ j <= j
      BY <1>2, <1>5, <2>2
    <3> QED BY <1>5, <2>2, <3>1
  <2>3. CASE ~(j < p)
    <3>1. j - 1 \in 1..Len(listed) /\ j - 1 <= j
      BY <1>2, <1>5, <2>1, <2>3
    <3>2. listed'[j] = listed[j - 1]
      BY <1>5, <2>1, <2>3
    <3> QED BY <3>1, <3>2
  <2> QED BY <2>2, <2>3
<1> QED BY <1>1, <1>2, <1>3, <1>5, <1>6, <1>7, ListMoves

\* A row is taken out: what stands behind it moves up by one place.
LEMMA WithoutRow ==
  ASSUME PageInv, NEW i \in ToSet(listed)
  PROVE  /\ Position(i) \in 1..Len(listed) /\ listed[Position(i)] = i
         /\ Without(i) \in Seq(Item) /\ Len(Without(i)) = Len(listed) - 1
         /\ Len(listed) \in Nat
         /\ \A j \in 1..Len(listed) - 1 :
               Without(i)[j] = IF j < Position(i) THEN listed[j] ELSE listed[j + 1]
         /\ before \ {i} \subseteq ToSet(Without(i))
<1>1. /\ listed \in Seq(Item) /\ Len(listed) \in Nat
      /\ ToSet(listed) = {listed[k] : k \in 1..Len(listed)} /\ before \subseteq ToSet(listed)
  BY PageTypes DEF PageInv, StillListed
<1> DEFINE p == Position(i)
           w == Without(i)
<1>2. p \in 1..Len(listed) /\ listed[p] = i
  BY <1>1 DEF Position
<1>3. w = RemoveAt(listed, p)
  BY DEF Without
<1> HIDE DEF p, w
<1>4. /\ w \in Seq(Item) /\ Len(w) = Len(listed) - 1
      /\ \A j \in 1..Len(listed) - 1 : w[j] = IF j < p THEN listed[j] ELSE listed[j + 1]
  BY <1>1, <1>2, <1>3, RemovedAt
<1>5. ASSUME NEW b \in before \ {i}
      PROVE  b \in ToSet(w)
  <2>1. PICK k \in 1..Len(listed) : listed[k] = b
    BY <1>1
  <2>2. ToSet(w) = {w[j] : j \in 1..Len(w)}
    BY <1>4, ElementsByIndex
  <2>3. k # p
    BY <1>2, <2>1
  <2>4. CASE k < p
    <3>1. k \in 1..Len(listed) - 1
      BY <1>1, <1>2, <2>4
    <3> QED BY <1>4, <2>1, <2>2, <2>4, <3>1
  <2>5. CASE ~(k < p)
    <3>1. k - 1 \in 1..Len(listed) - 1 /\ ~(k - 1 < p) /\ (k - 1) + 1 = k
      BY <1>1, <1>2, <2>3, <2>5
    <3>2. w[k - 1] = b
      BY <1>4, <2>1, <3>1
    <3> QED BY <1>4, <2>2, <3>1, <3>2
  <2> QED BY <2>4, <2>5
<1> QED BY <1>1, <1>2, <1>4, <1>5 DEF p, w

\* Where a row of the shorter list stood before.
LEMMA MovedUp ==
  ASSUME PageInv, NEW i \in ToSet(listed), NEW j \in 1..Len(listed) - 1
  PROVE  \E k \in 1..Len(listed) : /\ listed[k] = Without(i)[j] /\ k <= j + 1
                                   /\ k <= j \/ j >= Position(i)
<1>1. /\ Position(i) \in 1..Len(listed) /\ Len(listed) \in Nat
      /\ Without(i)[j] = IF j < Position(i) THEN listed[j] ELSE listed[j + 1]
  BY WithoutRow
<1>2. CASE j < Position(i)
  <2>1. j \in 1..Len(listed) /\ j <= j /\ j <= j + 1
    BY <1>1
  <2> QED BY <1>1, <1>2, <2>1
<1>3. CASE ~(j < Position(i))
  <2>1. j + 1 \in 1..Len(listed) /\ j >= Position(i) /\ j + 1 <= j + 1
    BY <1>1, <1>3
  <2> QED BY <1>1, <1>3, <2>1
<1> QED BY <1>2, <1>3

LEMMA RemoveRowStep ==
  ASSUME PageInv, NEW i \in Item, RemoveRow(i)
  PROVE  PageInv'
<1>1. /\ page.pc \notin {"idle", "done"} /\ listChanges < MaxListChanges
      /\ listChanges' = listChanges + 1 /\ i \in ToSet(listed) /\ listed' = Without(i)
      /\ before' = before \ {i} /\ shifted' = (shifted \/ Position(i) <= Passed)
      /\ UNCHANGED <<list, page, uncounted>>
  BY DEF RemoveRow, Changes
<1>2. /\ listed' \in Seq(Item) /\ Len(listed') = Len(listed) - 1 /\ Len(listed) \in Nat
      /\ Position(i) \in 1..Len(listed) /\ before' \subseteq ToSet(listed')
  BY <1>1, WithoutRow
<1>3. /\ shifted \in BOOLEAN /\ uncounted \in BOOLEAN /\ listChanges \in 0..MaxListChanges
      /\ Passed \in Nat
  BY PageTypes DEF PageInv
<1>4. /\ shifted' \in BOOLEAN /\ listChanges' \in 0..MaxListChanges
      /\ Len(listed') <= Len(listed)
  BY <1>1, <1>2, <1>3, PageAssumption
<1>5. ASSUME ~shifted', NEW j \in 1..Len(listed')
      PROVE  \E k \in 1..Len(listed) : listed[k] = listed'[j] /\ (k <= j \/ j > Passed)
  <2>1. PICK k \in 1..Len(listed) : listed[k] = Without(i)[j] /\ (k <= j \/ j >= Position(i))
    <3>1. i \in ToSet(listed) /\ j \in 1..Len(listed) - 1
      BY <1>1, <1>2
    <3> QED BY <3>1, MovedUp
  <2>2. j >= Position(i) => j > Passed
    <3>1. ~(Position(i) <= Passed)
      BY <1>1, <1>5
    <3>2. Position(i) \in Int /\ j \in Int /\ Passed \in Int
      BY <1>2, <1>3
    <3> QED BY <3>1, <3>2
  <2> QED BY <1>1, <2>1, <2>2
<1> QED BY <1>1, <1>2, <1>3, <1>4, <1>5, ListMoves

LEMMA TouchRowStep ==
  ASSUME PageInv, NEW i \in Item, TouchRow(i)
  PROVE  PageInv'
<1> DEFINE w == Without(i)
<1>1. /\ page.pc \notin {"idle", "done"} /\ listChanges < MaxListChanges
      /\ listChanges' = listChanges + 1 /\ i \in ToSet(listed)
      /\ listed' = IF list = "newest" THEN <<i>> \o w ELSE Append(w, i)
      /\ before' = before \ {i}
      /\ shifted' = (shifted \/ (list = "oldest" /\ Position(i) <= Passed))
      /\ list \in {"newest", "oldest"} /\ UNCHANGED <<list, page, uncounted>>
  BY DEF TouchRow, Changes
<1>2. /\ w \in Seq(Item) /\ Len(w) = Len(listed) - 1 /\ Len(listed) \in Nat
      /\ Position(i) \in 1..Len(listed) /\ before' \subseteq ToSet(w)
  BY <1>1, WithoutRow
<1>3. /\ shifted \in BOOLEAN /\ uncounted \in BOOLEAN /\ listChanges \in 0..MaxListChanges
      /\ Passed \in Nat
  BY PageTypes DEF PageInv
<1>4. shifted' \in BOOLEAN /\ listChanges' \in 0..MaxListChanges
  BY <1>1, <1>3, PageAssumption
<1>5. ASSUME NEW j \in 1..Len(w)
      PROVE  \E k \in 1..Len(listed) : /\ listed[k] = w[j] /\ k <= j + 1
                                       /\ k <= j \/ j >= Position(i)
  BY <1>1, <1>2, <1>5, MovedUp
<1> HIDE DEF w
<1>6. CASE list = "newest"
  <2>1. /\ listed' \in Seq(Item) /\ Len(listed') = Len(w) + 1
        /\ \A j \in 1..Len(w) + 1 : listed'[j] = IF j = 1 THEN i ELSE w[j - 1]
    BY <1>1, <1>2, <1>6, PutInFront
  <2>2. ToSet(w) \subseteq ToSet(listed')
    <3>1. /\ <<i>> \in Seq(Item) /\ listed' = <<i>> \o w
      BY <1>1, <1>6
    <3>2. ToSet(<<i>> \o w) = ToSet(<<i>>) \cup ToSet(w)
      BY <1>2, <3>1, ConcatElements
    <3> QED BY <3>1, <3>2
  <2>3. ASSUME NEW j \in 1..Len(listed'), listed'[j] \in before'
        PROVE  \E k \in 1..Len(listed) : listed[k] = listed'[j] /\ k <= j
    <3>1. j # 1 /\ listed'[j] = w[j - 1]
      BY <1>1, <2>1, <2>3
    <3>2. j - 1 \in 1..Len(w) /\ (j - 1) + 1 = j
      BY <1>2, <2>1, <3>1
    <3> QED BY <1>5, <3>1, <3>2
  <2>4. Len(listed') <= Len(listed)
    BY <1>2, <2>1
  <2> QED BY <1>1, <1>2, <1>3, <1>4, <2>1, <2>2, <2>3, <2>4, ListMoves
<1>7. CASE list = "oldest"
  <2>1. /\ listed' \in Seq(Item) /\ Len(listed') = Len(w) + 1
        /\ \A j \in 1..Len(w) : listed'[j] = w[j]
        /\ listed'[Len(w) + 1] = i
    BY <1>1, <1>2, <1>7, AppendProperties
  <2>2. ToSet(w) \subseteq ToSet(listed')
    BY <1>1, <1>2, <1>7, AppendElements
  <2>3. ASSUME ~shifted', NEW j \in 1..Len(listed'), listed'[j] \in before'
        PROVE  \E k \in 1..Len(listed) : listed[k] = listed'[j] /\ (k <= j \/ j > Passed)
    <3>1. j \in 1..Len(w)
      BY <1>1, <1>2, <2>1, <2>3
    <3>2. PICK k \in 1..Len(listed) : listed[k] = w[j] /\ (k <= j \/ j >= Position(i))
      BY <1>5, <3>1
    <3>3. j >= Position(i) => j > Passed
      <4>1. ~(Position(i) <= Passed)
        BY <1>1, <1>7, <2>3
      <4>2. Position(i) \in Int /\ j \in Int /\ Passed \in Int
        BY <1>2, <1>3, <3>1
      <4> QED BY <4>1, <4>2
    <3> QED BY <2>1, <3>1, <3>2, <3>3
  <2>4. Len(listed') <= Len(listed)
    BY <1>2, <2>1
  <2> QED BY <1>1, <1>2, <1>3, <1>4, <2>1, <2>2, <2>3, <2>4, ListMoves
<1> QED BY <1>1, <1>6, <1>7

LEMMA PageStep ==
  ASSUME PageInv, [PageNext]_pageVars
  PROVE  PageInv'
<1>1. CASE UNCHANGED pageVars
  BY <1>1 DEF pageVars, PageInv, PageTypeOK, StillListed, LiesAhead, CountReaches, PageFits,
     NothingHidden, Passed
<1>2. CASE PageNext
  BY <1>2, OpenListStep, CountRowsStep, FetchRowsStep, FollowPagesStep, AddRowStep,
     RemoveRowStep, TouchRowStep DEF PageNext
<1> QED BY <1>1, <1>2

\* A client that has followed hasMore to the end has got every scenario that was there all
\* the time, whatever is created, shared, saved or deleted meanwhile (scenarioCrud.js:
\* 204-271, scenarioController.js:191, 302): unless a row left a place already passed, or
\* one was created between the two queries of a page.
THEOREM PagesHideNothing == PageSpec => [](PageTypeOK /\ NothingHidden)
<1>1. PageInv => PageTypeOK /\ NothingHidden
  BY DEF PageInv
<1> QED BY <1>1, InitPages, PageStep, PTL DEF PageSpec

-----------------------------------------------------------------------------
(* Scenario files.                                                         *)

LEMMA ValueParts ==
  /\ Null.type = "null" /\ Null.number = 0 /\ ~Present(Null) /\ ~Text(Null)
  /\ \A n : Num(n).type = "number" /\ Num(n).number = n /\ Present(Num(n))
  /\ \A word : Str(word).type = "string" /\ Str(word).word = word /\ Present(Str(word))
BY DEF Null, Num, Str, Value, Present, Text

LEMMA Given ==
  /\ Blocks \subseteq BlockValue /\ Nodes \subseteq NodeValue
  /\ MaxInteger \in Nat /\ MaxEdits \in Nat
BY Zenon, FileAssumption

\* The check and the save agree on every file, whatever its fields hold.
LEMMA CleanIsSaved == CleanFilesSave
<1> SUFFICES ASSUME ~FileErrs, ~FileWarns, ~Unchecked PROVE ~Refused /\ Storable
  BY DEF CleanFilesSave, Clean
<1>1. Text(file.Name) /\ file.form = "array"
  BY DEF FileErrs
<1>2. ~SettingWarns
  BY DEF FileWarns
<1>3. Present(file.Parity) => file.Parity.word \in Parities
  BY <1>2 DEF SettingWarns, Unchecked
<1>4. Present(file.StopBits) => file.StopBits.number \in {10, 20}
  BY <1>2 DEF SettingWarns, Unchecked
<1>5. Present(file.DataBits) => file.DataBits.number \in {70, 80}
  BY <1>2 DEF SettingWarns
<1>6. Present(file.Baudrate) =>
          /\ ~(file.Baudrate.number <= 0 \/ file.Baudrate.number % 10 # 0)
          /\ file.Baudrate.number \in 1..MaxInteger
  <2>1. Present(file.Baudrate) =>
            file.Baudrate.number \in 1..MaxInteger /\ file.Baudrate.number % 10 = 0
    BY DEF Unchecked
  <2> QED BY <2>1, Given
<1>7. \A n \in {"NewLine", "FlowControl", "Guide", "FeatureImage"} : file[n].type = "null"
  BY DEF Unchecked, Present
<1>8. /\ ~Present(file.FlowControl) /\ ~Present(file.NewLine)
      /\ file.Guide.type # "string" /\ file.FeatureImage.type # "string"
  BY <1>7 DEF Present
<1>9. ~Refused
  BY <1>1, <1>3, <1>4, <1>5, <1>6, <1>8 DEF Refused, Parities
<1>10. Fits(Columns)
  <2> DEFINE set == Columns.set
  <2>1. /\ set.Name = file.Name /\ set.Description = Trimmed(file.Description)
        /\ set.Baudrate = IF Present(file.Baudrate) THEN Num(file.Baudrate.number) ELSE Null
        /\ set.Banner1 = BannerAt(1, file.Banner1) /\ set.Banner2 = BannerAt(2, file.Banner2)
    BY DEF Columns
  <2>2. \A v \in {file.Name, file.Description, set.Banner1, set.Banner2} : v.word # "overlong"
    BY <2>1 DEF Unchecked
  <2>3. \A v \in {set.Banner1, set.Banner2} : v.type \notin {"object", "array"}
    BY <2>1 DEF Unchecked
  <2>4. set.Description.word # "overlong"
    <3>1. Str("").word = "" /\ "" # "overlong"
      BY Zenon, ValueParts
    <3>2. Trimmed(file.Description) \in {file.Description, Str("")}
      BY Zenon DEF Trimmed
    <3> QED BY Zenon, <2>1, <2>2, <3>1, <3>2
  <2>5. set.Baudrate.number <= MaxInteger
    <3>1. CASE Present(file.Baudrate)
      BY <1>6, <2>1, <3>1, ValueParts, Given
    <3>2. CASE ~Present(file.Baudrate)
      BY <2>1, <3>2, ValueParts, Given
    <3> QED BY <3>1, <3>2
  <2> HIDE DEF set
  <2> QED BY <2>1, <2>2, <2>3, <2>4, <2>5 DEF Fits, set
<1>11. file.Banners.type = "array" => file.Banners.fits
  BY DEF Unchecked
<1> QED BY <1>9, <1>10, <1>11 DEF Storable

\* A flow without fault leads from block to block.
LEMMA CleanLeadsOn ==
  ASSUME FileTypeOK, ~FileErrs, ~FileWarns, NEW i \in DOMAIN file.nodes
  PROVE  LET n == file.nodes[i]
             Ids == {file.nodes[k].id : k \in DOMAIN file.nodes}
         IN  /\ n.kind = "condition" =>
                   \A h \in {"true", "false"} : \E j \in DOMAIN file.edges :
                       /\ file.edges[j].source = n.id /\ file.edges[j].sourceHandle = h
                       /\ file.edges[j].target \in Ids
             /\ n.kind = "block" /\ n.blockNo >= 0 /\ n.blockNo % 10 = 0 =>
                   (n.blockNo \div 10) + 1 \in DOMAIN file.Content
<1> DEFINE n == file.nodes[i]
           Ids == {file.nodes[k].id : k \in DOMAIN file.nodes}
<1>1. ~NodeErrs(n) /\ ~NodeWarns(n)
  BY DEF FileErrs, FileWarns
<1>2. ASSUME n.kind = "condition", NEW h \in {"true", "false"}
      PROVE  \E j \in DOMAIN file.edges :
                /\ file.edges[j].source = n.id /\ file.edges[j].sourceHandle = h
                /\ file.edges[j].target \in Ids
  <2>1. Branches(n.id, h) # {}
    BY <1>1, <1>2 DEF NodeWarns
  <2>2. PICK j \in DOMAIN file.edges :
           file.edges[j].source = n.id /\ file.edges[j].sourceHandle = h
    BY <2>1 DEF Branches
  <2>3. file.edges[j].target \in NodeIds
    BY DEF FileErrs, EdgeErrs
  <2>4. file.edges[j].target \in Ids
    BY <2>3 DEF NodeIds
  <2> QED BY <2>2, <2>4
<1>3. ASSUME n.kind = "block", n.blockNo >= 0, n.blockNo % 10 = 0
      PROVE  (n.blockNo \div 10) + 1 \in DOMAIN file.Content
  <2>1. /\ file.Content \in Seq(BlockValue) /\ file.nodes \in Seq(NodeValue)
        /\ DOMAIN file.Content = 1..Len(file.Content) /\ Len(file.Content) \in Nat
    BY DEF FileTypeOK
  <2>2. n.blockNo \in Int
    <3>1. n \in NodeValue
      BY <2>1
    <3> QED BY <3>1 DEF NodeValue
  <2>3. KnownBlock(n.blockNo)
    BY <1>1, <1>3 DEF NodeErrs, NodeWarns
  <2> HIDE DEF n
  <2>4. PICK k \in Nat : n.blockNo = 10 * k
    <3>1. n.blockNo = 10 * (n.blockNo \div 10) + (n.blockNo % 10) /\ n.blockNo \div 10 \in Nat
      BY <1>3, <2>2
    <3> QED BY <1>3, <3>1
  <2>5. n.blockNo \div 10 = k
    BY <2>4
  <2>6. k < Len(file.Content)
    BY <2>1, <2>3, <2>4 DEF KnownBlock
  <2> QED BY <2>1, <2>5, <2>6
<1> QED BY <1>2, <1>3

LEMMA FlowRuns ==
  ASSUME FileTypeOK
  PROVE  CleanFlowRuns
BY CleanLeadsOn DEF CleanFlowRuns, Clean

-----------------------------------------------------------------------------
(* A file that is saved, exported and imported.                            *)

\* The columns of a row, and what normalizeScenarioPayload let into them.
RowType == [saved : {TRUE}, set : [SettingNames -> JsonValue],
            banners : Seq(JsonValue), content : Seq(BlockValue)]

SetFits(set) ==
    /\ Text(set.Name) /\ set.Description.type = "string"
    /\ set.Guide = Null \/ (Text(set.Guide) /\ set.Guide.word # "overlong")
    /\ set.FeatureImage = Null \/ (Text(set.FeatureImage) /\ set.FeatureImage.word = "https")
    /\ set.Baudrate = Null
         \/ \E n \in Int : n > 0 /\ n % 10 = 0 /\ set.Baudrate = Num(n)
    /\ \E word \in Parities : set.Parity = Str(word)
    /\ \E n \in {10, 20} : set.StopBits = Num(n)
    /\ \E n \in {70, 80} : set.DataBits = Num(n)
    /\ \E word \in {"none", "hardware"} : set.FlowControl = Str(word)
    /\ \E word \in {"none", "crlf", "cr", "lf"} : set.NewLine = Str(word)

BannersFit(row) ==
    /\ Len(row.banners) >= 1 /\ Present(row.banners[1]) => row.set.Banner1 = row.banners[1]
    /\ Len(row.banners) >= 2 /\ Present(row.banners[2]) => row.set.Banner2 = row.banners[2]

FileInv ==
    /\ FileTypeOK
    /\ fileRow.saved => SetFits(fileRow.set) /\ BannersFit(fileRow) /\ Fits(fileRow)

\* What the client holds is a file.
FileOk(f) ==
    /\ DOMAIN f = FileNames
    /\ \A n \in SettingNames : f[n] \in JsonValue
    /\ f.Banners \in BannersValue
    /\ f.Content \in Seq(BlockValue) /\ f.nodes \in Seq(NodeValue)

LEMMA TypeParts ==
  FileTypeOK <=> FileOk(file) /\ (fileRow.saved => fileRow \in RowType) /\ edits \in 0..MaxEdits
BY DEF FileTypeOK, FileOk, RowType

LEMMA ValuesAre ==
  /\ Null \in JsonValue
  /\ \A n \in Int : Num(n) \in JsonValue
  /\ \A word \in STRING : Str(word) \in JsonValue
  /\ \A v \in JsonValue : v.number \in Int /\ v.word \in STRING /\ (v.type = "null" => v = Null)
<1>0. ASSUME NEW type \in JsonTypes, NEW n \in Int, NEW word \in STRING,
             type = "null" => Value(type, n, word) = Null
      PROVE  Value(type, n, word) \in JsonValue
  <2> DEFINE v == Value(type, n, word)
  <2>1. v \in [type : JsonTypes, number : Int, word : STRING] /\ v.type = type
    BY DEF Value
  <2>2. v.type = "null" => v = Null
    BY <1>0, <2>1
  <2> HIDE DEF v
  <2>3. v \in JsonValue
    BY <2>1, <2>2 DEF JsonValue
  <2> QED BY <2>3 DEF v
<1>1. "null" \in JsonTypes /\ "number" \in JsonTypes /\ "string" \in JsonTypes
  BY DEF JsonTypes
<1>2. "" \in STRING /\ "0" \in STRING
  BY FileAssumption
<1>3. "number" # "null" /\ "string" # "null"
  OBVIOUS
<1>4. 0 \in Int /\ NaN \in Int
  BY DEF NaN
<1>5. Null \in JsonValue
  BY Zenon, <1>0, <1>1, <1>2, <1>4 DEF Null
<1>6. ASSUME NEW n \in Int PROVE Num(n) \in JsonValue
  BY Zenon, <1>0, <1>1, <1>2, <1>3, <1>4 DEF Num
<1>7. ASSUME NEW word \in STRING PROVE Str(word) \in JsonValue
  BY Zenon, <1>0, <1>1, <1>3, <1>4 DEF Str
<1>8. ASSUME NEW v \in JsonValue
      PROVE  v.number \in Int /\ v.word \in STRING /\ (v.type = "null" => v = Null)
  BY DEF JsonValue
<1> QED BY <1>5, <1>6, <1>7, <1>8

\* The k-th smallest of a set of positions.
LEMMA RankExists ==
  ASSUME NEW n \in Nat, NEW At, At \subseteq 1..n, NEW k \in 1..Cardinality(At)
  PROVE  \E i \in At : Cardinality({j \in At : j <= i}) = k
<1> DEFINE Upto(i) == {j \in At : j <= i}
           I == {i \in 1..n : Cardinality(Upto(i)) >= k}
<1>0. \A j \in At : j \in Nat /\ 1 <= j /\ j <= n
  OBVIOUS
<1>1. IsFiniteSet(At) /\ \A i : IsFiniteSet(Upto(i))
  <2>1. IsFiniteSet(1..n) /\ At \in SUBSET (1..n)
    BY FS_Interval
  <2>2. IsFiniteSet(At)
    BY <2>1, FS_Subset
  <2>3. \A i : Upto(i) \in SUBSET At
    OBVIOUS
  <2> HIDE DEF Upto
  <2> QED BY <2>2, <2>3, FS_Subset
<1>2. Cardinality(At) \in Nat /\ \A i : Cardinality(Upto(i)) \in Nat
  BY <1>1, FS_CardinalityType
<1>3. k \in Nat /\ k >= 1 /\ k <= Cardinality(At)
  BY <1>2
<1>4. At # {}
  BY <1>3, FS_EmptySet
<1>5. n \in 1..n
  <2>1. PICK j \in At : TRUE
    BY <1>4
  <2>2. 1 <= j /\ j <= n /\ j \in Nat
    BY <1>0
  <2> QED BY <2>2
<1>6. Upto(n) = At
  BY Zenon, <1>0
<1>7. n \in I
  BY <1>3, <1>5, <1>6, <1>2
<1>8. PICK i \in I : \A j \in I : i <= j
  <2>1. I \subseteq Nat
    OBVIOUS
  <2> QED BY <1>7, <2>1, SmallestExists
<1>9. i \in 1..n /\ Cardinality(Upto(i)) >= k
  BY <1>8
<1>10. Cardinality(Upto(i - 1)) < k
  <2>1. CASE i = 1
    <3>0. \A j \in At : ~(j <= i - 1)
      BY <1>0, <2>1
    <3>1. Upto(i - 1) = {}
      BY Zenon, <3>0
    <3>2. Cardinality(Upto(i - 1)) = 0
      BY <3>1, FS_EmptySet
    <3> QED BY <3>2, <1>3
  <2>2. CASE i # 1
    <3>1. i - 1 \in 1..n /\ ~(i <= i - 1)
      BY <1>9, <2>2
    <3>2. i - 1 \notin I
      BY <3>1, <1>8
    <3>3. ~(Cardinality(Upto(i - 1)) >= k)
      BY <3>1, <3>2
    <3>4. Cardinality(Upto(i - 1)) \in Nat
      BY <1>2
    <3> HIDE DEF Upto
    <3> QED BY <3>3, <3>4, <1>3
  <2> QED BY <2>1, <2>2
<1>11. i \in At
  <2>1. ASSUME i \notin At PROVE Upto(i) = Upto(i - 1)
    <3>1. \A j \in At : j <= i <=> j <= i - 1
      BY <1>0, <1>9, <2>1
    <3> QED BY Zenon, <3>1
  <2> HIDE DEF Upto, I
  <2> QED BY <2>1, <1>9, <1>10, <1>2, <1>3
<1>12. Upto(i) = Upto(i - 1) \cup {i} /\ i \notin Upto(i - 1)
  <2>1. \A j \in At : j <= i <=> (j <= i - 1 \/ j = i)
    BY <1>0, <1>9
  <2>2. i <= i /\ ~(i <= i - 1)
    BY <1>9
  <2>3. \A j : j \in Upto(i) <=> (j \in Upto(i - 1) \/ j = i)
    BY Zenon, <1>11, <2>1, <2>2
  <2>4. i \notin Upto(i - 1)
    BY <2>2
  <2> HIDE DEF Upto
  <2> QED BY <2>3, <2>4
<1> HIDE DEF Upto, I
<1>13. Cardinality(Upto(i)) = Cardinality(Upto(i - 1)) + 1
  BY <1>1, <1>12, FS_AddElement
<1>14. Cardinality(Upto(i)) = k
  BY <1>2, <1>3, <1>9, <1>10, <1>13
<1> QED BY <1>11, <1>14 DEF Upto

\* The texts of a list make a list; one that loses none consists of texts.
LEMMA TextsAre ==
  ASSUME NEW S, NEW s \in Seq(S)
  PROVE  /\ Texts(s) \in Seq(S)
         /\ Texts(s) = s => \A i \in 1..Len(s) : IsText(s[i])
<1> DEFINE At == {i \in DOMAIN s : IsText(s[i])}
           At2(k) == CHOOSE i \in At : Cardinality({j \in At : j <= i}) = k
           n == Cardinality(At)
<1>1. DOMAIN s = 1..Len(s) /\ Len(s) \in Nat /\ \A i \in 1..Len(s) : s[i] \in S
  OBVIOUS
<1>2. At \subseteq 1..Len(s)
  BY <1>1
<1>3. IsFiniteSet(1..Len(s)) /\ Cardinality(1..Len(s)) = Len(s)
  <2> DEFINE l == Len(s)
  <2>1. l \in Nat
    BY <1>1
  <2> HIDE DEF l
  <2>2. IsFiniteSet(1..l) /\ Cardinality(1..l) = l
    BY <2>1, FS_Interval
  <2> QED BY <2>2 DEF l
<1>4. n \in Nat /\ (n = Len(s) => At = 1..Len(s))
  BY <1>1, <1>2, <1>3, FS_Subset, FS_CardinalityType
<1>5. ASSUME NEW k \in 1..n PROVE At2(k) \in At
  <2>1. \E i \in At : Cardinality({j \in At : j <= i}) = k
    BY <1>1, <1>2, RankExists
  <2> QED BY <2>1
<1>6. Texts(s) = [k \in 1..n |-> s[At2(k)]]
  BY DEF Texts
<1> HIDE DEF At2
<1>7. \A k \in 1..n : s[At2(k)] \in S
  BY <1>1, <1>2, <1>5
<1> HIDE DEF n
<1>8. Texts(s) \in Seq(S) /\ Len(Texts(s)) = n
  BY <1>4, <1>6, <1>7
<1>9. ASSUME Texts(s) = s, NEW i \in 1..Len(s) PROVE IsText(s[i])
  <2>1. n = Len(s)
    BY <1>8, <1>9
  <2> QED BY <1>4, <1>9, <2>1
<1> QED BY <1>8, <1>9

\* What a save makes of a value it lets in.
LEMMA StoredValues ==
  ASSUME NEW v \in JsonValue
  PROVE  /\ Trimmed(v) \in JsonValue /\ Trimmed(v).type = "string"
         /\ v.type = "string" => Trimmed(v) = v
         /\ Nullable(v) \in JsonValue
         /\ Nullable(v) = Null \/ (Text(v) /\ Nullable(v) = v)
         /\ Text(v) => Nullable(v) = v
         /\ \A d \in JsonValue : /\ Default(v, d).number \in Int /\ Default(v, d).word \in STRING
                                 /\ Present(v) => Default(v, d) = v
                                 /\ ~Present(v) => Default(v, d) = d
<1>1. Str("") \in JsonValue /\ Null \in JsonValue
  BY ValuesAre, FileAssumption
<1>2. Str("").type = "string"
  BY ValueParts
<1>3. /\ Trimmed(v) \in JsonValue /\ Trimmed(v).type = "string"
      /\ v.type = "string" => Trimmed(v) = v
  BY <1>1, <1>2 DEF Trimmed
<1>4. /\ Nullable(v) \in JsonValue
      /\ Nullable(v) = Null \/ (Text(v) /\ Nullable(v) = v)
      /\ Text(v) => Nullable(v) = v
  BY <1>1 DEF Nullable
<1>5. ASSUME NEW d \in JsonValue
      PROVE  /\ Default(v, d).number \in Int /\ Default(v, d).word \in STRING
             /\ Present(v) => Default(v, d) = v
             /\ ~Present(v) => Default(v, d) = d
  BY ValuesAre DEF Default
<1> QED BY <1>3, <1>4, <1>5

LEMMA SettingsAreColumns ==
  ASSUME NEW set, DOMAIN set = SettingNames, set = [n \in DOMAIN set |-> set[n]],
         {set.Name, set.Description, set.Guide, set.FeatureImage, set.Baudrate, set.Parity,
          set.StopBits, set.DataBits, set.FlowControl, set.NewLine, set.Banner1, set.Banner2}
            \subseteq JsonValue
  PROVE  set \in [SettingNames -> JsonValue]
<1>1. \A n \in SettingNames : set[n] \in JsonValue
  BY DEF SettingNames
<1> QED BY <1>1

\* What is not refused is stored as SetFits and BannersFit say.
LEMMA SavedFits ==
  ASSUME FileOk(file), ~Refused
  PROVE  Columns \in RowType /\ SetFits(Columns.set) /\ BannersFit(Columns)
<1> DEFINE set == Columns.set
<1>1. /\ Columns.saved = TRUE /\ Columns.banners = NormalBanners /\ Columns.content = file.Content
      /\ Columns = [saved |-> Columns.saved, set |-> set, banners |-> Columns.banners,
                    content |-> Columns.content]
  BY DEF Columns
<1>2. /\ set.Name = file.Name /\ set.Description = Trimmed(file.Description)
      /\ set.Guide = Nullable(file.Guide) /\ set.FeatureImage = Nullable(file.FeatureImage)
      /\ set.Baudrate = IF Present(file.Baudrate) THEN Num(file.Baudrate.number) ELSE Null
      /\ set.Parity = Str(Default(file.Parity, Str("none")).word)
      /\ set.StopBits = Num(Default(file.StopBits, Num(10)).number)
      /\ set.DataBits = Num(Default(file.DataBits, Num(80)).number)
      /\ set.FlowControl = Str(Default(file.FlowControl, Str("none")).word)
      /\ set.NewLine = Str(Default(file.NewLine, Str("none")).word)
      /\ set.Banner1 = BannerAt(1, file.Banner1) /\ set.Banner2 = BannerAt(2, file.Banner2)
  BY DEF Columns
<1>3. DOMAIN set = SettingNames /\ set = [n \in DOMAIN set |-> set[n]]
  BY DEF Columns, SettingNames
<1>4. /\ {file.Name, file.Description, file.Guide, file.FeatureImage, file.Baudrate, file.Parity,
          file.StopBits, file.DataBits, file.FlowControl, file.NewLine, file.Banner1,
          file.Banner2} \subseteq JsonValue
      /\ file.Banners \in BannersValue /\ file.Content \in Seq(BlockValue)
  BY DEF FileOk, SettingNames
<1>5. Str("none") \in JsonValue /\ Num(10) \in JsonValue /\ Num(80) \in JsonValue
  <2>1. "none" \in STRING
    BY FileAssumption
  <2>2. 10 \in Int /\ 80 \in Int
    OBVIOUS
  <2> QED BY Zenon, <2>1, <2>2, ValuesAre
<1>51. /\ Text(file.Name)
       /\ file.Guide.type = "string" => file.Guide.word # "overlong"
       /\ file.FeatureImage.type = "string" => file.FeatureImage.word \in {"", "https"}
  BY DEF Refused
<1>52. ASSUME NEW v \in JsonValue
       PROVE  /\ Trimmed(v) \in JsonValue /\ Trimmed(v).type = "string"
              /\ Nullable(v) \in JsonValue
              /\ Nullable(v) = Null \/ (Text(v) /\ Nullable(v) = v)
  BY StoredValues
<1> HIDE DEF set
<1>6. NormalBanners \in Seq(JsonValue)
  <2>1. file.Banners.items \in Seq(JsonValue) /\ <<>> \in Seq(JsonValue)
    BY <1>4 DEF BannersValue
  <2> QED BY <2>1 DEF NormalBanners
<1>7. /\ set.Banner1 \in JsonValue /\ set.Banner2 \in JsonValue
      /\ Len(NormalBanners) >= 1 /\ Present(NormalBanners[1]) => set.Banner1 = NormalBanners[1]
      /\ Len(NormalBanners) >= 2 /\ Present(NormalBanners[2]) => set.Banner2 = NormalBanners[2]
  <2>1. /\ Len(NormalBanners) \in Nat
        /\ \A i \in 1..Len(NormalBanners) : NormalBanners[i] \in JsonValue
    BY <1>6
  <2> QED BY <1>2, <1>4, <2>1 DEF BannerAt
<1>8. /\ set.Name \in JsonValue /\ Text(set.Name)
      /\ set.Description \in JsonValue /\ set.Description.type = "string"
  <2>1. /\ file.Name \in JsonValue /\ file.Description \in JsonValue
        /\ set.Name = file.Name /\ set.Description = Trimmed(file.Description)
    BY <1>2, <1>4
  <2> QED BY Zenon, <1>51, <1>52, <2>1
<1>9. /\ set.Guide \in JsonValue
      /\ set.Guide = Null \/ (Text(set.Guide) /\ set.Guide.word # "overlong")
  <2>1. file.Guide \in JsonValue /\ set.Guide = Nullable(file.Guide)
    BY <1>2, <1>4
  <2> QED BY <1>51, <1>52, <2>1 DEF Text
<1>10. /\ set.FeatureImage \in JsonValue
       /\ set.FeatureImage = Null \/ (Text(set.FeatureImage) /\ set.FeatureImage.word = "https")
  <2>1. file.FeatureImage \in JsonValue /\ set.FeatureImage = Nullable(file.FeatureImage)
    BY <1>2, <1>4
  <2> QED BY <1>51, <1>52, <2>1 DEF Text
<1>11. /\ set.Baudrate \in JsonValue
       /\ set.Baudrate = Null \/ \E n \in Int : n > 0 /\ n % 10 = 0 /\ set.Baudrate = Num(n)
  <2>1. CASE ~Present(file.Baudrate)
    BY <1>2, <2>1, ValuesAre
  <2>2. CASE Present(file.Baudrate)
    <3> DEFINE n == file.Baudrate.number
    <3>1. n \in Int /\ ~(n <= 0) /\ n % 10 = 0
      BY <1>4, <2>2, ValuesAre DEF Refused
    <3>2. set.Baudrate = Num(n)
      BY <1>2, <2>2
    <3> HIDE DEF n
    <3>3. n > 0 /\ Num(n) \in JsonValue
      BY <3>1, ValuesAre
    <3> QED BY <3>1, <3>2, <3>3
  <2> QED BY <2>1, <2>2
<1>12. ASSUME NEW v \in JsonValue, NEW W, "none" \in W, Present(v) => v.word \in W
       PROVE  /\ Default(v, Str("none")).word \in W
              /\ Str(Default(v, Str("none")).word) \in JsonValue
  <2>1. Default(v, Str("none")).word \in W
    BY <1>5, <1>12, StoredValues, ValueParts
  <2> QED BY <1>5, <2>1, StoredValues, ValuesAre
<1>13. ASSUME NEW v \in JsonValue, NEW D, NEW d \in D, Num(d) \in JsonValue,
              Present(v) => v.number \in D
       PROVE  /\ Default(v, Num(d)).number \in D
              /\ Num(Default(v, Num(d)).number) \in JsonValue
  <2>1. Default(v, Num(d)).number \in D
    BY <1>13, StoredValues, ValueParts
  <2> QED BY <1>13, <2>1, StoredValues, ValuesAre
<1>14. /\ set.Parity \in JsonValue /\ \E word \in Parities : set.Parity = Str(word)
       /\ set.FlowControl \in JsonValue
       /\ \E word \in {"none", "hardware"} : set.FlowControl = Str(word)
       /\ set.NewLine \in JsonValue
       /\ \E word \in {"none", "crlf", "cr", "lf"} : set.NewLine = Str(word)
  <2>1. /\ "none" \in Parities
        /\ Present(file.Parity) => file.Parity.word \in Parities
        /\ Present(file.FlowControl) => file.FlowControl.word \in {"none", "hardware"}
        /\ Present(file.NewLine) => file.NewLine.word \in {"none", "crlf", "cr", "lf"}
    BY DEF Refused, Parities
  <2>2. set.Parity \in JsonValue /\ \E word \in Parities : set.Parity = Str(word)
    <3>1. file.Parity \in JsonValue /\ set.Parity = Str(Default(file.Parity, Str("none")).word)
      BY <1>2, <1>4
    <3>2. Default(file.Parity, Str("none")).word \in Parities
      BY <1>12, <2>1, <3>1
    <3>3. Str(Default(file.Parity, Str("none")).word) \in JsonValue
      BY <1>12, <2>1, <3>1
    <3> QED BY Zenon, <3>1, <3>2, <3>3
  <2>3. /\ set.FlowControl \in JsonValue
        /\ \E word \in {"none", "hardware"} : set.FlowControl = Str(word)
    <3>1. /\ file.FlowControl \in JsonValue /\ "none" \in {"none", "hardware"}
          /\ set.FlowControl = Str(Default(file.FlowControl, Str("none")).word)
      BY <1>2, <1>4
    <3>2. Default(file.FlowControl, Str("none")).word \in {"none", "hardware"}
      BY <1>12, <2>1, <3>1
    <3>3. Str(Default(file.FlowControl, Str("none")).word) \in JsonValue
      BY <1>12, <2>1, <3>1
    <3> QED BY Zenon, <3>1, <3>2, <3>3
  <2>4. /\ set.NewLine \in JsonValue
        /\ \E word \in {"none", "crlf", "cr", "lf"} : set.NewLine = Str(word)
    <3>1. /\ file.NewLine \in JsonValue /\ "none" \in {"none", "crlf", "cr", "lf"}
          /\ set.NewLine = Str(Default(file.NewLine, Str("none")).word)
      BY <1>2, <1>4
    <3>2. Default(file.NewLine, Str("none")).word \in {"none", "crlf", "cr", "lf"}
      BY <1>12, <2>1, <3>1
    <3>3. Str(Default(file.NewLine, Str("none")).word) \in JsonValue
      BY <1>12, <2>1, <3>1
    <3> QED BY Zenon, <3>1, <3>2, <3>3
  <2> QED BY <2>2, <2>3, <2>4
<1>15. /\ set.StopBits \in JsonValue /\ \E n \in {10, 20} : set.StopBits = Num(n)
       /\ set.DataBits \in JsonValue /\ \E n \in {70, 80} : set.DataBits = Num(n)
  <2>1. /\ Present(file.StopBits) => file.StopBits.number \in {10, 20}
        /\ Present(file.DataBits) => file.DataBits.number \in {70, 80}
    BY DEF Refused
  <2>2. set.StopBits \in JsonValue /\ \E n \in {10, 20} : set.StopBits = Num(n)
    <3>1. /\ file.StopBits \in JsonValue /\ 10 \in {10, 20}
          /\ set.StopBits = Num(Default(file.StopBits, Num(10)).number)
      BY <1>2, <1>4
    <3>2. /\ Default(file.StopBits, Num(10)).number \in {10, 20}
          /\ Num(Default(file.StopBits, Num(10)).number) \in JsonValue
      <4> DEFINE v == file.StopBits
                 D == {10, 20}
      <4>1. 10 \in D /\ v \in JsonValue /\ (Present(v) => v.number \in D)
        BY <2>1, <3>1
      <4> HIDE DEF v, D
      <4>2. Default(v, Num(10)).number \in D /\ Num(Default(v, Num(10)).number) \in JsonValue
        BY <1>5, <1>13, <4>1
      <4> QED BY <4>2 DEF v, D
    <3> QED BY Zenon, <3>1, <3>2
  <2>3. set.DataBits \in JsonValue /\ \E n \in {70, 80} : set.DataBits = Num(n)
    <3>1. /\ file.DataBits \in JsonValue /\ 80 \in {70, 80}
          /\ set.DataBits = Num(Default(file.DataBits, Num(80)).number)
      BY <1>2, <1>4
    <3>2. /\ Default(file.DataBits, Num(80)).number \in {70, 80}
          /\ Num(Default(file.DataBits, Num(80)).number) \in JsonValue
      <4> DEFINE v == file.DataBits
                 D == {70, 80}
      <4>1. 80 \in D /\ v \in JsonValue /\ (Present(v) => v.number \in D)
        BY <2>1, <3>1
      <4> HIDE DEF v, D
      <4>2. Default(v, Num(80)).number \in D /\ Num(Default(v, Num(80)).number) \in JsonValue
        BY <1>5, <1>13, <4>1
      <4> QED BY <4>2 DEF v, D
    <3> QED BY Zenon, <3>1, <3>2
  <2> QED BY <2>2, <2>3
<1>16. set \in [SettingNames -> JsonValue]
  <2>1. {set.Name, set.Description, set.Guide, set.FeatureImage, set.Baudrate, set.Parity,
         set.StopBits, set.DataBits, set.FlowControl, set.NewLine, set.Banner1, set.Banner2}
           \subseteq JsonValue
    BY Zenon, <1>7, <1>8, <1>9, <1>10, <1>11, <1>14, <1>15
  <2> QED BY Zenon, <1>3, <2>1, SettingsAreColumns
<1>17. SetFits(set)
  BY Zenon, <1>8, <1>9, <1>10, <1>11, <1>14, <1>15 DEF SetFits
<1>18. Columns \in RowType
  <2> DEFINE row == Columns
  <2>1. /\ row = [saved |-> row.saved, set |-> row.set, banners |-> row.banners,
                  content |-> row.content]
        /\ row.saved = TRUE /\ row.set = set
        /\ row.banners \in Seq(JsonValue) /\ row.content \in Seq(BlockValue)
    BY <1>1, <1>4, <1>6 DEF set
  <2> HIDE DEF row
  <2>2. row \in RowType
    BY <1>16, <2>1 DEF RowType
  <2> QED BY <2>2 DEF row
<1>19. BannersFit(Columns)
  BY <1>1, <1>7 DEF BannersFit, set
<1> QED BY <1>17, <1>18, <1>19 DEF set

\* Two rows of settings that agree on every name are equal.
LEMMA SameSettings ==
  ASSUME NEW set, set \in [SettingNames -> JsonValue], NEW other, DOMAIN other = SettingNames,
         other = [n \in DOMAIN other |-> other[n]],
         /\ other.Name = set.Name /\ other.Description = set.Description
         /\ other.Guide = set.Guide /\ other.FeatureImage = set.FeatureImage
         /\ other.Baudrate = set.Baudrate /\ other.Parity = set.Parity
         /\ other.StopBits = set.StopBits /\ other.DataBits = set.DataBits
         /\ other.FlowControl = set.FlowControl /\ other.NewLine = set.NewLine
         /\ other.Banner1 = set.Banner1 /\ other.Banner2 = set.Banner2
  PROVE  other = set
<1>1. \A n \in SettingNames : other[n] = set[n]
  BY DEF SettingNames
<1> QED BY <1>1

\* A file made of a saved row is not refused, and is stored as that row.
LEMMA Restores ==
  ASSUME FileInv, ExportFile, ShownBanners = fileRow.banners,
         fileRow.banners = <<>> => ~Present(fileRow.set.Banner1),
         Len(fileRow.banners) < 2 => ~Present(fileRow.set.Banner2)
  PROVE  ~Refused' /\ Storable' /\ Columns' = fileRow
<1> DEFINE set == fileRow.set
           other == Columns'.set
<1>1. /\ fileRow \in RowType /\ SetFits(set) /\ BannersFit(fileRow) /\ Fits(fileRow)
      /\ DOMAIN file = FileNames /\ file' = Exported
  BY TypeParts DEF FileInv, ExportFile, FileOk
<1>2. /\ set \in [SettingNames -> JsonValue] /\ fileRow.banners \in Seq(JsonValue)
      /\ fileRow = [saved |-> TRUE, set |-> set, banners |-> fileRow.banners,
                    content |-> fileRow.content]
  BY <1>1 DEF RowType
<1>3. /\ file'.Name = set.Name /\ file'.Description = set.Description
      /\ file'.Guide = set.Guide /\ file'.FeatureImage = set.FeatureImage
      /\ file'.Baudrate = set.Baudrate /\ file'.Parity = set.Parity
      /\ file'.StopBits = set.StopBits /\ file'.DataBits = set.DataBits
      /\ file'.FlowControl = set.FlowControl /\ file'.NewLine = set.NewLine
  BY <1>1 DEF Exported, FileNames, SettingNames
<1>4. /\ file'.Banner1 = Null /\ file'.Banner2 = Null
      /\ file'.Banners = [type |-> "array", items |-> fileRow.banners, fits |-> TRUE]
      /\ file'.form = "array" /\ file'.Content = fileRow.content
  BY <1>1 DEF Exported, FileNames, SettingNames
<1>5. /\ Text(set.Name) /\ set.Description.type = "string"
      /\ set.Guide = Null \/ (Text(set.Guide) /\ set.Guide.word # "overlong")
      /\ set.FeatureImage = Null
           \/ (Text(set.FeatureImage) /\ set.FeatureImage.word = "https")
  BY <1>1 DEF SetFits
<1>6. /\ set.Baudrate = Null \/ \E n \in Int : n > 0 /\ n % 10 = 0 /\ set.Baudrate = Num(n)
      /\ \E word \in Parities : set.Parity = Str(word)
      /\ \E n \in {10, 20} : set.StopBits = Num(n)
      /\ \E n \in {70, 80} : set.DataBits = Num(n)
      /\ \E word \in {"none", "hardware"} : set.FlowControl = Str(word)
      /\ \E word \in {"none", "crlf", "cr", "lf"} : set.NewLine = Str(word)
  BY <1>1 DEF SetFits
<1>7. /\ set.Banner1 \in JsonValue /\ set.Banner2 \in JsonValue
  BY <1>2 DEF SettingNames
<1> HIDE DEF set
<1>8. PICK baud : set.Baudrate = Null \/ (baud > 0 /\ baud % 10 = 0 /\ baud \in Int
                                             /\ set.Baudrate = Num(baud))
  BY <1>6
<1>81. PICK parity \in Parities : set.Parity = Str(parity)
  BY <1>6
<1>82. PICK stop \in {10, 20} : set.StopBits = Num(stop)
  BY <1>6
<1>83. PICK data \in {70, 80} : set.DataBits = Num(data)
  BY <1>6
<1>84. PICK flow \in {"none", "hardware"} : set.FlowControl = Str(flow)
  BY <1>6
<1>85. PICK line \in {"none", "crlf", "cr", "lf"} : set.NewLine = Str(line)
  BY <1>6
<1>9. ~Refused'
  <2>1. /\ Text(file'.Name) /\ file'.form # "none"
        /\ ~(file'.Guide.type = "string" /\ file'.Guide.word = "overlong")
        /\ ~(file'.FeatureImage.type = "string" /\ file'.FeatureImage.word \notin {"", "https"})
    BY <1>3, <1>4, <1>5, ValueParts DEF Text
  <2>2. /\ file'.Parity.word \in Parities
        /\ file'.FlowControl.word \in {"none", "hardware"}
        /\ file'.NewLine.word \in {"none", "crlf", "cr", "lf"}
    BY <1>3, <1>81, <1>84, <1>85, ValueParts
  <2>3. file'.StopBits.number \in {10, 20} /\ file'.DataBits.number \in {70, 80}
    BY <1>3, <1>82, <1>83, ValueParts
  <2>4. ASSUME Present(file'.Baudrate)
        PROVE  ~(file'.Baudrate.number <= 0) /\ file'.Baudrate.number % 10 = 0
    <3>1. /\ baud > 0 /\ baud % 10 = 0 /\ baud \in Int /\ file'.Baudrate = Num(baud)
      BY Zenon, <1>3, <1>8, <2>4, ValueParts
    <3>2. file'.Baudrate.number = baud
      BY <3>1, ValueParts
    <3>3. ~(baud <= 0)
      BY <3>1
    <3> QED BY <3>1, <3>2, <3>3
  <2> QED BY <2>1, <2>2, <2>3, <2>4 DEF Refused
<1>10. NormalBanners' = fileRow.banners
  BY <1>4 DEF NormalBanners
<1>11. /\ other.Name = set.Name /\ other.Description = Trimmed(set.Description)
       /\ other.Guide = Nullable(set.Guide) /\ other.FeatureImage = Nullable(set.FeatureImage)
       /\ other.Baudrate = IF Present(set.Baudrate) THEN Num(set.Baudrate.number) ELSE Null
       /\ other.Parity = Str(Default(set.Parity, Str("none")).word)
       /\ other.StopBits = Num(Default(set.StopBits, Num(10)).number)
       /\ other.DataBits = Num(Default(set.DataBits, Num(80)).number)
       /\ other.FlowControl = Str(Default(set.FlowControl, Str("none")).word)
       /\ other.NewLine = Str(Default(set.NewLine, Str("none")).word)
       /\ other.Banner1 = BannerAt(1, file.Banner1)' /\ other.Banner2 = BannerAt(2, file.Banner2)'
       /\ DOMAIN other = SettingNames /\ other = [n \in DOMAIN other |-> other[n]]
  BY <1>3 DEF Columns, SettingNames
<1>12. /\ Columns' = [saved |-> TRUE, set |-> other, banners |-> fileRow.banners,
                      content |-> fileRow.content]
  BY <1>4, <1>10 DEF Columns
<1> HIDE DEF other
<1>13. other.Banner1 = set.Banner1 /\ other.Banner2 = set.Banner2
  <2> DEFINE b == fileRow.banners
  <2>1. Len(b) \in Nat /\ \A i \in 1..Len(b) : IsText(b[i])
    BY <1>2, TextsAre DEF ShownBanners
  <2>2. \A i \in 1..Len(b) : Present(b[i])
    BY <2>1 DEF IsText, Present
  <2>3. /\ Len(b) >= 1 => set.Banner1 = b[1] /\ Present(b[1])
        /\ Len(b) >= 2 => set.Banner2 = b[2] /\ Present(b[2])
    BY <1>1, <2>1, <2>2 DEF BannersFit, set
  <2>4. /\ ~(Len(b) >= 1) => ~Present(set.Banner1)
        /\ ~(Len(b) >= 2) => ~Present(set.Banner2)
    BY <1>2, <2>1 DEF set
  <2>5. \A v \in JsonValue : ~Present(v) => v = Null
    BY ValuesAre DEF Present
  <2>6. /\ other.Banner1 = IF Len(b) >= 1 /\ Present(b[1]) THEN b[1] ELSE Null
        /\ other.Banner2 = IF Len(b) >= 2 /\ Present(b[2]) THEN b[2] ELSE Null
    BY <1>4, <1>10, <1>11 DEF BannerAt
  <2> HIDE DEF b
  <2> QED BY <1>7, <2>3, <2>4, <2>5, <2>6
<1>14. other.Description = set.Description
  BY <1>5, <1>11 DEF Trimmed
<1>15. other.Guide = set.Guide /\ other.FeatureImage = set.FeatureImage
  BY <1>5, <1>11, ValueParts DEF Nullable
<1>16. other.Baudrate = set.Baudrate
  <2>1. CASE set.Baudrate = Null
    BY <1>11, <2>1, ValueParts
  <2>2. CASE set.Baudrate = Num(baud)
    BY <1>11, <2>2, ValueParts
  <2> QED BY <1>8, <2>1, <2>2
<1>17. /\ \A word : Str(Default(Str(word), Str("none")).word) = Str(word)
       /\ \A n, d : Num(Default(Num(n), Num(d)).number) = Num(n)
  BY ValueParts DEF Default
<1>18. /\ other.Parity = set.Parity /\ other.StopBits = set.StopBits
       /\ other.DataBits = set.DataBits /\ other.FlowControl = set.FlowControl
       /\ other.NewLine = set.NewLine
  BY <1>11, <1>17, <1>81, <1>82, <1>83, <1>84, <1>85
<1>19. other = set
  BY Zenon, <1>2, <1>11, <1>13, <1>14, <1>15, <1>16, <1>18, SameSettings DEF set
<1>20. Columns' = fileRow
  BY <1>2, <1>12, <1>19
<1>21. Storable'
  <2>1. Fits(Columns')
    BY <1>1, <1>20
  <2>2. file'.Banners.fits
    BY <1>4
  <2> QED BY <2>1, <2>2 DEF Storable, Fits
<1> QED BY <1>9, <1>20, <1>21

-----------------------------------------------------------------------------
LEMMA InitFile == FileInit => FileInv
<1>1. NoFileRow.saved = FALSE
  BY DEF NoFileRow
<1>2. ASSUME FileInit PROVE FileInv
  <2>1. file \in FirstFiles /\ fileRow.saved = FALSE /\ edits = 0
    BY <1>1, <1>2 DEF FileInit
  <2>2. FileOk(file) /\ MaxEdits \in Nat
    BY <2>1, FileAssumption DEF FileOk
  <2> QED BY <2>1, <2>2, TypeParts DEF FileInv
<1> QED BY <1>2

LEMMA EditedFile ==
  ASSUME FileInv, NEW new, Edited(new), FileOk(new)
  PROVE  FileInv'
<1>1. /\ FileOk(file') /\ fileRow' = fileRow /\ edits' = edits + 1 /\ edits < MaxEdits
      /\ edits \in 0..MaxEdits /\ (fileRow.saved => fileRow \in RowType)
  BY TypeParts DEF Edited, FileInv
<1>2. edits' \in 0..MaxEdits
  BY <1>1, Given
<1>3. FileTypeOK'
  BY <1>1, <1>2 DEF FileTypeOK, FileOk, RowType
<1> QED BY <1>1, <1>3 DEF FileInv, BannersFit, Fits

LEMMA EditSettingStep ==
  ASSUME FileInv, EditSetting \/ EditBanners
  PROVE  FileInv'
<1>0. FileOk(file)
  BY TypeParts DEF FileInv
<1>1. ASSUME NEW n \in SettingNames, NEW v \in Settings[n], Edited([file EXCEPT ![n] = v])
      PROVE  FileInv'
  <2> DEFINE new == [file EXCEPT ![n] = v]
  <2>1. n \in FileNames /\ n \notin {"Banners", "Content", "nodes"}
    BY DEF SettingNames, FileNames
  <2>2. v \in JsonValue
    BY FileAssumption
  <2>3. /\ DOMAIN new = FileNames /\ new.Content = file.Content /\ new.nodes = file.nodes
        /\ new.Banners = file.Banners
        /\ \A m \in SettingNames : new[m] = IF m = n THEN v ELSE file[m]
    BY <1>0, <2>1 DEF FileOk, FileNames
  <2> HIDE DEF new
  <2>4. FileOk(new)
    BY <1>0, <2>2, <2>3 DEF FileOk
  <2> QED BY <1>1, <2>4, EditedFile DEF new
<1>2. ASSUME NEW b \in BannerLists, Edited([file EXCEPT !.Banners = b])
      PROVE  FileInv'
  <2> DEFINE new == [file EXCEPT !.Banners = b]
  <2>1. "Banners" \in FileNames /\ "Banners" \notin SettingNames /\ SettingNames \subseteq FileNames
    BY DEF SettingNames, FileNames
  <2>2. /\ DOMAIN new = FileNames /\ new.Content = file.Content /\ new.nodes = file.nodes
        /\ new.Banners = b /\ \A m \in SettingNames : new[m] = file[m]
    BY <1>0, <2>1 DEF FileOk, FileNames
  <2> HIDE DEF new
  <2>3. b \in BannersValue
    BY FileAssumption
  <2>4. FileOk(new)
    BY <1>0, <2>2, <2>3 DEF FileOk
  <2> QED BY <1>2, <2>4, EditedFile DEF new
<1> QED BY <1>1, <1>2 DEF EditSetting, EditBanners

\* An edit of what is neither a setting nor Banners.
LEMMA OtherEdits ==
  ASSUME FileInv, NEW n \in {"form", "Content", "nodes", "edges"}, NEW v,
         Edited([file EXCEPT ![n] = v]),
         n = "Content" => v \in Seq(BlockValue), n = "nodes" => v \in Seq(NodeValue)
  PROVE  FileInv'
<1> DEFINE new == [file EXCEPT ![n] = v]
<1>0. FileOk(file)
  BY TypeParts DEF FileInv
<1>1. /\ n \in FileNames /\ n \notin SettingNames /\ n # "Banners"
      /\ SettingNames \subseteq FileNames
      /\ {"Banners", "Content", "nodes"} \subseteq FileNames
  BY DEF SettingNames, FileNames
<1>2. /\ DOMAIN new = FileNames /\ new.Banners = file.Banners
      /\ \A m \in SettingNames : new[m] = file[m]
      /\ new.Content = IF n = "Content" THEN v ELSE file.Content
      /\ new.nodes = IF n = "nodes" THEN v ELSE file.nodes
  BY <1>0, <1>1 DEF FileOk
<1> HIDE DEF new
<1>3. FileOk(new)
  BY <1>0, <1>2 DEF FileOk
<1> QED BY <1>3, EditedFile DEF new

LEMMA EditContentStep ==
  ASSUME FileInv, EditContent
  PROVE  FileInv'
<1>0. file.Content \in Seq(BlockValue)
  BY DEF FileInv, FileTypeOK
<1>1. ASSUME NEW f, Edited([file EXCEPT !.form = f])
      PROVE  FileInv'
  BY <1>1, OtherEdits
<1>2. ASSUME NEW c \in Seq(BlockValue), Edited([file EXCEPT !.Content = c])
      PROVE  FileInv'
  BY <1>2, OtherEdits
<1>3. CASE \E b \in Blocks : Edited([file EXCEPT !.Content = Append(@, b)])
  <2>1. PICK b \in Blocks : Edited([file EXCEPT !.Content = Append(file.Content, b)])
    BY <1>3
  <2>2. Append(file.Content, b) \in Seq(BlockValue)
    BY <1>0, Given
  <2> QED BY <1>2, <2>1, <2>2
<1>4. CASE file.Content # <<>> /\ Edited([file EXCEPT !.Content = Tail(@)])
  <2>1. Tail(file.Content) \in Seq(BlockValue)
    BY <1>0, <1>4
  <2> QED BY <1>2, <1>4, <2>1
<1> QED BY <1>1, <1>3, <1>4 DEF EditContent

LEMMA EditFlowStep ==
  ASSUME FileInv, EditFlow
  PROVE  FileInv'
<1>0. file.nodes \in Seq(NodeValue)
  BY DEF FileInv, FileTypeOK
<1>1. ASSUME NEW nodes \in Seq(NodeValue), Edited([file EXCEPT !.nodes = nodes])
      PROVE  FileInv'
  BY <1>1, OtherEdits
<1>2. CASE \E i \in DOMAIN file.nodes : \E n \in Nodes : Edited([file EXCEPT !.nodes[i] = n])
  <2>1. PICK i \in DOMAIN file.nodes, n \in Nodes : Edited([file EXCEPT !.nodes[i] = n])
    BY <1>2
  <2> DEFINE nodes == [file.nodes EXCEPT ![i] = n]
  <2>2. nodes \in Seq(NodeValue)
    <3>1. n \in NodeValue /\ i \in 1..Len(file.nodes)
      BY <1>0, Given
    <3> QED BY <1>0, <3>1, ExceptSeq
  <2>3. Edited([file EXCEPT !.nodes = nodes])
    BY <2>1
  <2> HIDE DEF nodes
  <2> QED BY <1>1, <2>2, <2>3
<1>3. CASE \/ \E i \in DOMAIN file.edges : \E e \in Edges : Edited([file EXCEPT !.edges[i] = e])
           \/ Edited([file EXCEPT !.edges = Tail(@)])
  <2>1. PICK edges : Edited([file EXCEPT !.edges = edges])
    BY <1>3
  <2> QED BY <2>1, OtherEdits
<1>4. CASE file.nodes # <<>> /\ Edited([file EXCEPT !.nodes = Tail(@)])
  <2>1. Tail(file.nodes) \in Seq(NodeValue)
    BY <1>0, <1>4
  <2> QED BY <1>1, <1>4, <2>1
<1> QED BY <1>2, <1>3, <1>4 DEF EditFlow

LEMMA SaveFileStep ==
  ASSUME FileInv, SaveFile
  PROVE  FileInv'
<1>1. fileRow' = Columns /\ file' = file /\ edits' = edits /\ ~Refused /\ Fits(Columns)
  BY DEF SaveFile, Storable
<1>2. FileOk(file) /\ edits \in 0..MaxEdits
  BY TypeParts DEF FileInv
<1>3. Columns \in RowType /\ SetFits(Columns.set) /\ BannersFit(Columns)
  BY <1>1, <1>2, SavedFits
<1> DEFINE row == Columns
<1> HIDE DEF row
<1>4. row \in RowType /\ SetFits(row.set) /\ BannersFit(row) /\ Fits(row) /\ fileRow' = row
  BY <1>1, <1>3 DEF row
<1>5. FileTypeOK'
  BY <1>1, <1>2, <1>4 DEF FileTypeOK, FileOk, RowType
<1> QED BY <1>4, <1>5 DEF FileInv, BannersFit, Fits

LEMMA ExportStep ==
  ASSUME FileInv, ExportFile
  PROVE  FileInv'
<1>1. fileRow.saved /\ file' = Exported /\ fileRow' = fileRow /\ edits' = edits
  BY DEF ExportFile
<1>2. fileRow \in RowType /\ edits \in 0..MaxEdits /\ DOMAIN file = FileNames
  BY <1>1, TypeParts DEF FileInv, FileOk
<1>3. /\ fileRow.banners \in Seq(JsonValue) /\ fileRow.content \in Seq(BlockValue)
      /\ \A n \in SettingNames : fileRow.set[n] \in JsonValue
  BY <1>2 DEF RowType
<1>4. /\ DOMAIN Exported = FileNames
      /\ Exported.Banners = [type |-> "array", items |-> ShownBanners, fits |-> TRUE]
      /\ Exported.Content = fileRow.content /\ Exported.nodes = <<>>
  BY <1>2 DEF Exported, FileNames, SettingNames
<1>5. \A n \in SettingNames : Exported[n] = IF n \in {"Banner1", "Banner2"} THEN Null
                                                                         ELSE fileRow.set[n]
  BY <1>2 DEF Exported, FileNames, SettingNames
<1>6. ShownBanners \in Seq(JsonValue) /\ "array" \in JsonTypes
  BY <1>3, TextsAre DEF ShownBanners, JsonTypes
<1>7. FileOk(Exported)
  <2> DEFINE new == Exported
  <2>1. new.Banners \in BannersValue
    BY <1>4, <1>6 DEF BannersValue
  <2>2. \A n \in SettingNames : new[n] \in JsonValue
    BY <1>3, <1>5, ValuesAre
  <2>3. new.Content \in Seq(BlockValue) /\ new.nodes \in Seq(NodeValue)
    BY <1>3, <1>4
  <2> HIDE DEF new
  <2>4. DOMAIN new = FileNames
    BY <1>4 DEF new
  <2>5. FileOk(new)
    BY <2>1, <2>2, <2>3, <2>4 DEF FileOk
  <2> QED BY <2>5 DEF new
<1> DEFINE new == Exported
<1>8. FileOk(new) /\ file' = new
  BY <1>1, <1>7
<1> HIDE DEF new
<1>9. FileTypeOK'
  BY <1>1, <1>2, <1>8 DEF FileTypeOK, FileOk, RowType
<1> QED BY <1>1, <1>9 DEF FileInv, BannersFit, Fits

LEMMA FileStep ==
  ASSUME FileInv, [FileNext]_fileVars
  PROVE  FileInv'
<1>1. CASE UNCHANGED fileVars
  BY <1>1 DEF fileVars, FileInv, FileTypeOK, BannersFit, Fits
<1>2. CASE FileNext
  BY <1>2, EditSettingStep, EditContentStep, EditFlowStep, SaveFileStep, ExportStep DEF FileNext
<1> QED BY <1>1, <1>2

\* A file that the check finds without fault is saved, whatever edits, saves and exports
\* made it what it is, and however large the columns: unless it has one of the faults that
\* Unchecked names, on which the check is silent and the save or the database throws
\* (scenarioFileValidator.js:390-490, scenarioValidation.js:25-84, models/scenario.js:18-119).
THEOREM CleanFilesAreSaved == FileSpec => [](FileTypeOK /\ CleanFilesSave)
<1>1. FileInv => FileTypeOK /\ CleanFilesSave
  BY CleanIsSaved DEF FileInv
<1> QED BY <1>1, InitFile, FileStep, PTL DEF FileSpec

\* The flow of a file that the check finds without fault leads from block to block
\* (scenarioFlowValidator.js:63-204).
THEOREM CleanFlowsLeadOn == FileSpec => []CleanFlowRuns
<1>1. FileInv => CleanFlowRuns
  BY FlowRuns DEF FileInv
<1> QED BY <1>1, InitFile, FileStep, PTL DEF FileSpec

\* An export gives back what was saved: importing it is not refused and stores the same
\* columns again, the banners excepted that ExportRestores names (scenarioPresenter.js:13-20,
\* scenarioCrud.js:45-47).
THEOREM ExportsRestore == FileSpec => ExportRestores
<1> DEFINE Restored ==
      ExportFile /\ ShownBanners = fileRow.banners
          /\ (fileRow.banners = <<>> => ~Present(fileRow.set.Banner1))
          /\ (Len(fileRow.banners) < 2 => ~Present(fileRow.set.Banner2))
        => ~Refused' /\ Storable' /\ Columns' = fileRow
<1>1. FileInv => Restored
  BY Restores
<1>2. FileInv /\ [FileNext]_fileVars => FileInv' /\ [Restored]_fileVars
  BY <1>1, FileStep
<1>3. ExportRestores <=> [][Restored]_fileVars
  BY DEF ExportRestores
<1> HIDE DEF Restored
<1> QED BY <1>2, <1>3, InitFile, PTL DEF FileSpec
=============================================================================
