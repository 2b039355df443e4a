--------------------------- MODULE FeatureImages ----------------------------
(***************************************************************************)
(* The images uploaded for scenarios (modules/upload) and the rows that    *)
(* show them (scenarioCrud.js): an upload stores an object and answers its *)
(* URL; a save reads the row, commits the new URL, and then deletes the    *)
(* object of the URL it read; a deletion by the owner does the same, one   *)
(* by the administrator does not (adminService.js).                        *)
(*                                                                         *)
(* A row holds a URL, not an object: it shows one object and names one to  *)
(* delete, and another spelling of it may show or name the same one.       *)
(***************************************************************************)
EXTENDS Naturals, FiniteSets

CONSTANTS
    Scenario,       \* scenarios of one user
    Editor,         \* saves and deletions under way at once
    Image,          \* the objects that uploads store, under keys drawn once
    Url,            \* what a client may send for an image
    Shows,          \* the object a browser gets for a URL
    Names,          \* the object extractDeletableObject finds in it
    NoImage,        \* a row without an image
    NoRow,          \* a scenario not created yet
    Gone,           \* a deleted one: ids are never drawn again
    MaxImageEdits,  \* bound on the saves and deletions by owners
    MaxImageFaults  \* bound on the failures

ASSUME ImageAssumption ==
    /\ NoImage \notin Image /\ {NoImage, NoRow, Gone} \cap Url = {}
    /\ NoRow # NoImage /\ NoRow # Gone /\ NoImage # Gone
    /\ {Shows, Names} \subseteq [Url -> Image \cup {NoImage}]
    /\ {MaxImageEdits, MaxImageFaults} \subseteq Nat

VARIABLES
    objects,        \* the objects in the storages
    uploaded,       \* those ever stored, whose URLs the client knows
    featureImage,   \* of each scenario's row: a URL
    editor,         \* each request: where it is, its scenario, the URL it read, the one it writes
    used,           \* history: the URLs of rows
    entangled,      \* history: images of two URLs or rows, of overlapping requests, or of
                    \* rows the administrator has deleted
    imageEdits, imageFaults

imageVars == <<objects, uploaded, featureImage, editor, used, entangled,
               imageEdits, imageFaults>>

Exists(s) == featureImage[s] \notin {NoRow, Gone}

\* The objects a row with URL u has to do with. The regular expressions read the driver
\* and the key from the URL: none for S3, whose deleteObject does nothing anyway, and a
\* local key with a query or a fragment behind it is another key.
Touched(u) == IF u \in Url THEN {Shows[u], Names[u]} \cap Image ELSE {}

\* What a client may send: keys are random, so URLs of images that were uploaded.
Sendable == {u \in Url : Touched(u) \subseteq uploaded}

\* The objects some row has shown or named.
UsedImages == UNION {Touched(u) : u \in used}

Resting == [pc |-> "idle", of |-> NoRow, old |-> NoImage, new |-> NoImage]
Unlinking(u) == [Resting EXCEPT !.pc = "unlink", !.old = u]

ImageTypeOK ==
    /\ objects \subseteq uploaded /\ uploaded \subseteq Image
    /\ featureImage \in [Scenario -> Url \cup {NoImage, NoRow, Gone}]
    /\ editor \in [Editor -> {Resting} \cup {Unlinking(u) : u \in Url} \cup
            [pc : {"commit"}, of : Scenario,
             old : Url \cup {NoImage}, new : Url \cup {NoImage, Gone}]]
    /\ used \subseteq Sendable /\ entangled \subseteq uploaded
    /\ imageEdits \in 0..MaxImageEdits /\ imageFaults \in 0..MaxImageFaults

ImageInit ==
    /\ objects = {} /\ uploaded = {} /\ used = {} /\ entangled = {}
    /\ featureImage = [s \in Scenario |-> NoRow]
    /\ editor = [e \in Editor |-> Resting]
    /\ imageEdits = 0 /\ imageFaults = 0

ImageFault ==
    /\ imageFaults < MaxImageFaults
    /\ imageFaults' = imageFaults + 1

Rest(e) == editor' = [editor EXCEPT ![e] = Resting]
StartUnlink(e) == editor' = [editor EXCEPT ![e] = Unlinking(editor[e].old)]

Others(e, s) == {f \in Editor \ {e} : editor[f].of = s /\ editor[f].pc = "commit"}

\* What becomes of the histories when URL `new` is written over `old`. An image is
\* entangled when a row had to do with it before, elsewhere, earlier or by another
\* URL, and so are all those of requests on one row that overlap.
Written(e, s, old, new) ==
    /\ used' = used \cup ({new} \cap Url)
    /\ entangled' = entangled
            \cup (IF new # old THEN Touched(new) \cap UsedImages ELSE {})
            \cup (IF Others(e, s) # {}
                  THEN Touched(old) \cup Touched(new) \cup Touched(featureImage[s])
                       \cup UNION {Touched(editor[f].old) \cup Touched(editor[f].new) :
                                     f \in Others(e, s)}
                  ELSE {})

-----------------------------------------------------------------------------
\* saveImage: a new key, under the driver configured at the time.
Upload(i) ==
    /\ i \in Image \ uploaded
    /\ objects' = objects \cup {i}
    /\ uploaded' = uploaded \cup {i}
    /\ UNCHANGED <<featureImage, editor, used, entangled, imageEdits, imageFaults>>

CreateScenario(s) ==
    /\ featureImage[s] = NoRow
    /\ \E u \in Sendable \cup {NoImage} :
          /\ featureImage' = [featureImage EXCEPT ![s] = u]
          /\ used' = used \cup ({u} \cap Url)
          /\ entangled' = entangled \cup (Touched(u) \cap UsedImages)
    /\ UNCHANGED <<objects, uploaded, editor, imageEdits, imageFaults>>

\* updateScenario and deleteScenario (the new image is then Gone) read the row.
Edit(e, s) ==
    /\ editor[e] = Resting
    /\ Exists(s)
    /\ imageEdits < MaxImageEdits
    /\ imageEdits' = imageEdits + 1
    /\ \E u \in Sendable \cup {NoImage, Gone} :
          editor' = [editor EXCEPT ![e] = [pc |-> "commit", of |-> s,
                                           old |-> featureImage[s], new |-> u]]
    /\ UNCHANGED <<objects, uploaded, featureImage, used, entangled, imageFaults>>

\* Slip: the old image goes although the row keeps it.
MustUnlinkAlways(r) == r.old # NoImage

\* Slip: an image is deleted only when another takes its place.
MustUnlinkReplaced(r) == r.old # NoImage /\ r.old # r.new /\ r.new # NoImage

MustUnlink(r) == r.old # NoImage /\ r.old # r.new

\* The transaction. An update of a row that is gone changes nothing and goes on, a
\* deletion ends with 404.
Commit(e) ==
    /\ editor[e].pc = "commit"
    /\ LET r == editor[e]
       IN  \/ /\ Exists(r.of)
              /\ featureImage' = [featureImage EXCEPT ![r.of] = r.new]
              /\ Written(e, r.of, r.old, r.new)
              /\ IF MustUnlink(r) THEN StartUnlink(e) ELSE Rest(e)
           \/ /\ ~Exists(r.of)
              /\ IF r.new # Gone /\ MustUnlink(r) THEN StartUnlink(e) ELSE Rest(e)
              /\ UNCHANGED <<featureImage, used, entangled>>
    /\ UNCHANGED <<objects, uploaded, imageEdits, imageFaults>>

\* deleteImageByUrl: what the URL names, under the driver it names. Nothing is thrown
\* for an object that is not there.
Unlink(e) ==
    /\ editor[e].pc = "unlink"
    /\ objects' = objects \ {Names[editor[e].old]}
    /\ Rest(e)
    /\ UNCHANGED <<uploaded, featureImage, used, entangled, imageEdits, imageFaults>>

\* deleteSharedConfig, and the script that deletes a user: the row goes, its image stays.
DeleteSharedConfig(s) ==
    /\ Exists(s)
    /\ featureImage' = [featureImage EXCEPT ![s] = Gone]
    /\ entangled' = entangled \cup Touched(featureImage[s])
    /\ UNCHANGED <<objects, uploaded, editor, used, imageEdits, imageFaults>>

\* The transaction is rolled back, the deletion of the object fails and is logged, or
\* the process dies between the two.
EditFails(e) ==
    /\ editor[e] # Resting
    /\ ImageFault
    /\ Rest(e)
    /\ UNCHANGED <<objects, uploaded, featureImage, used, entangled, imageEdits>>

ImageNext ==
    \/ \E i \in Image : Upload(i)
    \/ \E s \in Scenario :
          CreateScenario(s) \/ DeleteSharedConfig(s) \/ \E e \in Editor : Edit(e, s)
    \/ \E e \in Editor : Commit(e) \/ Unlink(e) \/ EditFails(e)

ImageSpec == ImageInit /\ [][ImageNext]_imageVars

-----------------------------------------------------------------------------
(* Properties.                                                             *)

\* A row shows an image that exists, whatever fails between commit and deletion
\* (scenarioCrud.js:129-154, 165-193). Entangled images are excepted: an imported
\* copy shows the URL of its original, whose next image takes the object away, and a
\* row saved with another spelling of its URL has its own image deleted.
ShownImageExists ==
    \A s \in Scenario :
        featureImage[s] \in Url => Shows[featureImage[s]] \in objects \cup entangled \cup {NoImage}

\* The image that the URL of a row names is deleted, or about to be, when the row has it
\* no longer, unless something failed (objectUploadService.js:45-49, 79-91) or the
\* administrator deleted the row (adminService.js:10-17): then it stays for good.
ReplacedImageGone ==
    imageFaults = 0 =>
        \A u \in used :
            Names[u] \in objects \ entangled =>
                \/ \E s \in Scenario : featureImage[s] = u
                \/ \E e \in Editor : editor[e].pc = "unlink" /\ editor[e].old = u
=============================================================================
