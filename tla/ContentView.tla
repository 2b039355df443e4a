---------------------------- MODULE ContentView -----------------------------
(***************************************************************************)
(* What a reader sees of one scenario (scenarioContentMapper.js): the      *)
(* Content column of MySQL, and for rows of the older version, whose       *)
(* column is empty, the Firestore document behind a cache in Redis         *)
(* (scenarioFirestoreService.js). The outbox worker brings the document    *)
(* after the row, in any order, while readers are under way.               *)
(***************************************************************************)
EXTENDS Naturals, FiniteSets

CONSTANTS
    Reader,             \* requests that read, a client each
    MaxSaves,           \* bound: saves
    ViewFaults,         \* what may fail: "firestore", "get", "set", "del"
    MaxViewFaults       \* bound on the failures

ASSUME ViewAssumption ==
    /\ MaxSaves \in Nat /\ MaxViewFaults \in Nat
    /\ ViewFaults \subseteq {"firestore", "get", "set", "del"}

\* A block list: the save it comes from (0: the older version), and whether it has
\* blocks. Without blocks it is null, an empty column or an empty list.
Content == [save : 0..MaxSaves, blocks : BOOLEAN]
OldBlocks == [save |-> 0, blocks |-> TRUE]
Nothing == [save |-> 0, blocks |-> FALSE]
NoKey == [save |-> MaxSaves + 1, blocks |-> FALSE]

VARIABLES
    column,         \* Scenarios.Content
    document,       \* the Firestore document (Nothing: none)
    cached,         \* the key scenario:content:cache:<id>
    unsynced,       \* saves whose job is under way: its commit to come, or only its DEL
    reader,         \* each read: where it is, what it holds, the save it started after, and
                    \* whether Firestore failed it
    viewFaults

viewVars == <<column, document, cached, unsynced, reader, viewFaults>>

NotReading == [pc |-> "idle", got |-> Nothing, floor |-> 0, failed |-> FALSE]

ViewTypeOK ==
    /\ column \in Content
    /\ document \in Content
    /\ cached \in Content \cup {NoKey}
    /\ unsynced \subseteq [content : Content, pc : {"commit", "invalidate"}]
    /\ reader \in [Reader -> [pc : {"idle", "row", "cache", "firestore", "fill", "shown"},
                              got : Content, floor : 0..MaxSaves, failed : BOOLEAN]]
    /\ viewFaults \in 0..MaxViewFaults

\* A row of the older version whose blocks are in Firestore only.
ViewInit ==
    /\ column = Nothing
    /\ document = OldBlocks
    /\ cached = NoKey
    /\ unsynced = {}
    /\ reader = [r \in Reader |-> NotReading]
    /\ viewFaults = 0

ViewFault(kind) ==
    /\ kind \in ViewFaults
    /\ viewFaults < MaxViewFaults
    /\ viewFaults' = viewFaults + 1

\* hasStoredMysqlContent: every save stores text, "[]" too.
HasStoredMysqlContent(c) == c.save > 0

Holds(r, pc, content) == reader' = [reader EXCEPT ![r].pc = pc, ![r].got = content]

-----------------------------------------------------------------------------
(* attachScenarioContent, for one scenario or for a page of them.          *)

StartRead(r) ==
    /\ reader[r].pc \in {"idle", "shown"}
    /\ reader' = [reader EXCEPT ![r] = [NotReading EXCEPT !.pc = "row",
                                                            !.floor = column.save]]
    /\ UNCHANGED <<column, document, cached, unsynced, viewFaults>>

\* Slip: Firestore is asked first.
ReadRowLast(r) ==
    /\ reader[r].pc = "row"
    /\ Holds(r, "cache", column)
    /\ UNCHANGED <<column, document, cached, unsynced, viewFaults>>

ReadRow(r) ==
    /\ reader[r].pc = "row"
    /\ Holds(r, IF HasStoredMysqlContent(column) THEN "shown" ELSE "cache", column)
    /\ UNCHANGED <<column, document, cached, unsynced, viewFaults>>

\* cacheGetContent: null is a hit, the document was missing or empty.
CacheGet(r) ==
    /\ reader[r].pc = "cache"
    /\ IF cached = NoKey THEN Holds(r, "firestore", Nothing) ELSE Holds(r, "shown", cached)
    /\ UNCHANGED <<column, document, cached, unsynced, viewFaults>>

CacheGetFails(r) ==
    /\ reader[r].pc = "cache"
    /\ ViewFault("get")
    /\ Holds(r, "firestore", Nothing)
    /\ UNCHANGED <<column, document, cached, unsynced>>

FirestoreGet(r) ==
    /\ reader[r].pc = "firestore"
    /\ Holds(r, "fill", document)
    /\ UNCHANGED <<column, document, cached, unsynced, viewFaults>>

\* Slip: the empty answer is cached like a document.
FirestoreGetFailsCached(r) ==
    /\ reader[r].pc = "firestore"
    /\ ViewFault("firestore")
    /\ reader' = [reader EXCEPT ![r].pc = "fill", ![r].got = Nothing, ![r].failed = TRUE]
    /\ UNCHANGED <<column, document, cached, unsynced>>

\* The read fails or Firebase is off: the answer is an empty list, and is not cached.
FirestoreGetFails(r) ==
    /\ reader[r].pc = "firestore"
    /\ ViewFault("firestore")
    /\ reader' = [reader EXCEPT ![r].pc = "shown", ![r].got = Nothing, ![r].failed = TRUE]
    /\ UNCHANGED <<column, document, cached, unsynced>>

CacheSet(r) ==
    /\ reader[r].pc = "fill"
    /\ cached' = reader[r].got
    /\ Holds(r, "shown", reader[r].got)
    /\ UNCHANGED <<column, document, unsynced, viewFaults>>

CacheSetFails(r) ==
    /\ reader[r].pc = "fill"
    /\ ViewFault("set")
    /\ Holds(r, "shown", reader[r].got)
    /\ UNCHANGED <<column, document, cached, unsynced>>

-----------------------------------------------------------------------------
\* updateScenario: the client saves what it was shown, edited, its blocks perhaps all
\* deleted; the job that follows belongs to the outbox.
SaveShown(r) ==
    /\ reader[r].pc = "shown"
    /\ column.save < MaxSaves
    /\ \E blocks \in BOOLEAN :
          LET new == [save |-> column.save + 1, blocks |-> blocks]
          IN  /\ column' = new
              /\ unsynced' = unsynced \cup {[content |-> new, pc |-> "commit"]}
    /\ reader' = [reader EXCEPT ![r] = NotReading]
    /\ UNCHANGED <<document, cached, viewFaults>>

\* batchSaveScenarioContent: the commit, then the DEL of the cache key. The jobs of
\* two saves may be committed in either order.
CommitDocument(job) ==
    /\ job.pc = "commit"
    /\ document' = job.content
    /\ unsynced' = (unsynced \ {job}) \cup {[job EXCEPT !.pc = "invalidate"]}
    /\ UNCHANGED <<column, cached, reader, viewFaults>>

InvalidateCache(job) ==
    /\ job.pc = "invalidate"
    /\ cached' = NoKey
    /\ unsynced' = unsynced \ {job}
    /\ UNCHANGED <<column, document, reader, viewFaults>>

InvalidateFails(job) ==
    /\ job.pc = "invalidate"
    /\ ViewFault("del")
    /\ unsynced' = unsynced \ {job}
    /\ UNCHANGED <<column, document, cached, reader>>

CacheExpires ==
    /\ cached # NoKey
    /\ cached' = NoKey
    /\ UNCHANGED <<column, document, unsynced, reader, viewFaults>>

ViewNext ==
    \/ \E r \in Reader :
          \/ StartRead(r) \/ ReadRow(r)
          \/ CacheGet(r) \/ CacheGetFails(r)
          \/ FirestoreGet(r) \/ FirestoreGetFails(r)
          \/ CacheSet(r) \/ CacheSetFails(r)
          \/ SaveShown(r)
    \/ \E job \in unsynced : CommitDocument(job) \/ InvalidateCache(job) \/ InvalidateFails(job)
    \/ CacheExpires

ViewSpec == ViewInit /\ [][ViewNext]_viewVars

-----------------------------------------------------------------------------
(* Properties.                                                             *)

\* A read answers no older blocks than those saved when it began, however late the
\* worker is and whatever the cache holds: blocks that a save deleted do not come back
\* (scenarioContentMapper.js:4-7, 17-20).
ReadsSeeSaves ==
    \A r \in Reader : reader[r].pc = "shown" => reader[r].got.save >= reader[r].floor

\* Blocks of the older version are shown until they are saved: only the very read that
\* Firestore failed is answered an empty list in their place, and nobody after it. A
\* client that saves that answer loses them (scenarioFirestoreService.js:137-144).
OldBlocksShown ==
    \A r \in Reader :
        reader[r].pc = "shown" /\ ~reader[r].failed =>
            reader[r].got.save > 0 \/ reader[r].got.blocks
=============================================================================
