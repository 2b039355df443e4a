------------------------------ MODULE ListPages -----------------------------
(***************************************************************************)
(* A client that goes through a list page by page while hasMore says that  *)
(* there is more: its own scenarios, the public ones (scenarioCrud.js) and *)
(* its activities (userActivityService.js). A page is two queries sent     *)
(* together, one that counts and one that fetches; the list changes        *)
(* between pages, and between the two.                                     *)
(***************************************************************************)
EXTENDS Integers, SequencesExt

CONSTANTS
    Item,           \* rows that the list may have
    First,          \* those it has at first, in order
    Asked,          \* limits that clients ask for (0: or none)
    DefaultLimit,   \* 50 in the code
    MaxLimit,       \* 100 in the code
    MaxListChanges      \* bound on the changes of the list

ASSUME PageAssumption ==
    /\ First \in Seq(Item) /\ IsInjective(First)
    /\ Asked \subseteq Int
    /\ MaxLimit \in Nat \ {0} /\ DefaultLimit \in 1..MaxLimit
    /\ MaxListChanges \in Nat

VARIABLES
    list,           \* the list that is read, and its order
    listed,         \* its rows in that order
    page,           \* the reader: where it is, limit and offset of its page, the count and
                    \* the rows it was answered, every row it has got
    before,         \* history: rows there when it began, and not touched since
    shifted,        \* history: rows not reached yet have moved up
    uncounted,      \* history: a row was created after the count and before the fetch
    listChanges

pageVars == <<list, listed, page, before, shifted, uncounted, listChanges>>

Least(a, b) == IF a < b THEN a ELSE b

NotPaging == [pc |-> "idle", limit |-> 0, offset |-> 0, count |-> 0, rows |-> {}, got |-> {}]

PageTypeOK ==
    /\ list \in {"mine", "newest", "oldest", "activities"}
    /\ listed \in Seq(Item)
    /\ page \in [pc : {"idle", "ask", "counted", "fetched", "answer", "done"}, limit : Nat,
                 offset : Nat, count : Nat, rows : SUBSET Item, got : SUBSET Item]
    /\ before \subseteq Item
    /\ shifted \in BOOLEAN /\ uncounted \in BOOLEAN
    /\ listChanges \in 0..MaxListChanges

PageInit ==
    /\ list \in {"mine", "newest", "oldest", "activities"}
    /\ listed = First
    /\ page = NotPaging
    /\ before = {}
    /\ shifted = FALSE /\ uncounted = FALSE
    /\ listChanges = 0

-----------------------------------------------------------------------------
(* The reader.                                                             *)

\* Of scenarios Number(limit) || 50, between 1 and 100; of activities parseInt(limit).
Limit(n) ==
    IF list = "activities" THEN n
    ELSE Least(IF n = 0 THEN DefaultLimit ELSE IF n < 0 THEN 1 ELSE n, MaxLimit)

\* A limit below 0 is an SQL error for activities, 400 for the public list.
OpenList ==
    /\ page.pc = "idle"
    /\ \E n \in Asked :
          /\ list # "mine" => n >= 0
          /\ page' = [NotPaging EXCEPT !.pc = "ask", !.limit = Limit(n)]
    /\ before' = ToSet(listed)
    /\ UNCHANGED <<list, listed, shifted, uncounted, listChanges>>

\* findAndCountAll sends both queries; either is answered first.
CountRows ==
    /\ page.pc \in {"ask", "fetched"}
    /\ page' = [page EXCEPT !.pc = IF @ = "ask" THEN "counted" ELSE "answer",
                            !.count = Len(listed)]
    /\ UNCHANGED <<list, listed, before, shifted, uncounted, listChanges>>

FetchRows ==
    /\ page.pc \in {"ask", "counted"}
    /\ LET rows == ToSet(SubSeq(listed, page.offset + 1,
                                Least(page.offset + page.limit, Len(listed))))
       IN  page' = [page EXCEPT !.pc = IF @ = "ask" THEN "fetched" ELSE "answer",
                                !.rows = rows, !.got = @ \cup rows]
    /\ UNCHANGED <<list, listed, before, shifted, uncounted, listChanges>>

\* offset + parseInt(limit) of the activities: the offset of a query string is text, and
\* the limit is appended to its digits; only the default of the first page is a number.
Digits(n) == CHOOSE k \in 1..(n + 1) : n < 10^k /\ (k = 1 \/ 10^(k - 1) <= n)
ActivitiesReach ==
    IF page.offset = 0 THEN page.limit
    ELSE page.offset * 10^Digits(page.limit) + page.limit

\* Slip: the sum of the activities for every list.
HasMoreByText == page.count > ActivitiesReach

\* offset + scenarios.length < total.
HasMore ==
    page.count > IF list = "activities" THEN ActivitiesReach
                 ELSE page.offset + Cardinality(page.rows)

\* The client asks for the next page, or stops.
FollowPages ==
    /\ page.pc = "answer"
    /\ page' = IF HasMore THEN [page EXCEPT !.pc = "ask", !.offset = @ + page.limit,
                                            !.count = 0, !.rows = {}]
               ELSE [page EXCEPT !.pc = "done"]
    /\ UNCHANGED <<list, listed, before, shifted, uncounted, listChanges>>

-----------------------------------------------------------------------------
(* The list changes. Scenarios of the same second have no order of their   *)
(* own in the queries; here no two rows are of the same second.            *)

Changes ==
    /\ page.pc \notin {"idle", "done"}
    /\ listChanges < MaxListChanges
    /\ listChanges' = listChanges + 1
    /\ UNCHANGED list

\* Rows that the reader has passed.
Passed == page.offset + IF page.pc \in {"fetched", "answer"} THEN page.limit ELSE 0

Position(i) == CHOOSE k \in 1..Len(listed) : listed[k] = i
Without(i) == RemoveAt(listed, Position(i))

\* A row is created, the last one of its second; a scenario becomes public, and stands
\* where its ModifiedAt puts it.
AddRow(i) ==
    /\ Changes
    /\ i \notin ToSet(listed)
    /\ IF list \in {"mine", "activities"} THEN listed' = <<i>> \o listed
       ELSE \E k \in 1..Len(listed) + 1 : listed' = InsertAt(listed, k, i)
    /\ uncounted' = (uncounted \/ page.pc = "counted")
    /\ UNCHANGED <<page, before, shifted>>

\* A row is deleted, an old activity cleaned up, a scenario no longer public.
RemoveRow(i) ==
    /\ Changes
    /\ i \in ToSet(listed)
    /\ listed' = Without(i)
    /\ before' = before \ {i}
    /\ shifted' = (shifted \/ Position(i) <= Passed)
    /\ UNCHANGED <<page, uncounted>>

\* A public scenario is saved: it is the last one modified.
TouchRow(i) ==
    /\ Changes
    /\ list \in {"newest", "oldest"} /\ i \in ToSet(listed)
    /\ listed' = IF list = "newest" THEN <<i>> \o Without(i) ELSE Append(Without(i), i)
    /\ before' = before \ {i}
    /\ shifted' = (shifted \/ (list = "oldest" /\ Position(i) <= Passed))
    /\ UNCHANGED <<page, uncounted>>

PageNext ==
    \/ OpenList \/ CountRows \/ FetchRows \/ FollowPages
    \/ \E i \in Item : AddRow(i) \/ RemoveRow(i) \/ TouchRow(i)

PageSpec == PageInit /\ [][PageNext]_pageVars

-----------------------------------------------------------------------------
(* Properties.                                                             *)

\* A client that has followed hasMore to the end has got every scenario that was there
\* all the time: what is created, shared, saved or deleted meanwhile hides none of the
\* others (scenarioCrud.js:204-271, scenarioController.js:191, 302). Excepted: a row
\* that leaves a place already passed draws the next ones over the edge of a page, and
\* one created between the two queries of a page is not counted. Activities are
\* excepted too: of the second page nobody is told that a third one follows.
NothingHidden ==
    page.pc = "done" /\ list # "activities" /\ ~shifted /\ ~uncounted =>
        before \subseteq page.got
=============================================================================
