--------------------------- MODULE ContentMirror ---------------------------
(***************************************************************************)
(* What the outbox promises about the mirror of the scenarios: a work that *)
(* was accepted leaves the queue only when the mirror has it, or for the   *)
(* dead letters, where it waits to be taken over; and the mirror holds     *)
(* nothing that was not accepted.  Works come as often as they like and in *)
(* any order: the queue promises "at least once", not "in order".          *)
(***************************************************************************)
EXTENDS Naturals

CONSTANTS
    Scenario,  \* whose contents are mirrored
    NoDoc      \* "no document", also the content of a delete

VARIABLES
    queued,    \* the works accepted and not settled
    buried,    \* the dead letters
    stored,    \* for each scenario, the contents the mirror was ever given
    mirror,    \* for each scenario, the content the mirror has now
    halfway    \* a failed batch is being put back, by calls that may stop halfway:
               \* the only time a work is lost (not ours to change)

ours == <<queued, buried, stored, mirror>>

Work == [action: {"sync", "delete"}, scenario: Scenario, content: Nat]

MirrorInit ==
    /\ queued = {} /\ buried = {}
    /\ stored = [s \in Scenario |-> {}]
    /\ mirror = [s \in Scenario |-> NoDoc]

\* What the mirror should have after a work is there.
Done(w) ==
    IF w.action = "sync" THEN w.content \in stored[w.scenario] ELSE mirror[w.scenario] = NoDoc

Accept(w) ==
    /\ w \in Work
    /\ queued' = queued \cup {w}
    /\ UNCHANGED <<buried, stored, mirror>>

\* The mirror takes the works W, in whatever order: each is stored, one stays.
Write(W) ==
    LET Contents(s) == {w.content : w \in {v \in W : v.scenario = s}} IN
    /\ \A w \in W : w.action = "sync"
    /\ stored' = [s \in Scenario |-> stored[s] \cup Contents(s)]
    /\ mirror' \in [Scenario -> Nat]
    /\ \A s \in Scenario :
         mirror'[s] \in IF Contents(s) = {} THEN {mirror[s]} ELSE Contents(s)
    /\ UNCHANGED <<queued, buried>>

Erase(S) ==
    /\ \A s \in S : \E w \in queued : w.action = "delete" /\ w.scenario = s
    /\ mirror' = [s \in Scenario |-> IF s \in S THEN NoDoc ELSE mirror[s]]
    /\ UNCHANGED <<queued, buried, stored>>

Settle(W) ==
    /\ \A w \in W : Done(w)
    /\ queued' = queued \ W
    /\ UNCHANGED <<buried, stored, mirror>>

\* The queue gives a work up; a copy of it may be queued all the same.
Bury(w) ==
    /\ w \in Work
    /\ buried' = buried \cup {w}
    /\ queued' \in {queued, queued \ {w}}
    /\ UNCHANGED <<stored, mirror>>

\* A reconcile pass answers for the work from now on.
TakeOver(w) ==
    /\ buried' = buried \ {w}
    /\ UNCHANGED <<queued, stored, mirror>>

Lose(w) ==
    /\ halfway
    /\ queued' = queued \ {w}
    /\ UNCHANGED <<buried, stored, mirror>>

MirrorNext ==
    \/ \E w \in queued' : Accept(w)
    \/ \E w \in buried' : Bury(w)
    \/ \E W \in SUBSET queued : Write(W) \/ Settle(W)
    \/ \E S \in SUBSET Scenario : Erase(S)
    \/ \E w \in queued : Lose(w)
    \/ \E w \in buried : TakeOver(w)

MirrorSpec == MirrorInit /\ [][MirrorNext]_ours
=============================================================================
