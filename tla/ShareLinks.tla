----------------------------- MODULE ShareLinks -----------------------------
(***************************************************************************)
(* Sharing a scenario by a six-digit code (scenarioSharing.js): a toggle   *)
(* reads the row, turns IsShared of what it read, and saves by id; the     *)
(* unique index of ShareCode makes it draw again. Two toggles of one       *)
(* scenario, its deletion and its approval by an administrator interleave. *)
(***************************************************************************)
EXTENDS Naturals, FiniteSets

CONSTANTS
    Sharer,         \* scenarios that may be shared
    Toggle,         \* toggles under way at once
    ShareCode,      \* what generateShareCode draws from
    NoCode,
    ShareTries,     \* attempts to save an unused code: 5 in the code
    MaxShareFaults  \* bound on the failures

ASSUME ShareAssumption ==
    /\ {NoCode, "deleted"} \cap ShareCode = {} /\ NoCode \notin Sharer
    /\ ShareTries \in Nat \ {0} /\ MaxShareFaults \in Nat

VARIABLES
    shareRow,       \* IsShared and ShareCode of each row; Deleted for a row that is gone
    toggle,         \* each toggle: its scenario, IsShared of what it read, attempts left
    told,           \* history: what the owner was last told of each scenario
    contended,      \* history: scenarios whose toggles under way were not alone
    shareFaults

shareVars == <<shareRow, toggle, told, contended, shareFaults>>

Private == [shared |-> FALSE, code |-> NoCode]
Deleted == [shared |-> FALSE, code |-> "deleted"]
Unknown == [known |-> FALSE, code |-> NoCode]
Told(c) == [known |-> TRUE, code |-> c]
Stopped == Told(NoCode)
NotToggling == [of |-> NoCode, was |-> FALSE, left |-> 0]

\* Slip: IsShared forgotten in the WHERE.
OpensPrivate(code) == {s \in Sharer : shareRow[s].code = code}

\* Whoever has the code of a shared row opens it: isShareCodeAvailable and
\* getScenarioByShareCode.
Opens(code) == {s \in Sharer : shareRow[s].shared /\ shareRow[s].code = code}

\* Codes that the unique index refuses to scenario s: a private row keeps its code.
Taken(s) == {shareRow[r].code : r \in Sharer \ {s}}

Toggling(s) == {t \in Toggle : toggle[t].of = s}

ShareTypeOK ==
    /\ shareRow \in [Sharer -> {Deleted} \cup
                                [shared : BOOLEAN, code : ShareCode \cup {NoCode}]]
    /\ toggle \in [Toggle -> {NotToggling} \cup
                              [of : Sharer, was : BOOLEAN, left : 1..ShareTries]]
    /\ told \in [Sharer -> [known : BOOLEAN, code : ShareCode \cup {NoCode}]]
    /\ contended \subseteq Sharer
    /\ shareFaults \in 0..MaxShareFaults

ShareInit ==
    /\ shareRow = [s \in Sharer |-> Private]
    /\ toggle = [t \in Toggle |-> NotToggling]
    /\ told = [s \in Sharer |-> Unknown]
    /\ contended = {}
    /\ shareFaults = 0

\* The owner is answered, unless toggles overlapped: then the last one to be saved
\* may not be the last one to be read.
Tell(t, answer) ==
    LET s == toggle[t].of
    IN  /\ toggle' = [toggle EXCEPT ![t] = NotToggling]
        /\ told' = IF s \in contended THEN told ELSE [told EXCEPT ![s] = answer]
        /\ contended' = IF Toggling(s) = {t} THEN contended \ {s} ELSE contended

-----------------------------------------------------------------------------
\* shareScenario reads the row; 404 when it is gone.
FindToggled(t, s) ==
    /\ toggle[t] = NotToggling
    /\ shareRow[s] # Deleted
    /\ toggle' = [toggle EXCEPT ![t] =
                     [of |-> s, was |-> shareRow[s].shared, left |-> ShareTries]]
    /\ told' = [told EXCEPT ![s] = Unknown]
    /\ contended' = IF Toggling(s) = {} THEN contended ELSE contended \cup {s}
    /\ UNCHANGED <<shareRow, shareFaults>>

\* save() writes the columns that changed by id: nothing when the row is gone, and the
\* code is answered all the same.
SaveShared(t) ==
    LET s == toggle[t].of
    IN  /\ toggle[t] # NotToggling /\ ~toggle[t].was
        /\ \E c \in ShareCode \ Taken(s) :
              /\ shareRow' = [shareRow EXCEPT ![s] =
                                 IF @ = Deleted THEN @ ELSE [shared |-> TRUE, code |-> c]]
              /\ Tell(t, Told(c))
        /\ UNCHANGED shareFaults

\* The index refuses the code: another is drawn, after the last attempt 503.
SaveCollides(t) ==
    LET s == toggle[t].of
    IN  /\ toggle[t] # NotToggling /\ ~toggle[t].was
        /\ shareRow[s] # Deleted
        /\ ShareCode \cap Taken(s) # {}
        /\ IF toggle[t].left > 1
           THEN /\ toggle' = [toggle EXCEPT ![t].left = @ - 1]
                /\ UNCHANGED <<told, contended>>
           ELSE Tell(t, Unknown)
        /\ UNCHANGED <<shareRow, shareFaults>>

\* Turning it off saves IsShared alone: the row keeps the code.
SavePrivate(t) ==
    LET s == toggle[t].of
    IN  /\ toggle[t] # NotToggling /\ toggle[t].was
        /\ shareRow' = [shareRow EXCEPT ![s] =
                           IF @ = Deleted THEN @ ELSE [@ EXCEPT !.shared = FALSE]]
        /\ Tell(t, Stopped)
        /\ UNCHANGED shareFaults

\* The save throws, or the process dies, with the UPDATE done or not.
ToggleFails(t) ==
    LET s == toggle[t].of
    IN  /\ toggle[t] # NotToggling
        /\ shareFaults < MaxShareFaults
        /\ shareFaults' = shareFaults + 1
        /\ \/ UNCHANGED shareRow
           \/ /\ shareRow[s] # Deleted /\ toggle[t].was
              /\ shareRow' = [shareRow EXCEPT ![s].shared = FALSE]
           \/ /\ shareRow[s] # Deleted /\ ~toggle[t].was
              /\ \E c \in ShareCode \ Taken(s) :
                    shareRow' = [shareRow EXCEPT ![s] = [shared |-> TRUE, code |-> c]]
        /\ Tell(t, Unknown)

\* deleteScenario, by the owner, and deleteSharedConfig, by an administrator: its
\* code is free again.
DeleteShared(s) ==
    /\ shareRow[s] # Deleted
    /\ shareRow' = [shareRow EXCEPT ![s] = Deleted]
    /\ told' = [told EXCEPT ![s] = Unknown]
    /\ contended' = IF Toggling(s) = {} THEN contended ELSE contended \cup {s}
    /\ UNCHANGED <<toggle, shareFaults>>

\* approveSharedConfig, by an administrator, whom the code does not ask: a row that was
\* shared before is open again under its old code, one that never was has none.
ApproveShared(s) ==
    /\ shareRow[s] # Deleted
    /\ shareRow' = [shareRow EXCEPT ![s].shared = TRUE]
    /\ told' = [told EXCEPT ![s] = IF @ = Stopped THEN Unknown ELSE @]
    /\ contended' = IF Toggling(s) = {} THEN contended ELSE contended \cup {s}
    /\ UNCHANGED <<toggle, shareFaults>>

ShareNext ==
    \/ \E t \in Toggle :
          \/ \E s \in Sharer : FindToggled(t, s)
          \/ SaveShared(t) \/ SaveCollides(t) \/ SavePrivate(t) \/ ToggleFails(t)
    \/ \E s \in Sharer : DeleteShared(s) \/ ApproveShared(s)

ShareSpec == ShareInit /\ [][ShareNext]_shareVars

-----------------------------------------------------------------------------
(* Properties.                                                             *)

\* The owner is told the truth: the code answered opens this scenario and no other, and
\* after "stopped" no code opens it, until it is toggled again, approved by an
\* administrator or deleted, whatever other scenarios draw (scenarioSharing.js:35-58).
\* Toggles that overlap are excepted: of two codes answered to a double click one is dead.
OwnerToldTruth ==
    \A s \in Sharer :
        /\ told[s] = Stopped => \A c \in ShareCode : s \notin Opens(c)
        /\ \A c \in ShareCode : told[s] = Told(c) => Opens(c) = {s}
=============================================================================
