--------------------------- MODULE PasswordResets ---------------------------
(***************************************************************************)
(* The reset codes of one verified local account (requestPasswordReset,    *)
(* resetPasswordWithCode, modules/auth/services): a request replaces the   *)
(* account's codes by a new one and mails it, a reset spends the code and  *)
(* writes the password. Both interleave at every await.                    *)
(***************************************************************************)
EXTENDS Naturals, FiniteSets

CONSTANTS
    Caller,         \* requests under way at once
    ResetCode,      \* the codes that may be drawn
    MaxResetRows,   \* bound: rows inserted
    ResetFaults,    \* what may fail: "mail", "db", "crash"
    MaxResetFaults  \* bound on the failures

ASSUME ResetAssumption ==
    /\ MaxResetRows \in Nat /\ MaxResetFaults \in Nat
    /\ ResetFaults \subseteq {"mail", "db", "crash"}

Id == 0..MaxResetRows
NoId == 0

VARIABLES
    resets,         \* the account's PasswordResets rows
    elsewhere,      \* codes that rows of other accounts hold: resetCode is unique
    lastId,         \* the last row id given
    caller,         \* each request: where it is, its code, the row it found or inserted
    inbox,          \* codes that reached the mailbox
    password,       \* the row whose code set the password (NoId: the first one)
    changes,        \* history: how often a row's code changed the password
    dependable,     \* history: the row whose code its holder may count on
    resetFaults

resetVars == <<resets, elsewhere, lastId, caller, inbox, password, changes, dependable,
               resetFaults>>

Away == [pc |-> "idle", code |-> "", id |-> NoId]

ResetTypeOK ==
    /\ resets \subseteq [id : Id, code : ResetCode, used : BOOLEAN, expired : BOOLEAN]
    /\ elsewhere \subseteq ResetCode
    /\ lastId \in Id
    /\ caller \in [Caller -> {Away} \cup
            [pc : {"clear", "insert", "mail", "find", "mark", "write", "sweep"},
             code : ResetCode, id : Id]]
    /\ inbox \subseteq ResetCode
    /\ password \in Id
    /\ changes \in [Id -> Nat]
    /\ dependable \in Id
    /\ resetFaults \in 0..MaxResetFaults

ResetInit ==
    /\ resets = {}
    /\ elsewhere \in SUBSET ResetCode
    /\ lastId = NoId
    /\ caller = [q \in Caller |-> Away]
    /\ inbox = {}
    /\ password = NoId
    /\ changes = [i \in Id |-> 0]
    /\ dependable = NoId
    /\ resetFaults = 0

ResetFault(kind) ==
    /\ kind \in ResetFaults
    /\ resetFaults < MaxResetFaults
    /\ resetFaults' = resetFaults + 1

At(q, pc) == caller[q].pc = pc
GoOn(q, pc) == caller' = [caller EXCEPT ![q].pc = pc]
WithRow(q, pc, id) == caller' = [caller EXCEPT ![q].pc = pc, ![q].id = id]
Leave(q) == caller' = [caller EXCEPT ![q] = Away]

Asking == {q \in Caller : caller[q].pc \in {"clear", "insert", "mail"}}

-----------------------------------------------------------------------------
(* requestPasswordReset: delete the account's codes, insert the new one,   *)
(* mail it. Other accounts, Google's and unverified ones are turned away.  *)

RequestReset(q) ==
    /\ caller[q] = Away
    /\ \E code \in ResetCode :
          caller' = [caller EXCEPT ![q] = [pc |-> "clear", code |-> code, id |-> NoId]]
    /\ dependable' = NoId
    /\ UNCHANGED <<resets, elsewhere, lastId, inbox, password, changes, resetFaults>>

ClearRows(q) ==
    /\ At(q, "clear")
    /\ resets' = {}
    /\ GoOn(q, "insert")
    /\ UNCHANGED <<elsewhere, lastId, inbox, password, changes, dependable, resetFaults>>

\* A code that another row holds breaks the unique index: 500, the old codes gone.
InsertRow(q) ==
    /\ At(q, "insert")
    /\ LET code == caller[q].code
       IN  \/ /\ code \notin elsewhere \cup {r.code : r \in resets}
              /\ lastId < MaxResetRows
              /\ lastId' = lastId + 1
              /\ resets' = resets \cup
                    {[id |-> lastId + 1, code |-> code, used |-> FALSE, expired |-> FALSE]}
              /\ WithRow(q, "mail", lastId + 1)
              /\ dependable' = IF Asking = {q} THEN lastId + 1 ELSE dependable
           \/ /\ code \in elsewhere \cup {r.code : r \in resets}
              /\ Leave(q)
              /\ UNCHANGED <<resets, lastId, dependable>>
    /\ UNCHANGED <<elsewhere, inbox, password, changes, resetFaults>>

MailReset(q) ==
    /\ At(q, "mail")
    /\ inbox' = inbox \cup {caller[q].code}
    /\ Leave(q)
    /\ UNCHANGED <<resets, elsewhere, lastId, password, changes, dependable, resetFaults>>

ResetMailFails(q) ==
    /\ At(q, "mail")
    /\ ResetFault("mail")
    /\ Leave(q)
    /\ UNCHANGED <<resets, elsewhere, lastId, inbox, password, changes, dependable>>

-----------------------------------------------------------------------------
(* resetPasswordWithCode, and verifyPasswordResetCode, its first step alone. *)

ResetPassword(q) ==
    /\ caller[q] = Away
    /\ \E code \in inbox :
          caller' = [caller EXCEPT ![q] = [pc |-> "find", code |-> code, id |-> NoId]]
    /\ UNCHANGED <<resets, elsewhere, lastId, inbox, password, changes, dependable, resetFaults>>

FindReset(q) ==
    /\ At(q, "find")
    /\ LET found == {r \in resets : r.code = caller[q].code /\ ~r.used /\ ~r.expired}
       IN  \/ found = {} /\ Leave(q)
           \/ \E r \in found : WithRow(q, "mark", r.id)
    /\ UNCHANGED <<resets, elsewhere, lastId, inbox, password, changes, dependable, resetFaults>>

\* The form that asks for the code first: it is found, and stays as it is.
VerifyPasswordResetCode(q) ==
    /\ At(q, "find")
    /\ \E r \in resets : r.code = caller[q].code /\ ~r.used /\ ~r.expired
    /\ Leave(q)
    /\ UNCHANGED <<resets, elsewhere, lastId, inbox, password, changes, dependable, resetFaults>>

\* Slip: the number of rows updated is not looked at.
MarkUsedUnseen(q) ==
    /\ At(q, "mark")
    /\ LET mine == {r \in resets : r.id = caller[q].id /\ ~r.used}
       IN  \/ mine = {} /\ GoOn(q, "write") /\ UNCHANGED <<resets, dependable>>
           \/ /\ mine # {}
              /\ resets' = (resets \ mine) \cup {[r EXCEPT !.used = TRUE] : r \in mine}
              /\ dependable' = IF dependable = caller[q].id THEN NoId ELSE dependable
              /\ GoOn(q, "write")
    /\ UNCHANGED <<elsewhere, lastId, inbox, password, changes, resetFaults>>

\* UPDATE ... SET used WHERE id AND NOT used: one of those that found the row goes on.
MarkUsed(q) ==
    /\ At(q, "mark")
    /\ LET mine == {r \in resets : r.id = caller[q].id /\ ~r.used}
       IN  \/ mine = {} /\ Leave(q) /\ UNCHANGED <<resets, dependable>>
           \/ /\ mine # {}
              /\ resets' = (resets \ mine) \cup {[r EXCEPT !.used = TRUE] : r \in mine}
              /\ dependable' = IF dependable = caller[q].id THEN NoId ELSE dependable
              /\ GoOn(q, "write")
    /\ UNCHANGED <<elsewhere, lastId, inbox, password, changes, resetFaults>>

WritePassword(q) ==
    /\ At(q, "write")
    /\ password' = caller[q].id
    /\ changes' = [changes EXCEPT ![caller[q].id] = @ + 1]
    /\ GoOn(q, "sweep")
    /\ UNCHANGED <<resets, elsewhere, lastId, inbox, dependable, resetFaults>>

\* Slip: used = true forgotten in the DELETE.
SweepAll(q) ==
    /\ At(q, "sweep")
    /\ resets' = {}
    /\ Leave(q)
    /\ UNCHANGED <<elsewhere, lastId, inbox, password, changes, dependable, resetFaults>>

SweepUsed(q) ==
    /\ At(q, "sweep")
    /\ resets' = {r \in resets : ~r.used}
    /\ Leave(q)
    /\ UNCHANGED <<elsewhere, lastId, inbox, password, changes, dependable, resetFaults>>

-----------------------------------------------------------------------------
ExpireReset(r) ==
    /\ r \in resets /\ ~r.expired
    /\ resets' = (resets \ {r}) \cup {[r EXCEPT !.expired = TRUE]}
    /\ dependable' = IF dependable = r.id THEN NoId ELSE dependable
    /\ UNCHANGED <<elsewhere, lastId, caller, inbox, password, changes, resetFaults>>

\* cleanupExpiredAuthCodes, for every account's rows. A used row expires before the
\* days that used rows are kept are over.
CleanupResets ==
    /\ \/ resets' = {r \in resets : ~r.expired} /\ UNCHANGED elsewhere
       \/ elsewhere' = {} /\ UNCHANGED resets
    /\ UNCHANGED <<lastId, caller, inbox, password, changes, dependable, resetFaults>>

ResetStatementFails(q) ==
    /\ caller[q] # Away
    /\ ResetFault("db")
    /\ Leave(q)
    /\ UNCHANGED <<resets, elsewhere, lastId, inbox, password, changes, dependable>>

ResetCrash ==
    /\ ResetFault("crash")
    /\ caller' = [q \in Caller |-> Away]
    /\ UNCHANGED <<resets, elsewhere, lastId, inbox, password, changes, dependable>>

ResetNext ==
    \/ \E q \in Caller :
          \/ RequestReset(q) \/ ClearRows(q) \/ InsertRow(q) \/ MailReset(q)
          \/ ResetMailFails(q)
          \/ ResetPassword(q) \/ FindReset(q) \/ VerifyPasswordResetCode(q)
          \/ MarkUsed(q) \/ WritePassword(q) \/ SweepUsed(q)
          \/ ResetStatementFails(q)
    \/ \E r \in resets : ExpireReset(r)
    \/ CleanupResets
    \/ ResetCrash

ResetSpec == ResetInit /\ [][ResetNext]_resetVars

-----------------------------------------------------------------------------
(* Properties.                                                             *)

\* A reset code changes the password once, however many requests present it at the
\* same moment and whatever new codes are asked for meanwhile (authFlowService.js:173-183).
CodeResetsOnce == \A i \in Id : changes[i] <= 1

\* The code asked for last is there, unspent, until it is used or expires: no reset
\* under way with another code, no clean-up and no failure deletes it
\* (authDomainService.js:70-80, 110-145, authFlowService.js:183). Two requests for a
\* code at once are excepted: the slower one deletes the code of the other.
LastCodeWorks ==
    dependable # NoId =>
        \E r \in resets : r.id = dependable /\ ~r.used /\ ~r.expired
=============================================================================
