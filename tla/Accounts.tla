------------------------------ MODULE Accounts ------------------------------
(***************************************************************************)
(* How one e-mail address becomes an account (modules/auth/services): a    *)
(* pending registration and its code, the code's confirmation, a code sent *)
(* again, the account left unverified by an older version, and Google      *)
(* sign-in. Requests interleave at every await; rows are written back by   *)
(* the id read earlier, inside no transaction.                             *)
(***************************************************************************)
EXTENDS Naturals, FiniteSets

CONSTANTS
    Request,            \* requests under way at once
    MaxCodes,           \* bound: codes drawn
    AccountFaults,      \* what may fail: "mail", "db", "crash"
    MaxAccountFaults    \* bound on the failures

ASSUME AccountAssumption ==
    /\ MaxCodes \in Nat /\ MaxAccountFaults \in Nat
    /\ AccountFaults \subseteq {"mail", "db", "crash"}

\* Codes are numbered as they are drawn; code 0 was mailed by the older version. A
\* registration's password, and the rows it creates, go by the same number.
Code == 0..MaxCodes
Legacy == 0
ByGoogle == MaxCodes + 1

Local(id, verified, password) ==
    [id |-> id, provider |-> "local", isVerified |-> verified, password |-> password]
GoogleUser == [id |-> ByGoogle, provider |-> "google", isVerified |-> TRUE, password |-> ByGoogle]
NoUser == [id |-> ByGoogle, provider |-> "none", isVerified |-> FALSE, password |-> ByGoogle]
LegacyUser == Local(Legacy, FALSE, Legacy)

Pending == [id : Code, password : Code, code : Code, expired : BOOLEAN]
NoPending == [id |-> ByGoogle, password |-> Legacy, code |-> Legacy, expired |-> FALSE]

VARIABLES
    user,           \* the row of Users with this e-mail (unique)
    pending,        \* the row of PendingRegistrations with this e-mail (unique)
    legacyCodes,    \* EmailVerificationCodes of the older version's account
    drawn,          \* the last code drawn
    request,        \* each request: what it is, where, and what it has read
    mailed,         \* codes that reached the mailbox
    registered,     \* history: the password the row held when each code was written
    usable,         \* history: the code its holder may count on (0: none)
    accountFaults

accountVars == <<user, pending, legacyCodes, drawn, request, mailed, registered, usable,
                 accountFaults>>

Idle == [kind |-> "none", pc |-> "idle", code |-> Legacy, row |-> NoPending, alone |-> FALSE]

Kinds == {"register", "verify", "resend", "google"}
Steps == {"lookup", "verified", "pending", "expired", "findRow", "refresh", "activate",
          "legacy", "purge", "destroy", "name", "create", "drop", "upsert", "store", "mail",
          "owner", "oldCode", "confirm", "spend", "renew", "insert",
          "googleId", "googleEmail", "googleCreate"}

AccountTypeOK ==
    /\ user \in {NoUser, GoogleUser} \cup
            [id : Code, provider : {"local"}, isVerified : BOOLEAN, password : Code]
    /\ pending \in Pending \cup {NoPending}
    /\ legacyCodes \subseteq [code : Code, expired : BOOLEAN]
    /\ drawn \in Code
    /\ request \in [Request -> {Idle} \cup
            [kind : Kinds, pc : Steps, code : Code, row : Pending \cup {NoPending},
             alone : BOOLEAN]]
    /\ mailed \subseteq Code
    /\ registered \in [Code -> Code]
    /\ usable \in Code
    /\ accountFaults \in 0..MaxAccountFaults

AccountInit ==
    /\ \/ user = NoUser /\ legacyCodes = {}
       \/ user = LegacyUser /\ legacyCodes = {[code |-> Legacy, expired |-> FALSE]}
    /\ pending = NoPending
    /\ drawn = 0
    /\ request = [q \in Request |-> Idle]
    /\ mailed = {Legacy}
    /\ registered = [c \in Code |-> Legacy]
    /\ usable = 0
    /\ accountFaults = 0

AccountFault(kind) ==
    /\ kind \in AccountFaults
    /\ accountFaults < MaxAccountFaults
    /\ accountFaults' = accountFaults + 1

-----------------------------------------------------------------------------
(* The shapes of a request's steps.                                        *)

rows == <<user, pending, legacyCodes>>
ghosts == <<mailed, registered, usable>>

Under(q, pc) == request[q].pc = pc
Is(q, kind) == request[q].kind = kind
Goto(q, pc) == request' = [request EXCEPT ![q].pc = pc]
Remember(q, pc, row) == request' = [request EXCEPT ![q].pc = pc, ![q].row = row]
End(q) == request' = [request EXCEPT ![q] = Idle]

\* A step that only reads.
Reads == UNCHANGED <<rows, drawn, ghosts, accountFaults>>

Unverified == user.provider = "local" /\ ~user.isVerified
VerifiedLocal == user.provider = "local" /\ user.isVerified

\* row.destroy and row.update of a row read earlier: nothing when it is gone.
DestroyPending(row) == pending' = IF pending.id = row.id THEN NoPending ELSE pending
UpdatePending(row, new) == pending' = IF pending.id = row.id THEN new ELSE pending

-----------------------------------------------------------------------------
(* Requests arrive.                                                        *)

Arrives(q, kind, pc, code) ==
    /\ request[q] = Idle
    /\ LET alone == \A p \in Request : request[p] = Idle
           new == [kind |-> kind, pc |-> pc, code |-> code, row |-> NoPending, alone |-> alone]
       IN  request' = [p \in Request |-> IF p = q THEN new ELSE [request[p] EXCEPT !.alone = FALSE]]
    /\ UNCHANGED <<rows, mailed, registered, accountFaults>>

\* registerLocalUser and resendVerificationCode draw a code; from here on the last
\* one mailed need not work.
Draws(q, kind, pc) ==
    /\ drawn < MaxCodes
    /\ drawn' = drawn + 1
    /\ Arrives(q, kind, pc, drawn + 1)
    /\ usable' = 0

Register(q) == Draws(q, "register", "lookup")
Resend(q) == Draws(q, "resend", "verified")

Keeps(q, kind, pc, code) == Arrives(q, kind, pc, code) /\ UNCHANGED <<drawn, usable>>
VerifyEmail(q) == \E code \in mailed : Keeps(q, "verify", "verified", code)
GoogleSignIn(q) == Keeps(q, "google", "googleId", Legacy)

-----------------------------------------------------------------------------
(* registerLocalUser.                                                      *)

LookUp(q) ==
    /\ Under(q, "lookup")
    /\ IF user = NoUser \/ Unverified THEN Goto(q, "legacy") ELSE End(q)
    /\ Reads

\* removeLegacyUnverifiedLocalUser, for a registration and for an activation: find
\* the row, delete its codes, delete it. Called again it finds nothing.
FindLegacy(q) ==
    /\ Under(q, "legacy")
    /\ Goto(q, IF Unverified THEN "purge" ELSE "name")
    /\ Reads

PurgeCodes(q) ==
    /\ Under(q, "purge")
    /\ legacyCodes' = {}
    /\ Goto(q, "destroy")
    /\ UNCHANGED <<user, pending, drawn, ghosts, accountFaults>>

\* Slip: the account deleted by e-mail instead of by the id found.
DestroyByEmail(q) ==
    /\ Under(q, "destroy")
    /\ user' = NoUser
    /\ legacyCodes' = {}
    /\ Goto(q, "legacy")
    /\ UNCHANGED <<pending, drawn, ghosts, accountFaults>>

DestroyLegacy(q) ==
    /\ Under(q, "destroy")
    /\ user' = IF user.id = Legacy THEN NoUser ELSE user
    /\ legacyCodes' = IF user.id = Legacy THEN {} ELSE legacyCodes
    /\ Goto(q, "legacy")
    /\ UNCHANGED <<pending, drawn, ghosts, accountFaults>>

\* resolveRegistrationUsername: the name asked for may belong to another account.
ResolveUsername(q) ==
    /\ Under(q, "name")
    /\ \/ Goto(q, IF Is(q, "register") THEN "upsert" ELSE "create")
       \/ End(q)
    /\ Reads

\* upsertPendingRegistration.
FindExisting(q) ==
    /\ Under(q, "upsert")
    /\ Remember(q, "store", pending)
    /\ Reads

StorePending(q) ==
    /\ Under(q, "store")
    /\ LET c == request[q].code
           row == request[q].row
           new == [id |-> c, password |-> c, code |-> c, expired |-> FALSE]
       IN  /\ \/ /\ row # NoPending
                 /\ UpdatePending(row, [new EXCEPT !.id = row.id])
                 /\ Goto(q, "mail")
              \/ /\ row = NoPending /\ pending = NoPending
                 /\ pending' = new
                 /\ Goto(q, "mail")
              \/ /\ row = NoPending /\ pending # NoPending
                 /\ End(q)
                 /\ UNCHANGED pending
           /\ registered' = [registered EXCEPT ![c] = c]
    /\ UNCHANGED <<user, legacyCodes, drawn, mailed, usable, accountFaults>>

\* The code is mailed, and the request answered. When nothing else was under way
\* meanwhile its holder may count on the code.
Mail(q) ==
    /\ Under(q, "mail")
    /\ mailed' = mailed \cup {request[q].code}
    /\ usable' = IF request[q].alone THEN request[q].code ELSE usable
    /\ End(q)
    /\ UNCHANGED <<rows, drawn, registered, accountFaults>>

MailFails(q) ==
    /\ Under(q, "mail")
    /\ AccountFault("mail")
    /\ End(q)
    /\ UNCHANGED <<rows, drawn, ghosts>>

-----------------------------------------------------------------------------
(* verifyEmailCode and resendVerificationCode.                             *)

FindVerified(q) ==
    /\ Under(q, "verified")
    /\ IF VerifiedLocal THEN End(q) ELSE Goto(q, "pending")
    /\ Reads

\* Slip: a wrong code throws the registration away.
FindPendingOnce(q) ==
    /\ Under(q, "pending")
    /\ Remember(q, IF pending = NoPending THEN "owner"
                   ELSE IF pending.expired THEN "expired"
                   ELSE IF Is(q, "resend") THEN "findRow"
                   ELSE IF pending.code = request[q].code THEN "activate"
                   ELSE "expired", pending)
    /\ Reads

\* findPendingByEmail, and pendingCodeMatches for a verification.
FindPending(q) ==
    /\ Under(q, "pending")
    /\ Remember(q, IF pending = NoPending THEN "owner"
                   ELSE IF pending.expired THEN "expired"
                   ELSE IF Is(q, "resend") THEN "findRow"
                   ELSE IF pending.code = request[q].code THEN "activate"
                   ELSE "owner", pending)
    /\ Reads

DestroyExpired(q) ==
    /\ Under(q, "expired")
    /\ DestroyPending(request[q].row)
    /\ Goto(q, "owner")
    /\ UNCHANGED <<user, legacyCodes, drawn, ghosts, accountFaults>>

\* refreshPendingVerificationCode: the row is read again; when it is gone the code
\* is mailed all the same.
FindRow(q) ==
    /\ Under(q, "findRow")
    /\ Remember(q, IF pending = NoPending THEN "mail" ELSE "refresh", pending)
    /\ Reads

RefreshPending(q) ==
    /\ Under(q, "refresh")
    /\ LET c == request[q].code
       IN  /\ UpdatePending(request[q].row, [pending EXCEPT !.code = c, !.expired = FALSE])
           /\ registered' = [registered EXCEPT ![c] = pending.password]
    /\ Goto(q, "mail")
    /\ UNCHANGED <<user, legacyCodes, drawn, mailed, usable, accountFaults>>

\* activatePendingRegistration.
Activate(q) ==
    /\ Under(q, "activate")
    /\ Goto(q, IF VerifiedLocal THEN "drop" ELSE "legacy")
    /\ Reads

\* Slip: the password of the row as it is now.
CreateUserReread(q) ==
    /\ Under(q, "create")
    /\ \/ /\ user = NoUser
          /\ user' = Local(request[q].code, TRUE, pending.password)
          /\ Goto(q, "drop")
       \/ user # NoUser /\ End(q) /\ UNCHANGED user
    /\ UNCHANGED <<pending, legacyCodes, drawn, ghosts, accountFaults>>

\* User.create with the password read at the start; the e-mail is unique.
CreateUser(q) ==
    /\ Under(q, "create")
    /\ \/ /\ user = NoUser
          /\ user' = Local(request[q].code, TRUE, request[q].row.password)
          /\ Goto(q, "drop")
       \/ user # NoUser /\ End(q) /\ UNCHANGED user
    /\ UNCHANGED <<pending, legacyCodes, drawn, ghosts, accountFaults>>

DropPending(q) ==
    /\ Under(q, "drop")
    /\ DestroyPending(request[q].row)
    /\ End(q)
    /\ UNCHANGED <<user, legacyCodes, drawn, ghosts, accountFaults>>

\* The account of the older version, by e-mail.
FindOwner(q) ==
    /\ Under(q, "owner")
    /\ IF Unverified THEN Goto(q, IF Is(q, "verify") THEN "oldCode" ELSE "renew") ELSE End(q)
    /\ Reads

FindOldCode(q) ==
    /\ Under(q, "oldCode")
    /\ IF [code |-> request[q].code, expired |-> FALSE] \in legacyCodes
       THEN Goto(q, "confirm") ELSE End(q)
    /\ Reads

Confirm(q) ==
    /\ Under(q, "confirm")
    /\ user' = IF user.id = Legacy THEN [user EXCEPT !.isVerified = TRUE] ELSE user
    /\ Goto(q, "spend")
    /\ UNCHANGED <<pending, legacyCodes, drawn, ghosts, accountFaults>>

SpendOldCode(q) ==
    /\ Under(q, "spend")
    /\ legacyCodes' = {r \in legacyCodes : r.code # request[q].code}
    /\ End(q)
    /\ UNCHANGED <<user, pending, drawn, ghosts, accountFaults>>

\* upsertEmailVerificationCode: delete, then insert, which needs the account.
RenewOldCode(q) ==
    /\ Under(q, "renew")
    /\ legacyCodes' = {}
    /\ Goto(q, "insert")
    /\ UNCHANGED <<user, pending, drawn, ghosts, accountFaults>>

InsertOldCode(q) ==
    /\ Under(q, "insert")
    /\ \/ /\ user.id = Legacy
          /\ legacyCodes' = legacyCodes \cup {[code |-> request[q].code, expired |-> FALSE]}
          /\ Goto(q, "mail")
       \/ user.id # Legacy /\ End(q) /\ UNCHANGED legacyCodes
    /\ UNCHANGED <<user, pending, drawn, ghosts, accountFaults>>

-----------------------------------------------------------------------------
(* The Google strategy: by Google id, by e-mail, else a new account.       *)

FindGoogleId(q) ==
    /\ Under(q, "googleId")
    /\ IF user = GoogleUser THEN End(q) ELSE Goto(q, "googleEmail")
    /\ Reads

\* A local account is never linked; a Google account that appeared meanwhile is
\* saved with the id it has.
FindGoogleEmail(q) ==
    /\ Under(q, "googleEmail")
    /\ IF user = NoUser THEN Goto(q, "googleCreate") ELSE End(q)
    /\ Reads

CreateGoogle(q) ==
    /\ Under(q, "googleCreate")
    /\ user' = IF user = NoUser THEN GoogleUser ELSE user
    /\ End(q)
    /\ UNCHANGED <<pending, legacyCodes, drawn, ghosts, accountFaults>>

-----------------------------------------------------------------------------
(* Time, the hourly clean-up, failures.                                    *)

\* Fifteen minutes are over for these codes, mailed or not.
Outdated(codes) ==
    /\ usable' = IF usable \in codes THEN 0 ELSE usable
    /\ request' = [q \in Request |-> IF request[q].code \in codes
                                   THEN [request[q] EXCEPT !.alone = FALSE] ELSE request[q]]

ExpirePending ==
    /\ pending # NoPending /\ ~pending.expired
    /\ pending' = [pending EXCEPT !.expired = TRUE]
    /\ Outdated({pending.code})
    /\ UNCHANGED <<user, legacyCodes, drawn, mailed, registered, accountFaults>>

ExpireOldCodes ==
    /\ \E r \in legacyCodes : ~r.expired
    /\ legacyCodes' = {[r EXCEPT !.expired = TRUE] : r \in legacyCodes}
    /\ Outdated({r.code : r \in legacyCodes})
    /\ UNCHANGED <<user, pending, drawn, mailed, registered, accountFaults>>

\* cleanupExpiredAuthCodes leaves the pending registrations alone.
CleanupExpired ==
    /\ \E r \in legacyCodes : r.expired
    /\ legacyCodes' = {r \in legacyCodes : ~r.expired}
    /\ UNCHANGED <<user, pending, drawn, request, ghosts, accountFaults>>

\* A statement throws: 500, and what was done stays.
StatementFails(q) ==
    /\ request[q] # Idle
    /\ AccountFault("db")
    /\ End(q)
    /\ UNCHANGED <<rows, drawn, ghosts>>

AccountCrash ==
    /\ AccountFault("crash")
    /\ request' = [q \in Request |-> Idle]
    /\ UNCHANGED <<rows, drawn, ghosts>>

AccountNext ==
    \/ \E q \in Request :
          \/ Register(q) \/ Resend(q) \/ VerifyEmail(q) \/ GoogleSignIn(q)
          \/ LookUp(q) \/ FindLegacy(q) \/ PurgeCodes(q) \/ DestroyLegacy(q)
          \/ ResolveUsername(q) \/ FindExisting(q) \/ StorePending(q)
          \/ Mail(q) \/ MailFails(q)
          \/ FindVerified(q) \/ FindPending(q) \/ DestroyExpired(q)
          \/ FindRow(q) \/ RefreshPending(q)
          \/ Activate(q) \/ CreateUser(q) \/ DropPending(q)
          \/ FindOwner(q) \/ FindOldCode(q) \/ Confirm(q) \/ SpendOldCode(q)
          \/ RenewOldCode(q) \/ InsertOldCode(q)
          \/ FindGoogleId(q) \/ FindGoogleEmail(q) \/ CreateGoogle(q)
          \/ StatementFails(q)
    \/ ExpirePending \/ ExpireOldCodes \/ CleanupExpired
    \/ AccountCrash

AccountSpec == AccountInit /\ [][AccountNext]_accountVars

-----------------------------------------------------------------------------
(* Properties.                                                             *)

\* An account opened through a code or through Google stays as it was opened,
\* whatever registration, removal of an unverified account, code or Google sign-in
\* is still under way (pendingRegistrationService.js:7-21, 110-133, passport.js:60-90).
\* The older version's account is excepted: a removal that found it unverified
\* deletes it by id after another request verified it.
OpenedStays ==
    [][user # NoUser /\ user.id # Legacy => user' = user]_accountVars

\* The account a code opens has the password that stood beside this code, even when
\* the pending row is registered again while the code is being confirmed
\* (pendingRegistrationService.js:120-132).
PasswordOfCode ==
    user.provider = "local" /\ user.id # Legacy => user.password = registered[user.id]

\* A code that was mailed and that no later request replaced opens the account until
\* it expires: no wrong code, no confirmation cut short, no clean-up spoils it
\* (authController.js:96, 154). Two requests at once are excepted: the code mailed
\* last may be the one overwritten, or one whose row had gone.
MailedCodeWorks ==
    usable # 0 =>
        \/ pending.code = usable /\ ~pending.expired
        \/ [code |-> usable, expired |-> FALSE] \in legacyCodes
        \/ user.isVerified
=============================================================================
