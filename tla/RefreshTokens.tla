---------------------------- MODULE RefreshTokens ----------------------------
(***************************************************************************)
(* The sessions of one user: login, refresh and logout                     *)
(* (modules/auth/authController.js) over the refresh tokens that Redis     *)
(* keeps (modules/auth/services/refreshTokenService.js) and the cookies    *)
(* the browsers hold. A call may be under way in several tabs at once, and *)
(* its answer reaches the browser later.                                   *)
(***************************************************************************)
EXTENDS Naturals, FiniteSets

CONSTANTS
    Device,         \* browsers of the user, a cookie jar each
    Call,           \* requests under way
    Production,     \* NODE_ENV = production
    MaxTokens,      \* bound: tokens issued
    TokenFaults,    \* what may fail: "set", "get", "del", "find", "reply", "crash"
    MaxTokenFaults  \* bound on the failures

ASSUME TokenAssumption ==
    /\ Production \in BOOLEAN
    /\ MaxTokens \in Nat /\ MaxTokenFaults \in Nat
    /\ TokenFaults \subseteq {"set", "get", "del", "find", "reply", "crash"}

Token == 1..MaxTokens
NoToken == 0

VARIABLES
    stored,         \* the keys auth:refresh:<user>:<token>
    expired,        \* tokens past their seven days, in Redis and as JWTs
    issued,         \* the last token drawn
    cookie,         \* sc_refresh_token of each browser
    call,           \* each request: where it is, whose it is, its token, the one it issues
    wanted,         \* history: devices that logged in, did not ask to log out since, and
                    \* whose cookie is not past its time
    overlapped,     \* history: devices that had two of these requests under way at once
    revoked,        \* history: tokens whose DEL was confirmed
    tokenFaults

tokenVars == <<stored, expired, issued, cookie, call, wanted, overlapped, revoked,
               tokenFaults>>

NoCall == [pc |-> "idle", device |-> NoToken, token |-> NoToken, new |-> NoToken]

Places == {"get", "rotate", "logout", "set", "reply", "clear"}

TokenTypeOK ==
    /\ stored \subseteq Token /\ expired \subseteq Token /\ revoked \subseteq Token
    /\ issued \in 0..MaxTokens
    /\ cookie \in [Device -> Token \cup {NoToken}]
    /\ call \in [Call -> {NoCall} \cup
                    [pc : Places, device : Device,
                     token : Token \cup {NoToken}, new : Token \cup {NoToken}]]
    /\ wanted \subseteq Device /\ overlapped \subseteq Device
    /\ tokenFaults \in 0..MaxTokenFaults

TokenInit ==
    /\ stored = {} /\ expired = {} /\ revoked = {}
    /\ issued = 0
    /\ cookie = [d \in Device |-> NoToken]
    /\ call = [c \in Call |-> NoCall]
    /\ wanted = {} /\ overlapped = {}
    /\ tokenFaults = 0

TokenFault(kind) ==
    /\ kind \in TokenFaults
    /\ tokenFaults < MaxTokenFaults
    /\ tokenFaults' = tokenFaults + 1

Busy(d) == \E c \in Call : call[c] # NoCall /\ call[c].device = d

Arrive(c, d, pc, token, new) ==
    /\ call[c] = NoCall
    /\ overlapped' = IF Busy(d) THEN overlapped \cup {d} ELSE overlapped
    /\ call' = [call EXCEPT ![c] = [pc |-> pc, device |-> d, token |-> token, new |-> new]]

MoveTo(c, pc) == call' = [call EXCEPT ![c].pc = pc]

\* issueRefreshToken draws a token before its SET.
Draw == issued < MaxTokens /\ issued' = issued + 1

-----------------------------------------------------------------------------
\* login and googleCallback, after the password or Google was found right.
Login(c, d) ==
    /\ Draw
    /\ Arrive(c, d, "set", NoToken, issued + 1)
    /\ UNCHANGED <<stored, expired, cookie, wanted, revoked, tokenFaults>>

\* Without a cookie, refresh answers 401 and changes nothing.
Refresh(c, d) ==
    /\ cookie[d] # NoToken
    /\ Arrive(c, d, "get", cookie[d], NoToken)
    /\ UNCHANGED <<stored, expired, issued, cookie, wanted, revoked, tokenFaults>>

Logout(c, d) ==
    /\ Arrive(c, d, IF cookie[d] = NoToken THEN "clear" ELSE "logout", cookie[d], NoToken)
    /\ wanted' = wanted \ {d}
    /\ UNCHANGED <<stored, expired, issued, cookie, revoked, tokenFaults>>

\* verifyRefreshToken: the JWT has not expired and its hash is in Redis.
VerifyRefreshToken(c) ==
    /\ call[c].pc = "get"
    /\ MoveTo(c, IF call[c].token \in stored \ expired THEN "rotate" ELSE "clear")
    /\ UNCHANGED <<stored, expired, issued, cookie, wanted, overlapped, revoked, tokenFaults>>

\* Slip: the JWT is enough in production too.
VerifyFailsOpen(c) ==
    /\ call[c].pc = "get"
    /\ TokenFault("get")
    /\ MoveTo(c, IF call[c].token \in expired THEN "clear" ELSE "rotate")
    /\ UNCHANGED <<stored, expired, issued, cookie, wanted, overlapped, revoked>>

\* GET fails: production refuses, elsewhere the JWT is enough.
VerifyFails(c) ==
    /\ call[c].pc = "get"
    /\ TokenFault("get")
    /\ MoveTo(c, IF Production \/ call[c].token \in expired THEN "clear" ELSE "rotate")
    /\ UNCHANGED <<stored, expired, issued, cookie, wanted, overlapped, revoked>>

\* User.findByPk throws: 500, and the cookies stay.
FindFails(c) ==
    /\ call[c].pc = "rotate"
    /\ TokenFault("find")
    /\ call' = [call EXCEPT ![c] = NoCall]
    /\ UNCHANGED <<stored, expired, issued, cookie, wanted, overlapped, revoked>>

\* What follows revokeRefreshToken, done or not: a rotation draws the next token, a
\* logout is answered.
AfterRevoke(c) ==
    \/ /\ call[c].pc = "rotate"
       /\ Draw
       /\ call' = [call EXCEPT ![c].pc = "set", ![c].new = issued + 1]
    \/ /\ call[c].pc = "logout"
       /\ MoveTo(c, "clear")
       /\ UNCHANGED issued

RevokeRefreshToken(c) ==
    /\ AfterRevoke(c)
    /\ stored' = stored \ {call[c].token}
    /\ revoked' = revoked \cup {call[c].token}
    /\ UNCHANGED <<overlapped, expired, cookie, wanted, tokenFaults>>

\* DEL is refused, or done with its answer lost: swallowed.
RevokeFails(c) ==
    /\ AfterRevoke(c)
    /\ TokenFault("del")
    /\ stored' \in {stored, stored \ {call[c].token}}
    /\ UNCHANGED <<expired, cookie, wanted, overlapped, revoked>>

\* The SET of issueRefreshToken.
IssueRefreshToken(c) ==
    /\ call[c].pc = "set"
    /\ stored' = stored \cup {call[c].new}
    /\ MoveTo(c, "reply")
    /\ UNCHANGED <<expired, issued, cookie, wanted, overlapped, revoked, tokenFaults>>

\* SET is refused, or done with its answer lost: the token is handed out all the same.
IssueFails(c) ==
    /\ call[c].pc = "set"
    /\ TokenFault("set")
    /\ stored' \in {stored, stored \cup {call[c].new}}
    /\ MoveTo(c, "reply")
    /\ UNCHANGED <<expired, issued, cookie, wanted, overlapped, revoked>>

\* Slip: a rotation that answers the new access token only.
ReplyWithoutCookie(c) ==
    /\ call[c].pc \in {"reply", "clear"}
    /\ cookie' = IF call[c].token # NoToken /\ call[c].new # NoToken THEN cookie
                  ELSE [cookie EXCEPT ![call[c].device] = call[c].new]
    /\ wanted' = IF call[c].pc = "reply" /\ call[c].token = NoToken
                 THEN wanted \cup {call[c].device} ELSE wanted
    /\ call' = [call EXCEPT ![c] = NoCall]
    /\ UNCHANGED <<stored, expired, issued, overlapped, revoked, tokenFaults>>

\* The answer reaches the browser: setRefreshCookie, or clearAuthCookie.
Reply(c) ==
    /\ call[c].pc \in {"reply", "clear"}
    /\ cookie' = [cookie EXCEPT ![call[c].device] = call[c].new]
    /\ wanted' = IF call[c].pc = "reply" /\ call[c].token = NoToken
                 THEN wanted \cup {call[c].device} ELSE wanted
    /\ call' = [call EXCEPT ![c] = NoCall]
    /\ UNCHANGED <<stored, expired, issued, overlapped, revoked, tokenFaults>>

ReplyLost(c) ==
    /\ call[c].pc \in {"reply", "clear"}
    /\ TokenFault("reply")
    /\ call' = [call EXCEPT ![c] = NoCall]
    /\ UNCHANGED <<stored, expired, issued, cookie, wanted, overlapped, revoked>>

\* EX and expiresIn count the same seven days.
ExpireToken(t) ==
    /\ t \in 1..issued \ expired
    /\ \A c \in Call : call[c].new # t
    /\ expired' = expired \cup {t}
    /\ stored' = stored \ {t}
    /\ wanted' = {d \in wanted : cookie[d] # t}
    /\ UNCHANGED <<issued, cookie, call, overlapped, revoked, tokenFaults>>

TokenCrash ==
    /\ TokenFault("crash")
    /\ call' = [c \in Call |-> NoCall]
    /\ UNCHANGED <<stored, expired, issued, cookie, wanted, overlapped, revoked>>

TokenNext ==
    \/ \E c \in Call :
          \/ \E d \in Device : Login(c, d) \/ Refresh(c, d) \/ Logout(c, d)
          \/ VerifyRefreshToken(c) \/ VerifyFails(c) \/ FindFails(c)
          \/ RevokeRefreshToken(c) \/ RevokeFails(c)
          \/ IssueRefreshToken(c) \/ IssueFails(c)
          \/ Reply(c) \/ ReplyLost(c)
    \/ \E t \in Token : ExpireToken(t)
    \/ TokenCrash

TokenSpec == TokenInit /\ [][TokenNext]_tokenVars

-----------------------------------------------------------------------------
(* Properties.                                                             *)

Accepted(c) == call[c].pc = "get" /\ call'[c].pc = "rotate"

\* In production a token whose revocation was confirmed opens no session again,
\* whatever fails and however the calls of the tabs interleave
\* (refreshTokenService.js:79-97).
DeadTokensStayDead ==
    [][Production => \A c \in Call : Accepted(c) => call[c].token \notin revoked]_tokenVars

\* A browser that does not ask to log out keeps a cookie that the next refresh
\* accepts, as long as nothing failed, its seven days are not over and it sent one
\* request at a time: rotation never leaves it with the revoked token
\* (authController.js:289-294). Two tabs that refresh at once break it: the answer to
\* the slower one clears the cookie the faster one was given.
StaysLoggedIn ==
    tokenFaults = 0 =>
        \A d \in wanted \ overlapped : Busy(d) \/ cookie[d] \in stored
=============================================================================
