------------------------------ MODULE AuthProofs ------------------------------
(***************************************************************************)
(* Theorems about RefreshTokens, PasswordResets and Accounts, for any      *)
(* number of browsers, requests, tokens, codes, rows and failures: a       *)
(* revoked token opens no session again in production, and a browser stays *)
(* logged in; a reset code changes the password once, the code asked for   *)
(* last works; an account opened by a code has the password registered     *)
(* beside it and stays, and the code mailed last opens it.                 *)
(***************************************************************************)
EXTENDS RefreshTokens, PasswordResets, Accounts, TLAPS

-----------------------------------------------------------------------------
(* Refresh tokens: the inductive invariant.                                *)

CallState ==
    {NoCall} \cup [pc : Places, device : Device,
                   token : Token \cup {NoToken}, new : Token \cup {NoToken}]

TokensTyped ==
    /\ stored \subseteq Token
    /\ issued \in 0..MaxTokens
    /\ cookie \in [Device -> Token \cup {NoToken}]
    /\ call \in [Call -> CallState]

\* Nobody knows a token that was not drawn.
DrawnSound ==
    /\ revoked \subseteq 1..issued
    /\ \A d \in Device : cookie[d] <= issued
    /\ \A c \in Call : call[c].token <= issued /\ call[c].new <= issued

\* A call that revokes has a token to revoke.
TokensInHand ==
    \A c \in Call : call[c].pc \in {"get", "rotate", "logout"} => call[c].token # NoToken

\* A token whose SET is still to come is known to its call alone.
FreshSound ==
    \A c \in Call :
        call[c].pc = "set" =>
            /\ call[c].new # NoToken
            /\ call[c].new \notin revoked
            /\ \A d \in Device : cookie[d] # call[c].new
            /\ \A b \in Call : call[b].token # call[c].new
            /\ \A b \in Call : b # c => call[b].new # call[c].new

TokenInv ==
    /\ TokensTyped /\ DrawnSound /\ TokensInHand /\ FreshSound
    /\ revoked \cap stored = {}

LEMMA NoCallIs ==
  /\ NoCall \in CallState /\ NoCall.pc = "idle" /\ NoCall.token = 0 /\ NoCall.new = 0
  /\ NoToken = 0
BY DEF CallState, NoCall, NoToken

\* What a request holds.
LEMMA CallHolds ==
  ASSUME TokensTyped, NEW c \in Call
  PROVE  /\ call[c] \in CallState
         /\ call[c].token \in Token \cup {0} /\ call[c].new \in Token \cup {0}
         /\ call[c].token \in Nat /\ call[c].new \in Nat
<1>1. call[c] \in CallState
  BY DEF TokensTyped
<1>2. call[c].token \in Token \cup {0} /\ call[c].new \in Token \cup {0}
  <2>1. CASE call[c] = NoCall
    BY <2>1, NoCallIs
  <2>2. CASE call[c] # NoCall
    BY <1>1, <2>2, NoCallIs DEF CallState
  <2> QED BY <2>1, <2>2
<1> QED BY <1>1, <1>2, TokenAssumption DEF Token

LEMMA CallRecord ==
  ASSUME TokensTyped, NEW c \in Call, call[c].pc # "idle"
  PROVE  call[c] \in [pc : Places, device : Device,
                      token : Token \cup {NoToken}, new : Token \cup {NoToken}]
BY NoCallIs DEF TokensTyped, CallState

LEMMA InitTokens == TokenInit => TokenInv
<1> SUFFICES ASSUME TokenInit PROVE TokenInv
  OBVIOUS
<1>1. \A c \in Call : call[c].pc = "idle" /\ call[c].token = 0 /\ call[c].new = 0
  BY NoCallIs DEF TokenInit
<1>2. /\ issued = 0 /\ revoked = {} /\ stored = {}
      /\ cookie = [d \in Device |-> 0] /\ call = [c \in Call |-> NoCall]
  BY NoCallIs DEF TokenInit
<1>3. TokensTyped
  BY <1>2, NoCallIs, TokenAssumption DEF TokensTyped
<1> QED BY <1>1, <1>2, <1>3 DEF TokenInv, DrawnSound, TokensInHand, FreshSound

-----------------------------------------------------------------------------
(* Each step keeps the invariant.                                          *)

\* Calls that go on or end, draw nothing and revoke nothing; what is stored may lose
\* tokens, or gain the one of a call that leaves its SET; a cookie may become the token
\* of a call that is past its SET.
LEMMA TokenQuietKeeps ==
  ASSUME TokenInv, UNCHANGED <<issued, revoked>>,
         call' \in [Call -> CallState],
         \A c \in Call : call'[c].token <= issued /\ call'[c].new <= issued,
         \A c \in Call : call'[c].pc \in {"get", "rotate", "logout"} => call'[c].token # NoToken,
         \A c \in Call : call'[c].pc = "set" => call'[c] = call[c],
         \A b \in Call : call'[b].new \in {call[b].new, 0},
         \A b, c \in Call : call[c].pc = "set" => call'[b].token # call[c].new,
         stored' \subseteq stored \cup {call[c].new : c \in {b \in Call : call[b].pc = "set"}},
         cookie' \in [Device -> Token \cup {NoToken}],
         \A d \in Device : \/ cookie'[d] = cookie[d] \/ cookie'[d] = 0
                           \/ \E c \in Call : call[c].pc # "set" /\ cookie'[d] = call[c].new
  PROVE  TokenInv'
<1>1. TokensTyped'
  <2>1. \A c \in Call : call[c].pc = "set" => call[c].new \in Token
    BY CallHolds, NoCallIs DEF TokenInv, FreshSound
  <2> QED BY <2>1 DEF TokenInv, TokensTyped
<1>2. DrawnSound'
  <2>1. \A d \in Device : cookie'[d] <= issued
    BY TokenAssumption DEF TokenInv, DrawnSound, TokensTyped
  <2> QED BY <2>1 DEF TokenInv, DrawnSound
<1>3. TokensInHand'
  BY DEF TokensInHand
<1>4. FreshSound'
  <2> SUFFICES ASSUME NEW c \in Call, call'[c].pc = "set"
               PROVE  /\ call'[c].new # NoToken
                      /\ call'[c].new \notin revoked'
                      /\ \A d \in Device : cookie'[d] # call'[c].new
                      /\ \A b \in Call : call'[b].token # call'[c].new
                      /\ \A b \in Call : b # c => call'[b].new # call'[c].new
    BY DEF FreshSound
  <2>1. call'[c] = call[c] /\ call[c].pc = "set" /\ call[c].new # 0
    BY NoCallIs DEF TokenInv, FreshSound
  <2>2. \A b \in Call : b # c => call[b].new # call[c].new
    BY <2>1 DEF TokenInv, FreshSound
  <2>3. \A d \in Device : cookie[d] # call[c].new
    BY <2>1 DEF TokenInv, FreshSound
  <2>4. \A d \in Device : cookie'[d] # call[c].new
    BY <2>1, <2>2, <2>3
  <2> QED BY <2>1, <2>2, <2>4, NoCallIs DEF TokenInv, FreshSound
<1>5. revoked' \cap stored' = {}
  BY DEF TokenInv, FreshSound
<1> QED BY <1>1, <1>2, <1>3, <1>4, <1>5 DEF TokenInv

\* A call that ends.
LEMMA EndsKeeps ==
  ASSUME TokenInv, NEW c \in Call, call' = [call EXCEPT ![c] = NoCall],
         UNCHANGED <<issued, revoked, stored>>,
         cookie' \in [Device -> Token \cup {NoToken}],
         \A d \in Device : \/ cookie'[d] = cookie[d]
                           \/ call[c].pc # "set" /\ cookie'[d] = call[c].new
  PROVE  TokenInv'
<1>1. \A b \in Call : (b = c /\ call'[b] = NoCall) \/ (b # c /\ call'[b] = call[b])
  BY DEF TokenInv, TokensTyped
<1>2. call' \in [Call -> CallState]
  BY NoCallIs DEF TokenInv, TokensTyped
<1>3. issued \in Nat /\ 0 <= issued
  BY TokenAssumption DEF TokenInv, TokensTyped
<1>4. \A b \in Call : call'[b].token <= issued /\ call'[b].new <= issued
  BY <1>1, <1>3, NoCallIs DEF TokenInv, DrawnSound
<1>5. \A b \in Call : call'[b].pc \in {"get", "rotate", "logout"} => call'[b].token # NoToken
  BY <1>1, NoCallIs DEF TokenInv, TokensInHand
<1>6. /\ \A b \in Call : call'[b].pc = "set" => call'[b] = call[b]
      /\ \A b \in Call : call'[b].new \in {call[b].new, 0}
  BY <1>1, NoCallIs
<1>7. \A a, b \in Call : call[b].pc = "set" => call'[a].token # call[b].new
  BY <1>1, NoCallIs DEF TokenInv, FreshSound
<1> QED BY <1>2, <1>4, <1>5, <1>6, <1>7, TokenQuietKeeps

\* A call that goes on with what it holds.
LEMMA TokenMovesKeeps ==
  ASSUME TokenInv, NEW c \in Call, NEW pc \in Places \ {"set", "get"},
         call[c].pc # "idle", call' = [call EXCEPT ![c].pc = pc],
         pc \in {"rotate", "logout"} => call[c].token # NoToken,
         UNCHANGED <<issued, revoked, cookie>>,
         stored' \subseteq stored \cup {call[b].new : b \in {a \in Call : call[a].pc = "set"}}
  PROVE  TokenInv'
<1>0. /\ [call[c] EXCEPT !.pc = pc] \in CallState
      /\ [call[c] EXCEPT !.pc = pc].pc = pc
      /\ [call[c] EXCEPT !.pc = pc].token = call[c].token
      /\ [call[c] EXCEPT !.pc = pc].new = call[c].new
  BY CallRecord DEF TokenInv, CallState
<1> DEFINE s == [call[c] EXCEPT !.pc = pc]
<1>1. call' = [call EXCEPT ![c] = s]
  OBVIOUS
<1>2. s \in CallState /\ s.pc = pc /\ s.token = call[c].token /\ s.new = call[c].new
  BY <1>0
<1> HIDE DEF s
<1>3. \A b \in Call : (b = c /\ call'[b] = s) \/ (b # c /\ call'[b] = call[b])
  BY <1>1 DEF TokenInv, TokensTyped
<1>4. call' \in [Call -> CallState]
  BY <1>1, <1>2 DEF TokenInv, TokensTyped
<1>5. \A b \in Call : call'[b].token = call[b].token /\ call'[b].new = call[b].new
  BY <1>2, <1>3
<1>6. \A b \in Call : call'[b].token <= issued /\ call'[b].new <= issued
  BY <1>5 DEF TokenInv, DrawnSound
<1>7. \A b \in Call : call'[b].pc \in {"get", "rotate", "logout"} => call'[b].token # NoToken
  BY <1>2, <1>3 DEF TokenInv, TokensInHand
<1>8. \A b \in Call : call'[b].pc = "set" => call'[b] = call[b]
  BY <1>2, <1>3
<1>9. \A a, b \in Call : call[b].pc = "set" => call'[a].token # call[b].new
  BY <1>5 DEF TokenInv, FreshSound
<1>10. cookie' \in [Device -> Token \cup {NoToken}]
  BY DEF TokenInv, TokensTyped
<1> QED BY <1>4, <1>5, <1>6, <1>7, <1>8, <1>9, <1>10, TokenQuietKeeps

\* A call that arrives with the cookie of its browser, or with nothing.
LEMMA ArrivesKeeps ==
  ASSUME TokenInv, NEW c \in Call, NEW s \in CallState,
         call[c] = NoCall, call' = [call EXCEPT ![c] = s], s.pc # "set", s.new = 0,
         s.token = 0 \/ \E d \in Device : s.token = cookie[d],
         s.pc \in {"get", "rotate", "logout"} => s.token # NoToken,
         UNCHANGED <<issued, revoked, cookie, stored>>
  PROVE  TokenInv'
<1>1. \A b \in Call : (b = c /\ call'[b] = s) \/ (b # c /\ call'[b] = call[b])
  BY DEF TokenInv, TokensTyped
<1>2. call' \in [Call -> CallState]
  BY DEF TokenInv, TokensTyped
<1>3. issued \in Nat /\ 0 <= issued
  BY TokenAssumption DEF TokenInv, TokensTyped
<1>4. \A b \in Call : call'[b].token <= issued /\ call'[b].new <= issued
  BY <1>1, <1>3 DEF TokenInv, DrawnSound
<1>5. \A b \in Call : call'[b].pc \in {"get", "rotate", "logout"} => call'[b].token # NoToken
  BY <1>1 DEF TokenInv, TokensInHand
<1>6. /\ \A b \in Call : call'[b].pc = "set" => call'[b] = call[b]
      /\ \A b \in Call : call'[b].new \in {call[b].new, 0}
  BY <1>1
<1>7. \A a, b \in Call : call[b].pc = "set" => call'[a].token # call[b].new
  BY <1>1, NoCallIs DEF TokenInv, FreshSound
<1>8. cookie' \in [Device -> Token \cup {NoToken}]
  BY DEF TokenInv, TokensTyped
<1> QED BY <1>2, <1>4, <1>5, <1>6, <1>7, <1>8, TokenQuietKeeps

\* A call draws a token nobody has seen, and may revoke or lose another.
LEMMA DrawsKeeps ==
  ASSUME TokenInv, NEW c \in Call, NEW s \in CallState, Draw,
         call' = [call EXCEPT ![c] = s], s.pc = "set", s.new = issued + 1,
         s.token = call[c].token, UNCHANGED cookie,
         stored' \subseteq stored,
         \/ revoked' = revoked
         \/ /\ call[c].token # NoToken
            /\ revoked' = revoked \cup {call[c].token}
            /\ stored' = stored \ {call[c].token}
  PROVE  TokenInv'
<1>1. issued \in Nat /\ issued' = issued + 1 /\ issued' \in 0..MaxTokens
  BY TokenAssumption DEF Draw, TokenInv, TokensTyped
<1>2. \A b \in Call : (b = c /\ call'[b] = s) \/ (b # c /\ call'[b] = call[b])
  BY DEF TokenInv, TokensTyped
<1>3. \A b \in Call : call[b].token \in Nat /\ call[b].new \in Nat
                      /\ call[b].token <= issued /\ call[b].new <= issued
  BY CallHolds DEF TokenInv, DrawnSound
<1>4. \A d \in Device : cookie[d] \in Nat /\ cookie[d] <= issued
  BY TokenAssumption, NoCallIs DEF TokenInv, TokensTyped, DrawnSound, Token
<1>5. revoked' \subseteq 1..issued
  <2>1. call[c].token # NoToken => call[c].token \in 1..issued
    BY <1>1, <1>3, NoCallIs
  <2>2. revoked \subseteq 1..issued
    BY DEF TokenInv, DrawnSound
  <2> QED BY <2>1, <2>2
<1>6. TokensTyped'
  BY <1>1 DEF TokenInv, TokensTyped
<1>7. DrawnSound'
  <2>1. \A b \in Call : call'[b].token <= issued' /\ call'[b].new <= issued'
    BY <1>1, <1>2, <1>3
  <2>2. revoked' \subseteq 1..issued'
    BY <1>1, <1>5
  <2>3. \A d \in Device : cookie'[d] <= issued'
    BY <1>1, <1>4
  <2> QED BY <2>1, <2>2, <2>3 DEF DrawnSound
<1>8. TokensInHand'
  BY <1>2 DEF TokenInv, TokensInHand
<1>9. FreshSound'
  <2> SUFFICES ASSUME NEW b \in Call, call'[b].pc = "set"
               PROVE  /\ call'[b].new # NoToken
                      /\ call'[b].new \notin revoked'
                      /\ \A d \in Device : cookie'[d] # call'[b].new
                      /\ \A a \in Call : call'[a].token # call'[b].new
                      /\ \A a \in Call : a # b => call'[a].new # call'[b].new
    BY DEF FreshSound
  <2>1. CASE b = c
    <3>1. call'[b].new = issued + 1
      BY <1>2, <2>1
    <3>2. issued + 1 \notin revoked' /\ issued + 1 # 0
      BY <1>1, <1>5
    <3>3. \A d \in Device : cookie'[d] # issued + 1
      BY <1>1, <1>4
    <3>4. \A a \in Call : call'[a].token # issued + 1
      BY <1>1, <1>2, <1>3
    <3>5. \A a \in Call : a # b => call'[a].new # issued + 1
      BY <1>1, <1>2, <1>3, <2>1
    <3> QED BY <3>1, <3>2, <3>3, <3>4, <3>5, NoCallIs
  <2>2. CASE b # c
    <3>1. call'[b] = call[b]
      BY <1>2, <2>2
    <3>2. call[b].new # issued + 1
      BY <1>1, <1>3
    <3>3. /\ call[b].new # NoToken /\ call[b].new \notin revoked
          /\ \A d \in Device : cookie[d] # call[b].new
          /\ \A a \in Call : call[a].token # call[b].new
          /\ \A a \in Call : a # b => call[a].new # call[b].new
      BY <3>1 DEF TokenInv, FreshSound
    <3>4. call[b].new \notin revoked'
      BY <3>3
    <3>5. \A a \in Call : call'[a].token # call[b].new
      BY <1>2, <3>3
    <3>6. \A a \in Call : a # b => call'[a].new # call[b].new
      BY <1>2, <3>2, <3>3
    <3> QED BY <3>1, <3>3, <3>4, <3>5, <3>6
  <2> QED BY <2>1, <2>2
<1>10. revoked' \cap stored' = {}
  BY DEF TokenInv
<1> QED BY <1>6, <1>7, <1>8, <1>9, <1>10 DEF TokenInv

LEMMA ComesKeeps ==
  ASSUME TokenInv, NEW c \in Call, NEW d \in Device, Login(c, d) \/ Refresh(c, d) \/ Logout(c, d)
  PROVE  TokenInv'
<1>0. cookie[d] \in Token \cup {0} /\ call[c] = NoCall
  BY NoCallIs DEF TokenInv, TokensTyped, Login, Refresh, Logout, Arrive
<1>1. CASE Login(c, d)
  <2> DEFINE s == [pc |-> "set", device |-> d, token |-> NoToken, new |-> issued + 1]
  <2>1. issued + 1 \in Token
    BY <1>1, TokenAssumption DEF Login, Draw, TokenInv, TokensTyped, Token
  <2>2. s \in CallState /\ s.pc = "set" /\ s.new = issued + 1 /\ s.token = NoToken
    BY <2>1 DEF CallState, Places
  <2>3. /\ call' = [call EXCEPT ![c] = s] /\ Draw
        /\ UNCHANGED <<stored, cookie, revoked>>
    BY <1>1 DEF Login, Arrive
  <2>4. s.token = call[c].token
    BY <1>0, <2>2, NoCallIs
  <2> HIDE DEF s
  <2> QED BY <2>2, <2>3, <2>4, DrawsKeeps
<1>2. CASE Refresh(c, d)
  <2> DEFINE s == [pc |-> "get", device |-> d, token |-> cookie[d], new |-> NoToken]
  <2>1. s \in CallState /\ s.pc = "get" /\ s.new = 0 /\ s.token = cookie[d]
    BY <1>0, NoCallIs DEF CallState, Places
  <2>2. /\ call' = [call EXCEPT ![c] = s] /\ cookie[d] # NoToken
        /\ UNCHANGED <<issued, revoked, cookie, stored>>
    BY <1>2 DEF Refresh, Arrive
  <2> HIDE DEF s
  <2> QED BY <1>0, <2>1, <2>2, ArrivesKeeps
<1>3. CASE Logout(c, d)
  <2> DEFINE s == [pc |-> IF cookie[d] = NoToken THEN "clear" ELSE "logout", device |-> d,
                   token |-> cookie[d], new |-> NoToken]
  <2>1. /\ s \in CallState /\ s.pc = (IF cookie[d] = NoToken THEN "clear" ELSE "logout")
        /\ s.new = 0 /\ s.token = cookie[d]
    BY <1>0, NoCallIs DEF CallState, Places
  <2>2. /\ call' = [call EXCEPT ![c] = s]
        /\ UNCHANGED <<issued, revoked, cookie, stored>>
    BY <1>3 DEF Logout, Arrive
  <2> HIDE DEF s
  <2> QED BY <1>0, <2>1, <2>2, ArrivesKeeps
<1> QED BY <1>1, <1>2, <1>3

\* GET, SET and the answers.
LEMMA GoesOnKeeps ==
  ASSUME TokenInv, NEW c \in Call,
         \/ VerifyRefreshToken(c) \/ VerifyFails(c) \/ FindFails(c)
         \/ IssueRefreshToken(c) \/ IssueFails(c) \/ Reply(c) \/ ReplyLost(c)
  PROVE  TokenInv'
<1>1. CASE VerifyRefreshToken(c) \/ VerifyFails(c)
  <2>1. call[c].pc = "get" /\ call[c].token # NoToken
    BY <1>1 DEF VerifyRefreshToken, VerifyFails, TokenInv, TokensInHand
  <2>2. PICK pc \in {"rotate", "clear"} : call' = [call EXCEPT ![c].pc = pc]
    BY <1>1 DEF VerifyRefreshToken, VerifyFails, MoveTo
  <2>3. UNCHANGED <<issued, revoked, cookie, stored>>
    BY <1>1 DEF VerifyRefreshToken, VerifyFails
  <2> QED BY <2>1, <2>2, <2>3, TokenMovesKeeps DEF Places
<1>2. CASE IssueRefreshToken(c) \/ IssueFails(c)
  <2>1. /\ call[c].pc = "set" /\ call' = [call EXCEPT ![c].pc = "reply"]
        /\ UNCHANGED <<issued, revoked, cookie>>
    BY <1>2 DEF IssueRefreshToken, IssueFails, MoveTo
  <2>2. stored' \subseteq stored \cup {call[c].new}
    BY <1>2 DEF IssueRefreshToken, IssueFails
  <2> QED BY <2>1, <2>2, TokenMovesKeeps DEF Places
<1>3. CASE FindFails(c) \/ ReplyLost(c)
  BY <1>3, EndsKeeps DEF FindFails, ReplyLost, TokenInv, TokensTyped
<1>4. CASE Reply(c)
  <2>1. call[c].pc \in {"reply", "clear"} /\ call[c].device \in Device
    BY <1>4, CallRecord DEF Reply, TokenInv
  <2>2. call[c].new \in Token \cup {NoToken}
    BY CallHolds, NoCallIs DEF TokenInv
  <2>3. cookie' = [cookie EXCEPT ![call[c].device] = call[c].new]
    BY <1>4 DEF Reply
  <2>4. cookie' \in [Device -> Token \cup {NoToken}]
    BY <2>1, <2>2, <2>3 DEF TokenInv, TokensTyped
  <2>5. \A d \in Device : cookie'[d] = cookie[d] \/ cookie'[d] = call[c].new
    BY <2>3 DEF TokenInv, TokensTyped
  <2>6. call' = [call EXCEPT ![c] = NoCall] /\ UNCHANGED <<issued, revoked, stored>>
    BY <1>4 DEF Reply
  <2> QED BY <2>1, <2>4, <2>5, <2>6, EndsKeeps
<1> QED BY <1>1, <1>2, <1>3, <1>4

LEMMA RevokeKeeps ==
  ASSUME TokenInv, NEW c \in Call, RevokeRefreshToken(c) \/ RevokeFails(c)
  PROVE  TokenInv'
<1>1. call[c].pc \in {"rotate", "logout"} /\ call[c].token # NoToken
  BY DEF RevokeRefreshToken, RevokeFails, AfterRevoke, TokenInv, TokensInHand
<1>2. /\ UNCHANGED cookie /\ stored' \subseteq stored
      /\ \/ revoked' = revoked
         \/ revoked' = revoked \cup {call[c].token} /\ stored' = stored \ {call[c].token}
  BY DEF RevokeRefreshToken, RevokeFails
<1>3. CASE /\ call[c].pc = "rotate" /\ Draw
           /\ call' = [call EXCEPT ![c].pc = "set", ![c].new = issued + 1]
  <2> DEFINE s == [call[c] EXCEPT !.pc = "set", !.new = issued + 1]
  <2>1. issued + 1 \in Token
    BY <1>3, TokenAssumption DEF Draw, TokenInv, TokensTyped, Token
  <2>2. s \in CallState /\ s.pc = "set" /\ s.new = issued + 1 /\ s.token = call[c].token
    BY <1>1, <2>1, CallRecord DEF CallState, Places, TokenInv
  <2>3. call' = [call EXCEPT ![c] = s]
    BY <1>3 DEF TokenInv, TokensTyped
  <2> HIDE DEF s
  <2> QED BY <1>1, <1>2, <1>3, <2>2, <2>3, DrawsKeeps
<1>4. CASE call[c].pc = "logout" /\ MoveTo(c, "clear") /\ UNCHANGED issued
  <2>1. call' = [call EXCEPT ![c].pc = "clear"]
    BY <1>4 DEF MoveTo
  <2>2. CASE revoked' = revoked
    BY <1>1, <1>2, <1>4, <2>1, <2>2, TokenMovesKeeps DEF Places
  <2>3. CASE revoked' = revoked \cup {call[c].token} /\ stored' = stored \ {call[c].token}
    <3>1. /\ [call[c] EXCEPT !.pc = "clear"] \in CallState
          /\ [call[c] EXCEPT !.pc = "clear"].pc = "clear"
          /\ [call[c] EXCEPT !.pc = "clear"].token = call[c].token
          /\ [call[c] EXCEPT !.pc = "clear"].new = call[c].new
      BY <1>1, CallRecord DEF CallState, Places, TokenInv
    <3>2. \A b \in Call : /\ b # c => call'[b] = call[b]
                          /\ call'[b].token = call[b].token /\ call'[b].new = call[b].new
      BY <2>1, <3>1 DEF TokenInv, TokensTyped
    <3>3. call'[c].pc = "clear"
      BY <2>1, <3>1 DEF TokenInv, TokensTyped
    <3>4. TokensTyped'
      BY <1>2, <1>4, <2>1, <3>1 DEF TokenInv, TokensTyped
    <3>5. issued \in Nat /\ call[c].token \in Nat /\ call[c].token <= issued
      BY CallHolds, TokenAssumption DEF TokenInv, TokensTyped, DrawnSound
    <3>6. DrawnSound'
      <4>1. call[c].token \in 1..issued
        BY <1>1, <3>5, NoCallIs
      <4>2. revoked' \subseteq 1..issued
        BY <2>3, <4>1 DEF TokenInv, DrawnSound
      <4> QED BY <1>2, <1>4, <3>2, <4>2 DEF TokenInv, DrawnSound
    <3>7. TokensInHand'
      BY <3>2, <3>3 DEF TokenInv, TokensInHand
    <3>8. FreshSound'
      BY <1>2, <2>3, <3>2, <3>3 DEF TokenInv, FreshSound
    <3>9. revoked' \cap stored' = {}
      BY <2>3 DEF TokenInv
    <3> QED BY <3>4, <3>6, <3>7, <3>8, <3>9 DEF TokenInv
  <2> QED BY <1>2, <2>2, <2>3
<1> QED BY <1>3, <1>4 DEF RevokeRefreshToken, RevokeFails, AfterRevoke

LEMMA TokenRestKeeps ==
  ASSUME TokenInv, (\E t \in Token : ExpireToken(t)) \/ TokenCrash \/ UNCHANGED tokenVars
  PROVE  TokenInv'
<1>1. CASE (\E t \in Token : ExpireToken(t)) \/ UNCHANGED tokenVars
  <2>1. stored' \subseteq stored /\ UNCHANGED <<issued, cookie, call, revoked>>
    BY <1>1 DEF ExpireToken, tokenVars
  <2> QED BY <2>1 DEF TokenInv, TokensTyped, DrawnSound, TokensInHand, FreshSound
<1>2. CASE TokenCrash
  <2>1. call' = [c \in Call |-> NoCall] /\ UNCHANGED <<issued, cookie, stored, revoked>>
    BY <1>2 DEF TokenCrash
  <2>2. \A c \in Call : call'[c].pc = "idle" /\ call'[c].token = 0 /\ call'[c].new = 0
    BY <2>1, NoCallIs
  <2>3. TokensTyped' /\ 0 <= issued
    BY <2>1, NoCallIs, TokenAssumption DEF TokenInv, TokensTyped
  <2> QED BY <2>1, <2>2, <2>3 DEF TokenInv, DrawnSound, TokensInHand, FreshSound
<1> QED BY <1>1, <1>2

-----------------------------------------------------------------------------
(* The theorems.                                                           *)

LEMMA TokenInvariant == TokenSpec => []TokenInv
<1>1. TokenInv /\ [TokenNext]_tokenVars => TokenInv'
  <2> SUFFICES ASSUME TokenInv, [TokenNext]_tokenVars PROVE TokenInv'
    OBVIOUS
  <2>1. ASSUME NEW c \in Call, NEW d \in Device, Login(c, d) \/ Refresh(c, d) \/ Logout(c, d)
        PROVE  TokenInv'
    BY <2>1, ComesKeeps
  <2>2. ASSUME NEW c \in Call,
               \/ VerifyRefreshToken(c) \/ VerifyFails(c) \/ FindFails(c)
               \/ IssueRefreshToken(c) \/ IssueFails(c) \/ Reply(c) \/ ReplyLost(c)
        PROVE  TokenInv'
    BY <2>2, GoesOnKeeps
  <2>3. ASSUME NEW c \in Call, RevokeRefreshToken(c) \/ RevokeFails(c) PROVE TokenInv'
    BY <2>3, RevokeKeeps
  <2>4. CASE (\E t \in Token : ExpireToken(t)) \/ TokenCrash \/ UNCHANGED tokenVars
    BY <2>4, TokenRestKeeps
  <2> QED BY <2>1, <2>2, <2>3, <2>4 DEF TokenNext
<1> QED BY <1>1, InitTokens, PTL DEF TokenSpec

\* What the two invariants leave open of the types.
TokenBounds ==
    /\ expired \subseteq Token
    /\ wanted \subseteq Device /\ overlapped \subseteq Device
    /\ tokenFaults \in 0..MaxTokenFaults

\* A step of a call keeps these.
LEMMA CallsBounded ==
  ASSUME TokenInv, TokenBounds, NEW c \in Call,
         \/ VerifyRefreshToken(c) \/ VerifyFails(c) \/ FindFails(c)
         \/ RevokeRefreshToken(c) \/ RevokeFails(c)
         \/ IssueRefreshToken(c) \/ IssueFails(c) \/ Reply(c) \/ ReplyLost(c)
  PROVE  TokenBounds'
<1>1. tokenFaults' \in 0..MaxTokenFaults
  <2>1. \/ tokenFaults' = tokenFaults
        \/ tokenFaults < MaxTokenFaults /\ tokenFaults' = tokenFaults + 1
    BY DEF VerifyRefreshToken, VerifyFails, FindFails, RevokeRefreshToken, RevokeFails,
           IssueRefreshToken, IssueFails, Reply, ReplyLost, TokenFault
  <2> QED BY <2>1, TokenAssumption DEF TokenBounds
<1>2. expired' = expired /\ overlapped' = overlapped
  BY DEF VerifyRefreshToken, VerifyFails, FindFails, RevokeRefreshToken, RevokeFails,
         IssueRefreshToken, IssueFails, Reply, ReplyLost
<1>3. wanted' \subseteq Device
  <2>1. CASE Reply(c)
    <3>1. call[c].device \in Device
      BY <2>1, NoCallIs DEF Reply, TokenInv, TokensTyped, CallState
    <3>2. wanted' \subseteq wanted \cup {call[c].device}
      BY <2>1 DEF Reply
    <3> QED BY <3>1, <3>2 DEF TokenBounds
  <2>2. CASE ~Reply(c)
    <3>1. wanted' = wanted
      BY <2>2 DEF VerifyRefreshToken, VerifyFails, FindFails, RevokeRefreshToken, RevokeFails,
                  IssueRefreshToken, IssueFails, ReplyLost
    <3> QED BY <3>1 DEF TokenBounds
  <2> QED BY <2>1, <2>2
<1> QED BY <1>1, <1>2, <1>3 DEF TokenBounds

\* So does every other step.
LEMMA TokensBounded ==
  ASSUME TokenInv, TokenBounds, [TokenNext]_tokenVars
  PROVE  TokenBounds'
<1>1. ASSUME NEW c \in Call, NEW d \in Device, Login(c, d) \/ Refresh(c, d) \/ Logout(c, d)
      PROVE  TokenBounds'
  <2>1. /\ expired' = expired /\ wanted' \subseteq wanted /\ tokenFaults' = tokenFaults
        /\ overlapped' \subseteq overlapped \cup {d}
    BY <1>1 DEF Login, Refresh, Logout, Arrive
  <2> QED BY <2>1 DEF TokenBounds
<1>2. ASSUME NEW t \in Token, ExpireToken(t) PROVE TokenBounds'
  BY <1>2 DEF ExpireToken, TokenBounds
<1>3. CASE TokenCrash
  BY <1>3, TokenAssumption DEF TokenCrash, TokenFault, TokenBounds
<1>4. CASE UNCHANGED tokenVars
  BY <1>4 DEF tokenVars, TokenBounds
<1> QED BY <1>1, <1>2, <1>3, <1>4, CallsBounded DEF TokenNext

\* The types of refreshTokenService's keys, of the cookies and of the calls, for any
\* number of them.
THEOREM TokenTypeCorrect == TokenSpec => []TokenTypeOK
<1>1. TokenInit => TokenBounds
  BY TokenAssumption DEF TokenInit, TokenBounds
<1>2. TokenInv /\ TokenBounds => TokenTypeOK
  <2> SUFFICES ASSUME TokenInv, TokenBounds PROVE TokenTypeOK
    OBVIOUS
  <2>1. revoked \subseteq Token
    BY TokenAssumption DEF TokenInv, DrawnSound, TokensTyped, Token
  <2> QED BY <2>1 DEF TokenInv, TokensTyped, CallState, TokenBounds, TokenTypeOK
<1> QED BY <1>1, <1>2, TokensBounded, TokenInvariant, PTL DEF TokenSpec

\* In production a token whose revocation was confirmed opens no session again,
\* whatever fails and however the calls of the tabs interleave
\* (refreshTokenService.js:79-97).
THEOREM RevokedTokensStayDead == TokenSpec => DeadTokensStayDead
<1> DEFINE Step ==
      Production => \A c \in Call : Accepted(c) => call[c].token \notin revoked
<1>1. TokenInv /\ [TokenNext]_tokenVars => [Step]_tokenVars
  <2> SUFFICES ASSUME TokenInv, TokenNext, Production, NEW c \in Call,
                      call[c].pc = "get", call'[c].pc = "rotate"
               PROVE  call[c].token \notin revoked
    BY DEF Accepted
  <2>1. call \in [Call -> CallState] /\ \A b \in Call : call[b].pc = "get" => call[b] # NoCall
    BY NoCallIs DEF TokenInv, TokensTyped
  <2>2. ASSUME NEW b \in Call, NEW d \in Device, Login(b, d) \/ Refresh(b, d) \/ Logout(b, d)
        PROVE  FALSE
    BY <2>1, <2>2 DEF Login, Refresh, Logout, Arrive
  <2>3. ASSUME NEW b \in Call,
               \/ FindFails(b) \/ RevokeRefreshToken(b) \/ RevokeFails(b)
               \/ IssueRefreshToken(b) \/ IssueFails(b) \/ Reply(b) \/ ReplyLost(b)
        PROVE  FALSE
    <3>1. call[b].pc # "get"
      BY <2>3 DEF FindFails, RevokeRefreshToken, RevokeFails, AfterRevoke, IssueRefreshToken,
                  IssueFails, Reply, ReplyLost
    <3>2. call'[c] = call[c]
      BY <2>1, <2>3, <3>1
         DEF FindFails, RevokeRefreshToken, RevokeFails, AfterRevoke, IssueRefreshToken,
             IssueFails, Reply, ReplyLost, MoveTo
    <3> QED BY <3>2
  <2>4. ASSUME (\E t \in Token : ExpireToken(t)) \/ TokenCrash PROVE FALSE
    BY <2>1, <2>4, NoCallIs DEF ExpireToken, TokenCrash
  <2>5. PICK b \in Call : VerifyRefreshToken(b) \/ VerifyFails(b)
    BY <2>2, <2>3, <2>4 DEF TokenNext
  <2>6. b = c
    BY <2>1, <2>5 DEF VerifyRefreshToken, VerifyFails, MoveTo
  <2>7. CASE VerifyFails(b)
    <3>1. call'[c].pc = "clear"
      BY <2>1, <2>6, <2>7, CallRecord DEF VerifyFails, MoveTo, TokenInv
    <3> QED BY <3>1
  <2>8. CASE VerifyRefreshToken(b)
    <3>1. call'[c].pc = IF call[c].token \in stored \ expired THEN "rotate" ELSE "clear"
      BY <2>1, <2>6, <2>8, CallRecord DEF VerifyRefreshToken, MoveTo, TokenInv
    <3> QED BY <3>1 DEF TokenInv
  <2> QED BY <2>5, <2>7, <2>8
<1> QED BY <1>1, TokenInvariant, PTL DEF TokenSpec, DeadTokensStayDead

-----------------------------------------------------------------------------
(* The browser that stays logged in.                                       *)

InCall(c) == call[c].pc # "idle"
Issuing(c) == call[c].pc \in {"set", "reply"}

\* A browser's cookie is its own, and so is the token a call has taken from it.
TokensApart ==
    /\ \A d, e \in Device : cookie[d] # 0 /\ cookie[d] = cookie[e] => d = e
    /\ \A c \in Call, d \in Device :
          call[c].token # 0 /\ call[c].token = cookie[d] => call[c].device = d

\* Until the answer the token issued is known to its call alone.
NewApart ==
    \A c \in Call :
        /\ call[c].new # 0 <=> Issuing(c)
        /\ Issuing(c) =>
              /\ \A d \in Device : cookie[d] # call[c].new
              /\ \A b \in Call : call[b].token # call[c].new
              /\ \A b \in Call : b # c => call[b].new # call[c].new

\* Nothing stored is past its time.
InTime ==
    /\ expired \subseteq 1..issued /\ stored \cap expired = {}
    /\ \A c \in Call : call[c].new \notin expired

\* A browser that never had two calls at once has one at most, and one that is to be
\* verified still carries the browser's cookie.
OneAtATime ==
    /\ \A b, c \in Call :
          /\ InCall(b) /\ InCall(c)
          /\ call[b].device = call[c].device /\ call[c].device \notin overlapped
          => b = c
    /\ \A c \in Call :
          call[c].pc = "get" /\ call[c].device \notin overlapped
              => call[c].token = cookie[call[c].device]

\* As long as nothing failed: what is handed out is stored, and a browser that wants
\* to stay logged in is refreshing, or logging in again, or its cookie is good.
Verifies(d) == \A c \in Call : InCall(c) /\ call[c].device = d => call[c].pc = "get"

Served ==
    /\ \A c \in Call : call[c].pc = "reply" => call[c].new \in stored
    /\ \A d \in wanted \ overlapped :
          /\ \A c \in Call :
                InCall(c) /\ call[c].device = d => call[c].pc \in {"get", "rotate", "set", "reply"}
          /\ Verifies(d) => cookie[d] \in stored

LoginInv ==
    /\ wanted \subseteq Device /\ tokenFaults \in Nat
    /\ TokensApart /\ NewApart /\ InTime /\ OneAtATime
    /\ tokenFaults = 0 => Served

LEMMA BusyIs ==
  ASSUME TokenInv
  PROVE  \A d : Busy(d) <=> \E c \in Call : InCall(c) /\ call[c].device = d
BY NoCallIs DEF TokenInv, TokensTyped, CallState, Places, Busy, InCall

LEMMA InitLogin == TokenInit => LoginInv
<1> SUFFICES ASSUME TokenInit PROVE LoginInv
  OBVIOUS
<1>1. \A c \in Call : call[c].pc = "idle" /\ call[c].token = 0 /\ call[c].new = 0
  BY NoCallIs DEF TokenInit
<1>2. /\ issued = 0 /\ expired = {} /\ stored = {} /\ wanted = {} /\ tokenFaults = 0
      /\ \A d \in Device : cookie[d] = 0
  BY NoCallIs DEF TokenInit
<1> QED
  BY <1>1, <1>2
     DEF LoginInv, TokensApart, NewApart, InTime, OneAtATime, Served, InCall, Issuing

\* A call that goes on: only its place changes.
LEMMA GoesTo ==
  ASSUME TokenInv, NEW c \in Call, InCall(c), NEW pc \in Places,
         call' = [call EXCEPT ![c].pc = pc]
  PROVE  /\ \A b \in Call : b # c => call'[b] = call[b]
         /\ call'[c].pc = pc /\ call'[c].device = call[c].device
         /\ call'[c].token = call[c].token /\ call'[c].new = call[c].new
         /\ InCall(c)'
<1>1. call[c] \in [pc : Places, device : Device,
                   token : Token \cup {NoToken}, new : Token \cup {NoToken}]
  BY CallRecord DEF TokenInv, InCall
<1> QED BY <1>1 DEF TokenInv, TokensTyped, InCall, Places

\* A call that comes or ends.
LEMMA Becomes ==
  ASSUME TokenInv, NEW c \in Call, NEW s, call' = [call EXCEPT ![c] = s]
  PROVE  call'[c] = s /\ \A b \in Call : b # c => call'[b] = call[b]
BY DEF TokenInv, TokensTyped

\* GET answered or not, SET done or not, and the end of a logout's DEL.
LEMMA GoesOnLogin ==
  ASSUME TokenInv, LoginInv, NEW c \in Call, InCall(c), NEW pc \in Places,
         call' = [call EXCEPT ![c].pc = pc], pc # "get",
         Issuing(c) <=> pc \in {"set", "reply"},
         UNCHANGED <<cookie, issued, expired, wanted, overlapped>>
  PROVE  TokensApart' /\ NewApart' /\ OneAtATime'
         /\ \A b \in Call : call'[b].new \notin expired'
<1>1. /\ \A b \in Call : b # c => call'[b] = call[b]
      /\ call'[c].pc = pc /\ call'[c].device = call[c].device
      /\ call'[c].token = call[c].token /\ call'[c].new = call[c].new
  BY GoesTo
<1>2. TokensApart'
  BY <1>1 DEF LoginInv, TokensApart
<1>3. NewApart'
  BY <1>1 DEF LoginInv, NewApart, Issuing
<1>4. OneAtATime'
  BY <1>1 DEF LoginInv, OneAtATime, InCall
<1>5. \A b \in Call : call'[b].new \notin expired'
  BY <1>1 DEF LoginInv, InTime
<1> QED BY <1>2, <1>3, <1>4, <1>5

\* A step that failed says nothing of what is served.
LEMMA FailedLogin ==
  ASSUME LoginInv, NEW kind, TokenFault(kind)
  PROVE  tokenFaults' \in Nat /\ tokenFaults' # 0
BY DEF LoginInv, TokenFault

LEMMA VerifyLogin ==
  ASSUME TokenInv, LoginInv, NEW c \in Call, VerifyRefreshToken(c) \/ VerifyFails(c)
  PROVE  LoginInv'
<1>1. call[c].pc = "get" /\ InCall(c) /\ ~Issuing(c)
  BY DEF VerifyRefreshToken, VerifyFails, InCall, Issuing
<1>2. PICK pc \in {"rotate", "clear"} :
         /\ call' = [call EXCEPT ![c].pc = pc]
         /\ VerifyRefreshToken(c) /\ call[c].token \in stored \ expired => pc = "rotate"
  BY <1>1 DEF VerifyRefreshToken, VerifyFails, MoveTo
<1>3. UNCHANGED <<stored, cookie, issued, expired, wanted, overlapped>>
  BY DEF VerifyRefreshToken, VerifyFails
<1>4. /\ \A b \in Call : b # c => call'[b] = call[b]
      /\ call'[c].pc = pc /\ call'[c].device = call[c].device
  BY <1>1, <1>2, GoesTo DEF Places
<1>5. TokensApart' /\ NewApart' /\ OneAtATime' /\ \A b \in Call : call'[b].new \notin expired'
  BY <1>1, <1>2, <1>3, GoesOnLogin DEF Places, Issuing
<1>6. InTime'
  BY <1>3, <1>5 DEF LoginInv, InTime
<1>7. CASE VerifyFails(c)
  <2>1. tokenFaults' \in Nat /\ tokenFaults' # 0
    BY <1>7, FailedLogin DEF VerifyFails
  <2> QED BY <1>3, <1>5, <1>6, <2>1 DEF LoginInv
<1>8. CASE VerifyRefreshToken(c)
  <2>1. tokenFaults' = tokenFaults
    BY <1>8 DEF VerifyRefreshToken
  <2>2. ASSUME Served, tokenFaults = 0 PROVE Served'
    <3>1. \A b \in Call : call'[b].pc = "reply" => call'[b].new \in stored'
      BY <1>2, <1>3, <1>4, <2>2 DEF Served
    <3>2. ASSUME NEW d \in wanted \ overlapped, call[c].device = d PROVE pc = "rotate"
      <4>1. Verifies(d) /\ call[c].token = cookie[d]
        BY <1>1, <3>2 DEF LoginInv, OneAtATime, Verifies
      <4>2. cookie[d] \in stored
        BY <2>2, <4>1 DEF Served
      <4> QED BY <1>2, <1>8, <4>1, <4>2 DEF LoginInv, InTime
    <3>3. ASSUME NEW d \in wanted \ overlapped
          PROVE  /\ \A b \in Call : InCall(b)' /\ call'[b].device = d
                        => call'[b].pc \in {"get", "rotate", "set", "reply"}
                 /\ Verifies(d)' => cookie[d] \in stored
      <4>1. \A b \in Call : InCall(b)' /\ call'[b].device = d
                        => call'[b].pc \in {"get", "rotate", "set", "reply"}
        BY <1>2, <1>4, <2>2, <3>2 DEF Served, InCall
      <4>2. ASSUME Verifies(d)' PROVE Verifies(d)
        BY <1>1, <1>4, <4>2 DEF Verifies, InCall
      <4> QED BY <2>2, <4>1, <4>2 DEF Served
    <3> QED BY <1>3, <3>1, <3>3 DEF Served
  <2> QED BY <1>3, <1>5, <1>6, <2>1, <2>2 DEF LoginInv
<1> QED BY <1>7, <1>8

LEMMA IssueLogin ==
  ASSUME TokenInv, LoginInv, NEW c \in Call, IssueRefreshToken(c) \/ IssueFails(c)
  PROVE  LoginInv'
<1>1. /\ call[c].pc = "set" /\ InCall(c) /\ Issuing(c)
      /\ call' = [call EXCEPT ![c].pc = "reply"]
      /\ stored' \in {stored, stored \cup {call[c].new}}
      /\ UNCHANGED <<cookie, issued, expired, wanted, overlapped>>
  BY DEF IssueRefreshToken, IssueFails, InCall, Issuing, MoveTo
<1>2. /\ \A b \in Call : b # c => call'[b] = call[b]
      /\ call'[c].pc = "reply" /\ call'[c].device = call[c].device /\ call'[c].new = call[c].new
  BY <1>1, GoesTo DEF Places
<1>3. TokensApart' /\ NewApart' /\ OneAtATime' /\ \A b \in Call : call'[b].new \notin expired'
  BY <1>1, GoesOnLogin DEF Places
<1>4. InTime'
  BY <1>1, <1>3 DEF LoginInv, InTime
<1>5. CASE IssueFails(c)
  <2>1. tokenFaults' \in Nat /\ tokenFaults' # 0
    BY <1>5, FailedLogin DEF IssueFails
  <2> QED BY <1>1, <1>3, <1>4, <2>1 DEF LoginInv
<1>6. CASE IssueRefreshToken(c)
  <2>1. tokenFaults' = tokenFaults /\ stored' = stored \cup {call[c].new}
    BY <1>6 DEF IssueRefreshToken
  <2>2. ASSUME Served PROVE Served'
    <3>1. \A b \in Call : call'[b].pc = "reply" => call'[b].new \in stored'
      BY <1>2, <2>1, <2>2 DEF Served
    <3>2. ASSUME NEW d \in wanted \ overlapped
          PROVE  /\ \A b \in Call : InCall(b)' /\ call'[b].device = d
                        => call'[b].pc \in {"get", "rotate", "set", "reply"}
                 /\ Verifies(d)' => cookie[d] \in stored'
      <4>1. \A b \in Call : InCall(b)' /\ call'[b].device = d
                        => call'[b].pc \in {"get", "rotate", "set", "reply"}
        BY <1>2, <2>2 DEF Served, InCall
      <4>2. ASSUME Verifies(d)' PROVE Verifies(d)
        BY <1>1, <1>2, <4>2 DEF Verifies, InCall
      <4> QED BY <2>1, <2>2, <4>1, <4>2 DEF Served
    <3> QED BY <1>1, <3>1, <3>2 DEF Served
  <2> QED BY <1>1, <1>3, <1>4, <2>1, <2>2 DEF LoginInv
<1> QED BY <1>5, <1>6

\* A token drawn is in nobody's hands.
LEMMA DrawnIsNew ==
  ASSUME TokenInv, LoginInv
  PROVE  /\ issued + 1 # 0 /\ issued + 1 \notin expired
         /\ \A d \in Device : cookie[d] # issued + 1
         /\ \A b \in Call : call[b].token # issued + 1 /\ call[b].new # issued + 1
<1>1. issued \in Nat
  BY TokenAssumption DEF TokenInv, TokensTyped
<1>2. \A d \in Device : cookie[d] \in Nat /\ cookie[d] <= issued
  BY TokenAssumption, NoCallIs DEF TokenInv, TokensTyped, DrawnSound, Token
<1>3. \A b \in Call : call[b].token \in Nat /\ call[b].new \in Nat
                      /\ call[b].token <= issued /\ call[b].new <= issued
  BY CallHolds DEF TokenInv, DrawnSound
<1> QED BY <1>1, <1>2, <1>3 DEF LoginInv, InTime

LEMMA RotateLogin ==
  ASSUME TokenInv, LoginInv, NEW c \in Call, call[c].pc = "rotate", Draw,
         \A b \in Call : b # c => call'[b] = call[b],
         call'[c].pc = "set", call'[c].device = call[c].device,
         call'[c].token = call[c].token, call'[c].new = issued + 1,
         UNCHANGED <<cookie, expired, wanted, overlapped>>
  PROVE  /\ TokensApart' /\ NewApart' /\ OneAtATime'
         /\ expired' \subseteq 1..issued' /\ \A b \in Call : call'[b].new \notin expired'
<1>1. TokensApart'
  BY DEF LoginInv, TokensApart
<1>2. NewApart'
  BY DrawnIsNew DEF LoginInv, NewApart, Issuing
<1>3. OneAtATime'
  BY DEF LoginInv, OneAtATime, InCall
<1>4. \A b \in Call : call'[b].new \notin expired'
  BY DrawnIsNew DEF LoginInv, InTime
<1>5. expired' \subseteq 1..issued'
  BY TokenAssumption DEF Draw, LoginInv, InTime, TokenInv, TokensTyped
<1> QED BY <1>1, <1>2, <1>3, <1>4, <1>5

LEMMA RevokeLogin ==
  ASSUME TokenInv, LoginInv, NEW c \in Call, RevokeRefreshToken(c) \/ RevokeFails(c)
  PROVE  LoginInv'
<1>1. /\ call[c].pc \in {"rotate", "logout"} /\ InCall(c) /\ call[c].token # 0
      /\ UNCHANGED <<cookie, expired, wanted, overlapped>>
      /\ stored' \in {stored, stored \ {call[c].token}}
  BY NoCallIs DEF RevokeRefreshToken, RevokeFails, AfterRevoke, InCall, TokenInv, TokensInHand
<1>2. /\ \A b \in Call : b # c => call'[b] = call[b]
      /\ call'[c].device = call[c].device
      /\ \/ call[c].pc = "rotate" /\ call'[c].pc = "set"
         \/ call[c].pc = "logout" /\ call'[c].pc = "clear"
      /\ TokensApart' /\ NewApart' /\ OneAtATime'
      /\ expired' \subseteq 1..issued' /\ \A b \in Call : call'[b].new \notin expired'
  <2>1. CASE /\ call[c].pc = "rotate" /\ Draw
             /\ call' = [call EXCEPT ![c].pc = "set", ![c].new = issued + 1]
    <3>1. /\ \A b \in Call : b # c => call'[b] = call[b]
          /\ call'[c].pc = "set" /\ call'[c].device = call[c].device
          /\ call'[c].token = call[c].token /\ call'[c].new = issued + 1
      BY <2>1, CallRecord DEF TokenInv, TokensTyped
    <3>2. call[c].pc = "rotate" /\ Draw
      BY <2>1
    <3> QED BY <1>1, <3>1, <3>2, RotateLogin
  <2>2. CASE call[c].pc = "logout" /\ MoveTo(c, "clear") /\ UNCHANGED issued
    <3>1. call' = [call EXCEPT ![c].pc = "clear"]
      BY <2>2 DEF MoveTo
    <3>2. expired' \subseteq 1..issued'
      BY <1>1, <2>2 DEF LoginInv, InTime
    <3>3. ~Issuing(c)
      BY <2>2 DEF Issuing
    <3>4. /\ \A b \in Call : b # c => call'[b] = call[b]
          /\ call'[c].device = call[c].device /\ call'[c].pc = "clear"
      BY <1>1, <3>1, GoesTo DEF Places
    <3>5. TokensApart' /\ NewApart' /\ OneAtATime' /\ \A b \in Call : call'[b].new \notin expired'
      BY <1>1, <2>2, <3>1, <3>3, GoesOnLogin DEF Places
    <3> QED BY <2>2, <3>2, <3>4, <3>5
  <2> QED BY <2>1, <2>2 DEF RevokeRefreshToken, RevokeFails, AfterRevoke
<1>3. InTime'
  BY <1>1, <1>2 DEF LoginInv, InTime
<1>4. CASE RevokeFails(c)
  <2>1. tokenFaults' \in Nat /\ tokenFaults' # 0
    BY <1>4, FailedLogin DEF RevokeFails
  <2> QED BY <1>1, <1>2, <1>3, <2>1 DEF LoginInv
<1>5. CASE RevokeRefreshToken(c)
  <2>1. tokenFaults' = tokenFaults
    BY <1>5 DEF RevokeRefreshToken
  <2>2. ASSUME Served PROVE Served'
    <3>1. ASSUME NEW b \in Call, call'[b].pc = "reply" PROVE call'[b].new \in stored'
      <4>1. call'[b] = call[b] /\ Issuing(b) /\ call[b].new \in stored
        BY <1>2, <2>2, <3>1 DEF Served, Issuing
      <4>2. call[b].new # call[c].token
        BY <4>1 DEF LoginInv, NewApart
      <4> QED BY <1>1, <4>1, <4>2
    <3>2. ASSUME NEW d \in wanted \ overlapped
          PROVE  /\ \A b \in Call : InCall(b)' /\ call'[b].device = d
                        => call'[b].pc \in {"get", "rotate", "set", "reply"}
                 /\ Verifies(d)' => cookie[d] \in stored'
      <4>1. \A b \in Call : InCall(b)' /\ call'[b].device = d
                        => call'[b].pc \in {"get", "rotate", "set", "reply"}
        BY <1>1, <1>2, <2>2, <3>2 DEF Served, InCall
      <4>2. ASSUME Verifies(d)' PROVE Verifies(d) /\ call[c].device # d
        BY <1>1, <1>2, <4>2 DEF Verifies, InCall
      <4>3. d \in Device
        BY DEF LoginInv
      <4>4. ASSUME call[c].device # d PROVE cookie[d] # call[c].token
        BY <1>1, <4>3, <4>4 DEF LoginInv, TokensApart
      <4> QED BY <1>1, <2>2, <4>1, <4>2, <4>4 DEF Served
    <3> QED BY <1>1, <3>1, <3>2 DEF Served
  <2> QED BY <1>1, <1>2, <1>3, <2>1, <2>2 DEF LoginInv
<1> QED BY <1>4, <1>5

\* A call that comes, with the browser's cookie or none, and perhaps a token drawn.
LEMMA ArrivesLogin ==
  ASSUME TokenInv, LoginInv, NEW c \in Call, NEW d \in Device, NEW pc \in Places,
         NEW token \in {0, cookie[d]}, NEW new \in {0, issued + 1},
         Arrive(c, d, pc, token, new), pc # "reply",
         new # 0 <=> pc = "set", pc = "get" => token = cookie[d],
         IF new = 0 THEN issued' = issued ELSE Draw,
         UNCHANGED <<stored, cookie, expired, tokenFaults>>,
         wanted' = IF pc \in {"logout", "clear"} THEN wanted \ {d} ELSE wanted
  PROVE  LoginInv'
<1> DEFINE s == [pc |-> pc, device |-> d, token |-> token, new |-> new]
<1>1. call' = [call EXCEPT ![c] = s] /\ call[c].pc = "idle" /\ pc # "idle"
  BY NoCallIs DEF Arrive, Places
<1>2. s.pc = pc /\ s.device = d /\ s.token = token /\ s.new = new
  OBVIOUS
<1> HIDE DEF s
<1>3. /\ \A b \in Call : b # c => call'[b] = call[b]
      /\ call'[c].pc = pc /\ call'[c].device = d /\ call'[c].token = token
      /\ call'[c].new = new
  BY <1>1, <1>2, Becomes
<1>4. overlapped \subseteq overlapped' /\ (d \notin overlapped' => ~Busy(d))
  BY DEF Arrive
<1>5. d \notin overlapped' => \A b \in Call : InCall(b) => call[b].device # d
  BY <1>4, BusyIs
<1>6. TokensApart'
  BY <1>3 DEF LoginInv, TokensApart
<1>7. NewApart'
  <2>1. \A b \in Call : Issuing(b) => token # call[b].new /\ (new # 0 => new # call[b].new)
    BY DrawnIsNew DEF LoginInv, NewApart
  <2>2. new # 0 => /\ \A e \in Device : cookie[e] # new
                   /\ \A b \in Call : call[b].token # new /\ call[b].new # new
                   /\ token # new
    BY DrawnIsNew
  <2>3. \A b \in Call : b # c => (Issuing(b)' <=> Issuing(b))
    BY <1>3 DEF Issuing
  <2>4. Issuing(c)' <=> pc = "set"
    BY <1>3 DEF Issuing
  <2> QED BY <1>3, <2>1, <2>2, <2>3, <2>4 DEF LoginInv, NewApart
<1>8. InTime'
  <2>1. expired \subseteq 1..issued'
    BY TokenAssumption DEF Draw, LoginInv, InTime, TokenInv, TokensTyped
  <2>2. new \notin expired
    BY DrawnIsNew DEF LoginInv, InTime
  <2> QED BY <1>3, <2>1, <2>2 DEF LoginInv, InTime
<1>9. OneAtATime'
  BY <1>3, <1>4, <1>5 DEF LoginInv, OneAtATime, InCall
<1>10. ASSUME Served PROVE Served'
  <2>1. \A b \in Call : call'[b].pc = "reply" => call'[b].new \in stored'
    BY <1>3, <1>10 DEF Served
  <2>2. ASSUME NEW e \in wanted' \ overlapped'
        PROVE  /\ \A b \in Call : InCall(b)' /\ call'[b].device = e
                      => call'[b].pc \in {"get", "rotate", "set", "reply"}
               /\ Verifies(e)' => cookie[e] \in stored'
    <3>1. e \in wanted \ overlapped /\ (e = d => pc \notin {"logout", "clear"})
      BY <1>4
    <3>2. \A b \in Call : InCall(b)' /\ call'[b].device = e
                      => call'[b].pc \in {"get", "rotate", "set", "reply"}
      BY <1>3, <1>10, <3>1 DEF Served, InCall, Places
    <3>3. ASSUME Verifies(e)' PROVE Verifies(e)
      BY <1>1, <1>3, <3>3 DEF Verifies, InCall
    <3> QED BY <1>10, <3>1, <3>2, <3>3 DEF Served
  <2> QED BY <2>1, <2>2 DEF Served
<1>11. wanted' \subseteq Device
  BY DEF LoginInv
<1> QED BY <1>6, <1>7, <1>8, <1>9, <1>10, <1>11 DEF LoginInv

LEMMA ComesLogin ==
  ASSUME TokenInv, LoginInv, NEW c \in Call, NEW d \in Device,
         Login(c, d) \/ Refresh(c, d) \/ Logout(c, d)
  PROVE  LoginInv'
<1>1. CASE Login(c, d)
  <2>1. Arrive(c, d, "set", 0, issued + 1) /\ Draw /\ issued + 1 # 0
        /\ UNCHANGED <<stored, cookie, expired, tokenFaults, wanted>>
    BY <1>1, NoCallIs, DrawnIsNew DEF Login
  <2> QED BY <2>1, ArrivesLogin DEF Places
<1>2. CASE Refresh(c, d)
  <2>1. Arrive(c, d, "get", cookie[d], 0)
        /\ UNCHANGED <<issued, stored, cookie, expired, tokenFaults, wanted>>
    BY <1>2, NoCallIs DEF Refresh
  <2> QED BY <2>1, ArrivesLogin DEF Places
<1>3. CASE Logout(c, d)
  <2>1. PICK pc \in {"clear", "logout"} : Arrive(c, d, pc, cookie[d], 0)
    BY <1>3, NoCallIs DEF Logout
  <2>2. UNCHANGED <<issued, stored, cookie, expired, tokenFaults>> /\ wanted' = wanted \ {d}
    BY <1>3 DEF Logout
  <2> QED BY <2>1, <2>2, ArrivesLogin DEF Places
<1> QED BY <1>1, <1>2, <1>3

\* The answer arrives or not; a statement throws.
LEMMA EndsLogin ==
  ASSUME TokenInv, LoginInv, NEW c \in Call, FindFails(c) \/ Reply(c) \/ ReplyLost(c)
  PROVE  LoginInv'
<1>1. /\ InCall(c) /\ call' = [call EXCEPT ![c] = NoCall]
      /\ UNCHANGED <<stored, expired, issued, overlapped>>
      /\ cookie' = cookie \/ cookie' = [cookie EXCEPT ![call[c].device] = call[c].new]
  BY DEF FindFails, Reply, ReplyLost, InCall
<1>2. /\ \A b \in Call : b # c => call'[b] = call[b]
      /\ call'[c].pc = "idle" /\ call'[c].token = 0 /\ call'[c].new = 0
  BY <1>1, Becomes, NoCallIs
<1>3. /\ \A d \in Device : cookie'[d] = cookie[d]
                           \/ (d = call[c].device /\ cookie'[d] = call[c].new)
  BY <1>1 DEF TokenInv, TokensTyped
<1>4. call[c].device \in Device
  BY <1>1, CallRecord DEF InCall, TokenInv
<1>5. call[c].new # 0 => /\ \A d \in Device : cookie[d] # call[c].new
                         /\ \A b \in Call : call[b].token # call[c].new
                         /\ \A b \in Call : b # c => call[b].new # call[c].new
  BY DEF LoginInv, NewApart
<1>6. TokensApart'
  BY <1>2, <1>3, <1>5 DEF LoginInv, TokensApart
<1>7. NewApart'
  BY <1>2, <1>3, <1>5 DEF LoginInv, NewApart, Issuing
<1>8. InTime'
  <2>1. 0 \notin expired
    BY DEF LoginInv, InTime
  <2> QED BY <1>1, <1>2, <2>1 DEF LoginInv, InTime
<1>9. OneAtATime'
  <2>1. \A a, b \in Call : InCall(a)' /\ InCall(b)' => a # c /\ b # c /\ InCall(a) /\ InCall(b)
    BY <1>2 DEF InCall
  <2>2. ASSUME NEW b \in Call, call'[b].pc = "get", call'[b].device \notin overlapped
        PROVE  call'[b].token = cookie'[call'[b].device]
    <3>1. b # c /\ call'[b] = call[b] /\ InCall(b)
      BY <1>2, <2>2 DEF InCall
    <3>2. call[b].device # call[c].device /\ call[b].device \in Device
      BY <1>1, <2>2, <3>1, CallRecord DEF LoginInv, OneAtATime, TokenInv, InCall
    <3> QED BY <1>3, <2>2, <3>1, <3>2 DEF LoginInv, OneAtATime
  <2> QED BY <1>1, <1>2, <2>1, <2>2 DEF LoginInv, OneAtATime
<1>10. wanted' \subseteq Device
  BY <1>4 DEF LoginInv, FindFails, Reply, ReplyLost
<1>11. CASE FindFails(c) \/ ReplyLost(c)
  <2>1. tokenFaults' \in Nat /\ tokenFaults' # 0
    BY <1>11, FailedLogin DEF FindFails, ReplyLost
  <2> QED BY <1>6, <1>7, <1>8, <1>9, <1>10, <2>1 DEF LoginInv
<1>12. CASE Reply(c)
  <2>1. /\ tokenFaults' = tokenFaults /\ call[c].pc \in {"reply", "clear"}
        /\ wanted' = IF call[c].pc = "reply" /\ call[c].token = NoToken
                     THEN wanted \cup {call[c].device} ELSE wanted
    BY <1>12 DEF Reply
  <2>2. cookie'[call[c].device] = call[c].new
    BY <1>4, <1>12 DEF Reply, TokenInv, TokensTyped
  <2>3. ASSUME Served PROVE Served'
    <3>1. \A b \in Call : call'[b].pc = "reply" => call'[b].new \in stored'
      BY <1>1, <1>2, <2>3 DEF Served
    <3>2. ASSUME NEW d \in wanted' \ overlapped
          PROVE  /\ \A b \in Call : InCall(b)' /\ call'[b].device = d
                        => call'[b].pc \in {"get", "rotate", "set", "reply"}
                 /\ Verifies(d)' => cookie'[d] \in stored
      <4>1. CASE d = call[c].device
        <5>1. call[c].pc = "reply"
          BY <1>1, <2>1, <2>3, <3>2, <4>1 DEF Served
        <5>2. cookie'[d] \in stored
          BY <2>2, <2>3, <4>1, <5>1 DEF Served
        <5>3. \A b \in Call : InCall(b)' => call'[b].device # d
          BY <1>1, <1>2, <3>2, <4>1 DEF LoginInv, OneAtATime, InCall
        <5> QED BY <5>2, <5>3
      <4>2. CASE d # call[c].device
        <5>1. d \in wanted \ overlapped /\ d \in Device
          BY <1>10, <2>1, <3>2, <4>2
        <5>2. cookie'[d] = cookie[d]
          BY <1>3, <4>2, <5>1
        <5>3. \A b \in Call : InCall(b)' => b # c /\ call'[b] = call[b] /\ InCall(b)
          BY <1>2 DEF InCall
        <5>4. ASSUME Verifies(d)' PROVE Verifies(d)
          BY <1>2, <4>2, <5>4 DEF Verifies, InCall
        <5> QED BY <2>3, <5>1, <5>2, <5>3, <5>4 DEF Served
      <4> QED BY <4>1, <4>2
    <3> QED BY <1>1, <3>1, <3>2 DEF Served
  <2> QED BY <1>6, <1>7, <1>8, <1>9, <1>10, <2>1, <2>3 DEF LoginInv
<1> QED BY <1>11, <1>12

LEMMA SurroundingsLogin ==
  ASSUME TokenInv, LoginInv,
         (\E t \in Token : ExpireToken(t)) \/ TokenCrash \/ UNCHANGED tokenVars
  PROVE  LoginInv'
<1>1. CASE \E t \in Token : ExpireToken(t)
  <2>1. PICK t \in Token : ExpireToken(t)
    BY <1>1
  <2>2. /\ t \in 1..issued /\ \A c \in Call : call[c].new # t
        /\ expired' = expired \cup {t} /\ stored' = stored \ {t}
        /\ wanted' = {d \in wanted : cookie[d] # t}
        /\ UNCHANGED <<issued, cookie, call, overlapped, tokenFaults>>
    BY <2>1 DEF ExpireToken
  <2>3. TokensApart' /\ NewApart' /\ OneAtATime'
    BY <2>2 DEF LoginInv, TokensApart, NewApart, OneAtATime, InCall, Issuing
  <2>4. InTime'
    BY <2>2 DEF LoginInv, InTime
  <2>5. ASSUME Served PROVE Served'
    <3>1. \A c \in Call : call[c].pc = "reply" => call[c].new \in stored'
      BY <2>2, <2>5 DEF Served
    <3>2. \A d : Verifies(d)' <=> Verifies(d)
      BY <2>2 DEF Verifies, InCall
    <3>3. \A d \in wanted' \ overlapped : d \in wanted \ overlapped /\ cookie[d] # t
      BY <2>2
    <3> QED BY <2>2, <2>5, <3>1, <3>2, <3>3 DEF Served, InCall
  <2> QED BY <2>2, <2>3, <2>4, <2>5 DEF LoginInv
<1>2. CASE TokenCrash
  <2>1. /\ tokenFaults' \in Nat /\ tokenFaults' # 0
        /\ UNCHANGED <<stored, expired, issued, cookie, wanted, overlapped>>
        /\ \A c \in Call : call'[c] = NoCall
    BY <1>2, FailedLogin DEF TokenCrash
  <2>2. \A c \in Call : call'[c].pc = "idle" /\ call'[c].token = 0 /\ call'[c].new = 0
    BY <2>1, NoCallIs
  <2>3. TokensApart' /\ NewApart' /\ OneAtATime'
    BY <2>1, <2>2 DEF LoginInv, TokensApart, NewApart, OneAtATime, InCall, Issuing
  <2>4. InTime'
    BY <2>1, <2>2 DEF LoginInv, InTime
  <2> QED BY <2>1, <2>3, <2>4 DEF LoginInv
<1>3. CASE UNCHANGED tokenVars
  BY <1>3 DEF tokenVars, LoginInv, TokensApart, NewApart, InTime, OneAtATime, Served, InCall,
              Issuing, Verifies
<1> QED BY <1>1, <1>2, <1>3

\* A browser that does not ask to log out keeps a cookie that the next refresh
\* accepts, as long as nothing failed, its seven days are not over and it sent one
\* request at a time: rotation never leaves it with the revoked token
\* (authController.js:289-294).
THEOREM BrowserStaysLoggedIn == TokenSpec => []StaysLoggedIn
<1>1. TokenInv /\ LoginInv /\ [TokenNext]_tokenVars => LoginInv'
  <2> SUFFICES ASSUME TokenInv, LoginInv, [TokenNext]_tokenVars PROVE LoginInv'
    OBVIOUS
  <2>1. ASSUME NEW c \in Call, NEW d \in Device, Login(c, d) \/ Refresh(c, d) \/ Logout(c, d)
        PROVE  LoginInv'
    BY <2>1, ComesLogin
  <2>2. ASSUME NEW c \in Call, VerifyRefreshToken(c) \/ VerifyFails(c) PROVE LoginInv'
    BY <2>2, VerifyLogin
  <2>3. ASSUME NEW c \in Call, IssueRefreshToken(c) \/ IssueFails(c) PROVE LoginInv'
    BY <2>3, IssueLogin
  <2>4. ASSUME NEW c \in Call, RevokeRefreshToken(c) \/ RevokeFails(c) PROVE LoginInv'
    BY <2>4, RevokeLogin
  <2>5. ASSUME NEW c \in Call, FindFails(c) \/ Reply(c) \/ ReplyLost(c) PROVE LoginInv'
    BY <2>5, EndsLogin
  <2>6. CASE (\E t \in Token : ExpireToken(t)) \/ TokenCrash \/ UNCHANGED tokenVars
    BY <2>6, SurroundingsLogin
  <2> QED BY <2>1, <2>2, <2>3, <2>4, <2>5, <2>6 DEF TokenNext
<1>2. TokenInv /\ LoginInv => StaysLoggedIn
  <2> SUFFICES ASSUME TokenInv, LoginInv, tokenFaults = 0, NEW d \in wanted \ overlapped, ~Busy(d)
               PROVE  cookie[d] \in stored
    BY DEF StaysLoggedIn
  <2>1. Verifies(d)
    BY BusyIs DEF Verifies
  <2> QED BY <2>1 DEF LoginInv, Served
<1> QED BY <1>1, <1>2, TokenInvariant, InitLogin, PTL DEF TokenSpec

-----------------------------------------------------------------------------
(* Password resets: the inductive invariant.                               *)

CallerState ==
    {Away} \cup [pc : {"clear", "insert", "mail", "find", "mark", "write", "sweep"},
                 code : ResetCode, id : Id]

ResetRow == [id : Id, code : ResetCode, used : BOOLEAN, expired : BOOLEAN]

\* No row with this id can be found any more.
NotFound(i) == \A r \in resets : r.id = i => r.used

\* Row ids are given once.
IdsSound ==
    /\ \A r \in resets : r.id <= lastId
    /\ \A q \in Caller : caller[q].id <= lastId

\* A request that is to write the password has marked its row, which it alone did.
WritersSound ==
    /\ \A q \in Caller : At(q, "write") => NotFound(caller[q].id) /\ changes[caller[q].id] = 0
    /\ \A p, q \in Caller : p # q /\ At(p, "write") /\ At(q, "write") => caller[p].id # caller[q].id

\* What a code has done it does not do again.
ChangesSound ==
    \A i \in Id : changes[i] # 0 => changes[i] = 1 /\ i <= lastId /\ NotFound(i)

ResetTyped ==
    /\ resets \subseteq ResetRow
    /\ lastId \in Id
    /\ caller \in [Caller -> CallerState]
    /\ changes \in [Id -> Nat]
    /\ inbox \subseteq ResetCode

ResetInv == ResetTyped /\ IdsSound /\ WritersSound /\ ChangesSound

LEMMA AwayTyped == Away \in CallerState /\ Away.pc = "idle" /\ Away.id = 0 /\ 0 \in Id
BY ResetAssumption DEF CallerState, Away, Id, NoId

LEMMA NotAway ==
  ASSUME NEW q \in Caller, caller[q].pc # "idle"
  PROVE  caller[q] # Away
BY AwayTyped

\* Every request has a row's id, or 0.
LEMMA CallerIds ==
  ASSUME ResetTyped, NEW q \in Caller
  PROVE  caller[q] \in CallerState /\ caller[q].id \in Id /\ caller[q].id \in Nat
<1>1. caller[q] \in CallerState
  BY DEF ResetTyped
<1>2. caller[q].id \in Id
  <2>1. CASE caller[q] = Away
    BY <2>1, AwayTyped
  <2>2. CASE caller[q] # Away
    BY <1>1, <2>2 DEF CallerState
  <2> QED BY <2>1, <2>2
<1> QED BY <1>1, <1>2, ResetAssumption DEF Id

LEMMA InitReset == ResetInit => ResetInv
<1> SUFFICES ASSUME ResetInit PROVE ResetInv
  OBVIOUS
<1>1. \A q \in Caller : caller[q].pc = "idle" /\ caller[q].id = 0
  BY AwayTyped DEF ResetInit
<1>2. lastId = 0 /\ changes = [i \in Id |-> 0] /\ resets = {} /\ inbox = {}
  BY DEF ResetInit, NoId
<1>3. ResetTyped
  BY <1>2, AwayTyped DEF ResetTyped, ResetInit
<1> QED BY <1>1, <1>2, <1>3 DEF ResetInv, IdsSound, WritersSound, ChangesSound, At

-----------------------------------------------------------------------------
(* Each step keeps the invariant.                                          *)

\* A step that only moves requests to places before the write, or away, and whose rows
\* keep to what was there, keeps it.
LEMMA QuietKeeps ==
  ASSUME ResetInv, UNCHANGED <<lastId, changes>>, inbox' \subseteq ResetCode,
         caller' \in [Caller -> CallerState],
         \A q \in Caller : caller'[q].id <= lastId,
         \A q \in Caller : At(q, "write")' => caller'[q] = caller[q],
         resets' \subseteq ResetRow,
         \A r \in resets' : \E s \in resets : s.id = r.id /\ (s.used => r.used)
  PROVE  ResetInv'
<1>1. ResetTyped' /\ IdsSound'
  BY DEF ResetInv, ResetTyped, IdsSound
<1>2. \A i \in Id : NotFound(i) => NotFound(i)'
  BY DEF NotFound
<1>3. ChangesSound'
  BY <1>2 DEF ResetInv, ChangesSound
<1>4. \A q \in Caller : caller[q].id \in Id
  BY CallerIds DEF ResetInv
<1>5. WritersSound'
  BY <1>2, <1>4 DEF ResetInv, WritersSound, At
<1> QED BY <1>1, <1>3, <1>5 DEF ResetInv

\* A request that leaves: it has no row in hand.
LEMMA AwayIsQuiet ==
  ASSUME ResetInv
  PROVE  /\ Away \in CallerState /\ Away.id <= lastId /\ Away.pc # "write"
         /\ \A q \in Caller : caller[q] \in CallerState /\ caller[q].id <= lastId
BY AwayTyped, CallerIds, ResetAssumption DEF ResetInv, ResetTyped, IdsSound, Id

LEMMA LeavesKeeps ==
  ASSUME ResetInv, NEW q \in Caller, Leave(q), resets' \subseteq resets,
         UNCHANGED <<lastId, changes>>, inbox' \subseteq ResetCode
  PROVE  ResetInv'
<1>1. \A p \in Caller : caller'[p] = Away \/ caller'[p] = caller[p]
  BY DEF Leave, ResetInv, ResetTyped
<1>2. DOMAIN caller' = Caller /\ caller' = [p \in Caller |-> caller'[p]]
  BY DEF Leave, ResetInv, ResetTyped
<1>3. caller' \in [Caller -> CallerState]
  BY <1>1, <1>2, AwayIsQuiet
<1>4. \A p \in Caller : caller'[p].id <= lastId
  BY <1>1, AwayIsQuiet
<1>5. \A p \in Caller : At(p, "write")' => caller'[p] = caller[p]
  BY <1>1, AwayIsQuiet DEF At
<1>6. resets' \subseteq ResetRow
  BY DEF ResetInv, ResetTyped
<1> QED BY <1>3, <1>4, <1>5, <1>6, QuietKeeps

\* A request goes on to another place, short of the write, with a row it found or none.
LEMMA MovesKeeps ==
  ASSUME ResetInv, NEW q \in Caller, NEW s \in CallerState, s.pc # "write", s.id <= lastId,
         caller' = [caller EXCEPT ![q] = s], resets' \subseteq resets,
         UNCHANGED <<lastId, changes, inbox>>
  PROVE  ResetInv'
<1>1. \A p \in Caller : caller'[p] = s \/ caller'[p] = caller[p]
  BY DEF ResetInv, ResetTyped
<1>2. caller' \in [Caller -> CallerState]
  BY DEF ResetInv, ResetTyped
<1>3. \A p \in Caller : caller'[p].id <= lastId
  BY <1>1, AwayIsQuiet
<1>4. \A p \in Caller : At(p, "write")' => caller'[p] = caller[p]
  BY <1>1 DEF At
<1>5. resets' \subseteq ResetRow
  BY DEF ResetInv, ResetTyped
<1>6. inbox' \subseteq ResetCode
  BY DEF ResetInv, ResetTyped
<1> QED BY <1>2, <1>3, <1>4, <1>5, <1>6, QuietKeeps

LEMMA CallerRecord ==
  ASSUME ResetInv, NEW q \in Caller, caller[q] # Away
  PROVE  caller[q] \in [pc : {"clear", "insert", "mail", "find", "mark", "write", "sweep"},
                        code : ResetCode, id : Id]
BY DEF ResetInv, ResetTyped, CallerState

LEMMA AskKeeps ==
  ASSUME ResetInv, NEW q \in Caller,
         RequestReset(q) \/ ResetPassword(q) \/ ClearRows(q) \/ FindReset(q)
  PROVE  ResetInv'
<1>0. 0 <= lastId /\ NoId \in Id
  BY ResetAssumption DEF ResetInv, ResetTyped, Id, NoId
<1>1. CASE RequestReset(q)
  <2>1. PICK code \in ResetCode :
          caller' = [caller EXCEPT ![q] = [pc |-> "clear", code |-> code, id |-> NoId]]
    BY <1>1 DEF RequestReset
  <2> DEFINE s == [pc |-> "clear", code |-> code, id |-> NoId]
  <2>2. s \in CallerState /\ s.pc # "write" /\ s.id <= lastId
    BY <1>0 DEF CallerState, NoId
  <2>3. UNCHANGED <<resets, lastId, changes, inbox>>
    BY <1>1 DEF RequestReset
  <2> QED BY <2>1, <2>2, <2>3, MovesKeeps
<1>2. CASE ResetPassword(q)
  <2>1. PICK code \in inbox :
          caller' = [caller EXCEPT ![q] = [pc |-> "find", code |-> code, id |-> NoId]]
    BY <1>2 DEF ResetPassword
  <2> DEFINE s == [pc |-> "find", code |-> code, id |-> NoId]
  <2>2. s \in CallerState /\ s.pc # "write" /\ s.id <= lastId
    BY <1>0, <2>1 DEF CallerState, NoId, ResetInv, ResetTyped
  <2>3. UNCHANGED <<resets, lastId, changes, inbox>>
    BY <1>2 DEF ResetPassword
  <2> QED BY <2>1, <2>2, <2>3, MovesKeeps
<1>3. CASE ClearRows(q)
  <2> DEFINE s == [caller[q] EXCEPT !.pc = "insert"]
  <2>1. caller[q] # Away
    BY <1>3, NotAway DEF ClearRows, At
  <2>2. s \in CallerState /\ s.pc # "write" /\ s.id = caller[q].id
    BY <2>1, CallerRecord DEF CallerState
  <2>3. /\ caller' = [caller EXCEPT ![q] = s]
        /\ resets' \subseteq resets /\ UNCHANGED <<lastId, changes, inbox>>
    BY <1>3 DEF ClearRows, GoOn
  <2>4. s.id <= lastId
    BY <2>2, AwayIsQuiet
  <2> HIDE DEF s
  <2> QED BY <2>2, <2>3, <2>4, MovesKeeps
<1>4. CASE FindReset(q)
  <2>1. UNCHANGED <<resets, lastId, changes, inbox>>
    BY <1>4 DEF FindReset
  <2>2. CASE Leave(q)
    BY <2>1, <2>2, LeavesKeeps DEF ResetInv, ResetTyped
  <2>3. CASE \E r \in resets : WithRow(q, "mark", r.id)
    <3>1. PICK r \in resets : WithRow(q, "mark", r.id)
      BY <2>3
    <3> DEFINE s == [caller[q] EXCEPT !.pc = "mark", !.id = r.id]
    <3>2. caller[q] # Away
      BY <1>4, NotAway DEF FindReset, At
    <3>3. r.id \in Id /\ r.id <= lastId
      BY DEF ResetInv, ResetTyped, IdsSound, ResetRow
    <3>4. s \in CallerState /\ s.pc # "write" /\ s.id <= lastId
      BY <3>2, <3>3, CallerRecord DEF CallerState
    <3>5. caller' = [caller EXCEPT ![q] = s]
      BY <3>1 DEF WithRow
    <3> HIDE DEF s
    <3> QED BY <2>1, <3>4, <3>5, MovesKeeps
  <2> QED BY <1>4, <2>2, <2>3 DEF FindReset
<1> QED BY <1>1, <1>2, <1>3, <1>4

\* A new row has an id nobody has seen.
LEMMA InsertKeeps ==
  ASSUME ResetInv, NEW q \in Caller, InsertRow(q)
  PROVE  ResetInv'
<1>1. CASE Leave(q) /\ UNCHANGED <<resets, lastId>>
  BY <1>1, LeavesKeeps DEF InsertRow, ResetInv, ResetTyped
<1>2. CASE /\ lastId < MaxResetRows
           /\ lastId' = lastId + 1
           /\ resets' = resets \cup {[id |-> lastId + 1, code |-> caller[q].code,
                                      used |-> FALSE, expired |-> FALSE]}
           /\ WithRow(q, "mail", lastId + 1)
  <2> DEFINE s == [caller[q] EXCEPT !.pc = "mail", !.id = lastId + 1]
  <2>1. lastId \in Id /\ lastId + 1 \in Id /\ lastId' \in Id /\ lastId \in Nat
    BY <1>2, ResetAssumption DEF ResetInv, ResetTyped, Id
  <2>2. caller[q] # Away
    BY NotAway DEF InsertRow, At
  <2>3. s \in CallerState /\ s.pc = "mail" /\ s.id = lastId + 1 /\ caller[q].code \in ResetCode
    BY <2>1, <2>2, CallerRecord DEF CallerState
  <2>4. caller' = [caller EXCEPT ![q] = s] /\ UNCHANGED <<changes, inbox>>
    BY <1>2 DEF WithRow, InsertRow
  <2> HIDE DEF s
  <2>5. ResetTyped'
    <3>1. [id |-> lastId + 1, code |-> caller[q].code, used |-> FALSE, expired |-> FALSE]
            \in ResetRow
      BY <2>1, <2>3 DEF ResetRow
    <3>2. resets' \subseteq ResetRow
      BY <1>2, <3>1 DEF ResetInv, ResetTyped
    <3>3. caller' \in [Caller -> CallerState]
      BY <2>3, <2>4 DEF ResetInv, ResetTyped
    <3> QED BY <2>1, <2>4, <3>2, <3>3 DEF ResetInv, ResetTyped
  <2>6. \A p \in Caller : (p = q /\ caller'[p] = s) \/ (p # q /\ caller'[p] = caller[p])
    BY <2>4 DEF ResetInv, ResetTyped
  <2>7. IdsSound'
    <3>1. \A r \in resets' : r.id <= lastId'
      BY <1>2, <2>1 DEF ResetInv, ResetTyped, ResetRow, IdsSound, Id
    <3>2. \A p \in Caller : caller[p].id \in Nat
      BY CallerIds DEF ResetInv
    <3>3. \A p \in Caller : caller'[p].id <= lastId'
      BY <1>2, <2>1, <2>3, <2>6, <3>2 DEF ResetInv, IdsSound
    <3> QED BY <3>1, <3>3 DEF IdsSound
  <2>8. \A i \in Id : i <= lastId /\ NotFound(i) => NotFound(i)'
    BY <1>2, <2>1 DEF NotFound, Id
  <2>9. ChangesSound'
    BY <1>2, <2>1, <2>4, <2>8 DEF ResetInv, ChangesSound, Id
  <2>10. \A p \in Caller : caller[p].id \in Id
    BY CallerIds DEF ResetInv
  <2>11. WritersSound'
    BY <2>3, <2>4, <2>6, <2>8, <2>10 DEF ResetInv, WritersSound, IdsSound, At
  <2> QED BY <2>5, <2>7, <2>9, <2>11 DEF ResetInv
<1> QED BY <1>1, <1>2 DEF InsertRow

\* Of those that found the row one marks it, and no row with its id is left to find.
LEMMA MarkKeeps ==
  ASSUME ResetInv, NEW q \in Caller, MarkUsed(q)
  PROVE  ResetInv'
<1> DEFINE mine == {r \in resets : r.id = caller[q].id /\ ~r.used}
<1>1. UNCHANGED <<lastId, changes, inbox>>
  BY DEF MarkUsed
<1>2. CASE Leave(q) /\ UNCHANGED resets
  BY <1>1, <1>2, LeavesKeeps DEF ResetInv, ResetTyped
<1>3. CASE /\ mine # {}
           /\ resets' = (resets \ mine) \cup {[r EXCEPT !.used = TRUE] : r \in mine}
           /\ GoOn(q, "write")
  <2> DEFINE s == [caller[q] EXCEPT !.pc = "write"]
  <2>1. caller[q] # Away
    BY NotAway DEF MarkUsed, At
  <2>2. s \in CallerState /\ s.pc = "write" /\ s.id = caller[q].id /\ s.id \in Id
    BY <2>1, CallerRecord DEF CallerState
  <2>3. caller' = [caller EXCEPT ![q] = s]
    BY <1>3 DEF GoOn
  <2> HIDE DEF s
  <2>4. \A p \in Caller : (p = q /\ caller'[p] = s) \/ (p # q /\ caller'[p] = caller[p])
    BY <2>3 DEF ResetInv, ResetTyped
  <2>5. /\ resets' \subseteq ResetRow
        /\ \A r \in resets' : \E t \in resets : t.id = r.id /\ (t.used => r.used)
        /\ \A r \in resets' : r.id = caller[q].id => r.used
    BY <1>3 DEF ResetInv, ResetTyped, ResetRow
  <2>6. PICK m \in resets : m.id = caller[q].id /\ ~m.used
    BY <1>3
  <2>7. changes[caller[q].id] = 0 /\ \A p \in Caller : At(p, "write") => caller[p].id # caller[q].id
    BY <2>2, <2>6 DEF ResetInv, ChangesSound, WritersSound, NotFound
  <2>8. ResetTyped' /\ IdsSound'
    BY <1>1, <2>2, <2>3, <2>4, <2>5 DEF ResetInv, ResetTyped, IdsSound
  <2>9. \A i \in Id : NotFound(i) => NotFound(i)'
    BY <2>5 DEF NotFound
  <2>10. ChangesSound'
    BY <1>1, <2>9 DEF ResetInv, ChangesSound
  <2>11. \A p \in Caller : caller[p].id \in Id
    BY CallerIds DEF ResetInv
  <2>12. \A r \in resets' : r.id = caller[q].id => r.used
    BY <2>5
  <2>13. WritersSound'
    <3>1. ASSUME NEW p \in Caller, At(p, "write")'
          PROVE  /\ \A r \in resets' : r.id = caller'[p].id => r.used
                 /\ changes'[caller'[p].id] = 0
      <4>1. CASE p = q
        BY <1>1, <2>2, <2>4, <2>7, <2>12, <4>1
      <4>2. CASE p # q
        <5>1. caller'[p] = caller[p] /\ At(p, "write")
          BY <2>4, <3>1, <4>2 DEF At
        <5>2. NotFound(caller[p].id) /\ changes[caller[p].id] = 0
          BY <5>1 DEF ResetInv, WritersSound
        <5> QED BY <1>1, <2>9, <2>11, <5>1, <5>2 DEF NotFound
      <4> QED BY <4>1, <4>2
    <3>2. \A p1, p2 \in Caller : p1 # p2 /\ At(p1, "write")' /\ At(p2, "write")'
            => caller'[p1].id # caller'[p2].id
      BY <2>2, <2>4, <2>7 DEF ResetInv, WritersSound, At
    <3> QED BY <3>1, <3>2 DEF WritersSound, At, NotFound
  <2> QED BY <2>8, <2>10, <2>13 DEF ResetInv
<1> QED BY <1>2, <1>3 DEF MarkUsed

LEMMA WriteKeeps ==
  ASSUME ResetInv, NEW q \in Caller, WritePassword(q)
  PROVE  ResetInv'
<1> DEFINE s == [caller[q] EXCEPT !.pc = "sweep"]
           i == caller[q].id
<1>1. caller[q] # Away
  BY NotAway DEF WritePassword, At
<1>2. s \in CallerState /\ s.pc = "sweep" /\ s.id = i /\ i \in Id
  BY <1>1, CallerRecord DEF CallerState
<1>3. caller' = [caller EXCEPT ![q] = s] /\ UNCHANGED <<resets, lastId, inbox>>
  BY DEF WritePassword, GoOn
<1>4. changes[i] = 0 /\ NotFound(i) /\ i <= lastId /\ At(q, "write")
  BY DEF WritePassword, ResetInv, WritersSound, IdsSound
<1> HIDE DEF s, i
<1>5. \A p \in Caller : (p = q /\ caller'[p] = s) \/ (p # q /\ caller'[p] = caller[p])
  BY <1>3 DEF ResetInv, ResetTyped
<1>6. changes' = [changes EXCEPT ![i] = @ + 1]
  BY DEF WritePassword, i
<1>7. changes' \in [Id -> Nat] /\ changes'[i] = 1 /\ \A j \in Id \ {i} : changes'[j] = changes[j]
  BY <1>2, <1>4, <1>6 DEF ResetInv, ResetTyped
<1>8. ResetTyped' /\ IdsSound'
  BY <1>2, <1>3, <1>4, <1>5, <1>7 DEF ResetInv, ResetTyped, IdsSound
<1>9. ChangesSound'
  BY <1>3, <1>4, <1>7 DEF ResetInv, ChangesSound, NotFound
<1>10. \A p \in Caller : caller[p].id \in Id
  BY CallerIds DEF ResetInv
<1>11. \A p \in Caller : p # q /\ At(p, "write") => caller[p].id # i
  BY <1>4 DEF ResetInv, WritersSound, i
<1>12. WritersSound'
  BY <1>2, <1>3, <1>5, <1>7, <1>10, <1>11 DEF ResetInv, WritersSound, At, NotFound
<1> QED BY <1>8, <1>9, <1>12 DEF ResetInv

LEMMA RestKeeps ==
  ASSUME ResetInv,
         \/ \E r \in resets : ExpireReset(r)
         \/ CleanupResets \/ ResetCrash \/ UNCHANGED resetVars
  PROVE  ResetInv'
<1>1. UNCHANGED <<lastId, changes>> /\ inbox' \subseteq ResetCode
  BY DEF ResetInv, ResetTyped, ExpireReset, CleanupResets, ResetCrash, resetVars
<1>2. \A q \in Caller : caller'[q] = caller[q] \/ caller'[q] = Away
  BY DEF ExpireReset, CleanupResets, ResetCrash, resetVars
<1>3. caller' \in [Caller -> CallerState]
  BY AwayIsQuiet DEF ExpireReset, CleanupResets, ResetCrash, resetVars, ResetInv, ResetTyped
<1>4. /\ resets' \subseteq ResetRow
      /\ \A r \in resets' : \E s \in resets : s.id = r.id /\ (s.used => r.used)
  <2>1. CASE \E r \in resets : ExpireReset(r)
    <3>1. PICK r \in resets : resets' = (resets \ {r}) \cup {[r EXCEPT !.expired = TRUE]}
      BY <2>1 DEF ExpireReset
    <3>2. r \in ResetRow
      BY DEF ResetInv, ResetTyped
    <3>3. /\ [r EXCEPT !.expired = TRUE] \in ResetRow
          /\ [r EXCEPT !.expired = TRUE].id = r.id /\ [r EXCEPT !.expired = TRUE].used = r.used
      BY <3>2 DEF ResetRow
    <3> QED BY <3>1, <3>3 DEF ResetInv, ResetTyped
  <2>2. CASE CleanupResets \/ ResetCrash \/ UNCHANGED resetVars
    BY <2>2 DEF CleanupResets, ResetCrash, resetVars, ResetInv, ResetTyped
  <2> QED BY <2>1, <2>2
<1>5. \A q \in Caller : caller'[q].id <= lastId
  BY <1>2, AwayIsQuiet
<1>6. \A q \in Caller : At(q, "write")' => caller'[q] = caller[q]
  BY <1>2, AwayIsQuiet DEF At
<1> QED BY <1>1, <1>3, <1>4, <1>5, <1>6, QuietKeeps

\* The requests that end at this step.
LEMMA EndKeeps ==
  ASSUME ResetInv, NEW q \in Caller,
         \/ MailReset(q) \/ ResetMailFails(q) \/ VerifyPasswordResetCode(q)
         \/ SweepUsed(q) \/ ResetStatementFails(q)
  PROVE  ResetInv'
<1>1. Leave(q) /\ resets' \subseteq resets /\ UNCHANGED <<lastId, changes>>
  BY DEF MailReset, ResetMailFails, VerifyPasswordResetCode, SweepUsed, ResetStatementFails
<1>2. inbox' \subseteq ResetCode
  <2>1. CASE MailReset(q)
    <3>1. caller[q].code \in ResetCode
      BY <2>1, NotAway, CallerRecord DEF MailReset, At
    <3> QED BY <2>1, <3>1 DEF MailReset, ResetInv, ResetTyped
  <2>2. CASE inbox' = inbox
    BY <2>2 DEF ResetInv, ResetTyped
  <2> QED BY <2>1, <2>2 DEF ResetMailFails, VerifyPasswordResetCode, SweepUsed, ResetStatementFails
<1> QED BY <1>1, <1>2, LeavesKeeps

-----------------------------------------------------------------------------
(* The theorems.                                                           *)

LEMMA StepKeeps ==
  ASSUME ResetInv, [ResetNext]_resetVars
  PROVE  ResetInv'
<1>1. ASSUME NEW q \in Caller,
             RequestReset(q) \/ ResetPassword(q) \/ ClearRows(q) \/ FindReset(q)
      PROVE  ResetInv'
  BY <1>1, AskKeeps
<1>2. ASSUME NEW q \in Caller,
             \/ MailReset(q) \/ ResetMailFails(q) \/ VerifyPasswordResetCode(q)
             \/ SweepUsed(q) \/ ResetStatementFails(q)
      PROVE  ResetInv'
  BY <1>2, EndKeeps
<1>3. ASSUME NEW q \in Caller, InsertRow(q) \/ MarkUsed(q) \/ WritePassword(q)
      PROVE  ResetInv'
  BY <1>3, InsertKeeps, MarkKeeps, WriteKeeps
<1>4. CASE (\E r \in resets : ExpireReset(r)) \/ CleanupResets \/ ResetCrash
              \/ UNCHANGED resetVars
  BY <1>4, RestKeeps
<1> QED BY <1>1, <1>2, <1>3, <1>4 DEF ResetNext

\* What the invariant leaves open of the types.
ResetBounds ==
    /\ elsewhere \subseteq ResetCode
    /\ password \in Id /\ dependable \in Id
    /\ resetFaults \in 0..MaxResetFaults

\* Every step keeps it.
LEMMA ResetsBounded ==
  ASSUME ResetInv, ResetBounds, [ResetNext]_resetVars
  PROVE  ResetBounds'
<1>1. NoId \in Id
  BY ResetAssumption DEF Id, NoId
<1>2. ASSUME NEW q \in Caller,
             \/ RequestReset(q) \/ ClearRows(q) \/ InsertRow(q) \/ MailReset(q)
             \/ ResetMailFails(q)
             \/ ResetPassword(q) \/ FindReset(q) \/ VerifyPasswordResetCode(q)
             \/ MarkUsed(q) \/ WritePassword(q) \/ SweepUsed(q)
             \/ ResetStatementFails(q)
      PROVE  ResetBounds'
  <2>1. elsewhere' = elsewhere
    BY <1>2 DEF RequestReset, ClearRows, InsertRow, MailReset, ResetMailFails, ResetPassword,
                FindReset, VerifyPasswordResetCode, MarkUsed, WritePassword, SweepUsed,
                ResetStatementFails
  <2>2. password' \in Id
    <3>1. password' \in {password, caller[q].id}
      BY <1>2 DEF RequestReset, ClearRows, InsertRow, MailReset, ResetMailFails, ResetPassword,
                  FindReset, VerifyPasswordResetCode, MarkUsed, WritePassword, SweepUsed,
                  ResetStatementFails
    <3> QED BY <3>1, CallerIds DEF ResetInv, ResetBounds
  <2>3. dependable' \in Id
    <3>1. CASE InsertRow(q)
      <4>1. dependable' = dependable
              \/ (lastId < MaxResetRows /\ dependable' = lastId + 1)
        BY <3>1 DEF InsertRow
      <4>2. lastId \in Id
        BY DEF ResetInv, ResetTyped
      <4> QED BY <4>1, <4>2, ResetAssumption DEF Id, ResetBounds
    <3>2. CASE ~InsertRow(q)
      <4>1. dependable' \in {dependable, NoId}
        BY <1>2, <3>2 DEF RequestReset, ClearRows, MailReset, ResetMailFails, ResetPassword,
                FindReset, VerifyPasswordResetCode, MarkUsed, WritePassword, SweepUsed,
                ResetStatementFails
      <4> QED BY <4>1, <1>1 DEF ResetBounds
    <3> QED BY <3>1, <3>2
  <2>4. resetFaults' \in 0..MaxResetFaults
    <3>1. resetFaults' = resetFaults
            \/ (resetFaults < MaxResetFaults /\ resetFaults' = resetFaults + 1)
      BY <1>2 DEF RequestReset, ClearRows, InsertRow, MailReset, ResetMailFails, ResetPassword,
                  FindReset, VerifyPasswordResetCode, MarkUsed, WritePassword, SweepUsed,
                  ResetStatementFails, ResetFault
    <3> QED BY <3>1, ResetAssumption DEF ResetBounds
  <2> QED BY <2>1, <2>2, <2>3, <2>4 DEF ResetBounds
<1>3. ASSUME NEW r \in resets, ExpireReset(r) PROVE ResetBounds'
  <2>1. /\ dependable' \in {dependable, NoId}
        /\ UNCHANGED <<elsewhere, password, resetFaults>>
    BY <1>3 DEF ExpireReset
  <2> QED BY <1>1, <2>1 DEF ResetBounds
<1>4. CASE CleanupResets
  BY <1>4 DEF CleanupResets, ResetBounds
<1>5. CASE ResetCrash
  BY <1>5, ResetAssumption DEF ResetCrash, ResetFault, ResetBounds
<1>6. CASE UNCHANGED resetVars
  BY <1>6 DEF resetVars, ResetBounds
<1> QED BY <1>2, <1>3, <1>4, <1>5, <1>6 DEF ResetNext

\* The types of the rows, the requests and the mailbox, for any number of them.
THEOREM ResetTypeCorrect == ResetSpec => []ResetTypeOK
<1>1. ResetInit => ResetBounds
  BY ResetAssumption DEF ResetInit, ResetBounds, Id, NoId
<1>2. ResetInv /\ ResetBounds => ResetTypeOK
  BY DEF ResetInv, ResetTyped, CallerState, ResetRow, ResetBounds, ResetTypeOK
<1>3. ResetInv /\ [ResetNext]_resetVars => ResetInv'
  BY StepKeeps
<1> QED BY <1>1, <1>2, <1>3, InitReset, ResetsBounded, PTL DEF ResetSpec

\* A reset code changes the password once, however many requests present it at the
\* same moment and whatever new codes are asked for meanwhile (authFlowService.js:173-183).
THEOREM CodesResetOnce == ResetSpec => []CodeResetsOnce
<1>1. ResetInv /\ [ResetNext]_resetVars => ResetInv'
  BY StepKeeps
<1>2. ResetInv => CodeResetsOnce
  BY DEF ResetInv, ResetTyped, ChangesSound, CodeResetsOnce
<1> QED BY <1>1, <1>2, InitReset, PTL DEF ResetSpec

-----------------------------------------------------------------------------
(* The code asked for last.                                                *)

\* It is there to be found, and nobody is about to delete it or to add another.
Asks(q) == At(q, "clear") \/ At(q, "insert")
Found(i) == \E r \in resets : r.id = i /\ ~r.used /\ ~r.expired
NoneAsks == \A q \in Caller : ~Asks(q)

LastCodeInv ==
    /\ DOMAIN caller = Caller
    /\ dependable # NoId => Found(dependable) /\ NoneAsks

\* A step that spoils no row but the dependable one it gives up, and starts no request.
LEMMA SparesKeeps ==
  ASSUME LastCodeInv, DOMAIN caller' = Caller, dependable' \in {dependable, NoId},
         \A q \in Caller : Asks(q)' => Asks(q),
         dependable' # NoId => \A r \in resets : r.id = dependable /\ ~r.used /\ ~r.expired
                                     => r \in resets'
  PROVE  LastCodeInv'
BY DEF LastCodeInv, Found, NoneAsks

\* Whoever moves elsewhere or leaves asks no longer.
LEMMA ElsewhereAsksNot ==
  ASSUME ResetInv, NEW q \in Caller, caller[q] # Away,
         Leave(q) \/ GoOn(q, "write") \/ GoOn(q, "sweep") \/ (\E i : WithRow(q, "mark", i))
  PROVE  DOMAIN caller' = Caller /\ \A p \in Caller : Asks(p)' => Asks(p)
<1>1. DOMAIN caller' = Caller /\ \A p \in Caller : p # q => caller'[p] = caller[p]
  BY DEF ResetInv, ResetTyped, Leave, GoOn, WithRow
<1>2. caller'[q].pc \notin {"clear", "insert"}
  <2>1. CASE Leave(q)
    BY <2>1, AwayTyped DEF ResetInv, ResetTyped, Leave
  <2>2. CASE GoOn(q, "write") \/ GoOn(q, "sweep") \/ \E i : WithRow(q, "mark", i)
    BY <2>2, CallerRecord DEF ResetInv, ResetTyped, GoOn, WithRow
  <2> QED BY <2>1, <2>2
<1> QED BY <1>1, <1>2 DEF Asks, At

LEMMA InitLastCode == ResetInit => LastCodeInv
BY DEF ResetInit, LastCodeInv

LEMMA AskingLastCode ==
  ASSUME LastCodeInv, NEW q \in Caller, RequestReset(q) \/ ClearRows(q) \/ ResetPassword(q)
  PROVE  LastCodeInv'
<1>1. CASE RequestReset(q)
  BY <1>1 DEF RequestReset, LastCodeInv
<1>2. CASE ClearRows(q)
  BY <1>2 DEF ClearRows, GoOn, LastCodeInv, NoneAsks, Asks
<1>3. CASE ResetPassword(q)
  <2>1. PICK code \in inbox :
          caller' = [caller EXCEPT ![q] = [pc |-> "find", code |-> code, id |-> NoId]]
    BY <1>3 DEF ResetPassword
  <2>2. DOMAIN caller' = Caller /\ \A p \in Caller : Asks(p)' => Asks(p)
    BY <2>1 DEF LastCodeInv, Asks, At
  <2> QED BY <1>3, <2>2, SparesKeeps DEF ResetPassword
<1> QED BY <1>1, <1>2, <1>3

\* The row inserted is the dependable one when nobody else is asking.
LEMMA InsertLastCode ==
  ASSUME ResetInv, LastCodeInv, NEW q \in Caller, InsertRow(q)
  PROVE  LastCodeInv'
<1>1. dependable = NoId
  BY DEF InsertRow, LastCodeInv, NoneAsks, Asks
<1>2. CASE Leave(q) /\ UNCHANGED <<resets, lastId, dependable>>
  BY <1>1, <1>2 DEF Leave, LastCodeInv
<1>3. CASE /\ resets' = resets \cup {[id |-> lastId + 1, code |-> caller[q].code,
                                      used |-> FALSE, expired |-> FALSE]}
           /\ WithRow(q, "mail", lastId + 1)
           /\ dependable' = IF Asking = {q} THEN lastId + 1 ELSE dependable
  <2>1. DOMAIN caller' = Caller
    BY <1>3 DEF WithRow, LastCodeInv
  <2>2. CASE Asking = {q}
    <3>1. \A p \in Caller : p # q => ~Asks(p)'
      BY <1>3, <2>2 DEF WithRow, LastCodeInv, Asks, At, Asking
    <3>2. ~Asks(q)' 
      <4>1. caller[q] # Away
        BY NotAway DEF InsertRow, At
      <4>2. caller'[q].pc = "mail"
        BY <1>3, <4>1, CallerRecord DEF WithRow, LastCodeInv
      <4> QED BY <4>2 DEF Asks, At
    <3>3. Found(dependable)'
      <4> DEFINE row == [id |-> lastId + 1, code |-> caller[q].code,
                         used |-> FALSE, expired |-> FALSE]
      <4>1. row \in resets' /\ dependable' = lastId + 1
        BY <1>3, <2>2
      <4>2. row.id = lastId + 1 /\ ~row.used /\ ~row.expired
        OBVIOUS
      <4> HIDE DEF row
      <4> QED BY <4>1, <4>2 DEF Found
    <3> QED BY <2>1, <3>1, <3>2, <3>3 DEF LastCodeInv, NoneAsks
  <2>3. CASE Asking # {q}
    BY <1>1, <1>3, <2>1, <2>3 DEF LastCodeInv
  <2> QED BY <2>2, <2>3
<1> QED BY <1>2, <1>3 DEF InsertRow

LEMMA MarkLastCode ==
  ASSUME ResetInv, LastCodeInv, NEW q \in Caller, MarkUsed(q)
  PROVE  LastCodeInv'
<1>1. DOMAIN caller' = Caller /\ \A p \in Caller : Asks(p)' => Asks(p)
  BY NotAway, ElsewhereAsksNot DEF MarkUsed, At
<1>2. CASE UNCHANGED <<resets, dependable>>
  BY <1>1, <1>2, SparesKeeps
<1>3. CASE dependable' = IF dependable = caller[q].id THEN NoId ELSE dependable
  BY <1>1, <1>3, SparesKeeps DEF MarkUsed
<1> QED BY <1>2, <1>3 DEF MarkUsed

\* The other steps of a request.
LEMMA OtherLastCode ==
  ASSUME ResetInv, LastCodeInv, NEW q \in Caller,
         \/ FindReset(q) \/ WritePassword(q) \/ SweepUsed(q) \/ MailReset(q)
         \/ ResetMailFails(q) \/ VerifyPasswordResetCode(q) \/ ResetStatementFails(q)
  PROVE  LastCodeInv'
<1>1. DOMAIN caller' = Caller /\ \A p \in Caller : Asks(p)' => Asks(p)
  BY NotAway, ElsewhereAsksNot
     DEF At, FindReset, WritePassword, SweepUsed, MailReset, ResetMailFails,
         VerifyPasswordResetCode, ResetStatementFails
<1>2. dependable' = dependable /\ \A r \in resets : ~r.used => r \in resets'
  BY DEF FindReset, WritePassword, SweepUsed, MailReset, ResetMailFails,
       VerifyPasswordResetCode, ResetStatementFails
<1> QED BY <1>1, <1>2, SparesKeeps

LEMMA SurroundingsLastCode ==
  ASSUME LastCodeInv,
         (\E r \in resets : ExpireReset(r)) \/ CleanupResets \/ ResetCrash \/ UNCHANGED resetVars
  PROVE  LastCodeInv'
<1>1. DOMAIN caller' = Caller /\ \A p \in Caller : Asks(p)' => Asks(p)
  BY AwayTyped DEF ExpireReset, CleanupResets, ResetCrash, resetVars, LastCodeInv, Asks, At
<1>2. CASE \E r \in resets : ExpireReset(r)
  <2>1. PICK r \in resets : ExpireReset(r)
    BY <1>2
  <2> QED BY <1>1, <2>1, SparesKeeps DEF ExpireReset
<1>3. CASE CleanupResets \/ ResetCrash \/ UNCHANGED resetVars
  BY <1>1, <1>3, SparesKeeps DEF CleanupResets, ResetCrash, resetVars
<1> QED BY <1>2, <1>3

\* The code asked for last is there, unspent, until it is used or expires: no reset
\* under way with another code, no clean-up and no failure deletes it
\* (authDomainService.js:70-80, 110-145, authFlowService.js:183).
THEOREM LastCodeKept == ResetSpec => []LastCodeWorks
<1>1. ResetInv /\ LastCodeInv /\ [ResetNext]_resetVars => ResetInv' /\ LastCodeInv'
  <2> SUFFICES ASSUME ResetInv, LastCodeInv, [ResetNext]_resetVars PROVE LastCodeInv'
    BY StepKeeps
  <2>1. ASSUME NEW q \in Caller, RequestReset(q) \/ ClearRows(q) \/ ResetPassword(q)
        PROVE  LastCodeInv'
    BY <2>1, AskingLastCode
  <2>2. ASSUME NEW q \in Caller, InsertRow(q) \/ MarkUsed(q)
        PROVE  LastCodeInv'
    BY <2>2, InsertLastCode, MarkLastCode
  <2>3. ASSUME NEW q \in Caller,
               \/ FindReset(q) \/ WritePassword(q) \/ SweepUsed(q) \/ MailReset(q)
               \/ ResetMailFails(q) \/ VerifyPasswordResetCode(q) \/ ResetStatementFails(q)
        PROVE  LastCodeInv'
    BY <2>3, OtherLastCode
  <2>4. CASE (\E r \in resets : ExpireReset(r)) \/ CleanupResets \/ ResetCrash
                \/ UNCHANGED resetVars
    BY <2>4, SurroundingsLastCode
  <2> QED BY <2>1, <2>2, <2>3, <2>4 DEF ResetNext
<1>2. LastCodeInv => LastCodeWorks
  BY DEF LastCodeInv, LastCodeWorks, Found
<1> QED BY <1>1, <1>2, InitReset, InitLastCode, PTL DEF ResetSpec

-----------------------------------------------------------------------------
(* Registration: the inductive invariant.                                  *)

AccountRequest ==
    {Idle} \cup [kind : Kinds, pc : Steps, code : Code, row : Pending \cup {NoPending},
                 alone : BOOLEAN]

LocalUser == [id : Code, provider : {"local"}, isVerified : BOOLEAN, password : Code]

StepsOf(kind) ==
    CASE kind = "register" -> {"lookup", "legacy", "purge", "destroy", "name", "upsert", "store",
                               "mail"}
      [] kind = "verify" -> {"verified", "pending", "expired", "activate", "legacy", "purge",
                             "destroy", "name", "create", "drop", "owner", "oldCode", "confirm",
                             "spend"}
      [] kind = "resend" -> {"verified", "pending", "expired", "findRow", "refresh", "owner",
                             "renew", "insert", "mail"}
      [] kind = "google" -> {"googleId", "googleEmail", "googleCreate"}
      [] OTHER -> {"idle"}

\* A request is where its handler can be, with the row it has found.
InPlace ==
    \A q \in Request :
        /\ request[q].pc \in StepsOf(request[q].kind)
        /\ request[q].pc \in {"expired", "refresh"} => request[q].row # NoPending

\* A request that has drawn a code and not mailed it yet.
Open(q) == request[q].kind \in {"register", "resend"} /\ request[q].pc # "mail"

\* Only codes drawn are about, and one that is not mailed is known to its request alone.
CodesDrawn ==
    /\ pending.code <= drawn /\ mailed \subseteq 0..drawn
    /\ user.id <= drawn \/ user.id = ByGoogle
    /\ \A q \in Request : request[q].code <= drawn /\ request[q].row.code <= drawn

CodesApart ==
    /\ pending # NoPending => pending.code # Legacy
    /\ \A q \in Request :
          Open(q) => LET c == request[q].code
                     IN  /\ c # Legacy /\ c # pending.code /\ c # user.id /\ c \notin mailed
                         /\ \A p \in Request : request[p].row.code # c
                         /\ \A p \in Request : p # q => request[p].code # c

\* Beside its code every row, also one in a request's hands, has the code's password.
PasswordsMatch ==
    /\ registered[Legacy] = Legacy /\ pending.password = registered[pending.code]
    /\ \A q \in Request : request[q].row.password = registered[request[q].row.code]
    /\ PasswordOfCode

\* A confirmation goes on with the row its code was found in.
Activating ==
    \A q \in Request :
        Is(q, "verify") /\ request[q].pc \in {"activate", "legacy", "purge", "destroy", "name",
                                              "create"}
            => request[q].row.code = request[q].code /\ request[q].code # Legacy

\* The older version's account is the only unverified one, and once somebody got past
\* its removal it is gone or verified.
Unverifieds ==
    /\ Unverified => user.id = Legacy
    /\ \/ pending # NoPending
       \/ \E q \in Request : request[q].pc \in {"name", "upsert", "store"}
       => ~Unverified

AccountInv ==
    AccountTypeOK /\ InPlace /\ CodesDrawn /\ CodesApart /\ PasswordsMatch /\ Activating
        /\ Unverifieds

-----------------------------------------------------------------------------
(* The code mailed last.                                                   *)

OldAccountOpen == user.id = Legacy /\ user.isVerified
OpenedByCode == user.id # Legacy /\ user.isVerified

\* The code c opens the account: through the pending row, or the older version's codes.
ByPending(c) == pending.code = c /\ ~pending.expired /\ user.id # Legacy
ByOldCode(c) ==
    /\ pending = NoPending /\ user.id = Legacy
    /\ [code |-> c, expired |-> FALSE] \in legacyCodes \/ user.isVerified

\* What a request that draws a code and is alone has seen is still so.
Alone(q) == request[q].alone /\ request[q].kind \in {"register", "resend"}
Seen(q) ==
    LET row == request[q].row
        pc == request[q].pc
    IN  /\ pc \in {"legacy", "purge", "destroy", "pending", "expired", "findRow"}
               => ~OldAccountOpen
        /\ pc \in {"name", "upsert", "store", "refresh"} => user.id # Legacy
        /\ pc \in {"store", "expired", "refresh"} => pending.id = row.id
        /\ pc \in {"findRow", "refresh"} => pending # NoPending
        /\ pc \in {"owner", "renew", "insert"} => pending = NoPending
        /\ pc = "mail" => \/ ByPending(request[q].code) \/ ByOldCode(request[q].code)
                          \/ OpenedByCode
AloneSound ==
    \A q \in Request :
        Alone(q) => Seen(q) /\ \A p \in Request : p # q => request[p] = Idle

\* Nobody is under way who could spoil the code its holder counts on.
CountsOnPending ==
    /\ ByPending(usable)
    /\ \A p \in Request : request[p].pc \notin {"drop", "expired"}
CountsOnOldCode ==
    /\ ByOldCode(usable)
    /\ \A p \in Request :
          /\ request[p].pc \notin {"expired", "activate", "legacy", "purge", "destroy", "name",
                                   "create", "drop"}
          /\ request[p].pc = "spend" /\ request[p].code = usable => user.isVerified
UsableSound ==
    usable # 0 =>
        /\ \A p \in Request : request[p].kind \notin {"register", "resend"}
        /\ OpenedByCode \/ CountsOnPending \/ CountsOnOldCode

MailInv == AloneSound /\ UsableSound

LEMMA CodeFacts ==
  /\ MaxCodes \in Nat /\ Legacy = 0 /\ ByGoogle = MaxCodes + 1
  /\ Legacy \in Code /\ ByGoogle \notin Code /\ ByGoogle # Legacy /\ Code = 0..MaxCodes
BY AccountAssumption DEF Code, Legacy, ByGoogle

LEMMA IdleIs ==
  /\ Idle.kind = "none" /\ Idle.pc = "idle" /\ Idle.code = Legacy /\ Idle.row = NoPending
  /\ Idle.alone = FALSE /\ Idle \in AccountRequest
BY DEF Idle, AccountRequest

LEMMA IdleStays == [Idle EXCEPT !.alone = FALSE] = Idle
<1> DEFINE S == [kind : {"none"}, pc : {"idle"}, code : {Legacy}, row : {NoPending},
                 alone : BOOLEAN]
<1>1. Idle \in S
  BY DEF Idle
<1>2. \A r \in S : r.alone = FALSE => [r EXCEPT !.alone = FALSE] = r
  OBVIOUS
<1> QED BY <1>1, <1>2, IdleIs

LEMMA RequestIs ==
  ASSUME AccountTypeOK, NEW q \in Request
  PROVE  /\ request[q] \in AccountRequest
         /\ request[q].code \in Code /\ request[q].row \in Pending \cup {NoPending}
         /\ \/ request[q] = Idle /\ request[q].kind = "none" /\ request[q].pc = "idle"
            \/ /\ request[q] # Idle /\ request[q].kind \in Kinds /\ request[q].pc \in Steps
               /\ request[q] \in [kind : Kinds, pc : Steps, code : Code,
                                  row : Pending \cup {NoPending}, alone : BOOLEAN]
<1>1. request[q] \in AccountRequest
  BY DEF AccountTypeOK, AccountRequest
<1>2. CASE request[q] = Idle
  BY <1>1, <1>2, IdleIs, CodeFacts
<1>3. CASE request[q] # Idle
  BY <1>1, <1>3 DEF AccountRequest
<1> QED BY <1>2, <1>3

LEMMA PendingIs ==
  /\ NoPending.id = ByGoogle /\ NoPending.code = Legacy /\ NoPending.password = Legacy
  /\ NoPending.expired = FALSE
  /\ \A row \in Pending \cup {NoPending} :
        /\ row.code \in Code /\ row.password \in Code
        /\ row # NoPending => row \in Pending /\ row.id \in Code /\ row.id # ByGoogle
BY CodeFacts DEF NoPending, Pending

LEMMA UserIs ==
  /\ NoUser.id = ByGoogle /\ NoUser.provider = "none" /\ NoUser.isVerified = FALSE
  /\ GoogleUser.id = ByGoogle /\ GoogleUser.provider = "google" /\ GoogleUser.isVerified = TRUE
  /\ NoUser # GoogleUser /\ LegacyUser = Local(Legacy, FALSE, Legacy)
  /\ LegacyUser.id = Legacy /\ LegacyUser.provider = "local" /\ LegacyUser.password = Legacy
  /\ \A id, v, p : /\ Local(id, v, p).id = id /\ Local(id, v, p).isVerified = v
                   /\ Local(id, v, p).password = p /\ Local(id, v, p).provider = "local"
BY DEF NoUser, GoogleUser, LegacyUser, Local

LEMMA LocalTyped ==
  ASSUME NEW id \in Code, NEW p \in Code
  PROVE  Local(id, TRUE, p) \in LocalUser /\ Local(id, FALSE, p) \in LocalUser
BY DEF Local, LocalUser

LEMMA UserHas ==
  ASSUME AccountTypeOK
  PROVE  \/ user = NoUser
         \/ user = GoogleUser
         \/ /\ user.id \in Code /\ user.provider = "local" /\ user.isVerified \in BOOLEAN
            /\ user.password \in Code /\ user = Local(user.id, user.isVerified, user.password)
<1>1. CASE user \in {NoUser, GoogleUser}
  BY <1>1
<1>2. CASE user \in LocalUser
  BY <1>2 DEF LocalUser, Local
<1> QED BY <1>1, <1>2 DEF AccountTypeOK, LocalUser

\* How a request goes on: to a place of its handler, perhaps with a row it has read.
LEMMA GoesOn ==
  ASSUME AccountTypeOK, NEW q \in Request, request[q] # Idle, NEW pc \in Steps,
         NEW row \in Pending \cup {NoPending},
         (Goto(q, pc) /\ row = request[q].row) \/ Remember(q, pc, row)
  PROVE  /\ request' \in [Request -> AccountRequest]
         /\ \A p \in Request : p # q => request'[p] = request[p]
         /\ request'[q] # Idle /\ request'[q].pc = pc /\ request'[q].row = row
         /\ request'[q].kind = request[q].kind /\ request'[q].code = request[q].code
         /\ request'[q].alone = request[q].alone
<1> DEFINE s == [request[q] EXCEPT !.pc = pc, !.row = row]
<1>1. request[q] \in [kind : Kinds, pc : Steps, code : Code, row : Pending \cup {NoPending},
                      alone : BOOLEAN]
  BY RequestIs
<1>2. /\ s \in AccountRequest /\ s.pc = pc /\ s.row = row /\ s.kind = request[q].kind
      /\ s.code = request[q].code /\ s.alone = request[q].alone
  BY <1>1 DEF AccountRequest
<1>3. s # Idle
  BY <1>1, <1>2, IdleIs DEF Kinds
<1>4. request' = [request EXCEPT ![q] = s]
  BY <1>1 DEF Goto, Remember
<1>5. request \in [Request -> AccountRequest]
  BY DEF AccountTypeOK, AccountRequest
<1> HIDE DEF s
<1> QED BY <1>2, <1>3, <1>4, <1>5

LEMMA Ends ==
  ASSUME AccountTypeOK, NEW q \in Request, End(q)
  PROVE  /\ request' \in [Request -> AccountRequest]
         /\ request'[q] = Idle /\ \A p \in Request : p # q => request'[p] = request[p]
<1>1. request \in [Request -> AccountRequest]
  BY DEF AccountTypeOK, AccountRequest
<1> QED BY <1>1, IdleIs DEF End

LEMMA InitAccount == AccountInit => AccountInv /\ MailInv
<1> SUFFICES ASSUME AccountInit PROVE AccountInv /\ MailInv
  OBVIOUS
<1>1. /\ user = NoUser \/ user = LegacyUser
      /\ pending = NoPending /\ drawn = 0 /\ request = [q \in Request |-> Idle]
      /\ mailed = {Legacy} /\ registered = [c \in Code |-> Legacy] /\ usable = 0
      /\ accountFaults = 0 /\ legacyCodes \subseteq {[code |-> Legacy, expired |-> FALSE]}
  BY DEF AccountInit
<1>2. \A q \in Request : request[q] = Idle
  BY <1>1
<1>3. LegacyUser = Local(Legacy, FALSE, Legacy)
  BY UserIs
<1>4. \/ user.id = ByGoogle /\ user.provider = "none"
      \/ user.id = Legacy /\ user.provider = "local" /\ user.password = Legacy
  BY <1>1, <1>3, UserIs
<1>5. \A q \in Request :
         /\ request[q].code = Legacy /\ request[q].row = NoPending /\ request[q].kind = "none"
         /\ request[q].pc = "idle" /\ request[q].alone = FALSE
  BY <1>2, IdleIs
<1>6. AccountTypeOK
  <2>1. user \in {NoUser, GoogleUser} \cup LocalUser
    BY <1>1, <1>3, LocalTyped, CodeFacts
  <2>2. legacyCodes \subseteq [code : Code, expired : BOOLEAN]
    <3>1. [code |-> Legacy, expired |-> FALSE] \in [code : Code, expired : BOOLEAN]
      BY CodeFacts
    <3> QED BY <1>1, <3>1
  <2>3. 0 \in Code /\ 0 \in 0..MaxAccountFaults /\ Legacy \in Code
    BY CodeFacts, AccountAssumption
  <2>4. request \in [Request -> AccountRequest]
    BY <1>1, IdleIs
  <2>5. registered \in [Code -> Code] /\ mailed \subseteq Code
    BY <1>1, <2>3
  <2> QED BY <1>1, <2>1, <2>2, <2>3, <2>4, <2>5 DEF AccountTypeOK, AccountRequest, LocalUser
<1>7. InPlace
  BY <1>5 DEF InPlace, StepsOf
<1>8. CodesDrawn /\ CodesApart
  <2>1. Legacy = 0 /\ NoPending.code = 0
    BY CodeFacts, PendingIs
  <2>2. CodesDrawn
    BY <1>1, <1>4, <1>5, <2>1 DEF CodesDrawn
  <2>3. CodesApart
    BY <1>1, <1>5 DEF CodesApart, Open
  <2> QED BY <2>2, <2>3
<1>9. PasswordsMatch
  <2>1. NoPending.code = Legacy /\ NoPending.password = Legacy /\ registered[Legacy] = Legacy
    BY <1>1, CodeFacts, PendingIs
  <2> QED BY <1>1, <1>4, <1>5, <2>1 DEF PasswordsMatch, PasswordOfCode
<1>10. Activating /\ Unverifieds
  BY <1>1, <1>4, <1>5 DEF Activating, Unverifieds, Unverified, Is
<1>11. MailInv
  BY <1>1, <1>5 DEF MailInv, AloneSound, Alone, UsableSound
<1> QED BY <1>6, <1>7, <1>8, <1>9, <1>10, <1>11 DEF AccountInv

-----------------------------------------------------------------------------
(* Quiet steps: nothing is drawn, written into a row or mailed.            *)

UserQuiet ==
    \/ user' = user
    \/ user' \in {NoUser, GoogleUser}
    \/ user.id = Legacy /\ user' = [user EXCEPT !.isVerified = TRUE]

PendingQuiet ==
    \/ pending' \in {pending, NoPending}
    \/ pending # NoPending /\ pending' = [pending EXCEPT !.expired = TRUE]

RequestQuiet(p) ==
    \/ request'[p] = Idle
    \/ LET pc == request'[p].pc
           row == request'[p].row
       IN  /\ request'[p].kind = request[p].kind /\ request'[p].code = request[p].code
           /\ pc \in StepsOf(request[p].kind) /\ row \in {request[p].row, pending}
           /\ pc \in {"expired", "refresh"} => row # NoPending
           /\ request[p].pc = "mail" => pc = "mail"
           /\ pc \in {"name", "upsert", "store"} => ~Unverified'
           /\ /\ Is(p, "verify")
              /\ pc \in {"activate", "legacy", "purge", "destroy", "name", "create"}
              => row.code = request[p].code /\ request[p].code # Legacy

LEMMA UserQuietIs ==
  ASSUME AccountTypeOK, UserQuiet
  PROVE  /\ user'.id \in {user.id, ByGoogle}
         /\ user'.provider = "local" => /\ user'.id = user.id /\ user'.password = user.password
                                        /\ user.provider = "local"
         /\ Unverified' => Unverified /\ user'.id = user.id
<1>1. CASE user' = user
  BY <1>1 DEF Unverified
<1>2. CASE user' \in {NoUser, GoogleUser}
  <2>1. user'.id = ByGoogle /\ user'.provider # "local"
    BY <1>2, UserIs
  <2> QED BY <2>1 DEF Unverified
<1>3. CASE user.id = Legacy /\ user' = [user EXCEPT !.isVerified = TRUE]
  <2>1. user = Local(user.id, user.isVerified, user.password)
    BY <1>3, UserHas, UserIs, CodeFacts
  <2>2. /\ user'.id = user.id /\ user'.provider = user.provider
        /\ user'.password = user.password /\ user'.isVerified = TRUE
    BY <1>3, <2>1 DEF Local
  <2> QED BY <2>2 DEF Unverified
<1> QED BY <1>1, <1>2, <1>3 DEF UserQuiet

LEMMA PendingQuietIs ==
  ASSUME AccountTypeOK, PendingQuiet
  PROVE  /\ \/ pending' = NoPending
            \/ /\ pending # NoPending /\ pending' # NoPending
               /\ pending'.code = pending.code /\ pending'.password = pending.password
               /\ pending'.id = pending.id
         /\ pending' \in Pending \cup {NoPending}
<1>1. pending \in Pending \cup {NoPending}
  BY DEF AccountTypeOK
<1>2. CASE pending' \in {pending, NoPending}
  BY <1>1, <1>2
<1>3. CASE pending # NoPending /\ pending' = [pending EXCEPT !.expired = TRUE]
  <2>1. pending \in Pending /\ pending' \in Pending
    BY <1>1, <1>3 DEF Pending
  <2>2. /\ pending'.code = pending.code /\ pending'.password = pending.password
        /\ pending'.id = pending.id
    BY <1>3, <2>1 DEF Pending
  <2> QED BY <1>3, <2>1, <2>2, PendingIs
<1> QED BY <1>2, <1>3 DEF PendingQuiet

\* Who has not moved.
LEMMA StaysQuiet ==
  ASSUME AccountInv, UserQuiet, NEW p \in Request,
         \/ request'[p] = request[p]
         \/ /\ request'[p].kind = request[p].kind /\ request'[p].pc = request[p].pc
            /\ request'[p].code = request[p].code /\ request'[p].row = request[p].row
  PROVE  RequestQuiet(p)
<1>1. Unverified' => Unverified
  BY UserQuietIs DEF AccountInv
<1>2. /\ request'[p].kind = request[p].kind /\ request'[p].pc = request[p].pc
      /\ request'[p].code = request[p].code /\ request'[p].row = request[p].row
  OBVIOUS
<1>3. request[p].pc \in StepsOf(request[p].kind)
      /\ (request[p].pc \in {"expired", "refresh"} => request[p].row # NoPending)
  BY DEF AccountInv, InPlace
<1>4. request[p].pc \in {"name", "upsert", "store"} => ~Unverified'
  BY <1>1 DEF AccountInv, Unverifieds
<1>5. Is(p, "verify") /\ request[p].pc \in {"activate", "legacy", "purge", "destroy", "name",
                                            "create"}
         => request[p].row.code = request[p].code /\ request[p].code # Legacy
  BY DEF AccountInv, Activating
<1> QED BY <1>2, <1>3, <1>4, <1>5 DEF RequestQuiet

LEMMA QuietAccount ==
  ASSUME AccountInv, AccountTypeOK', UNCHANGED <<drawn, registered, mailed>>,
         UserQuiet, PendingQuiet, \A p \in Request : RequestQuiet(p)
  PROVE  AccountInv'
<1>1. /\ user'.id \in {user.id, ByGoogle}
      /\ user'.provider = "local" => /\ user'.id = user.id /\ user'.password = user.password
                                     /\ user.provider = "local"
      /\ Unverified' => Unverified /\ user'.id = user.id
  BY UserQuietIs DEF AccountInv
<1>2. \/ pending' = NoPending
      \/ /\ pending # NoPending /\ pending'.code = pending.code
         /\ pending'.password = pending.password
  BY PendingQuietIs DEF AccountInv
<1>3. /\ NoPending.code = Legacy /\ NoPending.password = Legacy /\ registered[Legacy] = Legacy
      /\ Legacy = 0 /\ drawn \in Nat /\ 0 <= drawn
  <2>1. drawn \in Nat /\ Legacy = 0
    BY CodeFacts DEF AccountInv, AccountTypeOK
  <2>2. registered[Legacy] = Legacy
    BY DEF AccountInv, PasswordsMatch
  <2> QED BY <2>1, <2>2, PendingIs
<1>4. \A p \in Request : request'[p].code \in {request[p].code, Legacy}
                         /\ request'[p].row \in {request[p].row, pending, NoPending}
  BY IdleIs DEF RequestQuiet
<1>5. \A p \in Request : Open(p)' => Open(p) /\ request'[p].code = request[p].code
  BY IdleIs DEF RequestQuiet, Open
<1>6. InPlace'
  BY IdleIs DEF RequestQuiet, InPlace, StepsOf
<1>7. CodesDrawn'
  BY <1>1, <1>2, <1>3, <1>4 DEF AccountInv, CodesDrawn
<1>8. CodesApart'
  <2>1. pending' # NoPending => pending'.code # Legacy
    BY <1>2 DEF AccountInv, CodesApart
  <2>2. ASSUME NEW q \in Request, Open(q)'
        PROVE  LET c == request'[q].code
               IN  /\ c # Legacy /\ c # pending'.code /\ c # user'.id /\ c \notin mailed'
                   /\ \A p \in Request : request'[p].row.code # c
                   /\ \A p \in Request : p # q => request'[p].code # c
    <3>1. /\ Open(q) /\ request'[q].code = request[q].code
          /\ request[q].code # Legacy /\ request[q].code # pending.code
          /\ request[q].code # user.id /\ request[q].code \notin mailed
          /\ \A p \in Request : request[p].row.code # request[q].code
          /\ \A p \in Request : p # q => request[p].code # request[q].code
      BY <1>5, <2>2 DEF AccountInv, CodesApart
    <3>2. request[q].code # ByGoogle
      BY RequestIs, CodeFacts DEF AccountInv
    <3>3. request[q].code # pending'.code /\ request[q].code # user'.id
      BY <1>1, <1>2, <1>3, <3>1, <3>2
    <3>4. \A p \in Request : request'[p].row.code # request[q].code
      BY <1>3, <1>4, <3>1
    <3>5. \A p \in Request : p # q => request'[p].code # request[q].code
      BY <1>4, <3>1
    <3> QED BY <3>1, <3>3, <3>4, <3>5
  <2> QED BY <2>1, <2>2 DEF CodesApart, Open
<1>9. PasswordsMatch'
  BY <1>1, <1>2, <1>3, <1>4 DEF AccountInv, PasswordsMatch, PasswordOfCode
<1>10. Activating'
  BY IdleIs DEF RequestQuiet, Activating, Is
<1>11. Unverifieds'
  <2>1. Unverified' => user'.id = Legacy
    BY <1>1 DEF AccountInv, Unverifieds
  <2>2. pending' # NoPending => ~Unverified'
    BY <1>1, <1>2 DEF AccountInv, Unverifieds
  <2>3. \A q \in Request : request'[q].pc \in {"name", "upsert", "store"} => ~Unverified'
    BY IdleIs DEF RequestQuiet
  <2> QED BY <2>1, <2>2, <2>3 DEF Unverifieds
<1> QED BY <1>6, <1>7, <1>8, <1>9, <1>10, <1>11 DEF AccountInv

LEMMA QuietTyped ==
  ASSUME AccountTypeOK, UNCHANGED <<drawn, registered, mailed>>, UserQuiet, PendingQuiet,
         request' \in [Request -> AccountRequest],
         legacyCodes' \subseteq [code : Code, expired : BOOLEAN],
         usable' \in Code, accountFaults' \in 0..MaxAccountFaults
  PROVE  AccountTypeOK'
<1>1. user' \in {NoUser, GoogleUser} \cup LocalUser
  <2>1. user \in {NoUser, GoogleUser} \cup LocalUser
    BY DEF AccountTypeOK, LocalUser
  <2>2. CASE user' \in {user, NoUser, GoogleUser}
    BY <2>1, <2>2
  <2>3. CASE user.id = Legacy /\ user' = [user EXCEPT !.isVerified = TRUE]
    <3>1. user \in LocalUser
      BY <2>1, <2>3, UserIs, CodeFacts
    <3> QED BY <2>3, <3>1 DEF LocalUser
  <2> QED BY <2>2, <2>3 DEF UserQuiet
<1>2. pending' \in Pending \cup {NoPending}
  BY PendingQuietIs
<1> QED BY <1>1, <1>2 DEF AccountTypeOK, AccountRequest, LocalUser

\* A request goes on to another place.
MayGo(q, pc, row) ==
    /\ request[q] # Idle /\ request[q].pc # "mail"
    /\ pc \in Steps /\ pc \in StepsOf(request[q].kind)
    /\ row \in {request[q].row, pending}
    /\ pc \in {"expired", "refresh"} => row # NoPending
    /\ pc \in {"name", "upsert", "store"} => ~Unverified'
    /\ /\ Is(q, "verify") /\ pc \in {"activate", "legacy", "purge", "destroy", "name", "create"}
       => row.code = request[q].code /\ request[q].code # Legacy

LEMMA GoesQuiet ==
  ASSUME AccountInv, UserQuiet, PendingQuiet, UNCHANGED <<drawn, registered, mailed, usable>>,
         NEW q \in Request, NEW pc, NEW row, MayGo(q, pc, row),
         (Goto(q, pc) /\ row = request[q].row) \/ Remember(q, pc, row),
         legacyCodes' \subseteq [code : Code, expired : BOOLEAN],
         accountFaults' \in 0..MaxAccountFaults
  PROVE  AccountInv'
<1>1. row \in Pending \cup {NoPending}
  BY RequestIs DEF MayGo, AccountInv, AccountTypeOK
<1>2. /\ request' \in [Request -> AccountRequest]
      /\ \A p \in Request : p # q => request'[p] = request[p]
      /\ request'[q].pc = pc /\ request'[q].row = row
      /\ request'[q].kind = request[q].kind /\ request'[q].code = request[q].code
  BY <1>1, GoesOn DEF MayGo, AccountInv
<1>3. RequestQuiet(q)
  BY <1>2 DEF MayGo, RequestQuiet
<1>4. \A p \in Request : RequestQuiet(p)
  BY <1>2, <1>3, StaysQuiet
<1>5. AccountTypeOK'
  BY <1>2, QuietTyped DEF AccountInv, AccountTypeOK
<1> QED BY <1>4, <1>5, QuietAccount

\* A request ends.
LEMMA EndsQuiet ==
  ASSUME AccountInv, UserQuiet, PendingQuiet, UNCHANGED <<drawn, registered, mailed, usable>>,
         NEW q \in Request, End(q),
         legacyCodes' \subseteq [code : Code, expired : BOOLEAN],
         accountFaults' \in 0..MaxAccountFaults
  PROVE  AccountInv'
<1>1. /\ request' \in [Request -> AccountRequest] /\ request'[q] = Idle
      /\ \A p \in Request : p # q => request'[p] = request[p]
  BY Ends DEF AccountInv
<1>2. RequestQuiet(q)
  BY <1>1 DEF RequestQuiet
<1>3. \A p \in Request : RequestQuiet(p)
  BY <1>1, <1>2, StaysQuiet
<1>4. AccountTypeOK'
  BY <1>1, QuietTyped DEF AccountInv, AccountTypeOK
<1> QED BY <1>3, <1>4, QuietAccount

\* A request is at a place of its kind.
LEMMA PlaceOf ==
  ASSUME AccountInv, NEW q \in Request, request[q].pc # "idle"
  PROVE  /\ request[q] # Idle
         /\ request[q].pc \in StepsOf(request[q].kind)
         /\ request[q].kind \in {"register", "verify", "resend", "google"}
BY RequestIs DEF AccountInv, InPlace, Kinds

\* Nothing changes but the request.
LEMMA OnlyReads ==
  ASSUME AccountInv, Reads
  PROVE  /\ UserQuiet /\ PendingQuiet /\ UNCHANGED <<drawn, registered, mailed, usable>>
         /\ legacyCodes' \subseteq [code : Code, expired : BOOLEAN]
         /\ accountFaults' \in 0..MaxAccountFaults
         /\ (Unverified' <=> Unverified)
BY DEF Reads, rows, ghosts, UserQuiet, PendingQuiet, AccountInv, AccountTypeOK, Unverified

LEMMA RegisterReads ==
  ASSUME AccountInv, NEW q \in Request,
         LookUp(q) \/ FindLegacy(q) \/ ResolveUsername(q) \/ FindExisting(q)
  PROVE  AccountInv'
<1>0. /\ UserQuiet /\ PendingQuiet /\ UNCHANGED <<drawn, registered, mailed, usable>>
      /\ legacyCodes' \subseteq [code : Code, expired : BOOLEAN]
      /\ accountFaults' \in 0..MaxAccountFaults /\ (Unverified' <=> Unverified)
  BY OnlyReads DEF LookUp, FindLegacy, ResolveUsername, FindExisting
<1>1. CASE End(q)
  BY <1>0, <1>1, EndsQuiet
<1>2. CASE LookUp(q) /\ Goto(q, "legacy")
  <2>1. request[q].pc = "lookup"
    BY <1>2 DEF LookUp, Under
  <2>2. MayGo(q, "legacy", request[q].row)
    BY <2>1, PlaceOf DEF MayGo, StepsOf, Steps, Is
  <2> QED BY <1>0, <1>2, <2>2, GoesQuiet
<1>3. CASE FindLegacy(q)
  <2>1. request[q].pc = "legacy" /\ Goto(q, IF Unverified THEN "purge" ELSE "name")
    BY <1>3 DEF FindLegacy, Under
  <2>2. MayGo(q, IF Unverified THEN "purge" ELSE "name", request[q].row)
    BY <1>0, <2>1, PlaceOf DEF MayGo, StepsOf, Steps, Is, AccountInv, Activating
  <2> QED BY <1>0, <2>1, <2>2, GoesQuiet
<1>4. CASE ResolveUsername(q) /\ Goto(q, IF Is(q, "register") THEN "upsert" ELSE "create")
  <2>1. request[q].pc = "name"
    BY <1>4 DEF ResolveUsername, Under
  <2>2. ~Unverified'
    BY <1>0, <2>1 DEF AccountInv, Unverifieds
  <2>3. MayGo(q, IF Is(q, "register") THEN "upsert" ELSE "create", request[q].row)
    BY <2>1, <2>2, PlaceOf DEF MayGo, StepsOf, Steps, Is, AccountInv, Activating
  <2> QED BY <1>0, <1>4, <2>3, GoesQuiet
<1>5. CASE FindExisting(q)
  <2>1. request[q].pc = "upsert" /\ Remember(q, "store", pending)
    BY <1>5 DEF FindExisting, Under
  <2>2. ~Unverified'
    BY <1>0, <2>1 DEF AccountInv, Unverifieds
  <2>3. MayGo(q, "store", pending)
    BY <2>1, <2>2, PlaceOf DEF MayGo, StepsOf, Steps, Is
  <2> QED BY <1>0, <2>1, <2>3, GoesQuiet
<1> QED BY <1>1, <1>2, <1>3, <1>4, <1>5 DEF LookUp, ResolveUsername

LEMMA VerifyReads ==
  ASSUME AccountInv, NEW q \in Request,
         \/ FindVerified(q) \/ FindPending(q) \/ FindRow(q) \/ Activate(q)
         \/ FindOwner(q) \/ FindOldCode(q)
  PROVE  AccountInv'
<1>0. /\ UserQuiet /\ PendingQuiet /\ UNCHANGED <<drawn, registered, mailed, usable>>
      /\ legacyCodes' \subseteq [code : Code, expired : BOOLEAN]
      /\ accountFaults' \in 0..MaxAccountFaults /\ (Unverified' <=> Unverified)
  BY OnlyReads DEF FindVerified, FindPending, FindRow, Activate, FindOwner, FindOldCode
<1>1. CASE End(q)
  BY <1>0, <1>1, EndsQuiet
<1>2. CASE FindVerified(q) /\ Goto(q, "pending")
  <2>1. request[q].pc = "verified"
    BY <1>2 DEF FindVerified, Under
  <2>2. MayGo(q, "pending", request[q].row)
    BY <2>1, PlaceOf DEF MayGo, StepsOf, Steps, Is
  <2> QED BY <1>0, <1>2, <2>2, GoesQuiet
<1>3. CASE FindPending(q)
  <2> DEFINE pc == IF pending = NoPending THEN "owner"
                   ELSE IF pending.expired THEN "expired"
                   ELSE IF Is(q, "resend") THEN "findRow"
                   ELSE IF pending.code = request[q].code THEN "activate"
                   ELSE "owner"
  <2>1. request[q].pc = "pending" /\ Remember(q, pc, pending)
    BY <1>3 DEF FindPending, Under
  <2>2. request[q] # Idle /\ request[q].kind \in {"verify", "resend"}
    BY <2>1, PlaceOf DEF StepsOf
  <2>3. \/ pc = "owner"
        \/ pc = "expired" /\ pending # NoPending
        \/ pc = "findRow" /\ request[q].kind = "resend"
        \/ /\ pc = "activate" /\ request[q].kind = "verify" /\ pending # NoPending
           /\ pending.code = request[q].code
    BY <2>2 DEF Is
  <2> HIDE DEF pc
  <2>4. pending # NoPending => pending.code # Legacy
    BY DEF AccountInv, CodesApart
  <2>5. MayGo(q, pc, pending)
    BY <2>1, <2>2, <2>3, <2>4 DEF MayGo, StepsOf, Steps, Is
  <2> QED BY <1>0, <2>1, <2>5, GoesQuiet
<1>4. CASE FindRow(q)
  <2> DEFINE pc == IF pending = NoPending THEN "mail" ELSE "refresh"
  <2>1. request[q].pc = "findRow" /\ Remember(q, pc, pending)
    BY <1>4 DEF FindRow, Under
  <2>2. MayGo(q, pc, pending)
    BY <2>1, PlaceOf DEF MayGo, StepsOf, Steps, Is
  <2> QED BY <1>0, <2>1, <2>2, GoesQuiet
<1>5. CASE Activate(q)
  <2> DEFINE pc == IF VerifiedLocal THEN "drop" ELSE "legacy"
  <2>1. request[q].pc = "activate" /\ Goto(q, pc)
    BY <1>5 DEF Activate, Under
  <2>2. MayGo(q, pc, request[q].row)
    BY <2>1, PlaceOf DEF MayGo, StepsOf, Steps, Is, AccountInv, Activating
  <2> QED BY <1>0, <2>1, <2>2, GoesQuiet
<1>6. CASE FindOwner(q) /\ Goto(q, IF Is(q, "verify") THEN "oldCode" ELSE "renew")
  <2> DEFINE pc == IF Is(q, "verify") THEN "oldCode" ELSE "renew"
  <2>1. request[q].pc = "owner"
    BY <1>6 DEF FindOwner, Under
  <2>2. MayGo(q, pc, request[q].row)
    BY <2>1, PlaceOf DEF MayGo, StepsOf, Steps, Is
  <2> QED BY <1>0, <1>6, <2>2, GoesQuiet
<1>7. CASE FindOldCode(q) /\ Goto(q, "confirm")
  <2>1. request[q].pc = "oldCode"
    BY <1>7 DEF FindOldCode, Under
  <2>2. MayGo(q, "confirm", request[q].row)
    BY <2>1, PlaceOf DEF MayGo, StepsOf, Steps, Is
  <2> QED BY <1>0, <1>7, <2>2, GoesQuiet
<1> QED BY <1>1, <1>2, <1>3, <1>4, <1>5, <1>6, <1>7 DEF FindVerified, FindOwner, FindOldCode

\* Steps that change the rows, and go on.
LEMMA ChangesGo ==
  ASSUME AccountInv, NEW q \in Request,
         \/ PurgeCodes(q) \/ DestroyLegacy(q) \/ DestroyExpired(q) \/ Confirm(q) \/ RenewOldCode(q)
         \/ InsertOldCode(q)
  PROVE  AccountInv'
<1>0. legacyCodes \subseteq [code : Code, expired : BOOLEAN]
      /\ accountFaults \in 0..MaxAccountFaults
  BY DEF AccountInv, AccountTypeOK
<1>1. CASE PurgeCodes(q)
  <2>1. /\ request[q].pc = "purge" /\ Goto(q, "destroy") /\ legacyCodes' = {}
        /\ UNCHANGED <<user, pending, drawn, mailed, registered, usable, accountFaults>>
    BY <1>1 DEF PurgeCodes, Under, ghosts
  <2>2. MayGo(q, "destroy", request[q].row)
    BY <2>1, PlaceOf DEF MayGo, StepsOf, Steps, Is, AccountInv, Activating
  <2> QED BY <1>0, <2>1, <2>2, GoesQuiet DEF UserQuiet, PendingQuiet
<1>2. CASE DestroyLegacy(q)
  <2>1. /\ request[q].pc = "destroy" /\ Goto(q, "legacy") /\ legacyCodes' \subseteq legacyCodes
        /\ user' \in {user, NoUser}
        /\ UNCHANGED <<pending, drawn, mailed, registered, usable, accountFaults>>
    BY <1>2 DEF DestroyLegacy, Under, ghosts
  <2>2. MayGo(q, "legacy", request[q].row)
    BY <2>1, PlaceOf DEF MayGo, StepsOf, Steps, Is, AccountInv, Activating
  <2>3. legacyCodes' \subseteq [code : Code, expired : BOOLEAN] /\ UserQuiet /\ PendingQuiet
    BY <1>0, <2>1 DEF UserQuiet, PendingQuiet
  <2> QED BY <1>0, <2>1, <2>2, <2>3, GoesQuiet
<1>3. CASE DestroyExpired(q)
  <2>1. /\ request[q].pc = "expired" /\ Goto(q, "owner") /\ pending' \in {pending, NoPending}
        /\ UNCHANGED <<user, legacyCodes, drawn, mailed, registered, usable, accountFaults>>
    BY <1>3 DEF DestroyExpired, Under, ghosts, DestroyPending
  <2>2. MayGo(q, "owner", request[q].row)
    BY <2>1, PlaceOf DEF MayGo, StepsOf, Steps, Is
  <2> QED BY <1>0, <2>1, <2>2, GoesQuiet DEF UserQuiet, PendingQuiet
<1>4. CASE Confirm(q)
  <2>1. /\ request[q].pc = "confirm" /\ Goto(q, "spend") /\ UserQuiet
        /\ UNCHANGED <<pending, legacyCodes, drawn, mailed, registered, usable, accountFaults>>
    BY <1>4 DEF Confirm, Under, ghosts, UserQuiet
  <2>2. MayGo(q, "spend", request[q].row)
    BY <2>1, PlaceOf DEF MayGo, StepsOf, Steps, Is
  <2> QED BY <1>0, <2>1, <2>2, GoesQuiet DEF PendingQuiet
<1>5. CASE RenewOldCode(q)
  <2>1. /\ request[q].pc = "renew" /\ Goto(q, "insert") /\ legacyCodes' = {}
        /\ UNCHANGED <<user, pending, drawn, mailed, registered, usable, accountFaults>>
    BY <1>5 DEF RenewOldCode, Under, ghosts
  <2>2. MayGo(q, "insert", request[q].row)
    BY <2>1, PlaceOf DEF MayGo, StepsOf, Steps, Is
  <2> QED BY <1>0, <2>1, <2>2, GoesQuiet DEF UserQuiet, PendingQuiet
<1>6. CASE InsertOldCode(q)
  <2>1. /\ request[q].pc = "insert"
        /\ legacyCodes' \subseteq
              legacyCodes \cup {[code |-> request[q].code, expired |-> FALSE]}
        /\ UNCHANGED <<user, pending, drawn, mailed, registered, usable, accountFaults>>
    BY <1>6 DEF InsertOldCode, Under, ghosts
  <2>2. [code |-> request[q].code, expired |-> FALSE] \in [code : Code, expired : BOOLEAN]
    BY RequestIs DEF AccountInv
  <2>3. legacyCodes' \subseteq [code : Code, expired : BOOLEAN] /\ UserQuiet /\ PendingQuiet
    BY <1>0, <2>1, <2>2 DEF UserQuiet, PendingQuiet
  <2>4. CASE End(q)
    BY <1>0, <2>1, <2>3, <2>4, EndsQuiet
  <2>5. CASE Goto(q, "mail")
    <3>1. MayGo(q, "mail", request[q].row)
      BY <2>1, PlaceOf DEF MayGo, StepsOf, Steps, Is
    <3> QED BY <1>0, <2>1, <2>3, <2>5, <3>1, GoesQuiet
  <2> QED BY <1>6, <2>4, <2>5 DEF InsertOldCode
<1> QED BY <1>1, <1>2, <1>3, <1>4, <1>5, <1>6

LEMMA FaultTyped ==
  ASSUME AccountInv, NEW kind, AccountFault(kind)
  PROVE  accountFaults' \in 0..MaxAccountFaults
BY AccountAssumption DEF AccountFault, AccountInv, AccountTypeOK

\* Steps that end the request.
LEMMA ChangesEnd ==
  ASSUME AccountInv, NEW q \in Request,
         DropPending(q) \/ SpendOldCode(q) \/ CreateGoogle(q) \/ MailFails(q) \/ StatementFails(q)
  PROVE  AccountInv'
<1>1. /\ End(q) /\ UNCHANGED <<drawn, mailed, registered, usable>>
      /\ legacyCodes' \subseteq legacyCodes
  BY DEF DropPending, SpendOldCode, CreateGoogle, MailFails, StatementFails, ghosts, rows
<1>2. UserQuiet /\ PendingQuiet
  BY DEF DropPending, SpendOldCode, CreateGoogle, MailFails, StatementFails, ghosts, rows,
         UserQuiet, PendingQuiet, DestroyPending
<1>3. accountFaults' \in 0..MaxAccountFaults
  BY FaultTyped
     DEF DropPending, SpendOldCode, CreateGoogle, MailFails, StatementFails, AccountInv,
         AccountTypeOK
<1>4. legacyCodes' \subseteq [code : Code, expired : BOOLEAN]
  BY <1>1 DEF AccountInv, AccountTypeOK
<1> QED BY <1>1, <1>2, <1>3, <1>4, EndsQuiet

LEMMA GoogleReads ==
  ASSUME AccountInv, NEW q \in Request, FindGoogleId(q) \/ FindGoogleEmail(q)
  PROVE  AccountInv'
<1>0. /\ UserQuiet /\ PendingQuiet /\ UNCHANGED <<drawn, registered, mailed, usable>>
      /\ legacyCodes' \subseteq [code : Code, expired : BOOLEAN]
      /\ accountFaults' \in 0..MaxAccountFaults
  BY OnlyReads DEF FindGoogleId, FindGoogleEmail
<1>1. CASE End(q)
  BY <1>0, <1>1, EndsQuiet
<1>2. CASE FindGoogleId(q) /\ Goto(q, "googleEmail")
  <2>1. request[q].pc = "googleId"
    BY <1>2 DEF FindGoogleId, Under
  <2>2. MayGo(q, "googleEmail", request[q].row)
    BY <2>1, PlaceOf DEF MayGo, StepsOf, Steps, Is
  <2> QED BY <1>0, <1>2, <2>2, GoesQuiet
<1>3. CASE FindGoogleEmail(q) /\ Goto(q, "googleCreate")
  <2>1. request[q].pc = "googleEmail"
    BY <1>3 DEF FindGoogleEmail, Under
  <2>2. MayGo(q, "googleCreate", request[q].row)
    BY <2>1, PlaceOf DEF MayGo, StepsOf, Steps, Is
  <2> QED BY <1>0, <1>3, <2>2, GoesQuiet
<1> QED BY <1>1, <1>2, <1>3 DEF FindGoogleId, FindGoogleEmail

\* Codes outdated: no request moves.
LEMMA OutdatedIs ==
  ASSUME AccountTypeOK, NEW codes, Outdated(codes)
  PROVE  /\ request' \in [Request -> AccountRequest] /\ usable' \in Code
         /\ \A p \in Request :
               /\ request'[p].kind = request[p].kind /\ request'[p].pc = request[p].pc
               /\ request'[p].code = request[p].code /\ request'[p].row = request[p].row
               /\ request'[p].alone =
                     IF request[p].code \in codes THEN FALSE ELSE request[p].alone
<1>1. \A p \in Request :
         LET new == IF request[p].code \in codes THEN [request[p] EXCEPT !.alone = FALSE]
                    ELSE request[p]
         IN  /\ new \in AccountRequest /\ new.kind = request[p].kind /\ new.pc = request[p].pc
             /\ new.code = request[p].code /\ new.row = request[p].row
             /\ new.alone = IF request[p].code \in codes THEN FALSE ELSE request[p].alone
  <2> SUFFICES ASSUME NEW p \in Request
               PROVE  LET new == IF request[p].code \in codes
                                 THEN [request[p] EXCEPT !.alone = FALSE] ELSE request[p]
                      IN  /\ new \in AccountRequest /\ new.kind = request[p].kind
                          /\ new.pc = request[p].pc /\ new.code = request[p].code
                          /\ new.row = request[p].row
                          /\ new.alone = IF request[p].code \in codes THEN FALSE
                                         ELSE request[p].alone
    OBVIOUS
  <2>1. CASE request[p] = Idle
    BY <2>1, IdleStays, IdleIs
  <2>2. CASE request[p] # Idle
    <3>1. request[p] \in [kind : Kinds, pc : Steps, code : Code, row : Pending \cup {NoPending},
                          alone : BOOLEAN]
      BY <2>2, RequestIs
    <3> QED BY <3>1 DEF AccountRequest
  <2> QED BY <2>1, <2>2
<1>2. request' = [p \in Request |-> IF request[p].code \in codes
                                    THEN [request[p] EXCEPT !.alone = FALSE] ELSE request[p]]
  BY DEF Outdated
<1>3. usable' \in Code
  BY CodeFacts DEF Outdated, AccountTypeOK
<1> QED BY <1>1, <1>2, <1>3

LEMMA SurroundingsAccount ==
  ASSUME AccountInv,
         ExpirePending \/ ExpireOldCodes \/ CleanupExpired \/ AccountCrash \/ UNCHANGED accountVars
  PROVE  AccountInv'
<1>1. UNCHANGED <<user, drawn, mailed, registered>>
  BY DEF ExpirePending, ExpireOldCodes, CleanupExpired, AccountCrash, accountVars, ghosts, rows
<1>2. UserQuiet /\ PendingQuiet
  BY <1>1 DEF UserQuiet, PendingQuiet, ExpirePending, ExpireOldCodes, CleanupExpired,
              AccountCrash, accountVars, rows
<1>3. accountFaults' \in 0..MaxAccountFaults
  BY FaultTyped DEF ExpirePending, ExpireOldCodes, CleanupExpired, AccountCrash, accountVars,
                    AccountInv, AccountTypeOK
<1>4. legacyCodes' \subseteq [code : Code, expired : BOOLEAN]
  <2>1. legacyCodes \subseteq [code : Code, expired : BOOLEAN]
    BY DEF AccountInv, AccountTypeOK
  <2>2. CASE ExpireOldCodes
    <3>1. legacyCodes' = {[r EXCEPT !.expired = TRUE] : r \in legacyCodes}
      BY <2>2 DEF ExpireOldCodes
    <3>2. \A r \in legacyCodes : [r EXCEPT !.expired = TRUE] \in [code : Code, expired : BOOLEAN]
      BY <2>1
    <3> QED BY <3>1, <3>2
  <2>3. CASE legacyCodes' \subseteq legacyCodes
    BY <2>1, <2>3
  <2> QED BY <2>2, <2>3 DEF ExpirePending, CleanupExpired, AccountCrash, accountVars, rows
<1>5. /\ usable' \in Code /\ request' \in [Request -> AccountRequest]
      /\ \A p \in Request : RequestQuiet(p)
  <2>1. CASE ExpirePending \/ ExpireOldCodes
    <3>1. PICK codes : Outdated(codes)
      BY <2>1 DEF ExpirePending, ExpireOldCodes
    <3> QED BY <1>2, <3>1, OutdatedIs, StaysQuiet DEF AccountInv
  <2>2. CASE CleanupExpired \/ UNCHANGED accountVars
    <3>1. usable' = usable /\ request' = request
      BY <2>2 DEF CleanupExpired, accountVars, ghosts
    <3> QED BY <1>2, <3>1, StaysQuiet DEF AccountInv, AccountTypeOK, AccountRequest
  <2>3. CASE AccountCrash
    <3>1. usable' = usable /\ request' = [q \in Request |-> Idle]
      BY <2>3 DEF AccountCrash, ghosts
    <3> QED BY <3>1, IdleIs DEF AccountInv, AccountTypeOK, RequestQuiet
  <2> QED BY <2>1, <2>2, <2>3
<1>6. AccountTypeOK'
  BY <1>1, <1>2, <1>3, <1>4, <1>5, QuietTyped DEF AccountInv
<1> QED BY <1>1, <1>2, <1>5, <1>6, QuietAccount

-----------------------------------------------------------------------------
(* Requests arrive, and the steps that write or mail a code.               *)

LEMMA DrawnIs ==
  ASSUME AccountInv
  PROVE  /\ drawn \in Code /\ drawn \in Nat /\ 0 <= drawn /\ drawn <= MaxCodes
         /\ \A q \in Request : /\ request[q].code \in Nat /\ request[q].code <= drawn
                               /\ request[q].code \in 0..drawn
<1>1. drawn \in Code
  BY DEF AccountInv, AccountTypeOK
<1>2. \A q \in Request : request[q].code \in Code
  BY RequestIs DEF AccountInv
<1>3. \A q \in Request : request[q].code <= drawn
  BY DEF AccountInv, CodesDrawn
<1>4. drawn \in Nat /\ 0 <= drawn /\ drawn <= MaxCodes /\ \A q \in Request : request[q].code \in Nat
  BY <1>1, <1>2, CodeFacts
<1> QED BY <1>1, <1>3, <1>4

LEMMA ArrivesIs ==
  ASSUME AccountInv, NEW q \in Request, NEW kind \in Kinds, NEW pc \in Steps, NEW code \in Code,
         Arrives(q, kind, pc, code)
  PROVE  /\ request' \in [Request -> AccountRequest] /\ request[q] = Idle
         /\ request'[q].kind = kind /\ request'[q].pc = pc /\ request'[q].code = code
         /\ request'[q].row = NoPending
         /\ request'[q].alone <=> \A p \in Request : request[p] = Idle
         /\ \A p \in Request : p # q =>
               /\ request'[p].kind = request[p].kind /\ request'[p].pc = request[p].pc
               /\ request'[p].code = request[p].code /\ request'[p].row = request[p].row
               /\ request'[p].alone = FALSE
               /\ request[p] = Idle => request'[p] = Idle
<1> DEFINE alone == \A p \in Request : request[p] = Idle
           new == [kind |-> kind, pc |-> pc, code |-> code, row |-> NoPending, alone |-> alone]
<1>1. request[q] = Idle
      /\ request' = [p \in Request |-> IF p = q THEN new ELSE [request[p] EXCEPT !.alone = FALSE]]
  BY DEF Arrives
<1>2. /\ new \in AccountRequest /\ new.kind = kind /\ new.pc = pc /\ new.code = code
      /\ new.row = NoPending /\ (new.alone <=> alone)
  <2>1. alone \in BOOLEAN
    OBVIOUS
  <2> HIDE DEF alone
  <2> QED BY <2>1 DEF AccountRequest
<1> HIDE DEF new, alone
<1>3. \A p \in Request :
         LET r == [request[p] EXCEPT !.alone = FALSE]
         IN  /\ r \in AccountRequest /\ r.kind = request[p].kind /\ r.pc = request[p].pc
             /\ r.code = request[p].code /\ r.row = request[p].row /\ r.alone = FALSE
             /\ request[p] = Idle => r = Idle
  <2> SUFFICES ASSUME NEW p \in Request
               PROVE  LET r == [request[p] EXCEPT !.alone = FALSE]
                      IN  /\ r \in AccountRequest /\ r.kind = request[p].kind
                          /\ r.pc = request[p].pc
                          /\ r.code = request[p].code /\ r.row = request[p].row /\ r.alone = FALSE
                          /\ request[p] = Idle => r = Idle
    OBVIOUS
  <2>1. CASE request[p] = Idle
    BY <2>1, IdleStays, IdleIs
  <2>2. CASE request[p] # Idle
    <3>1. request[p] \in [kind : Kinds, pc : Steps, code : Code, row : Pending \cup {NoPending},
                          alone : BOOLEAN]
      BY <2>2, RequestIs DEF AccountInv
    <3> QED BY <2>2, <3>1 DEF AccountRequest
  <2> QED BY <2>1, <2>2
<1> QED BY <1>1, <1>2, <1>3 DEF alone

\* The request that comes holds no row; nobody else knows the code it has drawn.
LEMMA ArrivesAccount ==
  ASSUME AccountInv, NEW q \in Request, NEW kind \in Kinds, NEW pc \in Steps, NEW code \in Code,
         Arrives(q, kind, pc, code), pc \in StepsOf(kind),
         pc \in {"lookup", "verified", "googleId"}, usable' \in Code, drawn' \in Code,
         drawn <= drawn', code <= drawn',
         kind \in {"register", "resend"} => code = drawn + 1 /\ code # Legacy,
         code = drawn + 1 \/ code = Legacy \/ code \in mailed
  PROVE  AccountInv'
<1>1. /\ request' \in [Request -> AccountRequest]
      /\ request'[q].kind = kind /\ request'[q].pc = pc /\ request'[q].code = code
      /\ request'[q].row = NoPending
      /\ \A p \in Request : p # q =>
               /\ request'[p].kind = request[p].kind /\ request'[p].pc = request[p].pc
               /\ request'[p].code = request[p].code /\ request'[p].row = request[p].row
               /\ request'[p].alone = FALSE
               /\ request[p] = Idle => request'[p] = Idle
  BY ArrivesIs, Zenon
<1>2. UNCHANGED <<user, pending, legacyCodes, mailed, registered, accountFaults>>
  BY DEF Arrives, rows
<1>3. /\ drawn \in Nat /\ drawn' \in Nat /\ drawn' <= MaxCodes /\ 0 <= drawn'
      /\ Legacy = 0 /\ ByGoogle = MaxCodes + 1 /\ MaxCodes \in Nat
      /\ NoPending.code = 0 /\ NoPending.password = 0 /\ registered[0] = 0
  BY CodeFacts, PendingIs DEF AccountInv, AccountTypeOK, PasswordsMatch
<1>4. \A p \in Request : /\ request[p].code \in Nat /\ request[p].code <= drawn
                         /\ request[p].row.code \in Nat /\ request[p].row.code <= drawn
  BY RequestIs, PendingIs, CodeFacts DEF AccountInv, CodesDrawn
<1>5. /\ pending.code \in Nat /\ pending.code <= drawn /\ mailed \subseteq 0..drawn
      /\ (user.id \in Nat /\ user.id <= drawn) \/ user.id = ByGoogle
  <2>1. pending.code \in Code /\ pending.code <= drawn /\ mailed \subseteq 0..drawn
    BY PendingIs DEF AccountInv, AccountTypeOK, CodesDrawn
  <2>2. user.id \in Code \/ user.id = ByGoogle
    BY UserHas, UserIs DEF AccountInv
  <2>3. user.id <= drawn \/ user.id = ByGoogle
    BY DEF AccountInv, CodesDrawn
  <2> QED BY <2>1, <2>2, <2>3, CodeFacts
<1>6. AccountTypeOK'
  BY <1>1, <1>2 DEF AccountInv, AccountTypeOK, AccountRequest
<1>7. InPlace'
  BY <1>1 DEF AccountInv, InPlace
<1>8. CodesDrawn'
  <2>1. \A p \in Request : request'[p].code <= drawn' /\ request'[p].row.code <= drawn'
    BY <1>1, <1>3, <1>4
  <2> QED BY <1>2, <1>3, <1>5, <2>1 DEF CodesDrawn
<1>9. CodesApart'
  <2>1. ASSUME NEW p \in Request, Open(p)', p # q
        PROVE  LET c == request'[p].code
               IN  /\ c # Legacy /\ c # pending'.code /\ c # user'.id /\ c \notin mailed'
                   /\ \A b \in Request : request'[b].row.code # c
                   /\ \A b \in Request : b # p => request'[b].code # c
    <3>1. Open(p) /\ request'[p].code = request[p].code
      BY <1>1, <2>1 DEF Open
    <3>2. /\ request[p].code # Legacy /\ request[p].code # pending.code
          /\ request[p].code # user.id /\ request[p].code \notin mailed
          /\ \A b \in Request : request[b].row.code # request[p].code
          /\ \A b \in Request : b # p => request[b].code # request[p].code
      BY <3>1 DEF AccountInv, CodesApart
    <3>3. code # request[p].code
      BY <1>3, <1>4, <3>2
    <3> QED BY <1>1, <1>2, <1>3, <3>1, <3>2, <3>3
  <2>2. ASSUME kind \in {"register", "resend"}
        PROVE  /\ code # Legacy /\ code # pending'.code /\ code # user'.id /\ code \notin mailed'
               /\ \A b \in Request : request'[b].row.code # code
               /\ \A b \in Request : b # q => request'[b].code # code
    <3>1. code = drawn + 1 /\ code <= MaxCodes
      BY <1>3, <2>2, CodeFacts
    <3>2. code # pending.code /\ code # user.id /\ code \notin mailed
      BY <1>3, <1>5, <3>1
    <3>3. \A b \in Request : request'[b].row.code # code
      BY <1>1, <1>3, <1>4, <3>1
    <3>4. \A b \in Request : b # q => request'[b].code # code
      BY <1>1, <1>3, <1>4, <3>1
    <3> QED BY <1>2, <2>2, <3>2, <3>3, <3>4
  <2>3. Open(q)' => kind \in {"register", "resend"} /\ request'[q].code = code
    BY <1>1 DEF Open
  <2>4. pending' # NoPending => pending'.code # Legacy
    BY <1>2 DEF AccountInv, CodesApart
  <2>5. \A p \in Request : Open(p)' =>
          LET c == request'[p].code
          IN  /\ c # Legacy /\ c # pending'.code /\ c # user'.id /\ c \notin mailed'
              /\ \A b \in Request : request'[b].row.code # c
              /\ \A b \in Request : b # p => request'[b].code # c
    BY <2>1, <2>2, <2>3
  <2> QED BY <2>4, <2>5 DEF CodesApart, Open
<1>10. PasswordsMatch'
  BY <1>1, <1>2, <1>3 DEF AccountInv, PasswordsMatch, PasswordOfCode
<1>11. Activating'
  BY <1>1 DEF AccountInv, Activating, Is
<1>12. Unverifieds'
  BY <1>1, <1>2 DEF AccountInv, Unverifieds, Unverified
<1> QED BY <1>6, <1>7, <1>8, <1>9, <1>10, <1>11, <1>12 DEF AccountInv

LEMMA ComesAccount ==
  ASSUME AccountInv, NEW q \in Request,
         Register(q) \/ Resend(q) \/ VerifyEmail(q) \/ GoogleSignIn(q)
  PROVE  AccountInv'
<1>0. drawn \in Code /\ drawn \in Nat /\ drawn <= MaxCodes /\ 0 \in Code /\ usable \in Code
      /\ mailed \subseteq Code /\ mailed \subseteq 0..drawn
  <2>1. drawn \in Code /\ usable \in Code /\ mailed \subseteq Code /\ mailed \subseteq 0..drawn
    BY DEF AccountInv, AccountTypeOK, CodesDrawn
  <2> QED BY <2>1, CodeFacts
<1>1. ASSUME NEW kind, NEW pc, Draws(q, kind, pc), kind \in {"register", "resend"},
             pc \in StepsOf(kind), pc \in {"lookup", "verified"}
      PROVE  AccountInv'
  <2>1. /\ drawn + 1 \in Code /\ drawn' = drawn + 1 /\ Arrives(q, kind, pc, drawn + 1)
        /\ usable' = 0 /\ drawn + 1 # Legacy
    BY <1>0, <1>1, CodeFacts DEF Draws
  <2> QED BY <1>0, <1>1, <2>1, ArrivesAccount DEF Kinds, Steps
<1>2. CASE Register(q)
  BY <1>1, <1>2 DEF Register, StepsOf
<1>3. CASE Resend(q)
  BY <1>1, <1>3 DEF Resend, StepsOf
<1>4. CASE VerifyEmail(q)
  <2>1. PICK code \in mailed : Arrives(q, "verify", "verified", code) /\ UNCHANGED <<drawn, usable>>
    BY <1>4 DEF VerifyEmail, Keeps
  <2>2. code \in Code /\ code <= drawn
    BY <1>0, <2>1
  <2> QED BY <1>0, <2>1, <2>2, ArrivesAccount DEF Kinds, Steps, StepsOf
<1>5. CASE GoogleSignIn(q)
  <2>1. Arrives(q, "google", "googleId", Legacy) /\ UNCHANGED <<drawn, usable>>
    BY <1>5 DEF GoogleSignIn, Keeps
  <2> QED BY <1>0, <2>1, CodeFacts, ArrivesAccount DEF Kinds, Steps, StepsOf
<1> QED BY <1>2, <1>3, <1>4, <1>5

\* Nothing has this code.
WrittenApart(c) ==
    /\ c # Legacy /\ c # pending.code /\ c # user.id /\ c \notin mailed
    /\ \A p \in Request : request[p].row.code # c

\* A code is written beside a password into the pending row, unless the row is gone.
LEMMA WritesAccount ==
  ASSUME AccountInv, NEW q \in Request, NEW c \in Code, WrittenApart(c), request[q].code = c,
         Open(q), NEW password0 \in Code,
         registered' = [registered EXCEPT ![c] = password0],
         UNCHANGED <<user, legacyCodes, drawn, mailed, usable, accountFaults>>,
         request' \in [Request -> AccountRequest],
         \A p \in Request : p # q => request'[p] = request[p],
         \/ request'[q] = Idle
         \/ /\ request'[q].pc = "mail" /\ request'[q].kind \in {"register", "resend"}
            /\ request'[q].code = c /\ request'[q].row = request[q].row,
         \/ pending' = pending
         \/ /\ pending' \in Pending /\ pending'.code = c /\ pending'.password = password0
            /\ ~Unverified
  PROVE  AccountInv'
<1>1. registered'[c] = password0 /\ \A d \in Code \ {c} : registered'[d] = registered[d]
  BY DEF AccountInv, AccountTypeOK
<1>2. c <= drawn /\ 0 <= drawn
  BY DrawnIs
<1>3. /\ NoPending.code = Legacy /\ NoPending.password = Legacy /\ registered'[Legacy] = Legacy
      /\ Legacy \in Code /\ Legacy = 0
  BY <1>1, PendingIs, CodeFacts DEF WrittenApart, AccountInv, PasswordsMatch
<1>4. AccountTypeOK'
  <2>1. pending' \in Pending \cup {NoPending} /\ registered' \in [Code -> Code]
    BY DEF AccountInv, AccountTypeOK
  <2> QED BY <2>1 DEF AccountInv, AccountTypeOK, AccountRequest
<1>5. InPlace'
  BY IdleIs DEF AccountInv, InPlace, StepsOf
<1>6. CodesDrawn'
  BY <1>2, <1>3, IdleIs DEF AccountInv, CodesDrawn
<1>7. \A p \in Request : Open(p)' => /\ p # q /\ Open(p) /\ request'[p].code = request[p].code
                                     /\ request[p].code # c
  BY IdleIs DEF Open, AccountInv, CodesApart
<1>8. CodesApart'
  <2>1. pending' # NoPending => pending'.code # Legacy
    BY DEF WrittenApart, AccountInv, CodesApart
  <2>2. ASSUME NEW p \in Request, Open(p)'
        PROVE  LET d == request'[p].code
               IN  /\ d # Legacy /\ d # pending'.code /\ d # user'.id /\ d \notin mailed'
                   /\ \A b \in Request : request'[b].row.code # d
                   /\ \A b \in Request : b # p => request'[b].code # d
    <3>1. /\ p # q /\ request'[p].code = request[p].code /\ request[p].code # c /\ Open(p)
      BY <1>7, <2>2
    <3>2. /\ request[p].code # Legacy /\ request[p].code # pending.code
          /\ request[p].code # user.id /\ request[p].code \notin mailed
          /\ \A b \in Request : request[b].row.code # request[p].code
          /\ \A b \in Request : b # p => request[b].code # request[p].code
      BY <3>1 DEF AccountInv, CodesApart
    <3>3. \A b \in Request : request'[b].row.code # request[p].code
      BY <1>3, <3>2, IdleIs
    <3>4. \A b \in Request : b # p => request'[b].code # request[p].code
      BY <3>1, <3>2, IdleIs
    <3> QED BY <3>1, <3>2, <3>3, <3>4
  <2> QED BY <2>1, <2>2 DEF CodesApart
<1>9. PasswordsMatch'
  <2>1. pending'.password = registered'[pending'.code]
    <3>1. pending.code \in Code \ {c} /\ pending.password = registered[pending.code]
      BY PendingIs DEF WrittenApart, AccountInv, AccountTypeOK, PasswordsMatch
    <3> QED BY <1>1, <3>1
  <2>2. ASSUME NEW p \in Request PROVE request'[p].row.password = registered'[request'[p].row.code]
    <3>1. request'[p].row \in {request[p].row, NoPending}
      BY IdleIs
    <3>2. /\ request[p].row.code \in Code \ {c}
          /\ request[p].row.password = registered[request[p].row.code]
      BY RequestIs, PendingIs DEF WrittenApart, AccountInv, PasswordsMatch
    <3> QED BY <1>1, <1>3, <3>1, <3>2
  <2>3. PasswordOfCode'
    <3>1. user.provider = "local" => user.id \in Code \ {c}
      BY UserHas, UserIs DEF WrittenApart, AccountInv
    <3> QED BY <1>1, <3>1 DEF AccountInv, PasswordsMatch, PasswordOfCode
  <2> QED BY <1>3, <2>1, <2>2, <2>3 DEF PasswordsMatch
<1>10. Activating'
  BY IdleIs DEF AccountInv, Activating, Is
<1>11. Unverifieds'
  BY IdleIs DEF AccountInv, Unverifieds, Unverified
<1> QED BY <1>4, <1>5, <1>6, <1>8, <1>9, <1>10, <1>11 DEF AccountInv

\* The row written has the request's code, which nothing else has.
LEMMA StoreAccount ==
  ASSUME AccountInv, NEW q \in Request, StorePending(q)
  PROVE  AccountInv'
<1> DEFINE c == request[q].code
           row == request[q].row
           new == [id |-> c, password |-> c, code |-> c, expired |-> FALSE]
<1>1. /\ request[q].pc = "store" /\ request[q] # Idle /\ Open(q)
      /\ request[q].kind = "register" /\ c \in Code /\ row \in Pending \cup {NoPending}
      /\ c # Legacy /\ ~Unverified
  <2>1. request[q].pc = "store"
    BY DEF StorePending, Under
  <2>2. request[q].kind = "register"
    BY <2>1, PlaceOf DEF StepsOf
  <2>3. c \in Code /\ row \in Pending \cup {NoPending} /\ request[q] # Idle
    BY <2>1, RequestIs, PlaceOf DEF AccountInv
  <2>4. Open(q) /\ c # Legacy
    BY <2>1, <2>2 DEF Open, AccountInv, CodesApart
  <2>5. ~Unverified
    BY <2>1 DEF AccountInv, Unverifieds
  <2> QED BY <2>1, <2>2, <2>3, <2>4, <2>5
<1>2. /\ registered' = [registered EXCEPT ![c] = c]
      /\ UNCHANGED <<user, legacyCodes, drawn, mailed, usable, accountFaults>>
  BY DEF StorePending
<1>3. \/ pending' = pending /\ (End(q) \/ Goto(q, "mail"))
      \/ /\ pending' \in Pending /\ pending'.code = c /\ pending'.password = c
         /\ Goto(q, "mail")
  <2>1. CASE row # NoPending /\ UpdatePending(row, [new EXCEPT !.id = row.id]) /\ Goto(q, "mail")
    <3>1. row.id \in Code
      BY <1>1, <2>1, PendingIs
    <3>2. /\ [new EXCEPT !.id = row.id] \in Pending /\ [new EXCEPT !.id = row.id].code = c
          /\ [new EXCEPT !.id = row.id].password = c
      BY <1>1, <3>1 DEF Pending
    <3> QED BY <2>1, <3>2 DEF UpdatePending
  <2>2. CASE pending' = new /\ Goto(q, "mail")
    <3>1. new \in Pending /\ new.code = c /\ new.password = c
      BY <1>1 DEF Pending
    <3> QED BY <2>2, <3>1
  <2>3. CASE End(q) /\ UNCHANGED pending
    BY <2>3
  <2> QED BY <2>1, <2>2, <2>3 DEF StorePending
<1> HIDE DEF c, row, new
<1>4. /\ request' \in [Request -> AccountRequest]
      /\ \A p \in Request : p # q => request'[p] = request[p]
      /\ \/ request'[q] = Idle
         \/ /\ request'[q].pc = "mail" /\ request'[q].kind = "register"
            /\ request'[q].code = c /\ request'[q].row = row
  <2>1. CASE End(q)
    BY <2>1, Ends DEF AccountInv
  <2>2. CASE Goto(q, "mail")
    BY <1>1, <2>2, GoesOn DEF AccountInv, Steps, row, c
  <2> QED BY <1>3, <2>1, <2>2
<1>5. WrittenApart(c)
  BY <1>1 DEF WrittenApart, AccountInv, CodesApart, c
<1>6. registered'[c] = c /\ \A d \in Code \ {c} : registered'[d] = registered[d]
  BY <1>1, <1>2 DEF AccountInv, AccountTypeOK
<1> QED BY <1>1, <1>2, <1>3, <1>4, <1>5, <1>6, WritesAccount DEF c, row

LEMMA RefreshAccount ==
  ASSUME AccountInv, NEW q \in Request, RefreshPending(q)
  PROVE  AccountInv'
<1> DEFINE c == request[q].code
           row == request[q].row
<1>1. /\ request[q].pc = "refresh" /\ request[q] # Idle /\ Open(q)
      /\ request[q].kind = "resend" /\ c \in Code /\ row \in Pending /\ row.id # ByGoogle
      /\ c # Legacy
  <2>1. request[q].pc = "refresh"
    BY DEF RefreshPending, Under
  <2>2. request[q].kind = "resend"
    BY <2>1, PlaceOf DEF StepsOf
  <2>3. c \in Code /\ row \in Pending \cup {NoPending} /\ request[q] # Idle
    BY <2>1, RequestIs, PlaceOf DEF AccountInv
  <2>4. Open(q) /\ c # Legacy
    BY <2>1, <2>2 DEF Open, AccountInv, CodesApart
  <2>5. row # NoPending
    BY <2>1 DEF AccountInv, InPlace
  <2> QED BY <2>1, <2>2, <2>3, <2>4, <2>5, PendingIs
<1>2. /\ registered' = [registered EXCEPT ![c] = pending.password] /\ Goto(q, "mail")
      /\ UNCHANGED <<user, legacyCodes, drawn, mailed, usable, accountFaults>>
  BY DEF RefreshPending
<1>3. pending.password \in Code /\ pending \in Pending \cup {NoPending}
  BY PendingIs DEF AccountInv, AccountTypeOK
<1>4. \/ pending' = pending
      \/ /\ pending' \in Pending /\ pending # NoPending /\ pending'.code = c
         /\ pending'.password = pending.password
  <2>1. CASE pending.id = row.id
    <3>1. pending \in Pending /\ pending # NoPending
      BY <1>1, <1>3, <2>1, PendingIs
    <3>2. /\ [pending EXCEPT !.code = c, !.expired = FALSE] \in Pending
          /\ [pending EXCEPT !.code = c, !.expired = FALSE].code = c
          /\ [pending EXCEPT !.code = c, !.expired = FALSE].password = pending.password
      BY <1>1, <3>1 DEF Pending
    <3> QED BY <2>1, <3>1, <3>2 DEF RefreshPending, UpdatePending
  <2>2. CASE pending.id # row.id
    BY <2>2 DEF RefreshPending, UpdatePending
  <2> QED BY <2>1, <2>2
<1> HIDE DEF c, row
<1>5. /\ request' \in [Request -> AccountRequest]
      /\ \A p \in Request : p # q => request'[p] = request[p]
      /\ request'[q].pc = "mail" /\ request'[q].kind = "resend"
      /\ request'[q].code = c /\ request'[q].row = row
  BY <1>1, <1>2, GoesOn DEF AccountInv, Steps, row, c
<1>6. WrittenApart(c)
  BY <1>1 DEF WrittenApart, AccountInv, CodesApart, c
<1>7. registered'[c] = pending.password /\ \A d \in Code \ {c} : registered'[d] = registered[d]
  BY <1>1, <1>2 DEF AccountInv, AccountTypeOK
<1>8. pending # NoPending => ~Unverified
  BY DEF AccountInv, Unverifieds
<1> QED BY <1>1, <1>2, <1>3, <1>4, <1>5, <1>6, <1>7, <1>8, WritesAccount DEF c, row

\* The code goes to the mailbox, and the request ends.
LEMMA MailAccount ==
  ASSUME AccountInv, NEW q \in Request, Mail(q)
  PROVE  AccountInv'
<1>1. /\ request[q].pc = "mail" /\ End(q) /\ mailed' = mailed \cup {request[q].code}
      /\ UNCHANGED <<user, pending, legacyCodes, drawn, registered, accountFaults>>
      /\ usable' \in {request[q].code, usable}
  BY DEF Mail, Under, rows
<1>2. request[q].code \in Code /\ request[q].code <= drawn /\ drawn \in Nat
      /\ request[q].code \in 0..drawn
  BY RequestIs, DrawnIs DEF AccountInv
<1>3. /\ request' \in [Request -> AccountRequest] /\ request'[q] = Idle
      /\ \A p \in Request : p # q => request'[p] = request[p]
  BY <1>1, Ends DEF AccountInv
<1>4. AccountTypeOK'
  BY <1>1, <1>2, <1>3 DEF AccountInv, AccountTypeOK, AccountRequest
<1>5. CodesApart'
  <2>1. \A p \in Request : Open(p)' => p # q /\ Open(p)
    BY <1>3, IdleIs DEF Open
  <2>2. \A p \in Request : Open(p) /\ p # q => request[q].code # request[p].code
    BY DEF AccountInv, CodesApart
  <2>3. \A p \in Request : Open(p) => request[p].code # Legacy /\ request[p].code # NoPending.code
    BY PendingIs DEF AccountInv, CodesApart
  <2> QED BY <1>1, <1>3, <2>1, <2>2, <2>3, IdleIs DEF AccountInv, CodesApart
<1>6. InPlace' /\ Activating' /\ Unverifieds'
  BY <1>1, <1>3, IdleIs DEF AccountInv, InPlace, StepsOf, Activating, Is, Unverifieds, Unverified
<1>7. CodesDrawn'
  <2>1. mailed' \subseteq 0..drawn
    BY <1>1, <1>2 DEF AccountInv, CodesDrawn
  <2>2. Legacy <= drawn /\ NoPending.code = Legacy
    BY DrawnIs, PendingIs, CodeFacts
  <2>3. \A p \in Request : request'[p].code <= drawn /\ request'[p].row.code <= drawn
    BY <1>3, <2>2, IdleIs DEF AccountInv, CodesDrawn
  <2> QED BY <1>1, <2>1, <2>3 DEF AccountInv, CodesDrawn
<1>8. PasswordsMatch'
  BY <1>1, <1>3, IdleIs, PendingIs DEF AccountInv, PasswordsMatch, PasswordOfCode
<1> QED BY <1>4, <1>5, <1>6, <1>7, <1>8 DEF AccountInv

\* The account opened has the password its code was written beside.
LEMMA CreateAccount ==
  ASSUME AccountInv, NEW q \in Request, CreateUser(q)
  PROVE  AccountInv'
<1>1. /\ request[q].pc = "create" /\ UNCHANGED <<pending, legacyCodes, drawn, mailed, registered,
                                                 usable, accountFaults>>
  BY DEF CreateUser, Under, ghosts
<1>2. /\ legacyCodes' \subseteq [code : Code, expired : BOOLEAN]
      /\ accountFaults' \in 0..MaxAccountFaults
  BY <1>1 DEF AccountInv, AccountTypeOK
<1>3. CASE End(q) /\ UNCHANGED user
  BY <1>1, <1>2, <1>3, EndsQuiet DEF UserQuiet, PendingQuiet
<1>4. CASE /\ user = NoUser /\ Goto(q, "drop")
           /\ user' = Local(request[q].code, TRUE, request[q].row.password)
  <2> DEFINE c == request[q].code
             row == request[q].row
  <2>1. /\ request[q] # Idle /\ request[q].kind = "verify" /\ c \in Code /\ c <= drawn
        /\ row \in Pending \cup {NoPending} /\ row.password \in Code
    <3>1. request[q] # Idle /\ request[q].kind = "verify"
      BY <1>1, PlaceOf DEF StepsOf
    <3>2. c \in Code /\ row \in Pending \cup {NoPending} /\ c <= drawn
      BY RequestIs, DrawnIs DEF AccountInv
    <3> QED BY <3>1, <3>2, PendingIs
  <2>2. row.code = c /\ c # Legacy
    BY <1>1, <2>1 DEF AccountInv, Activating, Is
  <2>3. row.password = registered[c]
    BY <2>2 DEF AccountInv, PasswordsMatch
  <2>4. /\ user' \in LocalUser /\ user'.id = c /\ user'.isVerified = TRUE
        /\ user'.password = row.password /\ user'.provider = "local"
    <3>1. user' = [id |-> c, provider |-> "local", isVerified |-> TRUE, password |-> row.password]
      BY <1>4 DEF Local
    <3> HIDE DEF c, row
    <3> QED BY <2>1, <3>1 DEF LocalUser
  <2> HIDE DEF c, row
  <2>5. /\ request' \in [Request -> AccountRequest]
        /\ \A p \in Request : p # q => request'[p] = request[p]
        /\ request'[q].pc = "drop" /\ request'[q].kind = "verify"
        /\ request'[q].code = c /\ request'[q].row = row
    BY <1>4, <2>1, GoesOn DEF AccountInv, Steps, row, c
  <2>6. AccountTypeOK'
    BY <1>1, <2>4, <2>5 DEF AccountInv, AccountTypeOK, AccountRequest, LocalUser
  <2>7. InPlace' /\ Activating'
    BY <2>5 DEF AccountInv, InPlace, StepsOf, Activating, Is
  <2>8. /\ CodesDrawn' /\ \A p \in Request : request'[p].code = request[p].code
                                            /\ request'[p].row = request[p].row
    <3>1. \A p \in Request : request'[p].code = request[p].code /\ request'[p].row = request[p].row
      BY <2>5 DEF c, row
    <3> QED BY <1>1, <2>1, <2>4, <3>1 DEF AccountInv, CodesDrawn
  <2>9. CodesApart'
    <3>1. \A p \in Request : Open(p)' => Open(p)
      BY <2>5 DEF Open
    <3>2. \A p \in Request : Open(p) => request[p].code # c
      BY <2>1 DEF AccountInv, CodesApart, Open, c
    <3> QED BY <1>1, <2>4, <2>8, <3>1, <3>2 DEF AccountInv, CodesApart
  <2>10. PasswordsMatch'
    BY <1>1, <2>3, <2>4, <2>8 DEF AccountInv, PasswordsMatch, PasswordOfCode
  <2>11. Unverifieds'
    BY <2>4 DEF Unverifieds, Unverified
  <2> QED BY <2>6, <2>7, <2>8, <2>9, <2>10, <2>11 DEF AccountInv
<1> QED BY <1>3, <1>4 DEF CreateUser

LEMMA AccountStep ==
  ASSUME AccountInv, [AccountNext]_accountVars
  PROVE  AccountInv'
<1>1. ASSUME NEW q \in Request, Register(q) \/ Resend(q) \/ VerifyEmail(q) \/ GoogleSignIn(q)
      PROVE  AccountInv'
  BY <1>1, ComesAccount
<1>2. ASSUME NEW q \in Request,
             \/ LookUp(q) \/ FindLegacy(q) \/ ResolveUsername(q) \/ FindExisting(q)
             \/ FindVerified(q) \/ FindPending(q) \/ FindRow(q) \/ Activate(q)
             \/ FindOwner(q) \/ FindOldCode(q) \/ FindGoogleId(q) \/ FindGoogleEmail(q)
      PROVE  AccountInv'
  BY <1>2, RegisterReads, VerifyReads, GoogleReads
<1>3. ASSUME NEW q \in Request,
             \/ PurgeCodes(q) \/ DestroyLegacy(q) \/ DestroyExpired(q) \/ Confirm(q)
             \/ RenewOldCode(q) \/ InsertOldCode(q) \/ DropPending(q) \/ SpendOldCode(q)
             \/ CreateGoogle(q) \/ MailFails(q) \/ StatementFails(q)
      PROVE  AccountInv'
  BY <1>3, ChangesGo, ChangesEnd
<1>4. ASSUME NEW q \in Request,
             StorePending(q) \/ RefreshPending(q) \/ Mail(q) \/ CreateUser(q)
      PROVE  AccountInv'
  BY <1>4, StoreAccount, RefreshAccount, MailAccount, CreateAccount
<1>5. CASE ExpirePending \/ ExpireOldCodes \/ CleanupExpired \/ AccountCrash
             \/ UNCHANGED accountVars
  BY <1>5, SurroundingsAccount
<1> QED BY <1>1, <1>2, <1>3, <1>4, <1>5 DEF AccountNext

\* The types of the account's rows, requests and codes, for any number of them.
THEOREM AccountTypeCorrect == AccountSpec => []AccountTypeOK
<1>1. AccountInv /\ [AccountNext]_accountVars => AccountInv'
  BY AccountStep
<1>2. AccountInv => AccountTypeOK
  BY DEF AccountInv
<1> QED BY <1>1, <1>2, InitAccount, PTL DEF AccountSpec

\* The account a code opens has the password that stood beside this code, even when
\* the pending row is registered again while the code is being confirmed
\* (pendingRegistrationService.js:120-132).
THEOREM CodeKeepsPassword == AccountSpec => []PasswordOfCode
<1>1. AccountInv /\ [AccountNext]_accountVars => AccountInv'
  BY AccountStep
<1>2. AccountInv => PasswordOfCode
  BY DEF AccountInv, PasswordsMatch
<1> QED BY <1>1, <1>2, InitAccount, PTL DEF AccountSpec

\* Rows are deleted and verified by the id found, and an account is created only where
\* there is none.
LEMMA OpenedKept ==
  ASSUME AccountNext, user # NoUser, user.id # Legacy
  PROVE  user' = user
<1>1. ASSUME NEW q \in Request, DestroyLegacy(q) \/ Confirm(q) \/ CreateUser(q) \/ CreateGoogle(q)
      PROVE  user' = user
  BY <1>1 DEF DestroyLegacy, Confirm, CreateUser, CreateGoogle
<1>2. ASSUME NEW q \in Request, Register(q) \/ Resend(q) \/ VerifyEmail(q) \/ GoogleSignIn(q)
      PROVE  user' = user
  BY <1>2 DEF Register, Resend, VerifyEmail, GoogleSignIn, Draws, Keeps, Arrives, rows
<1>3. ASSUME NEW q \in Request,
             \/ LookUp(q) \/ FindLegacy(q) \/ ResolveUsername(q) \/ FindExisting(q)
             \/ FindVerified(q) \/ FindPending(q) \/ FindRow(q) \/ Activate(q)
             \/ FindOwner(q) \/ FindOldCode(q) \/ FindGoogleId(q) \/ FindGoogleEmail(q)
      PROVE  user' = user
  BY <1>3 DEF LookUp, FindLegacy, ResolveUsername, FindExisting, FindVerified, FindPending,
              FindRow, Activate, FindOwner, FindOldCode, FindGoogleId, FindGoogleEmail, Reads,
              rows
<1>4. ASSUME NEW q \in Request,
             \/ PurgeCodes(q) \/ DestroyExpired(q) \/ RenewOldCode(q) \/ InsertOldCode(q)
             \/ DropPending(q) \/ SpendOldCode(q) \/ MailFails(q) \/ StatementFails(q)
             \/ StorePending(q) \/ RefreshPending(q) \/ Mail(q)
      PROVE  user' = user
  BY <1>4 DEF PurgeCodes, DestroyExpired, RenewOldCode, InsertOldCode, DropPending,
              SpendOldCode, MailFails, StatementFails, StorePending, RefreshPending, Mail, rows
<1>5. ASSUME ExpirePending \/ ExpireOldCodes \/ CleanupExpired \/ AccountCrash
      PROVE  user' = user
  BY <1>5 DEF ExpirePending, ExpireOldCodes, CleanupExpired, AccountCrash, rows
<1> QED BY <1>1, <1>2, <1>3, <1>4, <1>5 DEF AccountNext

\* An account opened through a code or through Google stays as it was opened,
\* whatever registration, removal of an unverified account, code or Google sign-in
\* is still under way (pendingRegistrationService.js:7-21, 110-133, passport.js:60-90).
THEOREM OpenedAccountsStay == AccountSpec => OpenedStays
<1> DEFINE Step == user # NoUser /\ user.id # Legacy => user' = user
<1>1. [AccountNext]_accountVars => [Step]_accountVars
  BY OpenedKept
<1> QED BY <1>1, PTL DEF AccountSpec, OpenedStays

-----------------------------------------------------------------------------
(* The code mailed last: a request that is alone.                          *)

\* Who moves is alone, or those who are not stay so.
LEMMA AloneGoes ==
  ASSUME AccountInv, AloneSound, NEW q \in Request, request[q].pc # "idle",
         \A p \in Request : p # q => request'[p] = request[p],
         \/ request'[q] = Idle
         \/ /\ request'[q].kind = request[q].kind /\ request'[q].alone = request[q].alone
            /\ Alone(q) => Seen(q)'
  PROVE  AloneSound'
<1>1. request[q] # Idle
  BY IdleIs
<1> SUFFICES ASSUME NEW p \in Request, Alone(p)'
             PROVE  Seen(p)' /\ \A b \in Request : b # p => request'[b] = Idle
  BY DEF AloneSound
<1>2. CASE p # q
  <2>1. Alone(p)
    BY <1>2 DEF Alone
  <2> QED BY <1>1, <1>2, <2>1 DEF AloneSound
<1>3. CASE p = q
  <2>1. request'[q].alone
    BY <1>3 DEF Alone
  <2>2. request'[q] # Idle
    BY <1>3, IdleIs DEF Alone
  <2>3. Alone(q)
    BY <1>3, <2>1, <2>2 DEF Alone
  <2> QED BY <1>3, <2>2, <2>3 DEF AloneSound
<1> QED BY <1>2, <1>3

LEMMA EndsAlone ==
  ASSUME AccountInv, AloneSound, NEW q \in Request, request[q].pc # "idle", End(q)
  PROVE  AloneSound'
BY AloneGoes, Ends DEF AccountInv

\* To go on, it is enough that what a request that draws a code has seen is so.
LEMMA GoesAlone ==
  ASSUME AccountInv, AloneSound, NEW q \in Request, request[q].pc # "idle", NEW pc \in Steps,
         NEW row \in Pending \cup {NoPending},
         (Goto(q, pc) /\ row = request[q].row) \/ Remember(q, pc, row),
         Alone(q) /\ request'[q].pc = pc /\ request'[q].row = row
            /\ request'[q].code = request[q].code => Seen(q)'
  PROVE  AloneSound'
<1>1. request[q] # Idle
  BY PlaceOf
<1>2. /\ \A p \in Request : p # q => request'[p] = request[p]
      /\ request'[q].pc = pc /\ request'[q].row = row
      /\ request'[q].kind = request[q].kind /\ request'[q].code = request[q].code
      /\ request'[q].alone = request[q].alone
  BY <1>1, GoesOn DEF AccountInv
<1> QED BY <1>2, AloneGoes

\* The account of the older version, verified or not.
LEMMA LegacyIs ==
  ASSUME AccountInv, user.id = Legacy
  PROVE  /\ user.provider = "local" /\ user.isVerified \in BOOLEAN
         /\ Unverified <=> ~user.isVerified
         /\ VerifiedLocal <=> OldAccountOpen
BY UserHas, UserIs, CodeFacts DEF AccountInv, Unverified, VerifiedLocal, OldAccountOpen

LEMMA RegisterAlone ==
  ASSUME AccountInv, AloneSound, NEW q \in Request,
         LookUp(q) \/ FindLegacy(q) \/ ResolveUsername(q) \/ FindExisting(q)
  PROVE  AloneSound'
<1>0. UNCHANGED <<user, pending>> /\ request[q].pc \in {"lookup", "legacy", "name", "upsert"}
      /\ request[q].row \in Pending \cup {NoPending} /\ pending \in Pending \cup {NoPending}
  BY RequestIs DEF LookUp, FindLegacy, ResolveUsername, FindExisting, Reads, rows, Under,
                   AccountInv, AccountTypeOK
<1>1. CASE End(q)
  BY <1>0, <1>1, EndsAlone
<1>2. CASE LookUp(q) /\ (user = NoUser \/ Unverified)
  <2>1. Goto(q, "legacy")
    BY <1>2 DEF LookUp
  <2>2. ~OldAccountOpen
    BY <1>2, UserIs, CodeFacts DEF Unverified, OldAccountOpen
  <2>3. request'[q].pc = "legacy" => Seen(q)'
    BY <1>0, <2>2 DEF Seen, OldAccountOpen
  <2> QED BY <1>0, <2>1, <2>3, GoesAlone DEF Steps
<1>3. CASE FindLegacy(q)
  <2> DEFINE pc == IF Unverified THEN "purge" ELSE "name"
  <2>1. request[q].pc = "legacy" /\ Goto(q, pc)
    BY <1>3 DEF FindLegacy, Under
  <2>2. Alone(q) => ~OldAccountOpen
    BY <2>1 DEF AloneSound, Seen
  <2>3. ~OldAccountOpen /\ ~Unverified => user.id # Legacy
    BY LegacyIs DEF OldAccountOpen
  <2>4. Alone(q) /\ request'[q].pc = pc => Seen(q)'
    BY <1>0, <2>2, <2>3 DEF Seen, OldAccountOpen
  <2>5. pc \in Steps
    BY DEF Steps
  <2> QED BY <1>0, <2>1, <2>4, <2>5, GoesAlone
<1>4. CASE ResolveUsername(q) /\ Goto(q, IF Is(q, "register") THEN "upsert" ELSE "create")
  <2> DEFINE pc == IF Is(q, "register") THEN "upsert" ELSE "create"
  <2>1. request[q].pc = "name" /\ Goto(q, pc)
    BY <1>4 DEF ResolveUsername, Under
  <2>2. Alone(q) => user.id # Legacy
    BY <2>1 DEF AloneSound, Seen
  <2>3. Alone(q) /\ request'[q].pc = pc => Seen(q)'
    BY <1>0, <2>2 DEF Seen
  <2>4. pc \in Steps
    BY DEF Steps
  <2> QED BY <1>0, <2>1, <2>3, <2>4, GoesAlone
<1>5. CASE FindExisting(q)
  <2>1. request[q].pc = "upsert" /\ Remember(q, "store", pending)
    BY <1>5 DEF FindExisting, Under
  <2>2. Alone(q) => user.id # Legacy
    BY <2>1 DEF AloneSound, Seen
  <2>3. Alone(q) /\ request'[q].pc = "store" /\ request'[q].row = pending => Seen(q)'
    BY <1>0, <2>2 DEF Seen
  <2> QED BY <1>0, <2>1, <2>3, GoesAlone DEF Steps
<1> QED BY <1>1, <1>2, <1>3, <1>4, <1>5 DEF LookUp, ResolveUsername

LEMMA ResendAlone ==
  ASSUME AccountInv, AloneSound, NEW q \in Request,
         FindVerified(q) \/ FindPending(q) \/ FindRow(q) \/ FindOwner(q)
  PROVE  AloneSound'
<1>0. UNCHANGED <<user, pending>> /\ request[q].pc \in {"verified", "pending", "findRow", "owner"}
      /\ request[q].row \in Pending \cup {NoPending} /\ pending \in Pending \cup {NoPending}
  BY RequestIs DEF FindVerified, FindPending, FindRow, FindOwner, Reads, rows, Under,
                   AccountInv, AccountTypeOK
<1>a. Alone(q) => request[q].kind = "resend"
  BY <1>0, PlaceOf DEF Alone, StepsOf
<1>1. CASE End(q)
  BY <1>0, <1>1, EndsAlone
<1>2. CASE FindVerified(q) /\ ~VerifiedLocal
  <2>1. ~OldAccountOpen
    BY <1>2, LegacyIs DEF OldAccountOpen
  <2>2. request'[q].pc = "pending" => Seen(q)'
    BY <1>0, <2>1 DEF Seen, OldAccountOpen
  <2>3. Goto(q, "pending")
    BY <1>2 DEF FindVerified
  <2> QED BY <1>0, <2>2, <2>3, GoesAlone DEF Steps
<1>3. CASE FindPending(q)
  <2> DEFINE pc == IF pending = NoPending THEN "owner"
                   ELSE IF pending.expired THEN "expired"
                   ELSE IF Is(q, "resend") THEN "findRow"
                   ELSE IF pending.code = request[q].code THEN "activate"
                   ELSE "owner"
  <2>1. request[q].pc = "pending" /\ Remember(q, pc, pending)
    BY <1>3 DEF FindPending, Under
  <2>2. Alone(q) => /\ ~OldAccountOpen
                    /\ \/ pc = "owner" /\ pending = NoPending
                       \/ pc = "expired" /\ pending # NoPending
                       \/ pc = "findRow" /\ pending # NoPending
    BY <1>a, <2>1 DEF AloneSound, Seen, Is
  <2>3. pc \in Steps
    BY DEF Steps
  <2> HIDE DEF pc
  <2>4. Alone(q) /\ request'[q].pc = pc /\ request'[q].row = pending => Seen(q)'
    BY <1>0, <2>2 DEF Seen, OldAccountOpen
  <2> QED BY <1>0, <2>1, <2>3, <2>4, GoesAlone
<1>4. CASE FindRow(q)
  <2> DEFINE pc == IF pending = NoPending THEN "mail" ELSE "refresh"
  <2>1. request[q].pc = "findRow" /\ Remember(q, pc, pending)
    BY <1>4 DEF FindRow, Under
  <2>2. Alone(q) => ~OldAccountOpen /\ pending # NoPending
    BY <2>1 DEF AloneSound, Seen
  <2>3. Alone(q) => user.id # Legacy /\ pc = "refresh"
    BY <2>2, LegacyIs DEF AccountInv, Unverifieds, OldAccountOpen
  <2>4. Alone(q) /\ request'[q].pc = pc /\ request'[q].row = pending => Seen(q)'
    BY <1>0, <2>2, <2>3 DEF Seen
  <2>5. pc \in Steps
    BY DEF Steps
  <2> QED BY <1>0, <2>1, <2>4, <2>5, GoesAlone
<1>5. CASE FindOwner(q) /\ Goto(q, IF Is(q, "verify") THEN "oldCode" ELSE "renew")
  <2> DEFINE pc == IF Is(q, "verify") THEN "oldCode" ELSE "renew"
  <2>1. request[q].pc = "owner" /\ Goto(q, pc)
    BY <1>5 DEF FindOwner, Under
  <2>2. Alone(q) => pending = NoPending
    BY <2>1 DEF AloneSound, Seen
  <2>3. Alone(q) /\ request'[q].pc = pc => Seen(q)'
    BY <1>0, <2>2 DEF Seen
  <2>4. pc \in Steps
    BY DEF Steps
  <2> QED BY <1>0, <2>1, <2>3, <2>4, GoesAlone
<1> QED BY <1>1, <1>2, <1>3, <1>4, <1>5 DEF FindVerified, FindOwner

LEMMA ChangesAlone ==
  ASSUME AccountInv, AloneSound, NEW q \in Request,
         PurgeCodes(q) \/ DestroyLegacy(q) \/ DestroyExpired(q) \/ RenewOldCode(q)
           \/ InsertOldCode(q)
  PROVE  AloneSound'
<1>0. request[q].row \in Pending \cup {NoPending} /\ {"destroy", "legacy", "owner", "insert",
                                                      "mail"} \subseteq Steps
  BY RequestIs DEF AccountInv, Steps
<1>1. CASE PurgeCodes(q)
  <2>1. request[q].pc = "purge" /\ Goto(q, "destroy") /\ UNCHANGED <<user, pending>>
    BY <1>1 DEF PurgeCodes, Under
  <2>2. Alone(q) /\ request'[q].pc = "destroy" => Seen(q)'
    BY <2>1 DEF AloneSound, Seen, OldAccountOpen
  <2> QED BY <1>0, <2>1, <2>2, GoesAlone
<1>2. CASE DestroyLegacy(q)
  <2>1. /\ request[q].pc = "destroy" /\ Goto(q, "legacy") /\ UNCHANGED pending
        /\ user' \in {user, NoUser}
    BY <1>2 DEF DestroyLegacy, Under
  <2>2. Alone(q) /\ request'[q].pc = "legacy" => Seen(q)'
    BY <2>1, UserIs DEF AloneSound, Seen, OldAccountOpen
  <2> QED BY <1>0, <2>1, <2>2, GoesAlone
<1>3. CASE DestroyExpired(q)
  <2>1. /\ request[q].pc = "expired" /\ Goto(q, "owner")
        /\ pending.id = request[q].row.id => pending' = NoPending
    BY <1>3 DEF DestroyExpired, Under, DestroyPending
  <2>2. Alone(q) => pending' = NoPending
    BY <2>1 DEF AloneSound, Seen
  <2>3. Alone(q) /\ request'[q].pc = "owner" => Seen(q)'
    BY <2>2 DEF Seen
  <2> QED BY <1>0, <2>1, <2>3, GoesAlone
<1>4. CASE RenewOldCode(q)
  <2>1. request[q].pc = "renew" /\ Goto(q, "insert") /\ UNCHANGED pending
    BY <1>4 DEF RenewOldCode, Under
  <2>2. Alone(q) /\ request'[q].pc = "insert" => Seen(q)'
    BY <2>1 DEF AloneSound, Seen
  <2> QED BY <1>0, <2>1, <2>2, GoesAlone
<1>5. CASE InsertOldCode(q) /\ user.id = Legacy
  <2>1. /\ request[q].pc = "insert" /\ Goto(q, "mail") /\ UNCHANGED <<user, pending>>
        /\ legacyCodes' = legacyCodes \cup {[code |-> request[q].code, expired |-> FALSE]}
    BY <1>5 DEF InsertOldCode, Under
  <2>2. Alone(q) => pending = NoPending
    BY <2>1 DEF AloneSound, Seen
  <2>3. Alone(q) /\ request'[q].code = request[q].code => ByOldCode(request[q].code)'
    BY <1>5, <2>1, <2>2 DEF ByOldCode
  <2>4. Alone(q) /\ request'[q].pc = "mail" /\ request'[q].code = request[q].code => Seen(q)'
    BY <2>3 DEF Seen
  <2> QED BY <1>0, <2>1, <2>4, GoesAlone
<1>6. CASE InsertOldCode(q) /\ user.id # Legacy
  <2>1. End(q) /\ request[q].pc = "insert"
    BY <1>6 DEF InsertOldCode, Under
  <2> QED BY <2>1, EndsAlone
<1> QED BY <1>1, <1>2, <1>3, <1>4, <1>5, <1>6

\* The code written opens the account.
LEMMA WritesAlone ==
  ASSUME AccountInv, AloneSound, NEW q \in Request, StorePending(q) \/ RefreshPending(q)
  PROVE  AloneSound'
<1> DEFINE c == request[q].code
           row == request[q].row
           new == [id |-> c, password |-> c, code |-> c, expired |-> FALSE]
<1>0. row \in Pending \cup {NoPending} /\ c \in Code /\ "mail" \in Steps /\ user' = user
      /\ pending \in Pending \cup {NoPending} /\ request[q].pc \in {"store", "refresh"}
  BY RequestIs DEF AccountInv, AccountTypeOK, Steps, StorePending, RefreshPending, Under
<1>1. ASSUME pending'.code = c, ~pending'.expired, Alone(q), request'[q].code = request[q].code
      PROVE  ByPending(c)'
  <2>1. user.id # Legacy
    BY <1>0, <1>1 DEF AloneSound, Seen
  <2> QED BY <1>0, <1>1, <2>1 DEF ByPending
<1>2. ASSUME Goto(q, "mail"), Alone(q) => pending'.code = c /\ ~pending'.expired
      PROVE  AloneSound'
  <2>1. Alone(q) /\ request'[q].pc = "mail" /\ request'[q].code = c => Seen(q)'
    BY <1>1, <1>2 DEF Seen, ByPending
  <2> QED BY <1>0, <1>2, <2>1, GoesAlone
<1>3. new.code = c /\ new.expired = FALSE
      /\ \A id : [new EXCEPT !.id = id].code = c /\ [new EXCEPT !.id = id].expired = FALSE
  OBVIOUS
<1> HIDE DEF new
<1>4. CASE StorePending(q) /\ row # NoPending
  <2>1. /\ Goto(q, "mail") /\ request[q].pc = "store"
        /\ pending.id = row.id => pending' = [new EXCEPT !.id = row.id]
    BY <1>4 DEF StorePending, UpdatePending, Under, new
  <2>2. Alone(q) => pending.id = row.id
    BY <2>1 DEF AloneSound, Seen
  <2> QED BY <1>2, <1>3, <2>1, <2>2
<1>5. CASE StorePending(q) /\ row = NoPending /\ pending = NoPending
  <2>1. Goto(q, "mail") /\ pending' = new
    BY <1>5 DEF StorePending, new
  <2> QED BY <1>2, <1>3, <2>1
<1>6. CASE StorePending(q) /\ row = NoPending /\ pending # NoPending
  <2>1. End(q) /\ request[q].pc = "store"
    BY <1>6 DEF StorePending, Under
  <2> QED BY <2>1, EndsAlone
<1>7. CASE RefreshPending(q)
  <2>1. /\ Goto(q, "mail") /\ request[q].pc = "refresh"
        /\ pending.id = row.id => pending' = [pending EXCEPT !.code = c, !.expired = FALSE]
    BY <1>7 DEF RefreshPending, UpdatePending, Under
  <2>2. Alone(q) => pending.id = row.id /\ pending # NoPending
    BY <2>1 DEF AloneSound, Seen
  <2>3. pending # NoPending =>
           /\ [pending EXCEPT !.code = c, !.expired = FALSE].code = c
           /\ [pending EXCEPT !.code = c, !.expired = FALSE].expired = FALSE
    BY <1>0 DEF Pending
  <2> QED BY <1>2, <2>1, <2>2, <2>3
<1> QED BY <1>4, <1>5, <1>6, <1>7

\* The steps that end a request, and those of one that draws no code.
LEMMA EndingAlone ==
  ASSUME AccountInv, AloneSound, NEW q \in Request,
         \/ Mail(q) \/ MailFails(q) \/ DropPending(q) \/ SpendOldCode(q) \/ CreateGoogle(q)
         \/ StatementFails(q)
  PROVE  AloneSound'
<1>1. End(q)
  BY DEF Mail, MailFails, DropPending, SpendOldCode, CreateGoogle, StatementFails
<1>2. request[q].pc # "idle"
  BY RequestIs
     DEF Mail, MailFails, DropPending, SpendOldCode, CreateGoogle, StatementFails, Under, Steps,
         AccountInv
<1> QED BY <1>1, <1>2, EndsAlone

LEMMA OthersAlone ==
  ASSUME AccountInv, AloneSound, NEW q \in Request,
         \/ Activate(q) \/ CreateUser(q) \/ FindOldCode(q) \/ Confirm(q)
         \/ FindGoogleId(q) \/ FindGoogleEmail(q)
  PROVE  AloneSound'
<1>1. request[q].pc \in {"activate", "create", "oldCode", "confirm", "googleId", "googleEmail"}
  BY DEF Activate, CreateUser, FindOldCode, Confirm, FindGoogleId, FindGoogleEmail, Under
<1>2. ~Alone(q)
  BY <1>1, PlaceOf DEF StepsOf, Alone
<1>3. End(q) \/ \E pc \in Steps : Goto(q, pc)
  BY DEF Activate, CreateUser, FindOldCode, Confirm, FindGoogleId, FindGoogleEmail, Steps
<1>4. request[q].row \in Pending \cup {NoPending}
  BY RequestIs DEF AccountInv
<1> QED BY <1>1, <1>2, <1>3, <1>4, EndsAlone, GoesAlone

\* Whoever comes is alone only where nothing else is under way.
LEMMA ComesAlone ==
  ASSUME AccountInv, AloneSound, NEW q \in Request,
         Register(q) \/ Resend(q) \/ VerifyEmail(q) \/ GoogleSignIn(q)
  PROVE  AloneSound'
<1>1. ASSUME NEW kind \in Kinds, NEW pc \in {"lookup", "verified", "googleId"}, NEW code \in Code,
             Arrives(q, kind, pc, code)
      PROVE  AloneSound'
  <2>1. pc \in Steps
    BY DEF Steps
  <2>2. /\ request'[q].pc = pc /\ (request'[q].alone <=> \A p \in Request : request[p] = Idle)
        /\ \A p \in Request : p # q => /\ request'[p].alone = FALSE
                                       /\ request[p] = Idle => request'[p] = Idle
    BY <1>1, <2>1, ArrivesIs, Zenon
  <2>3. ASSUME NEW p \in Request, Alone(p)'
        PROVE  Seen(p)' /\ \A b \in Request : b # p => request'[b] = Idle
    <3>1. p = q /\ request'[q].alone
      BY <2>2, <2>3 DEF Alone
    <3>2. Seen(q)'
      BY <2>2 DEF Seen
    <3> QED BY <2>2, <3>1, <3>2
  <2> QED BY <2>3 DEF AloneSound
<1>2. drawn \in Code /\ drawn \in Nat /\ mailed \subseteq Code /\ Legacy \in Code
  BY DrawnIs, CodeFacts DEF AccountInv, AccountTypeOK
<1>3. drawn < MaxCodes => drawn + 1 \in Code
  BY <1>2, CodeFacts
<1>4. \E kind \in Kinds, pc \in {"lookup", "verified", "googleId"}, code \in Code :
         Arrives(q, kind, pc, code)
  BY <1>2, <1>3 DEF Register, Resend, VerifyEmail, GoogleSignIn, Draws, Keeps, Kinds
<1> QED BY <1>1, <1>4

-----------------------------------------------------------------------------
(* The code mailed last: time, and the code its holder counts on.          *)

\* The code c opens the account as it did.
KeepsCode(c) == (ByPending(c) => ByPending(c)') /\ (ByOldCode(c) => ByOldCode(c)')

\* A step of the clock spares the codes that are not outdated.
LEMMA TimeMail ==
  ASSUME AccountInv, MailInv, user' = user, pending' = NoPending <=> pending = NoPending,
         pending'.id = pending.id, usable' \in {0, usable},
         request' \in [Request -> AccountRequest],
         \A p \in Request : /\ request'[p].kind = request[p].kind /\ request'[p].pc = request[p].pc
                            /\ request'[p].code = request[p].code
                            /\ request'[p].row = request[p].row
                            /\ request'[p].alone => request[p].alone /\ KeepsCode(request[p].code),
         usable' # 0 => KeepsCode(usable)
  PROVE  MailInv'
<1>1. AloneSound'
  <2> SUFFICES ASSUME NEW q \in Request, Alone(q)'
               PROVE  Seen(q)' /\ \A p \in Request : p # q => request'[p] = Idle
    BY DEF AloneSound
  <2>1. Alone(q)
    BY DEF Alone
  <2>2. ASSUME NEW p \in Request, p # q PROVE request'[p] = Idle
    <3>1. request'[p].kind = "none"
      BY <2>1, <2>2, IdleIs DEF MailInv, AloneSound
    <3> QED BY <3>1 DEF AccountRequest, Kinds
  <2> DEFINE c == request[q].code
  <2>3. Seen(q) /\ KeepsCode(c) /\ request'[q].code = c
    BY <2>1 DEF MailInv, AloneSound, Alone
  <2>4. (OldAccountOpen' <=> OldAccountOpen) /\ (OpenedByCode' <=> OpenedByCode)
    BY DEF OldAccountOpen, OpenedByCode
  <2>5. ByPending(c) => ByPending(request[q].code)'
    BY <2>3 DEF KeepsCode, ByPending
  <2>6. ByOldCode(c) => ByOldCode(request[q].code)'
    BY <2>3 DEF KeepsCode, ByOldCode
  <2>7. Seen(q)'
    BY <2>3, <2>4, <2>5, <2>6 DEF Seen
  <2> QED BY <2>2, <2>7
<1>2. UsableSound'
  <2> SUFFICES ASSUME usable' # 0
               PROVE  /\ \A p \in Request : request'[p].kind \notin {"register", "resend"}
                      /\ OpenedByCode' \/ CountsOnPending' \/ CountsOnOldCode'
    BY DEF UsableSound
  <2>1. usable # 0 /\ usable' = usable /\ KeepsCode(usable)
    OBVIOUS
  <2>2. \A p \in Request : request'[p].kind \notin {"register", "resend"}
    BY <2>1 DEF MailInv, UsableSound
  <2>3. OpenedByCode => OpenedByCode'
    BY DEF OpenedByCode
  <2>4. CountsOnPending => CountsOnPending'
    BY <2>1 DEF CountsOnPending, KeepsCode, ByPending
  <2>5. CountsOnOldCode => CountsOnOldCode'
    BY <2>1 DEF CountsOnOldCode, KeepsCode, ByOldCode
  <2> QED BY <2>1, <2>2, <2>3, <2>4, <2>5 DEF MailInv, UsableSound
<1> QED BY <1>1, <1>2 DEF MailInv

LEMMA SurroundingsMail ==
  ASSUME AccountInv, MailInv,
         ExpirePending \/ ExpireOldCodes \/ CleanupExpired \/ AccountCrash \/ UNCHANGED accountVars
  PROVE  MailInv'
<1>0. /\ request \in [Request -> AccountRequest] /\ pending \in Pending \cup {NoPending}
      /\ legacyCodes \subseteq [code : Code, expired : BOOLEAN]
  BY DEF AccountInv, AccountTypeOK, AccountRequest
<1>1. ASSUME NEW codes, Outdated(codes), \A c \in Code \ codes : KeepsCode(c), user' = user,
             pending' = NoPending <=> pending = NoPending, pending'.id = pending.id
      PROVE  MailInv'
  <2>1. /\ request' \in [Request -> AccountRequest]
        /\ \A p \in Request :
              /\ request'[p].kind = request[p].kind /\ request'[p].pc = request[p].pc
              /\ request'[p].code = request[p].code /\ request'[p].row = request[p].row
              /\ request'[p].alone = IF request[p].code \in codes THEN FALSE ELSE request[p].alone
    BY <1>1, OutdatedIs DEF AccountInv
  <2>2. \A p \in Request : request[p].code \in Code
    BY RequestIs DEF AccountInv
  <2>3. \A p \in Request : request'[p].alone => request[p].alone /\ KeepsCode(request[p].code)
    BY <1>1, <2>1, <2>2
  <2>4. usable' \in {0, usable} /\ usable \in Code /\ (usable' # 0 => usable \notin codes)
    BY <1>1 DEF Outdated, AccountInv, AccountTypeOK
  <2> QED BY <1>1, <2>1, <2>3, <2>4, TimeMail
<1>2. CASE ExpirePending
  <2>1. /\ pending \in Pending /\ pending # NoPending /\ user' = user
        /\ pending' = [pending EXCEPT !.expired = TRUE] /\ Outdated({pending.code})
    BY <1>0, <1>2 DEF ExpirePending
  <2>2. pending'.id = pending.id /\ pending'.expired = TRUE
    BY <2>1 DEF Pending
  <2>3. pending' # NoPending
    BY <2>2, PendingIs
  <2>4. \A c \in Code \ {pending.code} : KeepsCode(c)
    BY <2>1 DEF KeepsCode, ByPending, ByOldCode
  <2> QED BY <1>1, <2>1, <2>2, <2>3, <2>4
<1>3. CASE ExpireOldCodes
  <2> DEFINE codes == {r.code : r \in legacyCodes}
  <2>1. UNCHANGED <<user, pending>> /\ Outdated(codes)
    BY <1>3 DEF ExpireOldCodes
  <2>2. ASSUME NEW c \in Code \ codes PROVE [code |-> c, expired |-> FALSE] \notin legacyCodes
    <3>1. [code |-> c, expired |-> FALSE].code = c
      OBVIOUS
    <3> QED BY <2>2, <3>1
  <2> HIDE DEF codes
  <2>3. ASSUME NEW c \in Code \ codes PROVE KeepsCode(c)
    <3>1. [code |-> c, expired |-> FALSE] \notin legacyCodes
      BY <2>2, <2>3
    <3> QED BY <2>1, <3>1 DEF KeepsCode, ByPending, ByOldCode
  <2> QED BY <1>1, <2>1, <2>3
<1>4. CASE CleanupExpired \/ UNCHANGED accountVars
  <2>1. /\ UNCHANGED <<user, pending, request, usable>>
        /\ \A r \in legacyCodes : ~r.expired => r \in legacyCodes'
    BY <1>4 DEF CleanupExpired, accountVars, rows, ghosts
  <2>2. \A c : [code |-> c, expired |-> FALSE].expired = FALSE
    OBVIOUS
  <2>3. \A c : KeepsCode(c)
    BY <2>1, <2>2 DEF KeepsCode, ByPending, ByOldCode
  <2> QED BY <1>0, <2>1, <2>3, TimeMail
<1>5. CASE AccountCrash
  <2>1. UNCHANGED <<user, pending, legacyCodes, usable>> /\ \A p \in Request : request'[p] = Idle
    BY <1>5 DEF AccountCrash, rows, ghosts
  <2>2. AloneSound'
    BY <2>1, IdleIs DEF AloneSound, Alone
  <2>3. UsableSound'
    <3>1. /\ OpenedByCode => OpenedByCode'
          /\ CountsOnPending => CountsOnPending'
          /\ CountsOnOldCode => CountsOnOldCode'
      BY <2>1, IdleIs DEF OpenedByCode, CountsOnPending, CountsOnOldCode, ByPending, ByOldCode
    <3> QED BY <2>1, <3>1, IdleIs DEF MailInv, UsableSound
  <2> QED BY <2>2, <2>3 DEF MailInv
<1> QED BY <1>2, <1>3, <1>4, <1>5

\* What keeps the code, for a request that draws none.
KeepsUsable(q) ==
    /\ user # NoUser /\ user.id # Legacy => user' = user
    /\ CountsOnPending =>
          \/ OpenedByCode'
          \/ /\ pending' = pending /\ user'.id # Legacy
             /\ request'[q].pc \notin {"drop", "expired"}
    /\ CountsOnOldCode =>
          /\ ByOldCode(usable)'
          /\ user.isVerified => user'.isVerified
          /\ request'[q].pc \notin {"expired", "activate", "legacy", "purge", "destroy", "name",
                                    "create", "drop"}
          /\ request'[q].pc = "spend" => user'.isVerified

LEMMA UsableGoes ==
  ASSUME AccountInv, UsableSound, NEW q \in Request, usable' = usable,
         \A p \in Request : p # q => request'[p] = request[p],
         request'[q] = Idle \/ request'[q].kind = request[q].kind,
         usable # 0 => KeepsUsable(q)
  PROVE  UsableSound'
<1> SUFFICES ASSUME usable # 0
             PROVE  /\ \A p \in Request : request'[p].kind \notin {"register", "resend"}
                    /\ OpenedByCode' \/ CountsOnPending' \/ CountsOnOldCode'
  BY DEF UsableSound
<1>1. KeepsUsable(q)
  OBVIOUS
<1>2. \A p \in Request : request'[p].kind \notin {"register", "resend"}
  BY IdleIs DEF UsableSound
<1>3. OpenedByCode => OpenedByCode'
  BY <1>1, UserIs DEF KeepsUsable, OpenedByCode
<1>4. CountsOnPending => OpenedByCode' \/ CountsOnPending'
  BY <1>1 DEF KeepsUsable, CountsOnPending, ByPending
<1>5. CountsOnOldCode => CountsOnOldCode'
  BY <1>1 DEF KeepsUsable, CountsOnOldCode
<1> QED BY <1>2, <1>3, <1>4, <1>5 DEF UsableSound

\* A request that draws a code and one its holder counts on are never there together.
LEMMA NoneDraws ==
  ASSUME UsableSound, NEW q \in Request, request[q].kind \in {"register", "resend"}
  PROVE  usable = 0
BY DEF UsableSound

LEMMA EndsUsable ==
  ASSUME AccountInv, UsableSound, NEW q \in Request, End(q), UNCHANGED usable,
         usable # 0 =>
            /\ user # NoUser /\ user.id # Legacy => user' = user
            /\ CountsOnPending => OpenedByCode' \/ (pending' = pending /\ user'.id # Legacy)
            /\ CountsOnOldCode => ByOldCode(usable)' /\ (user.isVerified => user'.isVerified)
  PROVE  UsableSound'
<1>1. request'[q] = Idle /\ \A p \in Request : p # q => request'[p] = request[p]
  BY Ends DEF AccountInv
<1>2. usable # 0 => KeepsUsable(q)
  BY <1>1, IdleIs DEF KeepsUsable
<1> QED BY <1>1, <1>2, UsableGoes

LEMMA GoesUsable ==
  ASSUME AccountInv, UsableSound, NEW q \in Request, request[q].pc # "idle", NEW pc \in Steps,
         NEW row \in Pending \cup {NoPending},
         (Goto(q, pc) /\ row = request[q].row) \/ Remember(q, pc, row),
         UNCHANGED usable,
         usable # 0 /\ request[q].kind \notin {"register", "resend"}
            /\ request'[q].pc = pc => KeepsUsable(q)
  PROVE  UsableSound'
<1>1. /\ \A p \in Request : p # q => request'[p] = request[p]
      /\ request'[q].pc = pc /\ request'[q].kind = request[q].kind
  BY PlaceOf, GoesOn DEF AccountInv
<1>2. usable # 0 => KeepsUsable(q)
  BY <1>1, NoneDraws
<1> QED BY <1>1, <1>2, UsableGoes

\* Reading, a request goes where the code lets it.
LEMMA ReadsUsable ==
  ASSUME AccountInv, UsableSound, NEW q \in Request, Reads, request[q].pc # "idle",
         NEW pc \in Steps, NEW row \in Pending \cup {NoPending},
         (Goto(q, pc) /\ row = request[q].row) \/ Remember(q, pc, row),
         usable # 0 /\ request[q].kind \notin {"register", "resend"} =>
            /\ CountsOnPending => OpenedByCode \/ pc \notin {"drop", "expired"}
            /\ CountsOnOldCode =>
                  pc \notin {"expired", "activate", "legacy", "purge", "destroy", "name",
                             "create", "drop", "spend"}
  PROVE  UsableSound'
<1>1. UNCHANGED <<user, pending, legacyCodes, usable>>
  BY DEF Reads, rows, ghosts
<1>2. /\ CountsOnPending => user.id # Legacy
      /\ CountsOnOldCode => ByOldCode(usable)'
      /\ OpenedByCode => OpenedByCode'
  BY <1>1 DEF CountsOnPending, ByPending, CountsOnOldCode, ByOldCode, OpenedByCode
<1>3. usable # 0 /\ request[q].kind \notin {"register", "resend"} /\ request'[q].pc = pc
         => KeepsUsable(q)
  BY <1>1, <1>2 DEF KeepsUsable
<1> QED BY <1>1, <1>3, GoesUsable

LEMMA ReadsEndUsable ==
  ASSUME AccountInv, UsableSound, NEW q \in Request, Reads, End(q)
  PROVE  UsableSound'
<1>1. UNCHANGED <<user, pending, legacyCodes, usable>>
  BY DEF Reads, rows, ghosts
<1>2. /\ CountsOnPending => user.id # Legacy
      /\ CountsOnOldCode => ByOldCode(usable)'
  BY <1>1 DEF CountsOnPending, ByPending, CountsOnOldCode, ByOldCode
<1> QED BY <1>1, <1>2, EndsUsable

LEMMA ReadersUsable ==
  ASSUME AccountInv, UsableSound, NEW q \in Request,
         \/ LookUp(q) \/ FindLegacy(q) \/ ResolveUsername(q) \/ FindExisting(q)
         \/ FindVerified(q) \/ FindPending(q) \/ FindRow(q) \/ Activate(q)
         \/ FindOwner(q) \/ FindOldCode(q) \/ FindGoogleId(q) \/ FindGoogleEmail(q)
  PROVE  UsableSound'
<1>0. /\ Reads /\ request[q].row \in Pending \cup {NoPending}
      /\ pending \in Pending \cup {NoPending}
  BY RequestIs DEF AccountInv, AccountTypeOK, LookUp, FindLegacy, ResolveUsername, FindExisting,
        FindVerified, FindPending, FindRow, Activate, FindOwner, FindOldCode, FindGoogleId,
        FindGoogleEmail
<1>1. CASE End(q)
  BY <1>0, <1>1, ReadsEndUsable
<1>2. CASE LookUp(q) /\ Goto(q, "legacy")
  <2>1. request[q].pc = "lookup"
    BY <1>2 DEF LookUp, Under
  <2>2. request[q].kind = "register"
    BY <2>1, PlaceOf DEF StepsOf
  <2> QED BY <1>0, <1>2, <2>1, <2>2, ReadsUsable DEF Steps
<1>3. CASE FindLegacy(q) \/ ResolveUsername(q)
  <2>1. PICK pc \in Steps : /\ Goto(q, pc) \/ End(q)
                            /\ pc \in {"purge", "name", "upsert", "create"}
    BY <1>3 DEF FindLegacy, ResolveUsername, Steps
  <2>2. request[q].pc \in {"legacy", "name"}
    BY <1>3 DEF FindLegacy, ResolveUsername, Under
  <2>3. ~CountsOnOldCode
    BY <2>2 DEF CountsOnOldCode
  <2> QED BY <1>0, <1>1, <2>1, <2>2, <2>3, ReadsUsable
<1>4. CASE FindExisting(q) \/ FindRow(q)
  <2>1. \E pc \in Steps : Remember(q, pc, pending)
    BY <1>4 DEF FindExisting, FindRow, Steps
  <2>2. request[q].pc \in {"upsert", "findRow"}
    BY <1>4 DEF FindExisting, FindRow, Under
  <2>3. request[q].kind \in {"register", "resend"}
    BY <2>2, PlaceOf DEF StepsOf
  <2> QED BY <1>0, <2>1, <2>2, <2>3, ReadsUsable
<1>5. CASE FindPending(q)
  <2> DEFINE pc == IF pending = NoPending THEN "owner"
                   ELSE IF pending.expired THEN "expired"
                   ELSE IF Is(q, "resend") THEN "findRow"
                   ELSE IF pending.code = request[q].code THEN "activate"
                   ELSE "owner"
  <2>1. request[q].pc = "pending" /\ Remember(q, pc, pending)
    BY <1>5 DEF FindPending, Under
  <2>2. CountsOnPending => pc \notin {"drop", "expired"}
    BY DEF CountsOnPending, ByPending
  <2>3. CountsOnOldCode => pc = "owner"
    BY DEF CountsOnOldCode, ByOldCode
  <2>4. pc \in Steps
    BY DEF Steps
  <2> HIDE DEF pc
  <2> QED BY <1>0, <2>1, <2>2, <2>3, <2>4, ReadsUsable
<1>6. CASE Activate(q)
  <2> DEFINE pc == IF VerifiedLocal THEN "drop" ELSE "legacy"
  <2>1. request[q].pc = "activate" /\ Goto(q, pc)
    BY <1>6 DEF Activate, Under
  <2>2. ~CountsOnOldCode
    BY <2>1 DEF CountsOnOldCode
  <2>3. CountsOnPending => OpenedByCode \/ pc \notin {"drop", "expired"}
    BY DEF CountsOnPending, ByPending, OpenedByCode, VerifiedLocal
  <2>4. pc \in Steps
    BY DEF Steps
  <2> HIDE DEF pc
  <2> QED BY <1>0, <2>1, <2>2, <2>3, <2>4, ReadsUsable
<1>7. CASE FindVerified(q) \/ FindOwner(q) \/ FindOldCode(q) \/ FindGoogleId(q)
             \/ FindGoogleEmail(q)
  <2>1. End(q) \/ \E pc \in Steps :
           /\ Goto(q, pc)
           /\ pc \in {"pending", "oldCode", "renew", "confirm", "googleEmail", "googleCreate"}
    BY <1>7 DEF FindVerified, FindOwner, FindOldCode, FindGoogleId, FindGoogleEmail, Steps
  <2>2. request[q].pc # "idle"
    BY <1>7 DEF FindVerified, FindOwner, FindOldCode, FindGoogleId, FindGoogleEmail, Under
  <2> QED BY <1>0, <1>1, <2>1, <2>2, ReadsUsable
<1> QED BY <1>1, <1>2, <1>3, <1>4, <1>5, <1>6, <1>7 DEF LookUp

\* The rows change under the code: in the requests that draw codes, or where it does
\* not matter.
LEMMA WritersUsable ==
  ASSUME AccountInv, UsableSound, NEW q \in Request,
         \/ PurgeCodes(q) \/ DestroyLegacy(q) \/ DestroyExpired(q) \/ RenewOldCode(q)
         \/ InsertOldCode(q) \/ StorePending(q) \/ RefreshPending(q) \/ CreateUser(q)
  PROVE  UsableSound'
<1>0. /\ UNCHANGED usable /\ request[q].row \in Pending \cup {NoPending}
      /\ End(q) \/ \E pc \in {"destroy", "legacy", "owner", "insert", "mail", "drop"} : Goto(q, pc)
      /\ request[q].pc \in {"purge", "destroy", "expired", "renew", "insert", "store", "refresh",
                            "create"}
  BY RequestIs DEF AccountInv, PurgeCodes, DestroyLegacy, DestroyExpired, RenewOldCode,
        InsertOldCode, StorePending, RefreshPending, CreateUser, ghosts, Under
<1>a. \A pc \in {"destroy", "legacy", "owner", "insert", "mail", "drop"} : pc \in Steps
  BY DEF Steps
<1>1. CASE request[q].pc \in {"renew", "insert", "store", "refresh"}
  <2>1. request[q].kind \in {"register", "resend"}
    BY <1>1, PlaceOf DEF StepsOf
  <2>2. usable = 0
    BY <2>1, NoneDraws
  <2> QED BY <1>0, <2>2 DEF UsableSound
<1>2. CASE PurgeCodes(q) \/ DestroyLegacy(q) \/ DestroyExpired(q)
  <2>1. request[q].pc \in {"purge", "destroy", "expired"}
    BY <1>2 DEF PurgeCodes, DestroyLegacy, DestroyExpired, Under
  <2>2. ~CountsOnOldCode /\ (request[q].pc = "expired" => ~CountsOnPending)
    BY <2>1 DEF CountsOnOldCode, CountsOnPending
  <2>3. PICK pc \in {"destroy", "legacy", "owner"} : Goto(q, pc)
    BY <1>2 DEF PurgeCodes, DestroyLegacy, DestroyExpired
  <2>4. /\ user.id # Legacy => user' = user
        /\ request[q].pc # "expired" => pending' = pending
    BY <1>2 DEF PurgeCodes, DestroyLegacy, DestroyExpired, Under
  <2>5. CountsOnPending => user.id # Legacy
    BY DEF CountsOnPending, ByPending
  <2>6. request'[q].pc = pc => KeepsUsable(q)
    BY <2>2, <2>4, <2>5 DEF KeepsUsable
  <2> QED BY <1>0, <1>a, <2>1, <2>3, <2>6, GoesUsable
<1>3. CASE CreateUser(q) /\ user = NoUser
  <2>1. /\ request[q].pc = "create" /\ Goto(q, "drop")
        /\ user' = Local(request[q].code, TRUE, request[q].row.password)
    BY <1>3, UserIs DEF CreateUser, Under
  <2>2. request[q].kind = "verify"
    BY <2>1, PlaceOf DEF StepsOf
  <2>3. request[q].code # Legacy
    BY <2>1, <2>2 DEF AccountInv, Activating, Is
  <2>4. OpenedByCode'
    BY <2>1, <2>3 DEF OpenedByCode, Local
  <2>5. ~CountsOnOldCode
    BY <2>1 DEF CountsOnOldCode
  <2>6. KeepsUsable(q)
    BY <1>3, <2>4, <2>5 DEF KeepsUsable
  <2> QED BY <1>0, <1>a, <2>1, <2>6, GoesUsable
<1>4. CASE CreateUser(q) /\ user # NoUser
  <2>1. End(q) /\ UNCHANGED <<user, pending, legacyCodes>>
    BY <1>4 DEF CreateUser
  <2>2. /\ CountsOnPending => user.id # Legacy
        /\ CountsOnOldCode => ByOldCode(usable)'
    BY <1>0, <2>1 DEF CountsOnPending, ByPending, CountsOnOldCode, ByOldCode
  <2> QED BY <1>0, <2>1, <2>2, EndsUsable
<1> QED BY <1>1, <1>2, <1>3, <1>4
        DEF RenewOldCode, InsertOldCode, StorePending, RefreshPending, Under

LEMMA OldCodeUsable ==
  ASSUME AccountInv, UsableSound, NEW q \in Request, Confirm(q) \/ SpendOldCode(q)
  PROVE  UsableSound'
<1>1. CASE Confirm(q)
  <2>1. /\ request[q].pc = "confirm" /\ Goto(q, "spend")
        /\ UNCHANGED <<pending, legacyCodes, usable>>
        /\ user' = IF user.id = Legacy THEN [user EXCEPT !.isVerified = TRUE] ELSE user
    BY <1>1 DEF Confirm, Under, ghosts
  <2>2. user.id = Legacy => user'.isVerified /\ user'.id = Legacy
    <3>1. user.id = Legacy => user \in LocalUser
      BY UserIs, CodeFacts DEF AccountInv, AccountTypeOK, LocalUser
    <3> QED BY <2>1, <3>1 DEF LocalUser
  <2>3. CountsOnPending => user.id # Legacy
    BY DEF CountsOnPending, ByPending
  <2>4. CountsOnOldCode => user'.isVerified /\ ByOldCode(usable)'
    BY <2>1, <2>2 DEF CountsOnOldCode, ByOldCode
  <2>5. request'[q].pc = "spend" => KeepsUsable(q)
    BY <2>1, <2>3, <2>4 DEF KeepsUsable
  <2>6. request[q].row \in Pending \cup {NoPending}
    BY RequestIs DEF AccountInv
  <2> QED BY <2>1, <2>5, <2>6, GoesUsable DEF Steps
<1>2. CASE SpendOldCode(q)
  <2>1. /\ request[q].pc = "spend" /\ End(q) /\ UNCHANGED <<user, pending, usable>>
        /\ legacyCodes' = {r \in legacyCodes : r.code # request[q].code}
    BY <1>2 DEF SpendOldCode, Under, ghosts
  <2>2. CountsOnPending => user.id # Legacy
    BY DEF CountsOnPending, ByPending
  <2>3. CountsOnOldCode => ByOldCode(usable)'
    <3>1. [code |-> usable, expired |-> FALSE].code = usable
      OBVIOUS
    <3>2. CountsOnOldCode => user.isVerified \/ request[q].code # usable
      BY <2>1 DEF CountsOnOldCode
    <3> QED BY <2>1, <3>1, <3>2 DEF CountsOnOldCode, ByOldCode
  <2> QED BY <2>1, <2>2, <2>3, EndsUsable
<1> QED BY <1>1, <1>2

LEMMA EndingUsable ==
  ASSUME AccountInv, UsableSound, NEW q \in Request,
         DropPending(q) \/ CreateGoogle(q) \/ MailFails(q) \/ StatementFails(q)
  PROVE  UsableSound'
<1>0. End(q) /\ UNCHANGED <<legacyCodes, usable>>
  BY DEF DropPending, CreateGoogle, MailFails, StatementFails, rows, ghosts
<1>1. CountsOnPending => user.id # Legacy
  BY DEF CountsOnPending, ByPending
<1>2. CASE DropPending(q)
  <2>1. request[q].pc = "drop" /\ user' = user
    BY <1>2 DEF DropPending, Under
  <2>2. ~CountsOnPending /\ ~CountsOnOldCode
    BY <2>1 DEF CountsOnPending, CountsOnOldCode
  <2> QED BY <1>0, <2>1, <2>2, EndsUsable
<1>3. CASE CreateGoogle(q)
  <2>1. pending' = pending /\ user' = IF user = NoUser THEN GoogleUser ELSE user
    BY <1>3 DEF CreateGoogle
  <2>2. user = NoUser => OpenedByCode'
    BY <2>1, UserIs, CodeFacts DEF OpenedByCode
  <2>3. CountsOnOldCode => user' = user /\ ByOldCode(usable)'
    BY <1>0, <2>1, UserIs, CodeFacts DEF CountsOnOldCode, ByOldCode
  <2> QED BY <1>0, <1>1, <2>1, <2>2, <2>3, EndsUsable
<1>4. CASE MailFails(q) \/ StatementFails(q)
  <2>1. UNCHANGED <<user, pending>>
    BY <1>4 DEF MailFails, StatementFails, rows
  <2>2. CountsOnOldCode => ByOldCode(usable)'
    BY <1>0, <2>1 DEF CountsOnOldCode, ByOldCode
  <2> QED BY <1>0, <1>1, <2>1, <2>2, EndsUsable
<1> QED BY <1>2, <1>3, <1>4

\* The code a lone request mails is the one to count on.
LEMMA MailUsable ==
  ASSUME AccountInv, MailInv, NEW q \in Request, Mail(q)
  PROVE  UsableSound'
<1>0. /\ request[q].pc = "mail" /\ End(q) /\ UNCHANGED <<user, pending, legacyCodes>>
      /\ usable' = IF request[q].alone THEN request[q].code ELSE usable
  BY DEF Mail, Under, rows
<1>1. request[q].kind \in {"register", "resend"}
  BY <1>0, PlaceOf DEF StepsOf
<1>2. request'[q] = Idle /\ \A p \in Request : p # q => request'[p] = request[p]
  BY <1>0, Ends DEF AccountInv
<1>3. CASE request[q].alone
  <2>1. Seen(q) /\ \A p \in Request : p # q => request[p] = Idle
    BY <1>1, <1>3 DEF MailInv, AloneSound, Alone
  <2>2. \A p \in Request : request'[p].kind = "none" /\ request'[p].pc = "idle"
    BY <1>2, <2>1, IdleIs
  <2>3. usable' = request[q].code
    BY <1>0, <1>3
  <2>4. ByPending(request[q].code) \/ ByOldCode(request[q].code) \/ OpenedByCode
    BY <1>0, <2>1 DEF Seen
  <2>5. ByPending(usable)' \/ ByOldCode(usable)' \/ OpenedByCode'
    BY <1>0, <2>3, <2>4 DEF ByPending, ByOldCode, OpenedByCode
  <2>6. OpenedByCode' \/ CountsOnPending' \/ CountsOnOldCode'
    BY <2>2, <2>5 DEF CountsOnPending, CountsOnOldCode
  <2> QED BY <2>2, <2>6 DEF UsableSound
<1>4. CASE ~request[q].alone
  BY <1>0, <1>1, <1>4, NoneDraws DEF MailInv, UsableSound
<1> QED BY <1>3, <1>4

LEMMA ComesUsable ==
  ASSUME AccountInv, UsableSound, NEW q \in Request,
         Register(q) \/ Resend(q) \/ VerifyEmail(q) \/ GoogleSignIn(q)
  PROVE  UsableSound'
<1>1. CASE Register(q) \/ Resend(q)
  BY <1>1 DEF Register, Resend, Draws, UsableSound
<1>2. CASE VerifyEmail(q) \/ GoogleSignIn(q)
  <2>1. PICK kind \in {"verify", "google"}, pc \in {"verified", "googleId"}, code \in Code :
           Arrives(q, kind, pc, code) /\ usable' = usable
    BY <1>2, CodeFacts DEF VerifyEmail, GoogleSignIn, Keeps, AccountInv, AccountTypeOK
  <2>2. kind \in Kinds /\ pc \in Steps
    BY DEF Kinds, Steps
  <2>3. /\ request'[q].kind = kind /\ request'[q].pc = pc
        /\ \A p \in Request : p # q =>
              /\ request'[p].kind = request[p].kind /\ request'[p].pc = request[p].pc
              /\ request'[p].code = request[p].code
    BY <2>1, <2>2, ArrivesIs, Zenon
  <2>4. UNCHANGED <<user, pending, legacyCodes>>
    BY <2>1 DEF Arrives, rows
  <2> SUFFICES ASSUME usable # 0
               PROVE  /\ \A p \in Request : request'[p].kind \notin {"register", "resend"}
                      /\ OpenedByCode' \/ CountsOnPending' \/ CountsOnOldCode'
    BY <2>1 DEF UsableSound
  <2>5. \A p \in Request : request'[p].kind \notin {"register", "resend"}
    BY <2>3 DEF UsableSound
  <2>6. OpenedByCode => OpenedByCode'
    BY <2>4 DEF OpenedByCode
  <2>7. CountsOnPending => CountsOnPending'
    BY <2>1, <2>3, <2>4 DEF CountsOnPending, ByPending
  <2>8. CountsOnOldCode => CountsOnOldCode'
    BY <2>1, <2>3, <2>4 DEF CountsOnOldCode, ByOldCode
  <2> QED BY <2>5, <2>6, <2>7, <2>8 DEF UsableSound
<1> QED BY <1>1, <1>2

LEMMA MailStep ==
  ASSUME AccountInv, MailInv, [AccountNext]_accountVars
  PROVE  MailInv'
<1>0. AloneSound /\ UsableSound
  BY DEF MailInv
<1>1. ASSUME NEW q \in Request, Register(q) \/ Resend(q) \/ VerifyEmail(q) \/ GoogleSignIn(q)
      PROVE  MailInv'
  BY <1>0, <1>1, ComesAlone, ComesUsable DEF MailInv
<1>2. ASSUME NEW q \in Request,
             \/ LookUp(q) \/ FindLegacy(q) \/ ResolveUsername(q) \/ FindExisting(q)
             \/ FindVerified(q) \/ FindPending(q) \/ FindRow(q) \/ Activate(q)
             \/ FindOwner(q) \/ FindOldCode(q) \/ FindGoogleId(q) \/ FindGoogleEmail(q)
      PROVE  MailInv'
  BY <1>0, <1>2, RegisterAlone, ResendAlone, OthersAlone, ReadersUsable DEF MailInv
<1>3. ASSUME NEW q \in Request,
             \/ PurgeCodes(q) \/ DestroyLegacy(q) \/ DestroyExpired(q) \/ RenewOldCode(q)
             \/ InsertOldCode(q) \/ StorePending(q) \/ RefreshPending(q) \/ CreateUser(q)
      PROVE  MailInv'
  BY <1>0, <1>3, ChangesAlone, WritesAlone, OthersAlone, WritersUsable DEF MailInv
<1>4. ASSUME NEW q \in Request, Confirm(q) \/ SpendOldCode(q)
      PROVE  MailInv'
  BY <1>0, <1>4, OthersAlone, EndingAlone, OldCodeUsable DEF MailInv
<1>5. ASSUME NEW q \in Request,
             Mail(q) \/ DropPending(q) \/ CreateGoogle(q) \/ MailFails(q) \/ StatementFails(q)
      PROVE  MailInv'
  BY <1>0, <1>5, EndingAlone, MailUsable, EndingUsable DEF MailInv
<1>6. CASE ExpirePending \/ ExpireOldCodes \/ CleanupExpired \/ AccountCrash
             \/ UNCHANGED accountVars
  BY <1>6, SurroundingsMail
<1> QED BY <1>1, <1>2, <1>3, <1>4, <1>5, <1>6 DEF AccountNext

\* A code that was mailed and that no later request replaced opens the account until
\* it expires: no wrong code, no confirmation cut short, no clean-up spoils it
\* (authController.js:96, 154).
THEOREM MailedCodeKept == AccountSpec => []MailedCodeWorks
<1>1. AccountInv /\ MailInv /\ [AccountNext]_accountVars => (AccountInv /\ MailInv)'
  BY AccountStep, MailStep
<1>2. MailInv => MailedCodeWorks
  BY DEF MailInv, UsableSound, MailedCodeWorks, OpenedByCode, CountsOnPending, ByPending,
         CountsOnOldCode, ByOldCode
<1> QED BY <1>1, <1>2, InitAccount, PTL DEF AccountSpec
=============================================================================
