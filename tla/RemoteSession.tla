--------------------------- MODULE RemoteSession ---------------------------
(***************************************************************************)
(* One remote session: its record in Redis (remoteSessionStore.js,         *)
(* remoteSessionRedisOps.js), its fallback row in MySQL and its short      *)
(* codes, under the requests that create it, join it, kick a station and   *)
(* rotate the invite, and end it (remoteSessionService.js and its          *)
(* controller).  Sessions share no key, so one is enough.                  *)
(*                                                                         *)
(* A join challenge (the invite) is a number, fresh whenever one is        *)
(* generated; a station id is drawn at random and never drawn twice.       *)
(* The broker's user of the session is the matter of BrokerUsers.          *)
(***************************************************************************)
EXTENDS Naturals, FiniteSets

CONSTANTS
    Request,        \* HTTP requests that may be in flight at once
    Station,        \* station ids the server may draw
    NoStation,      \* "no station"
    Absent,         \* "no such key"
    CasMaxRetries,  \* CAS_MAX_RETRIES
    OneKick,        \* TRUE: the host waits for a kick before it kicks that station again
    Faults,         \* the kinds of failure this instance exercises
    MaxChallenges,  \* bound: challenges generated
    MaxFaults       \* bound: failures

FaultKinds == {"save", "get", "add", "swap", "code", "delete", "crash"}

ASSUME RemoteAssumption ==
    /\ NoStation \notin Station
    /\ Absent \notin [challenge: Nat, stations: SUBSET Station]
    /\ CasMaxRetries \in Nat \ {0}
    /\ OneKick \in BOOLEAN
    /\ Faults \subseteq FaultKinds
    /\ {MaxChallenges, MaxFaults} \subseteq Nat

VARIABLES
    redis,     \* the key remote:session:<id>
    mysql,     \* the challenge in the row of remote_sessions, or NoRow
    codes,     \* the challenges short codes were stored for
    issued,    \* number of challenges generated: the last one
    call,      \* what each request is doing
    dead,      \* history: the challenges a rotation replaced in Redis
    valid,     \* history: the challenges the session has had
    drawn,     \* history: the station ids drawn
    mapped,    \* history: the stations whose mapping the store confirmed
    joined,    \* history: the stations told that they have joined
    targets,   \* history: the stations a kick was started for
    kicked,    \* history: the stations of the kicks answered "kicked"
    answered,  \* history: the challenges those answers carried
    deleted,   \* history: whether a DEL of the key was confirmed
    faults     \* number of failures so far (bound)

store == <<redis, mysql, codes>>
history == <<dead, valid, drawn, mapped, joined, targets, kicked, answered, deleted>>
vars == <<store, issued, call, history, faults>>

Session == [challenge: Nat, stations: SUBSET Station]

NoRow == 0
HostCall == 0   \* what a join by the host itself presents: nothing is compared

Call == [pc: {"idle", "register", "read", "swap", "code", "delete", "dbDelete"},
         op: {"none", "join", "kick", "end"},
         station: Station \cup {NoStation}, challenge: Nat,
         raw: Session \cup {Absent}, applied: BOOLEAN, tries: Nat]

Idle == [pc |-> "idle", op |-> "none", station |-> NoStation, challenge |-> 0,
         raw |-> Absent, applied |-> FALSE, tries |-> 0]

Fault(kind) ==
    /\ kind \in Faults
    /\ faults < MaxFaults
    /\ faults' = faults + 1

TypeOK ==
    /\ redis \in Session \cup {Absent}
    /\ mysql \in Nat
    /\ codes \subseteq Nat
    /\ issued \in Nat
    /\ call \in [Request -> Call]
    /\ {dead, valid, answered} \subseteq SUBSET Nat
    /\ {drawn, mapped, joined, targets, kicked} \subseteq SUBSET Station
    /\ deleted \in BOOLEAN
    /\ faults \in Nat

Init ==
    /\ redis = Absent /\ mysql = NoRow /\ codes = {}
    /\ issued = 0 /\ faults = 0
    /\ call = [r \in Request |-> Idle]
    /\ dead = {} /\ valid = {} /\ answered = {}
    /\ drawn = {} /\ mapped = {} /\ joined = {} /\ targets = {} /\ kicked = {}
    /\ deleted = FALSE

-----------------------------------------------------------------------------
(* createRemoteSession. Nobody knows the session's id before the answer, so *)
(* its steps meet no other request.                                         *)

\* saveSession: Redis, else (refused, or done with its answer lost) the MySQL
\* row. saveShortCode is best effort.
CreateRemoteSession ==
    /\ issued = 0
    /\ issued' = 1
    /\ \/ /\ redis' = [challenge |-> 1, stations |-> {}]
          /\ UNCHANGED <<mysql, faults>>
       \/ /\ Fault("save")
          /\ redis' \in {Absent, [challenge |-> 1, stations |-> {}]}
          /\ mysql' = 1
    /\ codes' \in {{}, {1}}
    /\ valid' = {1}
    /\ UNCHANGED <<call, dead, drawn, mapped, joined, targets, kicked, answered, deleted>>

\* The partial record dbGetSession builds: it has no stations.
Fallback ==
    IF mysql = NoRow THEN Absent ELSE [challenge |-> mysql, stations |-> {}]

Stored == IF redis # Absent THEN redis ELSE Fallback

\* getSession finds rec: the key, else the row, which also stands in for a GET
\* that fails.
GetSession(rec) ==
    /\ rec # Absent
    /\ \/ rec = Stored /\ UNCHANGED faults
       \/ rec = Fallback /\ Fault("get")

-----------------------------------------------------------------------------
(* verifySession, the station's path.                                      *)

\* isAuthorizedForCredentials
IsAuthorized(rec, challenge) ==
    challenge = HostCall \/ challenge = rec.challenge

\* The record is read and the authorisation settled here.
JoinRead(r, challenge) ==
    /\ call[r].pc = "idle"
    /\ \E rec \in {Stored, Fallback} :
         /\ GetSession(rec)
         /\ IsAuthorized(rec, challenge)
    /\ \E s \in Station \ drawn :
         /\ drawn' = drawn \cup {s}
         /\ call' = [call EXCEPT ![r] = [Idle EXCEPT !.pc = "register", !.op = "join",
                                           !.station = s, !.challenge = challenge]]
    /\ UNCHANGED <<store, issued, dead, valid, mapped, joined, targets, kicked, answered,
                   deleted>>

\* registerStation's result is not looked at: the station is told its id in any case.
AnswerJoin(r, ok) ==
    /\ joined' = joined \cup {call[r].station}
    /\ mapped' = IF ok THEN mapped \cup {call[r].station} ELSE mapped
    /\ call' = [call EXCEPT ![r] = Idle]

\* Slip: LUA_ADD_STATION_MAPPING without its first test.
RegisterStationAnyway(r) ==
    /\ call[r].pc = "register"
    /\ redis' = IF redis = Absent
                THEN [challenge |-> 0, stations |-> {call[r].station}]
                ELSE [redis EXCEPT !.stations = @ \cup {call[r].station}]
    /\ AnswerJoin(r, TRUE)
    /\ UNCHANGED <<mysql, codes, issued, dead, valid, drawn, targets, kicked, answered, deleted,
                   faults>>

\* addStationMapping by LUA_ADD_STATION_MAPPING; without the key it answers 0
\* and the fallback finds no key either.
RegisterStation(r) ==
    /\ call[r].pc = "register"
    /\ redis' = IF redis = Absent THEN Absent
                ELSE [redis EXCEPT !.stations = @ \cup {call[r].station}]
    /\ AnswerJoin(r, redis # Absent)
    /\ UNCHANGED <<mysql, codes, issued, dead, valid, drawn, targets, kicked, answered, deleted,
                   faults>>

\* Slip: the fallback called without the station's id.
RegisterFailsForgets(r) ==
    /\ call[r].pc = "register"
    /\ Fault("add")
    /\ UNCHANGED redis
    /\ call' = [call EXCEPT ![r] = [Idle EXCEPT !.pc = "read", !.op = "join"]]
    /\ UNCHANGED <<mysql, codes, issued, history>>

\* The script fails, or its answer is lost: updateSession is tried instead.
RegisterFails(r) ==
    /\ call[r].pc = "register"
    /\ Fault("add")
    /\ \/ UNCHANGED redis
       \/ redis # Absent /\ redis' = [redis EXCEPT !.stations = @ \cup {call[r].station}]
    /\ call' = [call EXCEPT ![r].pc = "read"]
    /\ UNCHANGED <<mysql, codes, issued, history>>

-----------------------------------------------------------------------------
(* kickStationById.                                                        *)

\* The host, who knows the ids of the stations that joined, kicks station s.
KickRead(r, s) ==
    /\ call[r].pc = "idle"
    /\ s \in joined
    /\ OneKick => \A q \in Request : ~(call[q].op = "kick" /\ call[q].station = s)
    /\ \E rec \in {Stored, Fallback} : GetSession(rec) /\ s \in rec.stations
    /\ issued < MaxChallenges
    /\ issued' = issued + 1
    /\ targets' = targets \cup {s}
    /\ call' = [call EXCEPT ![r] = [Idle EXCEPT !.pc = "read", !.op = "kick", !.station = s,
                                      !.challenge = issued + 1]]
    /\ UNCHANGED <<store, dead, valid, drawn, mapped, joined, kicked, answered, deleted>>

\* Slip: the kick's updater without the new challenge.
UpdatedKeepsInvite(c) ==
    IF c.op = "join" THEN [c.raw EXCEPT !.stations = @ \cup {c.station}]
    ELSE [c.raw EXCEPT !.stations = @ \ {c.station}]

\* The updaters handed to updateSession: addStationMapping's and kickAndRotateInvite's.
Updated(c) ==
    CASE c.op = "join" -> [c.raw EXCEPT !.stations = @ \cup {c.station}]
      [] c.op = "kick" ->
           IF c.station \in c.raw.stations
           THEN [challenge |-> c.challenge, stations |-> c.raw.stations \ {c.station}]
           ELSE c.raw

\* updateSession gives up: FALSE, which ends a kick and is lost on a join.
GiveUp(r) ==
    \/ call[r].op = "join" /\ AnswerJoin(r, FALSE)
    \/ /\ call[r].op = "kick"
       /\ call' = [call EXCEPT ![r] = Idle]
       /\ UNCHANGED <<joined, mapped>>

\* casUpdateSession, one attempt up to its TTL: GET and the updater, whose flag
\* "applied" is not reset from one attempt to the next.
CasRead(r) ==
    /\ call[r].pc = "read"
    /\ \/ /\ redis = Absent
          /\ GiveUp(r)
       \/ /\ redis # Absent
          /\ call' = [call EXCEPT ![r].pc = "swap", ![r].raw = redis,
                        ![r].applied = @ \/ call[r].station \in redis.stations]
          /\ UNCHANGED <<joined, mapped>>
    /\ UNCHANGED <<store, issued, dead, valid, drawn, targets, kicked, answered, deleted, faults>>

\* The SET of LUA_COMPARE_AND_SWAP.
Swap(r) ==
    /\ redis' = Updated(call[r])
    /\ valid' = valid \cup {redis'.challenge}
    /\ dead' = IF redis'.challenge = redis.challenge THEN dead ELSE dead \cup {redis.challenge}

\* casUpdateSession has answered TRUE.
Updating(r) ==
    \/ call[r].op = "join" /\ AnswerJoin(r, TRUE)
    \/ /\ call[r].op = "kick"
       /\ call' = [call EXCEPT ![r] = IF @.applied THEN [@ EXCEPT !.pc = "code"] ELSE Idle]
       /\ UNCHANGED <<joined, mapped>>

\* Slip: the swap without the comparison, the lost update the script is there for.
CasSwapBlind(r) ==
    /\ call[r].pc = "swap"
    /\ redis # Absent
    /\ Swap(r)
    /\ Updating(r)
    /\ UNCHANGED <<mysql, codes, issued, drawn, targets, kicked, answered, deleted, faults>>

CasSwap(r) ==
    /\ call[r].pc = "swap"
    /\ redis = call[r].raw
    /\ Swap(r)
    /\ Updating(r)
    /\ UNCHANGED <<mysql, codes, issued, drawn, targets, kicked, answered, deleted, faults>>

\* Slip: kickAndRotateInvite answers "applied" whatever updateSession answered.
CasLosesUnnoticed(r) ==
    /\ call[r].pc = "swap"
    /\ redis # call[r].raw
    /\ IF redis # Absent /\ call[r].tries + 1 < CasMaxRetries
       THEN /\ call' = [call EXCEPT ![r].pc = "read", ![r].tries = @ + 1]
            /\ UNCHANGED <<joined, mapped>>
       ELSE Updating(r)
    /\ UNCHANGED <<store, issued, dead, valid, drawn, targets, kicked, answered, deleted, faults>>

\* The key changed: another attempt, while there are any. It is gone: give up.
CasLoses(r) ==
    /\ call[r].pc = "swap"
    /\ redis # call[r].raw
    /\ \/ /\ redis # Absent /\ call[r].tries + 1 < CasMaxRetries
          /\ call' = [call EXCEPT ![r].pc = "read", ![r].tries = @ + 1]
          /\ UNCHANGED <<joined, mapped>>
       \/ /\ redis = Absent \/ call[r].tries + 1 >= CasMaxRetries
          /\ GiveUp(r)
    /\ UNCHANGED <<store, issued, dead, valid, drawn, targets, kicked, answered, deleted, faults>>

\* A call of casUpdateSession throws; the swap may have been made all the same.
CasFails(r) ==
    /\ call[r].pc \in {"read", "swap"}
    /\ Fault("swap")
    /\ \/ UNCHANGED <<redis, dead, valid>>
       \/ call[r].pc = "swap" /\ redis = call[r].raw /\ redis # Absent /\ Swap(r)
    /\ GiveUp(r)
    /\ UNCHANGED <<mysql, codes, issued, drawn, targets, kicked, answered, deleted>>

\* saveShortCode for the new challenge, best effort; then the host's answer.
KickAnswer(r) ==
    /\ call[r].pc = "code"
    /\ \/ codes' = codes \cup {call[r].challenge} /\ UNCHANGED faults
       \/ Fault("code") /\ codes' \in {codes, codes \cup {call[r].challenge}}
    /\ kicked' = kicked \cup {call[r].station}
    /\ answered' = answered \cup {call[r].challenge}
    /\ call' = [call EXCEPT ![r] = Idle]
    /\ UNCHANGED <<redis, mysql, issued, dead, valid, drawn, mapped, joined, targets, deleted>>

-----------------------------------------------------------------------------
(* endRemoteSession, expiry, a crash.                                      *)

EndRead(r) ==
    /\ call[r].pc = "idle"
    /\ \E rec \in {Stored, Fallback} : GetSession(rec)
    /\ call' = [call EXCEPT ![r] = [Idle EXCEPT !.pc = "delete", !.op = "end"]]
    /\ UNCHANGED <<store, issued, history>>

\* deleteSession: DEL. A failure is only logged, and the host is told that the
\* session has ended.
Delete(r) ==
    /\ call[r].pc = "delete"
    /\ \/ /\ redis' = Absent
          /\ deleted' = TRUE
          /\ UNCHANGED faults
       \/ /\ Fault("delete")
          /\ redis' \in {redis, Absent}
          /\ UNCHANGED deleted
    /\ call' = [call EXCEPT ![r].pc = "dbDelete"]
    /\ UNCHANGED <<mysql, codes, issued, dead, valid, drawn, mapped, joined, targets, kicked,
                   answered>>

DbDelete(r) ==
    /\ call[r].pc = "dbDelete"
    /\ mysql' = NoRow
    /\ call' = [call EXCEPT ![r] = Idle]
    /\ UNCHANGED <<redis, codes, issued, history, faults>>

\* EX ttlSeconds, and expires_at > UTC_TIMESTAMP() in the queries of the row.
Expire ==
    /\ \/ redis # Absent /\ redis' = Absent /\ UNCHANGED mysql
       \/ mysql # NoRow /\ mysql' = NoRow /\ UNCHANGED redis
    /\ UNCHANGED <<codes, issued, call, history, faults>>

\* The process dies: its requests are never answered.
Crash ==
    /\ Fault("crash")
    /\ call' = [r \in Request |-> Idle]
    /\ UNCHANGED <<store, issued, history>>

-----------------------------------------------------------------------------
Join(r) ==
    \/ \E c \in (1..issued) \cup {HostCall} : JoinRead(r, c)
    \/ RegisterStation(r) \/ RegisterFails(r)

Kick(r) ==
    \/ \E s \in Station : KickRead(r, s)
    \/ KickAnswer(r)

UpdateSession(r) == CasRead(r) \/ CasSwap(r) \/ CasLoses(r) \/ CasFails(r)

End(r) == EndRead(r) \/ Delete(r) \/ DbDelete(r)

Next ==
    \/ CreateRemoteSession
    \/ \E r \in Request : Join(r) \/ Kick(r) \/ UpdateSession(r) \/ End(r)
    \/ Expire
    \/ Crash

Spec == Init /\ [][Next]_vars

-----------------------------------------------------------------------------
(* Properties.                                                             *)

\* No update is lost: a station whose mapping the store confirmed stays in the
\* record until a kick names it, whatever joins and kicks run at the same time.
\* The host can only kick whom the record names.
StationsKept ==
    redis # Absent => (mapped \ targets) \subseteq redis.stations

\* A kick that is answered did what its answer says: the station is out of the
\* record, and the new invite, with its short code, is one the record has had;
\* a later kick may have replaced it, nothing else.
KickIsReal ==
    /\ answered \cup codes \subseteq valid
    /\ redis # Absent => kicked \cap redis.stations = {}

\* An invite that a kick has replaced admits nobody who presents it later: no
\* update brings an old challenge back. The one exception is the fallback row:
\* written when the SET at creation failed, it keeps the first invite for ever.
OldInviteStaysDead ==
    [][\A r \in Request :
         call[r].pc = "idle" /\ call'[r].pc = "register"
           => call'[r].challenge \notin dead \ {mysql}]_vars

\* A session that was deleted never comes back, whatever was under way on it.
EndedStaysEnded == deleted => redis = Absent

\* The record as StationRecord sees it: the key, whatever the row still says.
Recorded == redis # Absent

Record == INSTANCE StationRecord WITH
    Invite <- Nat,
    NoInvite <- 0,
    phase <- IF issued = 0 THEN "none" ELSE IF Recorded THEN "kept" ELSE "gone",
    invite <- IF Recorded THEN redis.challenge ELSE 0,
    in <- IF Recorded THEN redis.stations ELSE {},
    out <- IF Recorded THEN targets \ redis.stations ELSE {},
    invites <- valid

\* Two scripts, a fallback and a read-modify-write with retries change the record
\* as StationRecord promises: one station at a time, each kick with a new invite
\* and for good, and never again once the key is gone.
RecordIsAtomic == Record!StationSpec
=============================================================================
