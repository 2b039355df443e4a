---------------------------- MODULE BrokerUsers ----------------------------
(***************************************************************************)
(* The broker's users: each remote session is a user of Mosquitto, in a    *)
(* password file the API edits (mosquittoPasswdSync.js, passwdFileIO.js)   *)
(* and the broker reads when it is told to (mosquittoReload.js).           *)
(* Sessions are created, verified, ended and expire; once an hour a job    *)
(* removes the users whose session is over (mqttPasswdCleanupJob.js).      *)
(*                                                                         *)
(* A session's password never changes, so the file is a set of users.      *)
(***************************************************************************)
EXTENDS Naturals, Sequences, FiniteSets

CONSTANTS
    Session,      \* session ids (random: an id is never used again)
    Request,      \* HTTP requests that may be in flight at once
    Cleaner,      \* the clean-up job, as an actor that edits the file
    NoSession,    \* "no session"
    DockerCli,    \* MQTT_DOCKER_CLI_ENABLED: the broker can be reloaded through docker
    HostReload,   \* MQTT_BROKER_RELOAD_CMD is set: the broker can be reloaded on the host
    Faults,       \* the kinds of failure this instance exercises
    MaxFaults     \* bound: failures

FaultKinds == {"save", "index", "members", "delete", "write", "reload", "crash"}

ASSUME BrokerAssumption ==
    /\ Cleaner \notin Request
    /\ NoSession \notin Session
    /\ {DockerCli, HostReload} \subseteq BOOLEAN
    /\ Faults \subseteq FaultKinds
    /\ MaxFaults \in Nat

VARIABLES
    keys,      \* the sessions whose key exists in Redis
    index,     \* the set remote:sessions
    rows,      \* the sessions with a fallback row in MySQL
    file,      \* the users in the password file
    broker,    \* the users the broker has read
    call,      \* what each request, and the clean-up, is doing
    writes,    \* _writeQueue: who waits to edit the file; the head may be editing
    timer,     \* whether _hupDebounceTimer is set
    waiters,   \* _hupWaiters
    hups,      \* the reloads under way
    expired,   \* the users the clean-up has still to remove
    purged,    \* whether it has removed one (removedCount > 0)
    created,   \* history: the ids used
    known,     \* history: the sessions whose id was answered
    ready,     \* history: the sessions whose user was written and the broker reloaded
    misread,   \* history: whether the live sessions were ever read from the fallback
    halfEnded, \* history: the sessions ended by the host while their deletion failed
    faults     \* number of failures so far (bound)

sessions == <<keys, index, rows>>
reload == <<timer, waiters, hups>>
cleanup == <<expired, purged>>
history == <<created, known, ready, misread, halfEnded>>
vars == <<sessions, file, broker, call, writes, reload, cleanup, history, faults>>

Actor == Request \cup {Cleaner}

Call == [pc: {"idle", "index", "delete", "queued", "editing", "hup", "list", "purge", "reload"},
         op: {"none", "upsert", "remove"}, session: Session \cup {NoSession},
         seen: SUBSET Session]

Idle == [pc |-> "idle", op |-> "none", session |-> NoSession, seen |-> {}]

Hup == [waiters: SUBSET Request, stage: {"signal", "delay"}, ok: BOOLEAN]

Fault(kind) ==
    /\ kind \in Faults
    /\ faults < MaxFaults
    /\ faults' = faults + 1

TypeOK ==
    /\ {keys, index, rows, file, broker, expired, created, known, ready, halfEnded}
         \subseteq SUBSET Session
    /\ call \in [Actor -> Call]
    /\ writes \in Seq(Actor)
    /\ timer \in BOOLEAN
    /\ waiters \subseteq Request
    /\ hups \subseteq Hup
    /\ {purged, misread} \subseteq BOOLEAN
    /\ faults \in Nat

Init ==
    /\ keys = {} /\ index = {} /\ rows = {}
    /\ file = {} /\ broker = {}
    /\ call = [a \in Actor |-> Idle]
    /\ writes = <<>>
    /\ timer = FALSE /\ waiters = {} /\ hups = {}
    /\ expired = {} /\ purged = FALSE
    /\ created = {} /\ known = {} /\ ready = {}
    /\ misread = FALSE /\ halfEnded = {}
    /\ faults = 0

Stored(s) == s \in keys \cup rows

-----------------------------------------------------------------------------
(* The requests.                                                           *)

\* Slip: session and operation exchanged.
EnqueueWriteSwapped(a, op, s) ==
    /\ writes' = Append(writes, a)
    /\ call' = [call EXCEPT ![a] = [Idle EXCEPT !.pc = "queued", !.op = s, !.session = op]]

\* enqueueWrite: actor a will run op for session s when those before it have.
EnqueueWrite(a, op, s) ==
    /\ writes' = Append(writes, a)
    /\ call' = [call EXCEPT ![a] = [Idle EXCEPT !.pc = "queued", !.op = op, !.session = s]]

\* createRemoteSession, saveSession: the key, or when the SET fails (or its
\* answer is lost) the row in MySQL, and then no SADD.
CreateSession(r, s) ==
    /\ call[r].pc = "idle"
    /\ s \notin created
    /\ created' = created \cup {s}
    /\ \/ /\ keys' = keys \cup {s}
          /\ call' = [call EXCEPT ![r] = [Idle EXCEPT !.pc = "index", !.session = s]]
          /\ UNCHANGED <<rows, writes, faults>>
       \/ /\ Fault("save")
          /\ keys' \in {keys, keys \cup {s}}
          /\ rows' = rows \cup {s}
          /\ EnqueueWrite(r, "upsert", s)
    /\ UNCHANGED <<index, file, broker, reload, cleanup, known, ready, misread,
                   halfEnded>>

\* The SADD nobody waits for. It goes out before the edit is queued, on the
\* connection that later carries SMEMBERS.
IndexSession(r) ==
    /\ call[r].pc = "index"
    /\ \/ index' = index \cup {call[r].session} /\ UNCHANGED faults
       \/ Fault("index") /\ UNCHANGED index
    /\ EnqueueWrite(r, "upsert", call[r].session)
    /\ UNCHANGED <<keys, rows, file, broker, reload, cleanup, history>>

\* verifySession, by the host or a station: the record is there, and
\* ensureMqttBrokerUser writes its user again.
VerifySession(r, s) ==
    /\ call[r].pc = "idle"
    /\ s \in known /\ Stored(s)
    /\ EnqueueWrite(r, "upsert", s)
    /\ UNCHANGED <<sessions, file, broker, reload, cleanup, history, faults>>

\* endRemoteSession up to its first await, then deleteSession.
EndRead(r, s) ==
    /\ call[r].pc = "idle"
    /\ s \in known /\ Stored(s)
    /\ call' = [call EXCEPT ![r] = [Idle EXCEPT !.pc = "delete", !.session = s]]
    /\ UNCHANGED <<sessions, file, broker, writes, reload, cleanup, history, faults>>

\* deleteSession: the key, then, of a key that was there, the id in the index, and
\* the row. Every failure is swallowed; a DEL that failed, or whose answer was lost,
\* has no SREM.
DeleteSession(s) ==
    \/ /\ keys' = keys \ {s} /\ rows' = rows \ {s}
       /\ index' = IF s \in keys THEN index \ {s} ELSE index
       /\ UNCHANGED <<halfEnded, faults>>
    \/ /\ Fault("delete")
       /\ keys' \in {keys, keys \ {s}} /\ rows' \in {rows, rows \ {s}}
       /\ index' \in {index, index \ {s}}
       /\ s \in keys' => index' = index
       /\ halfEnded' = halfEnded \cup {s}

\* Whatever became of the deletion, the user's removal comes next.
EndDelete(r) ==
    /\ call[r].pc = "delete"
    /\ DeleteSession(call[r].session)
    /\ EnqueueWrite(r, "remove", call[r].session)
    /\ UNCHANGED <<file, broker, reload, cleanup, created, known, ready, misread>>

\* EX ttlSeconds; the id stays in the index.
ExpireSession(s) ==
    /\ Stored(s)
    /\ keys' = keys \ {s} /\ rows' = rows \ {s}
    /\ UNCHANGED <<index, file, broker, call, writes, reload, cleanup, history, faults>>

-----------------------------------------------------------------------------
(* The edits of the file, one after the other.                             *)

\* Slip: the edits are queued, and none waits for those before it.
BeginEditAtOnce(a) ==
    /\ call[a].pc = "queued"
    /\ call' = [call EXCEPT ![a].pc = "editing", ![a].seen = file]
    /\ UNCHANGED <<sessions, file, broker, writes, reload, cleanup, history, faults>>

\* The head of the queue reads the file (mosquitto_passwd, or readFileSync)...
BeginEdit(a) ==
    /\ call[a].pc = "queued"
    /\ a = Head(writes)
    /\ call' = [call EXCEPT ![a].pc = "editing", ![a].seen = file]
    /\ UNCHANGED <<sessions, file, broker, writes, reload, cleanup, history, faults>>

Edited(c) == IF c.op = "upsert" THEN c.seen \cup {c.session} ELSE c.seen \ {c.session}

\* scheduleHupOnce: wait for the reload of the running debounce, or start one.
ScheduleHupOnce(r) ==
    /\ waiters' = waiters \cup {r}
    /\ timer' = TRUE
    /\ call' = [call EXCEPT ![r].pc = "hup"]

\* The clean-up looks at its next user, or comes to its reload.
NextPurge == call' = [call EXCEPT ![Cleaner] = [Idle EXCEPT !.pc = "purge"]]

\* ...and the new file takes its place.
EndEdit(a) ==
    /\ call[a].pc = "editing"
    /\ file' = Edited(call[a])
    /\ writes' = Tail(writes)
    /\ \/ a \in Request /\ ScheduleHupOnce(a) /\ UNCHANGED purged
       \/ a = Cleaner /\ NextPurge /\ purged' = TRUE /\ UNCHANGED <<timer, waiters>>
    /\ UNCHANGED <<sessions, broker, hups, expired, history, faults>>

\* Every method of editing failed: the caller is told, nothing is reloaded.
EditFails(a) ==
    /\ call[a].pc = "editing"
    /\ Fault("write")
    /\ file' \in {file, Edited(call[a])}
    /\ writes' = Tail(writes)
    /\ IF a = Cleaner THEN NextPurge ELSE call' = [call EXCEPT ![a] = Idle]
    /\ UNCHANGED <<sessions, broker, reload, cleanup, history>>

-----------------------------------------------------------------------------
(* The debounced reload.                                                   *)

\* The timer fires; who comes later waits for the next one.
HupFires ==
    /\ timer
    /\ timer' = FALSE
    /\ waiters' = {}
    /\ hups' = hups \cup {[waiters |-> waiters, stage |-> "signal", ok |-> FALSE]}
    /\ UNCHANGED <<sessions, file, broker, call, writes, cleanup, history, faults>>

\* reloadMqttBroker: the broker reads the file, if there is a way to tell it.
ReloadMqttBroker(h) ==
    /\ h.stage = "signal"
    /\ \/ /\ HostReload \/ DockerCli
          /\ broker' = file
          /\ hups' = (hups \ {h}) \cup {[h EXCEPT !.stage = "delay", !.ok = TRUE]}
          /\ UNCHANGED faults
       \/ /\ \/ ~(HostReload \/ DockerCli) /\ UNCHANGED faults
             \/ Fault("reload")
          /\ hups' = (hups \ {h}) \cup {[h EXCEPT !.stage = "delay"]}
          /\ UNCHANGED broker
    /\ UNCHANGED <<sessions, file, call, writes, timer, waiters, cleanup, history>>

\* The callers W are answered: their edit is done, the reload ended as ok says.
AnswerWaiters(W, ok) ==
    LET S == {call[r].session : r \in {q \in W : call[q].op = "upsert"}} IN
    /\ known' = known \cup S
    /\ ready' = IF ok THEN ready \cup S ELSE ready
    /\ call' = [a \in Actor |-> IF a \in W THEN Idle ELSE call[a]]

\* Slip: the waiters taken when the reload is over, not when it starts.
HupDoneForAll(h) ==
    /\ h.stage = "delay"
    /\ hups' = hups \ {h}
    /\ waiters' = {}
    /\ AnswerWaiters(h.waiters \cup waiters, h.ok)
    /\ UNCHANGED <<sessions, file, broker, writes, timer, cleanup, created, misread,
                   halfEnded, faults>>

\* After MOSQUITTO_RELOAD_DELAY_MS the waiters of this reload are answered.
HupDone(h) ==
    /\ h.stage = "delay"
    /\ hups' = hups \ {h}
    /\ AnswerWaiters(h.waiters, h.ok)
    /\ UNCHANGED <<sessions, file, broker, writes, timer, waiters, cleanup, created, misread,
                   halfEnded, faults>>

-----------------------------------------------------------------------------
(* cleanupExpiredUsers.                                                    *)

\* readFileSync and the users in the file.
CleanupList ==
    /\ call[Cleaner].pc = "idle"
    /\ file # {}
    /\ call' = [call EXCEPT ![Cleaner] = [Idle EXCEPT !.pc = "list", !.seen = file]]
    /\ UNCHANGED <<sessions, file, broker, writes, reload, cleanup, history, faults>>

\* Slip: the sessions are those of the index, whether or not their key still exists.
ActiveSessionIdsOfIndex(active) ==
    /\ active = index
    /\ UNCHANGED <<index, misread, faults>>

\* getActiveSessionIds answers: SMEMBERS, MGET, and an SREM of the ids without a
\* key; the rows of MySQL when Redis fails.
ActiveSessionIds(active) ==
    \/ /\ active = index \cap keys
       /\ index' = index \cap keys
       /\ UNCHANGED <<misread, faults>>
    \/ /\ Fault("members")
       /\ active = rows
       /\ misread' = TRUE
       /\ UNCHANGED index

CleanupCompare ==
    /\ call[Cleaner].pc = "list"
    /\ \E active \in {index \cap keys, rows, index} :
         /\ ActiveSessionIds(active)
         /\ expired' = call[Cleaner].seen \ active
    /\ purged' = FALSE
    /\ NextPurge
    /\ UNCHANGED <<keys, rows, file, broker, writes, reload, created, known, ready, halfEnded>>

CleanupNext(s) ==
    /\ call[Cleaner].pc = "purge"
    /\ s \in expired
    /\ expired' = expired \ {s}
    /\ EnqueueWrite(Cleaner, "remove", s)
    /\ UNCHANGED <<sessions, file, broker, reload, purged, history, faults>>

\* reloadMqttBrokerInDocker, not reloadMqttBroker: without docker it does nothing.
CleanupReload ==
    /\ call[Cleaner].pc = "purge"
    /\ expired = {}
    /\ \/ /\ purged /\ DockerCli
          /\ broker' = file
          /\ UNCHANGED faults
       \/ /\ \/ ~(purged /\ DockerCli) /\ UNCHANGED faults
             \/ Fault("reload")
          /\ UNCHANGED broker
    /\ call' = [call EXCEPT ![Cleaner] = Idle]
    /\ UNCHANGED <<sessions, file, writes, reload, cleanup, history>>

\* The process dies; an editing command that runs may still finish.
Crash ==
    /\ Fault("crash")
    /\ call' = [a \in Actor |-> Idle]
    /\ writes' = <<>>
    /\ timer' = FALSE /\ waiters' = {} /\ hups' = {}
    /\ expired' = {} /\ purged' = FALSE
    /\ file' \in {file} \cup {Edited(call[a]) : a \in {b \in Actor : call[b].pc = "editing"}}
    /\ UNCHANGED <<sessions, broker, history>>

-----------------------------------------------------------------------------
User ==
    \E r \in Request, s \in Session :
        CreateSession(r, s) \/ VerifySession(r, s) \/ EndRead(r, s)

Handler(r) == IndexSession(r) \/ EndDelete(r)

Edit(a) == BeginEdit(a) \/ EndEdit(a)

Reload == HupFires \/ \E h \in hups : ReloadMqttBroker(h) \/ HupDone(h)

Cleanup ==
    \/ CleanupList \/ CleanupCompare \/ CleanupReload
    \/ \E s \in expired : CleanupNext(s)

Next ==
    \/ User
    \/ \E r \in Request : Handler(r)
    \/ \E s \in Session : ExpireSession(s)
    \/ \E a \in Actor : Edit(a) \/ EditFails(a)
    \/ Reload
    \/ Cleanup
    \/ Crash

Spec == Init /\ [][Next]_vars

\* Handlers, queued edits and timers run on; the clean-up comes round every hour.
\* No user is obliged to act and no failure to happen.
Fairness ==
    /\ \A r \in Request : WF_vars(Handler(r))
    /\ \A a \in Actor : WF_vars(Edit(a))
    /\ WF_vars(Reload)
    /\ WF_vars(Cleanup)

FairSpec == Spec /\ Fairness

-----------------------------------------------------------------------------
(* Properties.                                                             *)

\* Who was told that the broker has its user can connect while Redis lists the
\* session: no edit loses another's, no reload is credited with an edit it came
\* before, and the clean-up leaves alone the sessions that Redis lists. Not so a
\* session its host has ended and no DEL has removed: endRemoteSession goes on to
\* remove the user (remoteSessionService.js:251-252).
CredentialsWork ==
    ~misread => (ready \cap index \cap keys) \ halfEnded \subseteq broker

\* The same of every stored session, whatever the clean-up was told of the live ones
\* (mosquittoPasswdSync.js:246 removes the users getActiveSessionIds does not list).
LiveUsersKept == \A s \in ready \ halfEnded : Stored(s) => s \in broker

\* The broker forgets the user of a session that is over, and for good, whatever
\* ensureMqttBrokerUser wrote after the end: the clean-up finds it in the file.
EventuallyRevoked ==
    \A s \in Session : (s \in created /\ ~Stored(s)) ~> [](s \notin broker)

\* The edits that wait, and the one being made.
Asked ==
    {[op |-> call[a].op, user |-> call[a].session] :
        a \in {b \in Actor : call[b].pc \in {"queued", "editing"}}}

Table == INSTANCE UserTable WITH
    User <- Session,
    asked <- Asked,
    users <- file,
    loaded <- broker

\* Whole files are read and rewritten, by several requests and the clean-up, each with a
\* pause between; still every change of the file is one edit that was asked for, made to
\* the file as it stands, and the broker has the file or what it had (passwdFileIO.js:84-88,
\* mosquittoReload.js:105-140).
EditsInTurn == Table!TableSpec
=============================================================================
