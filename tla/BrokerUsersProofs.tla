-------------------------- MODULE BrokerUsersProofs --------------------------
(***************************************************************************)
(* Theorems about the broker's users, for every value of the constants.    *)
(*                                                                         *)
(* BrokerInv makes CredentialsWork inductive. A session is credited with   *)
(* its user once a reload that followed its edit is over, so three things  *)
(* have to be carried through every interleaving: an edit starts from the  *)
(* file as it is (one editor, EditorsFile), a reload answers only those    *)
(* whose edit it has seen (HupsApart, Written), and nobody removes a user  *)
(* whose session lives (RemovalsOver). The last rests on an id never       *)
(* coming back once it is over: FreshUntouched.                            *)
(***************************************************************************)
EXTENDS BrokerUsers, SequenceLemmas

\* The sessions that Redis lists and still has, and that no host has ended.
Alive == (index \cap keys) \ halfEnded

Waiting == waiters \cup UNION {h.waiters : h \in hups}

\* What each call is about.
CallsFit ==
    \A a \in Actor :
        /\ call[a].pc \in {"index", "delete", "queued", "editing", "hup"}
             => call[a].session \in Session
        /\ call[a].pc \in {"index", "delete", "hup"} => a \in Request
        /\ call[a].op # "none" <=> call[a].pc \in {"queued", "editing", "hup"}

\* Who has an edit to do stands in the queue, and whoever is editing at its head.
InLine ==
    \A a \in Actor :
        /\ call[a].pc \in {"queued", "editing"} => a \in ToSet(writes)
        /\ call[a].pc = "editing" => a = Head(writes)

\* Nobody changed the file behind the editor's back.
EditorsFile == \A a \in Actor : call[a].pc = "editing" => call[a].seen = file

\* Who waits for a reload waits for one only, and does nothing else.
HupsApart ==
    /\ \A r \in Waiting : call[r].pc = "hup"
    /\ \A h \in hups : h.waiters \cap waiters = {}
    /\ \A g, h \in hups : g # h => g.waiters \cap h.waiters = {}

\* The sessions that anything but their own creation knows of: those somebody has
\* read of, those a call is about, and those in one of the system's sets.
Seen == UNION {call[a].seen : a \in Actor}
Subjects == {call[a].session : a \in {b \in Actor : call[b].pc # "index"}}
Touched == file \cup known \cup ready \cup expired \cup index \cup Seen \cup Subjects

\* A session that is being created is nobody else's concern yet.
FreshUntouched ==
    /\ Touched \cap Session \subseteq created
    /\ \A r \in Actor : call[r].pc = "index" =>
         /\ call[r].session \in created \ Touched
         /\ \A q \in Actor : q # r => call[q].session # call[r].session

\* No removal, under way or to come, is of a session that lives.
RemovalsOver ==
    /\ \A a \in Actor : call[a].op = "remove" => call[a].session \notin Alive
    /\ expired \cap Alive = {}

\* Whose edit is over is in the file while it lives, and in the broker as soon as
\* the reload it waits for has been done.
Written ==
    /\ ready \cap Alive \subseteq file \cap broker
    /\ \A r \in Waiting :
         call[r].op = "upsert" /\ call[r].session \in Alive => call[r].session \in file
    /\ \A h \in hups : \A r \in h.waiters :
         h.ok /\ call[r].op = "upsert" /\ call[r].session \in Alive => call[r].session \in broker

\* The inductive invariant.
BrokerInv ==
    /\ TypeOK /\ CallsFit /\ InLine /\ EditorsFile /\ HupsApart /\ FreshUntouched
    /\ ~misread => RemovalsOver /\ Written

\* The records the code builds are calls.
LEMMA CallTypes ==
    /\ Idle \in Call /\ Idle.pc = "idle" /\ Idle.op = "none" /\ Idle.session = NoSession
    /\ Idle.seen = {}
    /\ \A d \in Call : d.seen \subseteq Session
BY DEF Call, Idle

\* The initial state satisfies the invariant.
LEMMA BrokerInvInit == Init => BrokerInv
<1> SUFFICES ASSUME Init PROVE BrokerInv
  OBVIOUS
<1>1. TypeOK
  <2>1. call \in [Actor -> Call] /\ writes \in Seq(Actor)
    BY CallTypes, EmptySeq DEF Init
  <2> QED BY <2>1 DEF Init, TypeOK
<1>2. \A a \in Actor : call[a].pc = "idle" /\ call[a].op = "none" /\ call[a].session = NoSession
                         /\ call[a].seen = {}
  BY CallTypes DEF Init
<1>3. CallsFit /\ InLine /\ EditorsFile
  BY <1>2 DEF CallsFit, InLine, EditorsFile
<1>4. HupsApart /\ Waiting = {}
  BY DEF Init, HupsApart, Waiting
<1>5. FreshUntouched
  <2>1. Seen = {} /\ Subjects \subseteq {NoSession}
    BY <1>2 DEF Seen, Subjects
  <2>2. Touched \subseteq {NoSession}
    BY <2>1 DEF Init, Touched
  <2> QED BY <1>2, <2>2, BrokerAssumption DEF FreshUntouched
<1>6. RemovalsOver /\ Written
  BY <1>2, <1>4 DEF Init, RemovalsOver, Written
<1> QED BY <1>1, <1>3, <1>4, <1>5, <1>6 DEF BrokerInv

\* The parts of the type invariant.
LEMMA TypeParts ==
    ASSUME TypeOK
    PROVE  /\ keys \subseteq Session /\ index \subseteq Session /\ rows \subseteq Session
           /\ file \subseteq Session /\ broker \subseteq Session /\ expired \subseteq Session
           /\ created \subseteq Session /\ known \subseteq Session /\ ready \subseteq Session
           /\ call \in [Actor -> Call] /\ writes \in Seq(Actor)
           /\ \A a \in Actor : call[a] \in Call /\ call[a].seen \subseteq Session
                                /\ call[a].session \in Session \cup {NoSession}
BY CallTypes DEF TypeOK, Call

\* enqueueWrite: its caller is at the end of the queue, the head stays at the head.
LEMMA EnqueueWriteMakes ==
    ASSUME BrokerInv, NEW a \in Actor, NEW op \in {"upsert", "remove"}, NEW s \in Session,
           EnqueueWrite(a, op, s)
    PROVE  /\ call' \in [Actor -> Call] /\ writes' \in Seq(Actor)
           /\ call'[a].pc = "queued" /\ call'[a].op = op /\ call'[a].session = s
           /\ call'[a].seen = {}
           /\ \A b \in Actor \ {a} : call'[b] = call[b]
           /\ UNCHANGED file => InLine' /\ EditorsFile'
<1> DEFINE d == [Idle EXCEPT !.pc = "queued", !.op = op, !.session = s]
<1>1. d \in Call /\ d.pc = "queued" /\ d.op = op /\ d.session = s /\ d.seen = {}
  BY DEF Idle, Call
<1>2. call' = [call EXCEPT ![a] = d] /\ writes' = Append(writes, a)
  BY DEF EnqueueWrite
<1> HIDE DEF d
<1>3. call \in [Actor -> Call] /\ writes \in Seq(Actor)
  BY DEF BrokerInv, TypeOK
<1>4. call' \in [Actor -> Call] /\ call'[a] = d /\ \A b \in Actor \ {a} : call'[b] = call[b]
  BY <1>1, <1>2, <1>3
<1>5. /\ writes' \in Seq(Actor) /\ ToSet(writes') = ToSet(writes) \cup {a}
      /\ writes # <<>> => Head(writes') = Head(writes)
  BY <1>2, <1>3, AppendElements
<1>6. InLine'
  <2> SUFFICES ASSUME NEW b \in Actor
               PROVE  /\ call'[b].pc \in {"queued", "editing"} => b \in ToSet(writes')
                      /\ call'[b].pc = "editing" => b = Head(writes')
    BY DEF InLine
  <2>1. CASE b = a
    BY <1>1, <1>4, <1>5, <2>1
  <2>2. CASE b # a
    <3>1. call[b].pc = "editing" => writes # <<>>
      BY EmptyElements DEF BrokerInv, InLine
    <3> QED BY <1>4, <1>5, <2>2, <3>1 DEF BrokerInv, InLine
  <2> QED BY <2>1, <2>2
<1>7. UNCHANGED file => EditorsFile'
  BY <1>1, <1>4 DEF BrokerInv, EditorsFile
<1> QED BY <1>1, <1>4, <1>5, <1>6, <1>7

\* Calls outside the queue come and go without the queue's noticing.
LEMMA LineStays ==
    ASSUME BrokerInv, UNCHANGED <<writes, file>>,
           \A b \in Actor : call'[b].pc \in {"queued", "editing"} => call'[b] = call[b]
    PROVE  InLine' /\ EditorsFile'
BY DEF BrokerInv, InLine, EditorsFile

\* A call that waits for no reload takes another turn.
LEMMA CallMoves ==
    ASSUME BrokerInv, NEW a \in Actor, call[a].pc # "hup", UNCHANGED <<hups, waiters>>,
           \A b \in Actor \ {a} : call'[b] = call[b],
           call'[a].pc \in {"index", "delete", "queued", "editing", "hup"}
             => call'[a].session \in Session,
           call'[a].pc \in {"index", "delete", "hup"} => a \in Request,
           call'[a].op # "none" <=> call'[a].pc \in {"queued", "editing", "hup"}
    PROVE  CallsFit' /\ HupsApart' /\ Waiting' = Waiting /\ a \notin Waiting
<1>1. Waiting' = Waiting /\ a \notin Waiting
  BY DEF Waiting, BrokerInv, HupsApart
<1>2. CallsFit'
  BY DEF BrokerInv, CallsFit
<1>3. Waiting \subseteq Actor
  BY DEF Waiting, Actor, BrokerInv, TypeOK, Hup
<1>4. HupsApart'
  BY <1>1, <1>3 DEF BrokerInv, HupsApart
<1> QED BY <1>1, <1>2, <1>4

\* Whom a call is about is touched, unless the call is creating it.
LEMMA SubjectTouched ==
    ASSUME NEW a \in Actor, call[a].pc # "index"
    PROVE  call[a].session \in Touched
<1>1. call[a].session \in Subjects
  BY DEF Subjects
<1> QED BY <1>1 DEF Touched

\* Who waits, and for what.
LEMMA WaitingFacts ==
    ASSUME BrokerInv
    PROVE  /\ Waiting \subseteq Request /\ Request \subseteq Actor
           /\ \A r \in Waiting : /\ call[r].pc = "hup" /\ call[r].session \in Session
                                 /\ call[r].session \in Touched
           /\ \A h \in hups : h.waiters \subseteq Waiting
           /\ \A a \in Actor : call[a].op # "none" =>
                call[a].session \in Session /\ call[a].session \in Touched
<1>1. Waiting \subseteq Request /\ Request \subseteq Actor
  BY DEF Waiting, Actor, BrokerInv, TypeOK, Hup
<1>2. \A r \in Waiting : call[r].pc = "hup" /\ r \in Actor
  BY <1>1 DEF BrokerInv, HupsApart
<1>3. \A r \in Waiting : call[r].session \in Session /\ call[r].session \in Touched
  BY <1>2, SubjectTouched DEF BrokerInv, CallsFit
<1>4. \A h \in hups : h.waiters \subseteq Waiting
  BY DEF Waiting
<1>5. \A a \in Actor : call[a].op # "none" =>
                call[a].session \in Session /\ call[a].session \in Touched
  BY SubjectTouched DEF BrokerInv, CallsFit
<1> QED BY <1>1, <1>2, <1>3, <1>4, <1>5

\* A session that is over does not come back.
NoneRevived == \A s \in Touched : s \in Alive' => s \in Alive

\* What a call's step leaves of the safety of removals and of what was written,
\* when the broker, the reloads and the answers are left alone.
LEMMA SafetyMoves ==
    ASSUME BrokerInv, ~misread, NEW a \in Actor, a \notin Waiting, NoneRevived,
           UNCHANGED <<hups, waiters, ready, broker>>,
           \A s \in Alive' : s \in file => s \in file',
           \A b \in Actor \ {a} : call'[b] = call[b],
           expired' \cap Alive' = {},
           call'[a].op = "remove" => call'[a].session \notin Alive'
    PROVE  RemovalsOver' /\ Written'
<1>1. Waiting' = Waiting
  BY DEF Waiting
<1>2. ready \subseteq Touched
  BY DEF Touched
<1>3. RemovalsOver'
  BY WaitingFacts DEF BrokerInv, RemovalsOver, NoneRevived
<1>4. \A r \in Waiting : r \in Actor /\ call'[r] = call[r] /\ call[r].session \in Touched
  BY WaitingFacts
<1>5. \A r \in Waiting : call[r].session \in Alive' => call[r].session \in Alive
  BY <1>4 DEF NoneRevived
<1>6. ready \cap Alive' \subseteq file' \cap broker
  BY <1>2 DEF BrokerInv, Written, NoneRevived
<1>7. \A r \in Waiting :
        call'[r].op = "upsert" /\ call'[r].session \in Alive' => call'[r].session \in file'
  BY <1>4, <1>5 DEF BrokerInv, Written
<1>8. \A h \in hups : \A r \in h.waiters :
        h.ok /\ call'[r].op = "upsert" /\ call'[r].session \in Alive'
          => call'[r].session \in broker
  BY <1>4, <1>5, WaitingFacts DEF BrokerInv, Written
<1>9. Written'
  BY <1>1, <1>6, <1>7, <1>8 DEF Written
<1> QED BY <1>3, <1>9

\* A step that tells nobody of a session still being created.
LEMMA FreshKept ==
    ASSUME BrokerInv, created' = created,
           file' \cup known' \cup ready' \cup expired' \cup index' \subseteq Touched,
           \A b \in Actor :
             IF call'[b].pc = "index" THEN call'[b] = call[b]
             ELSE call'[b].session \in Touched \cup {NoSession},
           \A b \in Actor : call'[b].seen \subseteq Touched
    PROVE  FreshUntouched'
<1>1. Touched' \subseteq Touched \cup {NoSession}
  <2>1. Seen' \subseteq Touched
    BY DEF Seen
  <2>2. Subjects' \subseteq Touched \cup {NoSession}
    BY DEF Subjects
  <2> QED BY <2>1, <2>2 DEF Touched
<1>2. NoSession \notin Session
  BY BrokerAssumption
<1>3. Touched' \cap Session \subseteq created'
  BY <1>1, <1>2 DEF BrokerInv, FreshUntouched
<1>4. ASSUME NEW r \in Actor, call'[r].pc = "index"
      PROVE  /\ call'[r].session \in created' \ Touched'
             /\ \A q \in Actor : q # r => call'[q].session # call'[r].session
  <2>1. call'[r] = call[r] /\ call[r].session \in Session
    BY <1>4 DEF BrokerInv, CallsFit
  <2>2. /\ call[r].session \in created \ Touched
        /\ \A q \in Actor : q # r => call[q].session # call[r].session
    BY <1>4, <2>1 DEF BrokerInv, FreshUntouched
  <2> QED BY <1>1, <1>2, <2>1, <2>2
<1> QED BY <1>3, <1>4 DEF FreshUntouched

\* createRemoteSession keeps the invariant: an id that was never used is touched by
\* nobody.
LEMMA CreateSessionKeeps ==
    ASSUME BrokerInv, NEW r \in Request, NEW s \in Session, CreateSession(r, s)
    PROVE  BrokerInv'
<1>1. r \in Actor /\ call[r].pc = "idle" /\ s \notin created /\ created' = created \cup {s}
      /\ UNCHANGED <<index, file, broker, reload, expired, purged, known, ready, misread,
                  halfEnded>>
  BY DEF CreateSession, Actor, cleanup
<1> DEFINE d == [Idle EXCEPT !.pc = "index", !.session = s]
<1>2. d \in Call /\ d.pc = "index" /\ d.op = "none" /\ d.session = s /\ d.seen = {}
  BY DEF Idle, Call
<1> HIDE DEF d
<1>3. /\ call' \in [Actor -> Call] /\ writes' \in Seq(Actor)
      /\ call'[r].pc \in {"index", "queued"} /\ call'[r].op \in {"none", "upsert"}
      /\ call'[r].pc = "index" <=> call'[r].op = "none"
      /\ call'[r].session = s /\ call'[r].seen = {}
      /\ \A b \in Actor \ {r} : call'[b] = call[b]
      /\ InLine' /\ EditorsFile'
  <2>1. CASE EnqueueWrite(r, "upsert", s)
    BY <1>1, <2>1, EnqueueWriteMakes
  <2>2. CASE call' = [call EXCEPT ![r] = d] /\ UNCHANGED writes
    <3>1. /\ call' \in [Actor -> Call] /\ call'[r] = d
          /\ \A b \in Actor \ {r} : call'[b] = call[b]
      BY <1>1, <1>2, <2>2 DEF BrokerInv, TypeOK
    <3> QED BY <1>1, <1>2, <2>2, <3>1, LineStays DEF BrokerInv, TypeOK
  <2> QED BY <2>1, <2>2 DEF CreateSession, d
<1>4. /\ keys' \subseteq keys \cup {s} /\ rows' \subseteq rows \cup {s}
      /\ faults' \in Nat
  BY DEF CreateSession, Fault, BrokerInv, TypeOK
<1>5. TypeOK'
  <2>1. /\ {keys', index', rows', file', broker', expired', created', known', ready',
          halfEnded'} \subseteq SUBSET Session
        /\ {purged', misread'} \subseteq BOOLEAN
    BY <1>1, <1>4 DEF BrokerInv, TypeOK
  <2>2. timer' \in BOOLEAN /\ waiters' \subseteq Request /\ hups' \subseteq Hup
    BY <1>1 DEF BrokerInv, TypeOK, reload
  <2> QED BY <1>3, <1>4, <2>1, <2>2 DEF TypeOK
<1>6. CallsFit' /\ HupsApart' /\ Waiting' = Waiting /\ r \notin Waiting
  BY <1>1, <1>3, CallMoves DEF reload
<1>7. s \notin Touched
  BY <1>1 DEF BrokerInv, FreshUntouched
<1>8. FreshUntouched'
  <2>1. /\ Touched' \subseteq Touched \cup {NoSession, s}
        /\ call'[r].pc = "index" => s \notin Touched'
    <3>1. Seen' \subseteq Seen
      BY <1>1, <1>3 DEF Seen
    <3>2. /\ Subjects' \subseteq Touched \cup {s}
          /\ call'[r].pc = "index" => Subjects' \subseteq Touched
      BY <1>1, <1>3, SubjectTouched DEF Subjects
    <3> QED BY <1>1, <1>7, <3>1, <3>2 DEF Touched
  <2>2. \A q \in Actor : call[q].session = s => call[q].pc = "index" /\ call[q].session \in created
    BY <1>7, SubjectTouched DEF BrokerInv, FreshUntouched
  <2>3. \A q \in Actor : call[q].session # s
    BY <1>1, <2>2
  <2>4. ASSUME NEW q \in Actor, call'[q].pc = "index"
        PROVE  /\ call'[q].session \in created' \ Touched'
               /\ \A p \in Actor : p # q => call'[p].session # call'[q].session
    <3>1. CASE q = r
      BY <1>1, <1>3, <2>1, <2>3, <2>4, <3>1
    <3>2. CASE q # r
      <4>1. call'[q] = call[q] /\ call[q].session \in Session
        BY <1>3, <2>4, <3>2 DEF BrokerInv, CallsFit
      <4>2. /\ call[q].session \in created \ Touched
            /\ \A p \in Actor : p # q => call[p].session # call[q].session
        BY <2>4, <4>1 DEF BrokerInv, FreshUntouched
      <4> QED BY <1>1, <1>3, <2>1, <2>3, <4>1, <4>2, BrokerAssumption
    <3> QED BY <3>1, <3>2
  <2> QED BY <1>1, <2>1, <2>4, BrokerAssumption DEF BrokerInv, FreshUntouched
<1>9. ~misread' => RemovalsOver' /\ Written'
  <2> SUFFICES ASSUME ~misread PROVE RemovalsOver' /\ Written'
    BY <1>1
  <2>1. NoneRevived
    BY <1>1, <1>4, <1>7 DEF NoneRevived, Alive
  <2>2. expired \subseteq Touched
    BY DEF Touched
  <2>3. expired' \cap Alive' = {}
    BY <1>1, <2>1, <2>2 DEF BrokerInv, RemovalsOver, NoneRevived
  <2> QED BY <1>1, <1>3, <1>6, <2>1, <2>3, SafetyMoves DEF reload
<1> QED BY <1>3, <1>5, <1>6, <1>8, <1>9 DEF BrokerInv

\* The SADD of createRemoteSession keeps the invariant: its session was touched by
\* nobody before.
LEMMA IndexSessionKeeps ==
    ASSUME BrokerInv, NEW r \in Request, IndexSession(r)
    PROVE  BrokerInv'
<1> DEFINE s == call[r].session
<1>1. /\ r \in Actor /\ call[r].pc = "index" /\ s \in Session
      /\ index' \subseteq index \cup {s} /\ EnqueueWrite(r, "upsert", s) /\ faults' \in Nat
      /\ UNCHANGED <<keys, rows, file, broker, reload, cleanup, history>>
  BY DEF IndexSession, Actor, Fault, BrokerInv, TypeOK, CallsFit
<1>2. /\ s \in created \ Touched
      /\ \A q \in Actor : q # r => call[q].session # s
  BY <1>1 DEF BrokerInv, FreshUntouched
<1> HIDE DEF s
<1>3. /\ call' \in [Actor -> Call] /\ writes' \in Seq(Actor)
      /\ call'[r].pc = "queued" /\ call'[r].op = "upsert"
      /\ call'[r].session = s /\ call'[r].seen = {}
      /\ \A b \in Actor \ {r} : call'[b] = call[b]
      /\ InLine' /\ EditorsFile'
  BY <1>1, EnqueueWriteMakes
<1>4. TypeOK'
  BY <1>1, <1>3 DEF BrokerInv, TypeOK, reload, cleanup, history
<1>5. CallsFit' /\ HupsApart' /\ Waiting' = Waiting /\ r \notin Waiting
  BY <1>1, <1>3, CallMoves DEF reload
<1>6. FreshUntouched'
  <2>1. Touched' \subseteq Touched \cup {s}
    <3>1. Seen' \subseteq Seen
      BY <1>1, <1>3 DEF Seen
    <3>2. Subjects' \subseteq Touched \cup {s}
      BY <1>1, <1>3, SubjectTouched DEF Subjects
    <3> QED BY <1>1, <3>1, <3>2 DEF Touched, cleanup, history
  <2>2. ASSUME NEW q \in Actor, call'[q].pc = "index"
        PROVE  /\ call'[q].session \in created' \ Touched'
               /\ \A p \in Actor : p # q => call'[p].session # call'[q].session
    <3>1. q # r /\ call'[q] = call[q]
      BY <1>3, <2>2
    <3>2. /\ call[q].session \in created \ Touched
          /\ \A p \in Actor : p # q => call[p].session # call[q].session
      BY <2>2, <3>1 DEF BrokerInv, FreshUntouched
    <3> QED BY <1>1, <1>2, <1>3, <2>1, <3>1, <3>2 DEF history
  <2> QED BY <1>1, <1>2, <2>1, <2>2 DEF BrokerInv, FreshUntouched, history
<1>7. ~misread' => RemovalsOver' /\ Written'
  <2> SUFFICES ASSUME ~misread PROVE RemovalsOver' /\ Written'
    BY <1>1 DEF history
  <2>1. NoneRevived
    BY <1>1, <1>2 DEF NoneRevived, Alive, history
  <2>2. expired \subseteq Touched
    BY DEF Touched
  <2>3. expired' \cap Alive' = {}
    BY <1>1, <2>1, <2>2 DEF BrokerInv, RemovalsOver, NoneRevived, cleanup
  <2> QED BY <1>1, <1>3, <1>5, <2>1, <2>3, SafetyMoves DEF reload, history
<1> QED BY <1>3, <1>4, <1>5, <1>6, <1>7 DEF BrokerInv

\* A call about a session that is known: what the four steps below have in common.
LEMMA KnownCallKeeps ==
    ASSUME BrokerInv, NEW a \in Actor, NEW s \in Touched \cap Session,
           call[a].pc \in {"idle", "delete", "list", "purge"},
           call' \in [Actor -> Call], writes' \in Seq(Actor),
           call'[a].pc \in {"queued", "delete"}, call'[a].session = s, call'[a].seen = {},
           call'[a].pc = "delete" => a \in Request, call'[a].op # "none" <=> call'[a].pc = "queued",
           call'[a].op = "remove" /\ s \in keys' \cap index' => misread \/ s \in halfEnded',
           halfEnded \subseteq halfEnded', halfEnded' \subseteq Session, faults' \in Nat,
           \A b \in Actor \ {a} : call'[b] = call[b],
           InLine', EditorsFile',
           keys' \subseteq keys, index' \subseteq index, rows' \subseteq rows,
           expired' \subseteq expired,
           UNCHANGED <<file, broker, reload, purged, created, known, ready, misread>>
    PROVE  BrokerInv'
<1>1. TypeOK'
  <2>1. /\ {keys', index', rows', file', broker', expired', created', known', ready',
          halfEnded'} \subseteq SUBSET Session
        /\ {purged', misread'} \subseteq BOOLEAN
    BY DEF BrokerInv, TypeOK
  <2>2. timer' \in BOOLEAN /\ waiters' \subseteq Request /\ hups' \subseteq Hup /\ faults' \in Nat
    BY DEF BrokerInv, TypeOK, reload
  <2> QED BY <2>1, <2>2 DEF TypeOK
<1>2. CallsFit' /\ HupsApart' /\ Waiting' = Waiting /\ a \notin Waiting
  BY CallMoves DEF reload
<1>3. FreshUntouched'
  <2>1. file' \cup known' \cup ready' \cup expired' \cup index' \subseteq Touched
    BY DEF Touched
  <2>2. \A b \in Actor : call[b].seen \subseteq Touched
    BY DEF Touched, Seen
  <2>3. \A b \in Actor :
             IF call'[b].pc = "index" THEN call'[b] = call[b]
             ELSE call'[b].session \in Touched \cup {NoSession}
    BY SubjectTouched
  <2>4. \A b \in Actor : call'[b].seen \subseteq Touched
    BY <2>2
  <2> QED BY <2>1, <2>3, <2>4, FreshKept
<1>4. ~misread' => RemovalsOver' /\ Written'
  <2> SUFFICES ASSUME ~misread PROVE RemovalsOver' /\ Written'
    OBVIOUS
  <2>1. NoneRevived /\ Alive' \subseteq Alive
    BY DEF NoneRevived, Alive
  <2>2. expired' \cap Alive' = {}
    BY <2>1 DEF BrokerInv, RemovalsOver
  <2>3. call'[a].op = "remove" => call'[a].session \notin Alive'
    BY DEF Alive
  <2> QED BY <1>2, <2>1, <2>2, <2>3, SafetyMoves DEF reload
<1> QED BY <1>1, <1>2, <1>3, <1>4 DEF BrokerInv

\* verifySession keeps the invariant.
LEMMA VerifySessionKeeps ==
    ASSUME BrokerInv, NEW r \in Request, NEW s \in Session, VerifySession(r, s)
    PROVE  BrokerInv'
<1>1. /\ r \in Actor /\ call[r].pc = "idle" /\ s \in known /\ EnqueueWrite(r, "upsert", s)
      /\ UNCHANGED <<sessions, file, broker, reload, cleanup, history, faults>>
  BY DEF VerifySession, Actor
<1>2. s \in Touched
  BY <1>1 DEF Touched
<1>3. halfEnded \subseteq Session /\ faults \in Nat
  BY DEF BrokerInv, TypeOK
<1> QED BY <1>1, <1>2, <1>3, EnqueueWriteMakes, KnownCallKeeps DEF sessions, cleanup, history

\* endRemoteSession, its read keeps the invariant.
LEMMA EndReadKeeps ==
    ASSUME BrokerInv, NEW r \in Request, NEW s \in Session, EndRead(r, s)
    PROVE  BrokerInv'
<1> DEFINE d == [Idle EXCEPT !.pc = "delete", !.session = s]
<1>1. d \in Call /\ d.pc = "delete" /\ d.op = "none" /\ d.session = s /\ d.seen = {}
  BY DEF Idle, Call
<1> HIDE DEF d
<1>2. /\ r \in Actor /\ call[r].pc = "idle" /\ s \in known /\ call' = [call EXCEPT ![r] = d]
      /\ UNCHANGED <<sessions, file, broker, writes, reload, cleanup, history, faults>>
  BY DEF EndRead, Actor, d
<1>3. s \in Touched
  BY <1>2 DEF Touched
<1>4. /\ call' \in [Actor -> Call] /\ call'[r] = d
      /\ \A b \in Actor \ {r} : call'[b] = call[b]
  BY <1>1, <1>2 DEF BrokerInv, TypeOK
<1>5. InLine' /\ EditorsFile'
  BY <1>1, <1>2, <1>4, LineStays
<1>6. writes' \in Seq(Actor) /\ halfEnded \subseteq Session /\ faults \in Nat
  BY <1>2 DEF BrokerInv, TypeOK
<1> QED BY <1>1, <1>2, <1>3, <1>4, <1>5, <1>6, KnownCallKeeps DEF sessions, cleanup, history

\* What deleteSession leaves of the session is no longer Alive.
LEMMA DeleteSessionMakes ==
    ASSUME BrokerInv, NEW s \in Session, DeleteSession(s)
    PROVE  /\ keys' \subseteq keys /\ index' \subseteq index /\ rows' \subseteq rows
           /\ keys' \cap index \subseteq index' \cup {s}
           /\ s \in keys' => index' = index
           /\ s \in keys' \cap index' => s \in halfEnded'
           /\ halfEnded \subseteq halfEnded' /\ halfEnded' \subseteq Session /\ faults' \in Nat
BY DEF DeleteSession, Fault, BrokerInv, TypeOK

\* endRemoteSession, its deletion keeps the invariant: the session it removes is over.
LEMMA EndDeleteKeeps ==
    ASSUME BrokerInv, NEW r \in Request, EndDelete(r)
    PROVE  BrokerInv'
<1> DEFINE s == call[r].session
<1>1. /\ r \in Actor /\ call[r].pc = "delete" /\ EnqueueWrite(r, "remove", s)
      /\ DeleteSession(s)
      /\ UNCHANGED <<file, broker, reload, cleanup, created, known, ready, misread>>
  BY DEF EndDelete, Actor
<1>2. s \in Touched /\ s \in Session
  BY <1>1, SubjectTouched DEF BrokerInv, CallsFit
<1> HIDE DEF s
<1> QED BY <1>1, <1>2, DeleteSessionMakes, EnqueueWriteMakes, KnownCallKeeps DEF cleanup

\* The clean-up's next removal keeps the invariant: its user was found expired.
LEMMA CleanupNextKeeps ==
    ASSUME BrokerInv, NEW s \in expired, CleanupNext(s)
    PROVE  BrokerInv'
<1>1. /\ Cleaner \in Actor /\ call[Cleaner].pc = "purge" /\ EnqueueWrite(Cleaner, "remove", s)
      /\ expired' = expired \ {s}
      /\ UNCHANGED <<sessions, file, broker, reload, purged, history, faults>>
  BY DEF CleanupNext, Actor
<1>2. s \in Touched /\ s \in Session
  BY DEF Touched, BrokerInv, TypeOK
<1>3. s \in keys \cap index => misread \/ s \in halfEnded
  BY DEF BrokerInv, RemovalsOver, Alive
<1>4. halfEnded \subseteq Session /\ faults \in Nat
  BY DEF BrokerInv, TypeOK
<1> QED BY <1>1, <1>2, <1>3, <1>4, EnqueueWriteMakes, KnownCallKeeps DEF sessions, history

\* A key that expires keeps the invariant.
LEMMA ExpireSessionKeeps ==
    ASSUME BrokerInv, NEW s \in Session, ExpireSession(s)
    PROVE  BrokerInv'
<1>1. /\ keys' \subseteq keys /\ rows' \subseteq rows
      /\ UNCHANGED <<index, file, broker, call, writes, reload, cleanup, history, faults>>
  BY DEF ExpireSession
<1>2. TypeOK'
  BY <1>1 DEF BrokerInv, TypeOK, reload, cleanup, history
<1>3. CallsFit' /\ InLine' /\ EditorsFile' /\ HupsApart'
  BY <1>1 DEF BrokerInv, CallsFit, InLine, EditorsFile, HupsApart, Waiting, reload
<1>4. FreshUntouched'
  BY <1>1 DEF BrokerInv, FreshUntouched, Touched, Seen, Subjects, cleanup, history
<1>5. Alive' \subseteq Alive
  BY <1>1 DEF Alive, history
<1>6. (~misread => RemovalsOver /\ Written) => (~misread' => RemovalsOver' /\ Written')
  BY <1>1, <1>5 DEF RemovalsOver, Written, Waiting, reload, cleanup, history
<1> QED BY <1>2, <1>3, <1>4, <1>6 DEF BrokerInv

\* The head of the queue begins its edit: it reads the file as it is.
LEMMA BeginEditKeeps ==
    ASSUME BrokerInv, NEW a \in Actor, BeginEdit(a)
    PROVE  BrokerInv'
<1>1. /\ call[a].pc = "queued" /\ a = Head(writes)
      /\ call' = [call EXCEPT ![a].pc = "editing", ![a].seen = file]
      /\ UNCHANGED <<sessions, file, broker, writes, reload, cleanup, history, faults>>
  BY DEF BeginEdit
<1>2. call[a] \in Call /\ file \subseteq Session /\ call \in [Actor -> Call]
  BY DEF BrokerInv, TypeOK
<1>3. /\ call' \in [Actor -> Call]
      /\ call'[a].pc = "editing" /\ call'[a].seen = file
      /\ call'[a].op = call[a].op /\ call'[a].session = call[a].session
      /\ \A b \in Actor \ {a} : call'[b] = call[b]
  BY <1>1, <1>2 DEF Call
<1>4. TypeOK'
  BY <1>1, <1>3 DEF BrokerInv, TypeOK, sessions, reload, cleanup, history
<1>5. call'[a].session \in Session /\ call'[a].op # "none"
  BY <1>1, <1>3 DEF BrokerInv, CallsFit
<1>6. CallsFit' /\ HupsApart' /\ Waiting' = Waiting /\ a \notin Waiting
  BY <1>1, <1>3, <1>5, CallMoves DEF reload
<1>7. InLine' /\ EditorsFile'
  BY <1>1, <1>3 DEF BrokerInv, InLine, EditorsFile
<1>8. FreshUntouched'
  <2>1. file' \cup known' \cup ready' \cup expired' \cup index' \subseteq Touched
    BY <1>1 DEF Touched, cleanup, history, sessions
  <2>2. \A b \in Actor : call[b].seen \subseteq Touched
    BY DEF Touched, Seen
  <2>3. \A b \in Actor : call'[b].seen \subseteq Touched
    BY <1>3, <2>2 DEF Touched
  <2>4. \A b \in Actor :
             IF call'[b].pc = "index" THEN call'[b] = call[b]
             ELSE call'[b].session \in Touched \cup {NoSession}
    BY <1>1, <1>3, SubjectTouched
  <2> QED BY <1>1, <2>1, <2>3, <2>4, FreshKept DEF history
<1>9. ~misread' => RemovalsOver' /\ Written'
  <2> SUFFICES ASSUME ~misread PROVE RemovalsOver' /\ Written'
    BY <1>1 DEF history
  <2>1. NoneRevived /\ Alive' = Alive
    BY <1>1 DEF NoneRevived, Alive, sessions, history
  <2>2. expired' \cap Alive' = {}
    BY <1>1, <2>1 DEF BrokerInv, RemovalsOver, cleanup
  <2>3. call'[a].op = "remove" => call'[a].session \notin Alive'
    BY <1>3, <2>1 DEF BrokerInv, RemovalsOver
  <2> QED BY <1>1, <1>3, <1>6, <2>1, <2>2, <2>3, SafetyMoves DEF reload, history
<1> QED BY <1>4, <1>6, <1>7, <1>8, <1>9 DEF BrokerInv

\* An edit that is over, successful or not: the file has gained or lost the user of the
\* session it was about, nobody else's, and the editor has left the queue.
LEMMA EditOver ==
    ASSUME BrokerInv, NEW a \in Actor, call[a].pc = "editing", writes' = Tail(writes),
           file' \in {file, Edited(call[a])}, call' \in [Actor -> Call],
           call'[a].pc \in {"hup", "purge", "idle"},
           \A b \in Actor \ {a} : call'[b] = call[b]
    PROVE  /\ file' \subseteq Touched /\ file' \subseteq Session
           /\ writes' \in Seq(Actor) /\ InLine' /\ EditorsFile'
           /\ ~misread => \A s \in Alive : s \in file => s \in file'
           /\ call[a].op = "upsert" /\ file' = Edited(call[a]) => call[a].session \in file'
<1>1. call[a].seen = file /\ a = Head(writes) /\ a \in ToSet(writes) /\ writes \in Seq(Actor)
  BY DEF BrokerInv, EditorsFile, InLine, TypeOK
<1>2. call[a].session \in Touched /\ call[a].session \in Session
  BY SubjectTouched DEF BrokerInv, CallsFit
<1>3. file \subseteq Touched /\ file \subseteq Session
  BY DEF Touched, BrokerInv, TypeOK
<1>4. file' \subseteq Touched /\ file' \subseteq Session
  BY <1>1, <1>2, <1>3 DEF Edited
<1>5. writes # <<>>
  BY <1>1, EmptyElements
<1>6. writes' \in Seq(Actor) /\ ToSet(writes) \subseteq ToSet(writes') \cup {a}
  BY <1>1, <1>5, HeadTailElements, HeadOrTail
<1>7. InLine' /\ EditorsFile'
  <2>1. \A b \in Actor \ {a} : call[b].pc # "editing"
    BY <1>1 DEF BrokerInv, InLine
  <2> QED BY <1>6, <2>1 DEF BrokerInv, InLine, EditorsFile
<1>8. ~misread => \A s \in Alive : s \in file => s \in file'
  <2>1. call[a].op \in {"upsert", "remove"}
    BY DEF BrokerInv, CallsFit, TypeOK, Call
  <2>2. call[a].op = "remove" /\ ~misread => call[a].session \notin Alive
    BY DEF BrokerInv, RemovalsOver
  <2> QED BY <1>1, <2>1, <2>2 DEF Edited
<1>9. call[a].op = "upsert" /\ file' = Edited(call[a]) => call[a].session \in file'
  BY DEF Edited
<1> QED BY <1>4, <1>6, <1>7, <1>8, <1>9

\* An edit of the clean-up, or one that failed, keeps the invariant.
LEMMA EditLeaves ==
    ASSUME BrokerInv, NEW a \in Actor,
           EditFails(a) \/ (EndEdit(a) /\ a = Cleaner)
    PROVE  BrokerInv'
<1> DEFINE d == [Idle EXCEPT !.pc = "purge"]
<1>1. d \in Call /\ d.pc = "purge" /\ d.op = "none" /\ d.session = NoSession /\ d.seen = {}
  BY DEF Idle, Call
<1> HIDE DEF d
<1>2. /\ call[a].pc = "editing" /\ writes' = Tail(writes) /\ file' \in {file, Edited(call[a])}
      /\ (call' = [call EXCEPT ![a] = d] \/ call' = [call EXCEPT ![a] = Idle])
      /\ UNCHANGED <<sessions, broker, reload, expired, history>>
      /\ purged' \in BOOLEAN /\ faults' \in Nat
  <2>1. CASE EditFails(a)
    BY <2>1 DEF EditFails, NextPurge, d, Fault, BrokerInv, TypeOK, cleanup
  <2>2. CASE EndEdit(a) /\ a = Cleaner
    BY <2>2, BrokerAssumption DEF EndEdit, NextPurge, d, BrokerInv, TypeOK, reload
  <2> QED BY <2>1, <2>2
<1>3. /\ call' \in [Actor -> Call]
      /\ call'[a].pc \in {"purge", "idle"} /\ call'[a].op = "none"
      /\ call'[a].session = NoSession /\ call'[a].seen = {}
      /\ \A b \in Actor \ {a} : call'[b] = call[b]
  BY <1>1, <1>2, CallTypes DEF BrokerInv, TypeOK
<1>4. /\ file' \subseteq Touched /\ file' \subseteq Session
      /\ writes' \in Seq(Actor) /\ InLine' /\ EditorsFile'
      /\ ~misread => \A s \in Alive : s \in file => s \in file'
  BY <1>2, <1>3, EditOver
<1>5. TypeOK'
  BY <1>2, <1>3, <1>4 DEF BrokerInv, TypeOK, sessions, reload, history
<1>6. CallsFit' /\ HupsApart' /\ Waiting' = Waiting /\ a \notin Waiting
  BY <1>2, <1>3, CallMoves DEF reload
<1>7. FreshUntouched'
  <2>1. file' \cup known' \cup ready' \cup expired' \cup index' \subseteq Touched
    BY <1>2, <1>4 DEF Touched, history, sessions
  <2>2. \A b \in Actor : call[b].seen \subseteq Touched
    BY DEF Touched, Seen
  <2>3. \A b \in Actor : call'[b].seen \subseteq Touched
    BY <1>3, <2>2
  <2>4. \A b \in Actor :
             IF call'[b].pc = "index" THEN call'[b] = call[b]
             ELSE call'[b].session \in Touched \cup {NoSession}
    BY <1>3, SubjectTouched
  <2> QED BY <1>2, <2>1, <2>3, <2>4, FreshKept DEF history
<1>8. ~misread' => RemovalsOver' /\ Written'
  <2> SUFFICES ASSUME ~misread PROVE RemovalsOver' /\ Written'
    BY <1>2 DEF history
  <2>1. NoneRevived /\ Alive' = Alive
    BY <1>2 DEF NoneRevived, Alive, sessions, history
  <2>2. expired' \cap Alive' = {}
    BY <1>2, <2>1 DEF BrokerInv, RemovalsOver
  <2> QED BY <1>2, <1>3, <1>4, <1>6, <2>1, <2>2, SafetyMoves DEF reload, history
<1> QED BY <1>4, <1>5, <1>6, <1>7, <1>8 DEF BrokerInv

\* An edit of a request that is over keeps the invariant: its caller waits for the
\* reload to come with its user in the file.
LEMMA EndEditKeeps ==
    ASSUME BrokerInv, NEW a \in Request, EndEdit(a)
    PROVE  BrokerInv'
<1>1. /\ a \in Actor /\ call[a].pc = "editing" /\ writes' = Tail(writes)
      /\ file' = Edited(call[a]) /\ waiters' = waiters \cup {a} /\ timer' = TRUE
      /\ call' = [call EXCEPT ![a].pc = "hup"]
      /\ UNCHANGED <<sessions, broker, hups, cleanup, history, faults>>
  BY BrokerAssumption DEF EndEdit, ScheduleHupOnce, Actor, cleanup
<1>2. /\ call' \in [Actor -> Call]
      /\ call'[a].pc = "hup" /\ call'[a].op = call[a].op /\ call'[a].seen = call[a].seen
      /\ call'[a].session = call[a].session
      /\ \A b \in Actor \ {a} : call'[b] = call[b]
  BY <1>1 DEF BrokerInv, TypeOK, Call
<1>3. /\ file' \subseteq Touched /\ file' \subseteq Session
      /\ writes' \in Seq(Actor) /\ InLine' /\ EditorsFile'
      /\ ~misread => \A s \in Alive : s \in file => s \in file'
      /\ call[a].op = "upsert" => call[a].session \in file'
  BY <1>1, <1>2, EditOver
<1>4. TypeOK'
  <2>1. /\ {keys', index', rows', file', broker', expired', created', known', ready',
          halfEnded'} \subseteq SUBSET Session
        /\ {purged', misread'} \subseteq BOOLEAN
    BY <1>1, <1>3 DEF BrokerInv, TypeOK, sessions, cleanup, history
  <2>2. timer' \in BOOLEAN /\ waiters' \subseteq Request /\ hups' \subseteq Hup /\ faults' \in Nat
    BY <1>1 DEF BrokerInv, TypeOK
  <2> QED BY <1>2, <1>3, <2>1, <2>2 DEF TypeOK
<1>5. Waiting' = Waiting \cup {a} /\ a \notin Waiting
  BY <1>1 DEF Waiting, BrokerInv, HupsApart
<1>6. CallsFit'
  BY <1>1, <1>2 DEF BrokerInv, CallsFit
<1>7. HupsApart'
  <2>1. \A h \in hups : h.waiters \subseteq Waiting
    BY DEF Waiting
  <2> QED BY <1>1, <1>2, <1>5, <2>1, WaitingFacts DEF BrokerInv, HupsApart
<1>8. FreshUntouched'
  <2>1. file' \cup known' \cup ready' \cup expired' \cup index' \subseteq Touched
    BY <1>1, <1>3 DEF Touched, history, sessions, cleanup
  <2>2. \A b \in Actor : call[b].seen \subseteq Touched
    BY DEF Touched, Seen
  <2>3. \A b \in Actor : call'[b].seen \subseteq Touched
    BY <1>2, <2>2
  <2>4. \A b \in Actor :
             IF call'[b].pc = "index" THEN call'[b] = call[b]
             ELSE call'[b].session \in Touched \cup {NoSession}
    BY <1>1, <1>2, SubjectTouched
  <2> QED BY <1>1, <2>1, <2>3, <2>4, FreshKept DEF history
<1>9. ~misread' => RemovalsOver' /\ Written'
  <2> SUFFICES ASSUME ~misread PROVE RemovalsOver' /\ Written'
    BY <1>1 DEF history
  <2>1. Alive' = Alive
    BY <1>1 DEF Alive, sessions, history
  <2>2. RemovalsOver'
    BY <1>1, <1>2, <2>1 DEF BrokerInv, RemovalsOver, cleanup
  <2>3. \A h \in hups : h.waiters \subseteq Waiting
    BY DEF Waiting
  <2>4. \A r \in Waiting : r \in Actor /\ call'[r] = call[r]
    BY <1>2, <1>5, WaitingFacts
  <2>5. Written'
    BY <1>1, <1>2, <1>3, <1>5, <2>1, <2>3, <2>4 DEF BrokerInv, Written, history
  <2> QED BY <2>2, <2>5
<1> QED BY <1>3, <1>4, <1>6, <1>7, <1>8, <1>9 DEF BrokerInv

\* Steps of the reload: the calls, the file and the sessions are as they were, and
\* nobody begins to wait.
LEMMA ReloadKeeps ==
    ASSUME BrokerInv, UNCHANGED <<sessions, file, call, writes, cleanup, history>>,
           broker' \in {broker, file}, Waiting' \subseteq Waiting,
           timer' \in BOOLEAN, waiters' \subseteq Request, hups' \subseteq Hup, faults' \in Nat,
           \A h \in hups' : h.waiters \cap waiters' = {},
           \A g, h \in hups' : g # h => g.waiters \cap h.waiters = {},
           \A h \in hups' : h.ok =>
             broker' = file \/ \E g \in hups : g.ok /\ h.waiters \subseteq g.waiters
    PROVE  BrokerInv'
<1>1. TypeOK'
  <2>1. /\ {keys', index', rows', file', broker', expired', created', known', ready',
          halfEnded'} \subseteq SUBSET Session
        /\ {purged', misread'} \subseteq BOOLEAN
    BY DEF BrokerInv, TypeOK, sessions, cleanup, history
  <2> QED BY <2>1 DEF BrokerInv, TypeOK
<1>2. CallsFit' /\ InLine' /\ EditorsFile'
  BY DEF BrokerInv, CallsFit, InLine, EditorsFile
<1>3. HupsApart'
  BY DEF BrokerInv, HupsApart
<1>4. FreshUntouched'
  BY DEF BrokerInv, FreshUntouched, Touched, Seen, Subjects, sessions, cleanup, history
<1>5. ~misread' => RemovalsOver' /\ Written'
  <2> SUFFICES ASSUME ~misread PROVE RemovalsOver' /\ Written'
    BY DEF history
  <2>1. Alive' = Alive
    BY DEF Alive, sessions, history
  <2>2. RemovalsOver'
    BY <2>1 DEF BrokerInv, RemovalsOver, cleanup
  <2>3. \A h \in hups' : h.waiters \subseteq Waiting'
    BY DEF Waiting
  <2>4. \A r \in Waiting' :
          call[r].op = "upsert" /\ call[r].session \in Alive => call[r].session \in file
    BY DEF BrokerInv, Written
  <2>5. ready \cap Alive \subseteq file \cap broker'
    BY DEF BrokerInv, Written
  <2>6. \A h \in hups' : \A r \in h.waiters :
          h.ok /\ call[r].op = "upsert" /\ call[r].session \in Alive
            => call[r].session \in broker'
    BY <2>3, <2>4 DEF BrokerInv, Written
  <2> QED BY <2>1, <2>2, <2>4, <2>5, <2>6 DEF Written, history
<1> QED BY <1>1, <1>2, <1>3, <1>4, <1>5 DEF BrokerInv

\* The debounce timer keeps the invariant.
LEMMA HupFiresKeeps ==
    ASSUME BrokerInv, HupFires
    PROVE  BrokerInv'
<1> DEFINE h == [waiters |-> waiters, stage |-> "signal", ok |-> FALSE]
<1>1. h.waiters = waiters /\ ~h.ok /\ h \in Hup
  BY DEF Hup, BrokerInv, TypeOK
<1> HIDE DEF h
<1>2. /\ timer' = FALSE /\ waiters' = {} /\ hups' = hups \cup {h}
      /\ UNCHANGED <<sessions, file, broker, call, writes, cleanup, history, faults>>
  BY DEF HupFires, h
<1>3. Waiting' \subseteq Waiting
  BY <1>1, <1>2 DEF Waiting
<1>4. faults' \in Nat /\ hups' \subseteq Hup
  BY <1>1, <1>2 DEF BrokerInv, TypeOK
<1>5. \A f, g \in hups' : f # g => f.waiters \cap g.waiters = {}
  BY <1>1, <1>2 DEF BrokerInv, HupsApart
<1> QED BY <1>1, <1>2, <1>3, <1>4, <1>5, ReloadKeeps

\* A reload, done or failed, keeps the invariant: the broker now has every user
\* that is in the file.
LEMMA ReloadMqttBrokerKeeps ==
    ASSUME BrokerInv, NEW h \in hups, ReloadMqttBroker(h)
    PROVE  BrokerInv'
<1>1. h \in Hup /\ hups \subseteq Hup
  BY DEF BrokerInv, TypeOK
<1> DEFINE done == [h EXCEPT !.stage = "delay", !.ok = TRUE]
           failed == [h EXCEPT !.stage = "delay"]
<1>2. /\ done \in Hup /\ done.waiters = h.waiters
      /\ failed \in Hup /\ failed.waiters = h.waiters /\ failed.ok = h.ok
  BY <1>1 DEF Hup
<1>3. /\ \/ broker' = file /\ hups' = (hups \ {h}) \cup {done}
         \/ broker' = broker /\ hups' = (hups \ {h}) \cup {failed}
      /\ UNCHANGED <<sessions, file, call, writes, timer, waiters, cleanup, history>>
      /\ faults' \in Nat
  BY DEF ReloadMqttBroker, Fault, BrokerInv, TypeOK
<1> HIDE DEF done, failed
<1>4. PICK g \in Hup :
        /\ g.waiters = h.waiters /\ hups' = (hups \ {h}) \cup {g}
        /\ broker' = file \/ (broker' = broker /\ g.ok = h.ok)
  BY <1>2, <1>3
<1>5. Waiting' \subseteq Waiting
  BY <1>3, <1>4 DEF Waiting
<1>6. /\ \A f \in hups' : f.waiters \cap waiters' = {}
      /\ \A e, f \in hups' : e # f => e.waiters \cap f.waiters = {}
  BY <1>3, <1>4 DEF BrokerInv, HupsApart
<1>7. \A f \in hups' : f.ok =>
        broker' = file \/ \E e \in hups : e.ok /\ f.waiters \subseteq e.waiters
  BY <1>4
<1>8. /\ broker' \in {broker, file} /\ hups' \subseteq Hup
      /\ timer' \in BOOLEAN /\ waiters' \subseteq Request
  BY <1>1, <1>3, <1>4 DEF BrokerInv, TypeOK
<1> QED BY <1>3, <1>5, <1>6, <1>7, <1>8, ReloadKeeps

\* The answer to the waiters of a reload keeps the invariant: each of them is in the
\* broker if the reload was done.
LEMMA HupDoneKeeps ==
    ASSUME BrokerInv, NEW h \in hups, HupDone(h)
    PROVE  BrokerInv'
<1> DEFINE W == h.waiters
           S == {call[r].session : r \in {q \in W : call[q].op = "upsert"}}
<1>1. /\ hups' = hups \ {h} /\ known' = known \cup S
      /\ ready' = IF h.ok THEN ready \cup S ELSE ready
      /\ call' = [a \in Actor |-> IF a \in W THEN Idle ELSE call[a]]
      /\ UNCHANGED <<sessions, file, broker, writes, timer, waiters, cleanup, created, misread,
                     halfEnded, faults>>
  BY DEF HupDone, AnswerWaiters
<1>2. W \subseteq Waiting /\ W \cap waiters = {}
      /\ \A g \in hups \ {h} : g.waiters \cap W = {}
  BY DEF Waiting, BrokerInv, HupsApart
<1>3. \A r \in W : call[r].pc = "hup" /\ call[r].session \in Session /\ call[r].session \in Touched
  BY <1>2, WaitingFacts
<1>4. S \subseteq Session /\ S \subseteq Touched
  BY <1>3
<1>5. \A s \in S : \E r \in W : call[r].op = "upsert" /\ call[r].session = s
  OBVIOUS
<1> HIDE DEF W, S
<1>6. /\ call' \in [Actor -> Call] /\ \A a \in Actor \ W : call'[a] = call[a]
      /\ \A a \in Actor \cap W : call'[a] = Idle
  BY <1>1, CallTypes DEF BrokerInv, TypeOK
<1>7. TypeOK'
  <2>1. /\ {keys', index', rows', file', broker', expired', created', known', ready',
          halfEnded'} \subseteq SUBSET Session
        /\ {purged', misread'} \subseteq BOOLEAN
    BY <1>1, <1>4 DEF BrokerInv, TypeOK, sessions, cleanup
  <2>2. timer' \in BOOLEAN /\ waiters' \subseteq Request /\ hups' \subseteq Hup /\ faults' \in Nat
        /\ writes' \in Seq(Actor)
    BY <1>1 DEF BrokerInv, TypeOK
  <2> QED BY <1>6, <2>1, <2>2 DEF TypeOK
<1>8. CallsFit'
  BY <1>6, CallTypes DEF BrokerInv, CallsFit
<1>9. InLine' /\ EditorsFile'
  BY <1>1, <1>6, CallTypes, LineStays
<1>10. Waiting' \subseteq Waiting \ W
  BY <1>1, <1>2 DEF Waiting
<1>11. \A r \in Waiting' : r \in Waiting /\ r \in Actor /\ call'[r] = call[r]
  BY <1>6, <1>10, WaitingFacts
<1>12. HupsApart'
  BY <1>1, <1>11 DEF BrokerInv, HupsApart
<1>13. FreshUntouched'
  <2>1. file' \cup known' \cup ready' \cup expired' \cup index' \subseteq Touched
    BY <1>1, <1>4 DEF Touched, sessions, cleanup
  <2>2. \A b \in Actor : call[b].seen \subseteq Touched
    BY DEF Touched, Seen
  <2>3. \A b \in Actor : call'[b].seen \subseteq Touched
    BY <1>6, <2>2, CallTypes
  <2>4. \A b \in Actor :
             IF call'[b].pc = "index" THEN call'[b] = call[b]
             ELSE call'[b].session \in Touched \cup {NoSession}
    BY <1>6, SubjectTouched, CallTypes
  <2> QED BY <1>1, <2>1, <2>3, <2>4, FreshKept
<1>14. ~misread' => RemovalsOver' /\ Written'
  <2> SUFFICES ASSUME ~misread PROVE RemovalsOver' /\ Written'
    BY <1>1
  <2>1. Alive' = Alive
    BY <1>1 DEF Alive, sessions, history
  <2>2. RemovalsOver'
    BY <1>1, <1>6, <2>1, CallTypes DEF BrokerInv, RemovalsOver, cleanup
  <2>3. \A s \in S : s \in Alive => s \in file /\ (h.ok => s \in broker)
    BY <1>2, <1>5 DEF BrokerInv, Written, W
  <2>4. ready' \cap Alive \subseteq file \cap broker
    BY <1>1, <2>3 DEF BrokerInv, Written
  <2>5. \A g \in hups' : g \in hups /\ g.waiters \subseteq Waiting'
    BY <1>1 DEF Waiting
  <2>6. \A r \in Waiting' :
          call'[r].op = "upsert" /\ call'[r].session \in Alive => call'[r].session \in file
    BY <1>11 DEF BrokerInv, Written
  <2>7. \A g \in hups' : \A r \in g.waiters :
          g.ok /\ call'[r].op = "upsert" /\ call'[r].session \in Alive
            => call'[r].session \in broker
    BY <1>11, <2>5 DEF BrokerInv, Written
  <2>8. Written'
    BY <1>1, <2>1, <2>4, <2>6, <2>7 DEF Written
  <2> QED BY <2>2, <2>8
<1> QED BY <1>7, <1>8, <1>9, <1>12, <1>13, <1>14 DEF BrokerInv

\* A step of the clean-up that edits nothing: it keeps the invariant if the users it
\* will remove have no session.
LEMMA CleanupKeeps ==
    ASSUME BrokerInv, call[Cleaner].pc \in {"idle", "list", "purge"},
           call' \in [Actor -> Call],
           call'[Cleaner].pc \in {"idle", "list", "purge"}, call'[Cleaner].op = "none",
           call'[Cleaner].session = NoSession, call'[Cleaner].seen \subseteq file,
           \A b \in Actor \ {Cleaner} : call'[b] = call[b],
           index' \subseteq index, expired' \subseteq Touched \cap Session,
           ~misread' => ~misread /\ expired' \cap Alive = {},
           broker' \in {broker, file}, purged' \in BOOLEAN, misread' \in BOOLEAN, faults' \in Nat,
           UNCHANGED <<keys, rows, file, writes, reload, created, known, ready, halfEnded>>
    PROVE  BrokerInv'
<1>1. Cleaner \in Actor
  BY DEF Actor
<1>2. TypeOK'
  <2>1. /\ {keys', index', rows', file', broker', expired', created', known', ready',
          halfEnded'} \subseteq SUBSET Session
        /\ {purged', misread'} \subseteq BOOLEAN
    BY DEF BrokerInv, TypeOK
  <2>2. timer' \in BOOLEAN /\ waiters' \subseteq Request /\ hups' \subseteq Hup
        /\ writes' \in Seq(Actor)
    BY DEF BrokerInv, TypeOK, reload
  <2> QED BY <2>1, <2>2 DEF TypeOK
<1>3. CallsFit' /\ HupsApart' /\ Waiting' = Waiting /\ Cleaner \notin Waiting
  BY <1>1, CallMoves DEF reload
<1>4. InLine' /\ EditorsFile'
  BY LineStays
<1>5. FreshUntouched'
  <2>1. file' \cup known' \cup ready' \cup expired' \cup index' \subseteq Touched
    BY DEF Touched
  <2>2. \A b \in Actor : call[b].seen \subseteq Touched
    BY DEF Touched, Seen
  <2>3. \A b \in Actor : call'[b].seen \subseteq Touched
    BY <2>2 DEF Touched
  <2>4. \A b \in Actor :
             IF call'[b].pc = "index" THEN call'[b] = call[b]
             ELSE call'[b].session \in Touched \cup {NoSession}
    BY SubjectTouched
  <2> QED BY <2>1, <2>3, <2>4, FreshKept
<1>6. ~misread' => RemovalsOver' /\ Written'
  <2> SUFFICES ASSUME ~misread' PROVE RemovalsOver' /\ Written'
    OBVIOUS
  <2>1. ~misread /\ Alive' \subseteq Alive
    BY DEF Alive
  <2>2. RemovalsOver'
    BY <2>1 DEF BrokerInv, RemovalsOver
  <2>3. \A r \in Waiting : r \in Actor /\ call'[r] = call[r]
    BY <1>3, WaitingFacts
  <2>4. \A h \in hups : h.waiters \subseteq Waiting
    BY DEF Waiting
  <2>5. ready' \cap Alive' \subseteq file' \cap broker'
    BY <2>1 DEF BrokerInv, Written
  <2>6. \A r \in Waiting' :
          call'[r].op = "upsert" /\ call'[r].session \in Alive' => call'[r].session \in file'
    BY <1>3, <2>1, <2>3 DEF BrokerInv, Written
  <2>7. \A h \in hups : \A r \in h.waiters :
          h.ok /\ call'[r].op = "upsert" /\ call'[r].session \in Alive'
            => call'[r].session \in broker'
    BY <2>1, <2>3, <2>4 DEF BrokerInv, Written
  <2> QED BY <2>2, <2>5, <2>6, <2>7 DEF Written, reload
<1> QED BY <1>2, <1>3, <1>4, <1>5, <1>6 DEF BrokerInv

\* cleanupExpiredUsers, its reading of the file keeps the invariant.
LEMMA CleanupListKeeps ==
    ASSUME BrokerInv, CleanupList
    PROVE  BrokerInv'
<1> DEFINE d == [Idle EXCEPT !.pc = "list", !.seen = file]
<1>1. d \in Call /\ d.pc = "list" /\ d.op = "none" /\ d.session = NoSession /\ d.seen = file
  BY DEF Idle, Call, BrokerInv, TypeOK
<1> HIDE DEF d
<1>2. /\ call[Cleaner].pc = "idle" /\ call' = [call EXCEPT ![Cleaner] = d] /\ Cleaner \in Actor
      /\ UNCHANGED <<sessions, file, broker, writes, reload, cleanup, history, faults>>
  BY DEF CleanupList, d, Actor
<1>3. /\ call' \in [Actor -> Call] /\ call'[Cleaner] = d
      /\ \A b \in Actor \ {Cleaner} : call'[b] = call[b]
  BY <1>1, <1>2 DEF BrokerInv, TypeOK
<1>4. expired' \subseteq Touched \cap Session /\ (~misread' => ~misread /\ expired' \cap Alive = {})
  BY <1>2 DEF cleanup, history, Touched, BrokerInv, TypeOK, RemovalsOver
<1>5. purged' \in BOOLEAN /\ misread' \in BOOLEAN /\ faults' \in Nat
  BY <1>2 DEF cleanup, history, BrokerInv, TypeOK
<1> QED BY <1>1, <1>2, <1>3, <1>4, <1>5, CleanupKeeps DEF sessions, history

\* The clean-up's comparison keeps the invariant: without the fallback, none of the
\* users it finds expired has a session.
LEMMA CleanupCompareKeeps ==
    ASSUME BrokerInv, CleanupCompare
    PROVE  BrokerInv'
<1> DEFINE d == [Idle EXCEPT !.pc = "purge"]
<1>1. d \in Call /\ d.pc = "purge" /\ d.op = "none" /\ d.session = NoSession /\ d.seen = {}
  BY DEF Idle, Call
<1> HIDE DEF d
<1>2. PICK active : ActiveSessionIds(active) /\ expired' = call[Cleaner].seen \ active
  BY DEF CleanupCompare
<1>3. /\ call[Cleaner].pc = "list" /\ call' = [call EXCEPT ![Cleaner] = d] /\ purged' = FALSE
      /\ UNCHANGED <<keys, rows, file, broker, writes, reload, created, known, ready, halfEnded>>
      /\ Cleaner \in Actor
  BY DEF CleanupCompare, NextPurge, d, Actor
<1>4. /\ call' \in [Actor -> Call] /\ call'[Cleaner] = d
      /\ \A b \in Actor \ {Cleaner} : call'[b] = call[b]
  BY <1>1, <1>3 DEF BrokerInv, TypeOK
<1>5. call[Cleaner].seen \subseteq Touched \cap Session
  BY <1>3, TypeParts DEF Touched, Seen, BrokerInv
<1>6. /\ index' \subseteq index /\ misread' \in BOOLEAN /\ faults' \in Nat
      /\ ~misread' => ~misread /\ Alive \subseteq active
  <2>1. faults \in Nat /\ misread \in BOOLEAN
    BY DEF BrokerInv, TypeOK
  <2>2. CASE active = index \cap keys /\ index' = index \cap keys /\ UNCHANGED <<misread, faults>>
    BY <2>1, <2>2 DEF Alive
  <2>3. CASE Fault("members") /\ misread' = TRUE /\ UNCHANGED index
    BY <2>1, <2>3 DEF Fault
  <2> QED BY <1>2, <2>2, <2>3 DEF ActiveSessionIds
<1> QED BY <1>1, <1>2, <1>3, <1>4, <1>5, <1>6, CleanupKeeps

\* The clean-up's reload keeps the invariant.
LEMMA CleanupReloadKeeps ==
    ASSUME BrokerInv, CleanupReload
    PROVE  BrokerInv'
<1>1. /\ call[Cleaner].pc = "purge" /\ call' = [call EXCEPT ![Cleaner] = Idle]
      /\ broker' \in {broker, file} /\ faults' \in Nat /\ Cleaner \in Actor
      /\ UNCHANGED <<sessions, file, writes, reload, cleanup, history>>
  BY DEF CleanupReload, Fault, Actor, BrokerInv, TypeOK
<1>2. /\ call' \in [Actor -> Call] /\ call'[Cleaner] = Idle
      /\ \A b \in Actor \ {Cleaner} : call'[b] = call[b]
  BY <1>1, CallTypes DEF BrokerInv, TypeOK
<1>3. expired' \subseteq Touched \cap Session /\ (~misread' => ~misread /\ expired' \cap Alive = {})
  BY <1>1 DEF cleanup, history, Touched, BrokerInv, TypeOK, RemovalsOver
<1>4. purged' \in BOOLEAN /\ misread' \in BOOLEAN
  BY <1>1 DEF cleanup, history, BrokerInv, TypeOK
<1> QED BY <1>1, <1>2, <1>3, <1>4, CallTypes, CleanupKeeps DEF sessions, history

\* A crash keeps the invariant: an edit that still finishes began from the file as it is.
LEMMA CrashKeeps ==
    ASSUME BrokerInv, Crash
    PROVE  BrokerInv'
<1>1. /\ call' = [a \in Actor |-> Idle] /\ writes' = <<>> /\ timer' = FALSE /\ waiters' = {}
      /\ hups' = {} /\ expired' = {} /\ purged' = FALSE
      /\ UNCHANGED <<sessions, broker, history>>
      /\ faults' \in Nat
  BY DEF Crash, Fault, BrokerInv, TypeOK
<1>2. \A a \in Actor : call'[a] = Idle
  BY <1>1
<1>3. /\ file' \subseteq Touched /\ file' \subseteq Session
      /\ ~misread => \A s \in Alive : s \in file => s \in file'
  <2>1. CASE file' = file
    BY <2>1 DEF Touched, BrokerInv, TypeOK
  <2>2. ASSUME NEW a \in Actor, call[a].pc = "editing", file' = Edited(call[a])
        PROVE  /\ file' \subseteq Touched /\ file' \subseteq Session
               /\ ~misread => \A s \in Alive : s \in file => s \in file'
    <3>1. call[a].seen = file /\ file \subseteq Touched /\ file \subseteq Session
      BY <2>2 DEF BrokerInv, EditorsFile, Touched, TypeOK
    <3>2. call[a].session \in Touched /\ call[a].session \in Session
      BY <2>2, SubjectTouched DEF BrokerInv, CallsFit
    <3>3. call[a].op \in {"upsert", "remove"}
      BY <2>2 DEF BrokerInv, CallsFit, TypeOK, Call
    <3>4. call[a].op = "remove" /\ ~misread => call[a].session \notin Alive
      BY DEF BrokerInv, RemovalsOver
    <3> QED BY <2>2, <3>1, <3>2, <3>3, <3>4 DEF Edited
  <2> QED BY <2>1, <2>2 DEF Crash
<1>4. TypeOK'
  <2>1. call' \in [Actor -> Call] /\ writes' \in Seq(Actor)
    BY <1>1, CallTypes, EmptySeq
  <2>2. /\ file' \subseteq Session /\ expired' = {}
        /\ UNCHANGED <<keys, index, rows, broker, created, known, ready, misread, halfEnded>>
    BY <1>1, <1>3 DEF BrokerInv, TypeOK, sessions, history
  <2>3. /\ {keys, index, rows, broker, created, known, ready, halfEnded} \subseteq SUBSET Session
        /\ misread \in BOOLEAN
    BY DEF BrokerInv, TypeOK
  <2>4. {keys', index', rows', broker', created', known', ready', halfEnded'}
             \subseteq SUBSET Session
        /\ misread' \in BOOLEAN
    BY <2>2, <2>3
  <2>5. {keys', index', rows', file', broker', expired', created', known', ready', halfEnded'}
             \subseteq SUBSET Session
    BY <2>2, <2>4
  <2>6. {purged', misread'} \subseteq BOOLEAN
    BY <1>1, <2>4
  <2> QED BY <1>1, <2>1, <2>5, <2>6 DEF TypeOK
<1>5. CallsFit' /\ InLine' /\ EditorsFile'
  BY <1>2, CallTypes DEF CallsFit, InLine, EditorsFile
<1>6. HupsApart' /\ Waiting' = {}
  BY <1>1 DEF HupsApart, Waiting
<1>7. FreshUntouched'
  <2>1. file' \cup known' \cup ready' \cup expired' \cup index' \subseteq Touched
    BY <1>1, <1>3 DEF Touched, history, sessions
  <2>2. \A b \in Actor :
             IF call'[b].pc = "index" THEN call'[b] = call[b]
             ELSE call'[b].session \in Touched \cup {NoSession}
    BY <1>2, CallTypes
  <2>3. \A b \in Actor : call'[b].seen \subseteq Touched
    BY <1>2, CallTypes
  <2> QED BY <1>1, <2>1, <2>2, <2>3, FreshKept DEF history
<1>8. ~misread' => RemovalsOver' /\ Written'
  <2>1. Alive' = Alive /\ ready' = ready /\ misread' = misread
    BY <1>1 DEF Alive, sessions, history
  <2>2. RemovalsOver'
    BY <1>1, <1>2, CallTypes DEF RemovalsOver
  <2>3. ~misread => ready \cap Alive \subseteq file' \cap broker'
    BY <1>1, <1>3 DEF BrokerInv, Written
  <2> QED BY <1>1, <1>6, <2>1, <2>2, <2>3 DEF Written
<1> QED BY <1>4, <1>5, <1>6, <1>7, <1>8 DEF BrokerInv

\* Every step keeps the invariant.
LEMMA BrokerInvStep == BrokerInv /\ [Next]_vars => BrokerInv'
<1> SUFFICES ASSUME BrokerInv, [Next]_vars PROVE BrokerInv'
  OBVIOUS
<1>1. CASE UNCHANGED vars
  <2>1. UNCHANGED <<sessions, file, broker, call, writes, reload, cleanup, history, faults>>
    BY <1>1 DEF vars
  <2>2. Waiting' = Waiting /\ (\A h \in hups : h.waiters \cap waiters = {})
        /\ \A g, h \in hups : g # h => g.waiters \cap h.waiters = {}
    BY <2>1 DEF Waiting, reload, BrokerInv, HupsApart
  <2> QED BY <2>1, <2>2, ReloadKeeps DEF reload, BrokerInv, TypeOK
<1>2. CASE User
  BY <1>2, CreateSessionKeeps, VerifySessionKeeps, EndReadKeeps DEF User
<1>3. ASSUME NEW r \in Request, Handler(r) PROVE BrokerInv'
  BY <1>3, IndexSessionKeeps, EndDeleteKeeps DEF Handler
<1>4. ASSUME NEW s \in Session, ExpireSession(s) PROVE BrokerInv'
  BY <1>4, ExpireSessionKeeps
<1>5. ASSUME NEW a \in Actor, Edit(a) \/ EditFails(a) PROVE BrokerInv'
  BY <1>5, BeginEditKeeps, EditLeaves, EndEditKeeps DEF Edit, Actor
<1>6. CASE Reload
  BY <1>6, HupFiresKeeps, ReloadMqttBrokerKeeps, HupDoneKeeps DEF Reload
<1>7. CASE Cleanup
  BY <1>7, CleanupListKeeps, CleanupCompareKeeps, CleanupReloadKeeps, CleanupNextKeeps
     DEF Cleanup
<1>8. CASE Crash
  BY <1>8, CrashKeeps
<1> QED BY <1>1, <1>2, <1>3, <1>4, <1>5, <1>6, <1>7, <1>8 DEF Next

\* The broker's users keep their types, for every instance: what the code writes to
\* the file, to Redis and to the queue of edits is always users, sessions and callers.
THEOREM BrokerTypeCorrect == Spec => []TypeOK
<1>1. BrokerInv => TypeOK
  BY DEF BrokerInv
<1> QED BY <1>1, BrokerInvInit, BrokerInvStep, PTL DEF Spec

\* CredentialsWork for any number of sessions and requests and under every failure and
\* crash: whoever was told that the broker has its user can connect as long as Redis
\* lists the session, unless its host has ended it and the deletion failed, or the
\* clean-up has once taken the fallback for the truth.
THEOREM CredentialsAlwaysWork == Spec => []CredentialsWork
<1>1. BrokerInv => CredentialsWork
  BY DEF BrokerInv, Written, Alive, CredentialsWork
<1> QED BY <1>1, BrokerInvInit, BrokerInvStep, PTL DEF Spec
-----------------------------------------------------------------------------
(* LiveUsersKept, and what exactly it takes.                               *)
(*                                                                         *)
(* It speaks of every stored session, not of those in the index, and does  *)
(* not except a clean-up that has read the fallback. Three failures break  *)
(* it, one is enough: a SET ("save"), an SADD ("index") and the SMEMBERS   *)
(* of the clean-up ("members"). Without them no session has a row, and a   *)
(* session is in the index before anybody but its creator knows of it.     *)

\* The sessions that somebody was told of, or whose user is to be written.
Told ==
    known \cup ready
    \cup {call[a].session : a \in {b \in Actor : call[b].op = "upsert"}}

\* Redis has every session there is, and lists it by the time it is told.
ToldAreListed == rows = {} /\ ~misread /\ keys \cap Told \subseteq index

\* Where nobody new is told of, but for the sessions X.
LEMMA ToldFrom ==
    ASSUME NEW X, known' \cup ready' \subseteq Told \cup X,
           \A b \in Actor : call'[b].op = "upsert" => call'[b].session \in Told \cup X
    PROVE  Told' \subseteq Told \cup X
BY DEF Told

\* A call that writes a user was told of its session.
LEMMA WritersTold ==
    ASSUME NEW a \in Actor, call[a].op = "upsert"
    PROVE  call[a].session \in Told
BY DEF Told

\* Nobody is told of an id before it is used.
LEMMA ToldAreCreated ==
    ASSUME BrokerInv
    PROVE  Told \cap Session \subseteq created
<1>1. \A a \in Actor : call[a].op = "upsert" => call[a].session \in Touched
  <2> SUFFICES ASSUME NEW a \in Actor, call[a].op = "upsert" PROVE call[a].session \in Touched
    OBVIOUS
  <2>1. call[a].pc # "index"
    BY DEF BrokerInv, CallsFit
  <2> QED BY <2>1, SubjectTouched
<1>2. Told \subseteq Touched
  BY <1>1 DEF Told, Touched
<1> QED BY <1>2 DEF BrokerInv, FreshUntouched

\* The two parts of the record that enqueueWrite leaves of a call.
LEMMA EnqueueWriteCall ==
    ASSUME BrokerInv, NEW a \in Actor, NEW op \in {"upsert", "remove"}, NEW s \in Session,
           EnqueueWrite(a, op, s)
    PROVE  /\ call'[a].op = op /\ call'[a].session = s
           /\ \A b \in Actor \ {a} : call'[b] = call[b]
BY EnqueueWriteMakes

\* A new id is nobody's yet: no session becomes told and not listed.
LEMMA CreateListed ==
    ASSUME BrokerInv, ToldAreListed, "save" \notin Faults, NEW r \in Request,
           NEW s \in Session, CreateSession(r, s)
    PROVE  ToldAreListed'
<1> DEFINE d == [Idle EXCEPT !.pc = "index", !.session = s]
<1>1. d.op = "none"
  BY DEF Idle
<1>2. /\ s \notin created /\ keys' = keys \cup {s} /\ call' = [call EXCEPT ![r] = d]
      /\ rows' = rows /\ UNCHANGED <<index, known, ready, misread>>
  BY DEF CreateSession, Fault
<1> HIDE DEF d
<1>3. r \in Actor /\ call \in [Actor -> Call]
  BY DEF Actor, BrokerInv, TypeOK
<1>4. \A b \in Actor : call'[b].op = "upsert" => call'[b].session \in Told
  BY <1>1, <1>2, <1>3, WritersTold
<1>5. Told' \subseteq Told
  <2>1. known' \cup ready' \subseteq Told \cup {}
    BY <1>2 DEF Told
  <2> QED BY <1>4, <2>1, ToldFrom
<1>6. s \notin Told
  BY <1>2, ToldAreCreated
<1> QED BY <1>2, <1>5, <1>6 DEF ToldAreListed

\* An id is listed before its creator queues the edit.
LEMMA IndexListed ==
    ASSUME BrokerInv, ToldAreListed, "index" \notin Faults, NEW r \in Request, IndexSession(r)
    PROVE  ToldAreListed'
<1> DEFINE s == call[r].session
<1>1. r \in Actor /\ s \in Session
  BY DEF IndexSession, BrokerInv, CallsFit, Actor
<1>2. /\ index' = index \cup {s} /\ EnqueueWrite(r, "upsert", s)
      /\ UNCHANGED <<keys, rows, known, ready, misread>>
  BY DEF IndexSession, Fault, history
<1>3. \A b \in Actor : call'[b].op = "upsert" => call'[b].session \in Told \cup {s}
  BY <1>1, <1>2, EnqueueWriteCall, WritersTold
<1> HIDE DEF s
<1>4. Told' \subseteq Told \cup {s}
  <2>1. known' \cup ready' \subseteq Told \cup {s}
    BY <1>2 DEF Told
  <2> QED BY <1>3, <2>1, ToldFrom
<1> QED BY <1>2, <1>4 DEF ToldAreListed

\* A verification writes the user of a session that is told.
LEMMA VerifyListed ==
    ASSUME BrokerInv, ToldAreListed, NEW r \in Request, NEW s \in Session, VerifySession(r, s)
    PROVE  ToldAreListed'
<1>1. /\ r \in Actor /\ s \in Told /\ EnqueueWrite(r, "upsert", s)
      /\ UNCHANGED <<keys, rows, index, known, ready, misread>>
  BY DEF VerifySession, sessions, history, Actor, Told
<1>2. \A b \in Actor : call'[b].op = "upsert" => call'[b].session \in Told
  BY <1>1, EnqueueWriteCall, WritersTold
<1>3. Told' \subseteq Told
  <2>1. known' \cup ready' \subseteq Told \cup {}
    BY <1>1 DEF Told
  <2> QED BY <1>2, <2>1, ToldFrom
<1> QED BY <1>1, <1>3 DEF ToldAreListed

\* An end takes a session from the index only where its key is gone.
LEMMA EndDeleteListed ==
    ASSUME BrokerInv, ToldAreListed, NEW r \in Request, EndDelete(r)
    PROVE  ToldAreListed'
<1> DEFINE s == call[r].session
<1>1. r \in Actor /\ s \in Session
  BY DEF EndDelete, BrokerInv, CallsFit, Actor
<1>2. /\ keys' \subseteq keys /\ rows' \subseteq rows
      /\ keys' \cap index \subseteq index' \cup {s} /\ (s \in keys' => index' = index)
      /\ EnqueueWrite(r, "remove", s)
      /\ UNCHANGED <<known, ready, misread>>
  BY <1>1, DeleteSessionMakes DEF EndDelete
<1>3. \A b \in Actor : call'[b].op = "upsert" => call'[b].session \in Told
  BY <1>1, <1>2, EnqueueWriteCall, WritersTold
<1> HIDE DEF s
<1>4. Told' \subseteq Told
  <2>1. known' \cup ready' \subseteq Told \cup {}
    BY <1>2 DEF Told
  <2> QED BY <1>3, <2>1, ToldFrom
<1> QED BY <1>2, <1>4 DEF ToldAreListed

\* Nor is anybody told anything by the steps that follow: they keep the invariant.
LEMMA OthersListed ==
    ASSUME BrokerInv, ToldAreListed, keys' \subseteq keys, rows' \subseteq rows,
           keys' \cap index \subseteq index', misread' = misread,
           known' \cup ready' \subseteq Told,
           \A b \in Actor : call'[b].op = "upsert" =>
             call[b].op = "upsert" /\ call'[b].session = call[b].session
    PROVE  ToldAreListed'
<1>1. \A b \in Actor : call'[b].op = "upsert" => call'[b].session \in Told
  BY WritersTold
<1>2. Told' \subseteq Told
  BY <1>1, ToldFrom
<1> QED BY <1>2 DEF ToldAreListed

\* The first half of an end.
LEMMA EndReadListed ==
    ASSUME BrokerInv, ToldAreListed, NEW r \in Request, NEW s \in Session, EndRead(r, s)
    PROVE  ToldAreListed'
<1> DEFINE d == [Idle EXCEPT !.pc = "delete", !.session = s]
<1>1. d.op = "none"
  BY DEF Idle
<1>2. /\ call' = [call EXCEPT ![r] = d]
      /\ UNCHANGED <<keys, rows, index, known, ready, misread>>
  BY DEF EndRead, sessions, history
<1> HIDE DEF d
<1>3. \A b \in Actor : call'[b].op = "upsert" => call'[b] = call[b]
  BY <1>1, <1>2 DEF Actor, BrokerInv, TypeOK
<1>4. known \cup ready \subseteq Told
  BY DEF Told
<1> QED BY <1>2, <1>3, <1>4, OthersListed

\* The edits.
LEMMA EditsListed ==
    ASSUME BrokerInv, ToldAreListed, NEW a \in Actor, Edit(a) \/ EditFails(a)
    PROVE  ToldAreListed'
<1>1. call \in [Actor -> Call] /\ Cleaner \in Actor
  BY DEF Actor, BrokerInv, TypeOK
<1>2. UNCHANGED <<keys, rows, index, known, ready, misread>>
  BY DEF Edit, BeginEdit, EndEdit, EditFails, sessions, history
<1>3. known \cup ready \subseteq Told
  BY DEF Told
<1>4. CASE BeginEdit(a)
  <2>1. call' = [call EXCEPT ![a].pc = "editing", ![a].seen = file]
    BY <1>4 DEF BeginEdit
  <2>2. \A b \in Actor : call'[b].op = call[b].op /\ call'[b].session = call[b].session
    BY <1>1, <2>1 DEF Call
  <2> QED BY <1>2, <1>3, <2>2, OthersListed
<1>5. CASE EndEdit(a)
  <2>1. \/ call' = [call EXCEPT ![a].pc = "hup"]
        \/ call' = [call EXCEPT ![Cleaner] = [Idle EXCEPT !.pc = "purge"]]
    BY <1>5 DEF EndEdit, ScheduleHupOnce, NextPurge
  <2>2. \A b \in Actor : call'[b].op = "upsert" =>
             call[b].op = "upsert" /\ call'[b].session = call[b].session
    BY <1>1, <2>1 DEF Call, Idle
  <2> QED BY <1>2, <1>3, <2>2, OthersListed
<1>6. CASE EditFails(a)
  <2>1. \/ call' = [call EXCEPT ![a] = Idle]
        \/ call' = [call EXCEPT ![Cleaner] = [Idle EXCEPT !.pc = "purge"]]
    BY <1>6 DEF EditFails, NextPurge
  <2>2. \A b \in Actor : call'[b].op = "upsert" =>
             call[b].op = "upsert" /\ call'[b].session = call[b].session
    BY <1>1, <2>1 DEF Idle
  <2> QED BY <1>2, <1>3, <2>2, OthersListed
<1> QED BY <1>4, <1>5, <1>6 DEF Edit

\* The reloads.
LEMMA ReloadsListed ==
    ASSUME BrokerInv, ToldAreListed, Reload
    PROVE  ToldAreListed'
<1>1. known \cup ready \subseteq Told
  BY DEF Told
<1>2. CASE HupFires
  BY <1>1, <1>2, OthersListed DEF HupFires, sessions, history
<1>3. ASSUME NEW h \in hups, ReloadMqttBroker(h) PROVE ToldAreListed'
  BY <1>1, <1>3, OthersListed DEF ReloadMqttBroker, sessions, history
<1>4. ASSUME NEW h \in hups, HupDone(h) PROVE ToldAreListed'
  <2> DEFINE S == {call[r].session : r \in {q \in h.waiters : call[q].op = "upsert"}}
  <2>1. /\ known' = known \cup S /\ (ready' = ready \/ ready' = ready \cup S)
        /\ call' = [a \in Actor |-> IF a \in h.waiters THEN Idle ELSE call[a]]
        /\ UNCHANGED <<keys, rows, index, misread>>
    BY <1>4 DEF HupDone, AnswerWaiters, sessions
  <2>2. h.waiters \subseteq Actor
    BY DEF BrokerInv, TypeOK, Hup, Actor
  <2>3. S \subseteq Told
    BY <2>2 DEF Told
  <2> HIDE DEF S
  <2>4. \A b \in Actor : call'[b].op = "upsert" => call'[b] = call[b]
    BY <2>1, CallTypes
  <2> QED BY <1>1, <2>1, <2>3, <2>4, OthersListed
<1> QED BY <1>2, <1>3, <1>4 DEF Reload

\* The clean-up, where it reads the sessions that Redis lists.
LEMMA CleanupListed ==
    ASSUME BrokerInv, ToldAreListed, "members" \notin Faults, Cleanup
    PROVE  ToldAreListed'
<1>1. known \cup ready \subseteq Told /\ call \in [Actor -> Call] /\ Cleaner \in Actor
  BY DEF Told, Actor, BrokerInv, TypeOK
<1>2. ASSUME CleanupList \/ CleanupReload PROVE ToldAreListed'
  <2> DEFINE d == [Idle EXCEPT !.pc = "list", !.seen = file]
  <2>0. d.op = "none" /\ Idle.op = "none"
    BY DEF Idle
  <2>1. call' = [call EXCEPT ![Cleaner] = d] \/ call' = [call EXCEPT ![Cleaner] = Idle]
    BY <1>2 DEF CleanupList, CleanupReload
  <2> HIDE DEF d
  <2>2. UNCHANGED <<keys, rows, index, known, ready, misread>>
    BY <1>2 DEF CleanupList, CleanupReload, sessions, history
  <2>3. \A b \in Actor : call'[b].op = "upsert" => call'[b] = call[b]
    BY <1>1, <2>0, <2>1
  <2> QED BY <1>1, <2>2, <2>3, OthersListed
<1>3. CASE CleanupCompare
  <2>1. /\ call' = [call EXCEPT ![Cleaner] = [Idle EXCEPT !.pc = "purge"]]
        /\ UNCHANGED <<keys, rows, known, ready>>
    BY <1>3 DEF CleanupCompare, NextPurge
  <2>2. index' = index \cap keys /\ misread' = misread
    BY <1>3 DEF CleanupCompare, ActiveSessionIds, Fault
  <2>3. \A b \in Actor : call'[b].op = "upsert" => call'[b] = call[b]
    BY <1>1, <2>1 DEF Idle
  <2> QED BY <1>1, <2>1, <2>2, <2>3, OthersListed
<1>4. ASSUME NEW s \in expired, CleanupNext(s) PROVE ToldAreListed'
  <2>1. s \in Session
    BY DEF BrokerInv, TypeOK
  <2>2. /\ EnqueueWrite(Cleaner, "remove", s)
        /\ UNCHANGED <<keys, rows, index, known, ready, misread>>
    BY <1>4 DEF CleanupNext, sessions, history
  <2>3. \A b \in Actor : call'[b].op = "upsert" => call'[b] = call[b]
    BY <1>1, <2>1, <2>2, EnqueueWriteCall
  <2> QED BY <1>1, <2>2, <2>3, OthersListed
<1> QED BY <1>2, <1>3, <1>4 DEF Cleanup

\* Whoever was told that the broker has its user can connect as long as its session is
\* stored and its host has not ended it, whatever else fails: edits, reloads, deletions
\* and the process. The hypothesis is what mosquittoPasswdSync.js:246 takes for granted,
\* that Redis knows every session; of the three kinds of failure it excludes TLC breaks
\* the property with one of any kind.
THEOREM LiveUsersAreKept ==
    ASSUME Faults \cap {"save", "index", "members"} = {}
    PROVE  Spec => []LiveUsersKept
<1>1. Init => ToldAreListed
  BY CallTypes DEF Init, ToldAreListed
<1>2. BrokerInv /\ ToldAreListed /\ [Next]_vars => ToldAreListed'
  <2> SUFFICES ASSUME BrokerInv, ToldAreListed, [Next]_vars PROVE ToldAreListed'
    OBVIOUS
  <2>1. CASE UNCHANGED vars
    <3>1. UNCHANGED <<keys, rows, index, known, ready, misread, call>>
      BY <2>1 DEF vars, sessions, history
    <3> QED BY <3>1 DEF ToldAreListed, Told
  <2>2. ASSUME NEW r \in Request, NEW s \in Session,
               CreateSession(r, s) \/ VerifySession(r, s) \/ EndRead(r, s)
        PROVE  ToldAreListed'
    BY <2>2, CreateListed, VerifyListed, EndReadListed
  <2>3. ASSUME NEW r \in Request, Handler(r) PROVE ToldAreListed'
    BY <2>3, IndexListed, EndDeleteListed DEF Handler
  <2>4. ASSUME NEW s \in Session, ExpireSession(s) PROVE ToldAreListed'
    <3>1. known \cup ready \subseteq Told
      BY DEF Told
    <3> QED BY <2>4, <3>1, OthersListed DEF ExpireSession, history
  <2>5. ASSUME NEW a \in Actor, Edit(a) \/ EditFails(a) PROVE ToldAreListed'
    BY <2>5, EditsListed
  <2>6. CASE Reload
    BY <2>6, ReloadsListed
  <2>7. CASE Cleanup
    BY <2>7, CleanupListed
  <2>8. CASE Crash
    <3>1. known \cup ready \subseteq Told
      BY DEF Told
    <3> QED BY <2>8, <3>1, CallTypes, OthersListed DEF Crash, sessions, history
  <2> QED BY <2>1, <2>2, <2>3, <2>4, <2>5, <2>6, <2>7, <2>8 DEF Next, User
<1>3. BrokerInv /\ ToldAreListed => LiveUsersKept
  <2> SUFFICES ASSUME BrokerInv, ToldAreListed, NEW s \in ready \ halfEnded, Stored(s)
               PROVE  s \in broker
    BY DEF LiveUsersKept
  <2>1. s \in keys /\ s \in index
    BY DEF ToldAreListed, Told, Stored
  <2> QED BY <2>1 DEF BrokerInv, ToldAreListed, Written, Alive
<1> QED BY <1>1, <1>2, <1>3, BrokerInvInit, BrokerInvStep, PTL DEF Spec
-----------------------------------------------------------------------------
(* The file is edited as UserTable says.                                   *)

Waits(a) == call[a].pc \in {"queued", "editing"}
Order(a) == [op |-> call[a].op, user |-> call[a].session]

LEMMA AskedIs ==
    /\ Asked = {Order(a) : a \in {b \in Actor : Waits(b)}}
    /\ Asked' = {Order(a)' : a \in {b \in Actor : Waits(b)'}}
BY DEF Asked, Order, Waits

\* Who waits has asked for an edit of some session.
LEMMA OrdersFit ==
    ASSUME BrokerInv, NEW a \in Actor, Waits(a)
    PROVE  /\ Order(a) \in Table!Edit /\ Order(a) \in Asked
           /\ Order(a).op = call[a].op /\ Order(a).user = call[a].session
<1>1. call[a].op \in {"upsert", "remove"}
  BY DEF BrokerInv, TypeOK, CallsFit, Call, Waits
<1>2. call[a].session \in Session
  BY DEF BrokerInv, CallsFit, Waits
<1>3. Order(a) \in Asked
  BY AskedIs
<1> QED BY <1>1, <1>2, <1>3 DEF Order, Table!Edit

\* Where no waiting call moves, nothing is asked for.
LEMMA AskedStays ==
    ASSUME \A a \in Actor : (Waits(a)' <=> Waits(a)) /\ (Waits(a) => Order(a)' = Order(a))
    PROVE  Asked' = Asked
BY AskedIs

\* enqueueWrite asks for one edit.
LEMMA EnqueueAsks ==
    ASSUME BrokerInv, NEW a \in Actor, ~Waits(a), NEW op \in {"upsert", "remove"},
           NEW s \in Session, EnqueueWrite(a, op, s), UNCHANGED <<file, broker>>
    PROVE  Table!TableNext
<1> DEFINE e == [op |-> op, user |-> s]
<1>1. /\ call'[a].pc = "queued" /\ call'[a].op = op /\ call'[a].session = s
      /\ \A b \in Actor \ {a} : call'[b] = call[b]
  BY EnqueueWriteMakes
<1>2. Waits(a)' /\ Order(a)' = e
  BY <1>1 DEF Waits, Order
<1>3. \A b \in Actor \ {a} : (Waits(b)' <=> Waits(b)) /\ Order(b)' = Order(b)
  BY <1>1 DEF Waits, Order
<1> HIDE DEF e
<1>4. Asked' = Asked \cup {e}
  BY <1>2, <1>3, AskedIs
<1>5. e \in Table!Edit
  BY DEF e, Table!Edit
<1> QED BY <1>4, <1>5 DEF Table!Ask, Table!TableNext

\* Edited is what the table becomes by the edit that was asked for.
LEMMA EditIsMade ==
    ASSUME BrokerInv, NEW a \in Actor, call[a].pc = "editing"
    PROVE  Edited(call[a]) = Table!Made(Order(a))
<1>1. call[a].seen = file
  BY DEF BrokerInv, EditorsFile
<1>2. Order(a).op = call[a].op /\ Order(a).user = call[a].session
  BY OrdersFit DEF Waits
<1> QED BY <1>1, <1>2 DEF Edited, Table!Made

\* An edit that ends, made or not, is asked for no longer, unless another asks for it.
LEMMA EditFinishes ==
    ASSUME BrokerInv, NEW a \in Actor, call[a].pc = "editing",
           file' \in {file, Edited(call[a])}, broker' = broker,
           ~Waits(a)', \A b \in Actor \ {a} : call'[b] = call[b]
    PROVE  Table!TableNext
<1>1. Waits(a)
  BY DEF Waits
<1>2. \A b \in Actor \ {a} : (Waits(b)' <=> Waits(b)) /\ Order(b)' = Order(b)
  BY DEF Waits, Order
<1>3. Asked' \subseteq Asked /\ Asked \subseteq Asked' \cup {Order(a)}
  BY <1>2, AskedIs
<1>4. Asked' \in {Asked, Asked \ {Order(a)}}
  BY <1>3
<1>5. file' \in {file, Table!Made(Order(a))}
  BY EditIsMade
<1>6. Order(a) \in Asked
  BY <1>1, OrdersFit
<1> QED BY <1>4, <1>5, <1>6 DEF Table!Finish, Table!TableNext

\* A step of the requests, or of time, asks for an edit or changes nothing here.
LEMMA RequestsAsk ==
    ASSUME BrokerInv, NEW r \in Request, NEW s \in Session,
           CreateSession(r, s) \/ VerifySession(r, s) \/ EndRead(r, s)
    PROVE  [Table!TableNext]_(Table!table)
<1>1. r \in Actor /\ call[r].pc = "idle" /\ ~Waits(r) /\ call \in [Actor -> Call]
  BY DEF CreateSession, VerifySession, EndRead, Actor, Waits, BrokerInv, TypeOK
<1>2. UNCHANGED <<file, broker>>
  BY DEF CreateSession, VerifySession, EndRead
<1>3. ASSUME EnqueueWrite(r, "upsert", s) PROVE Table!TableNext
  BY <1>1, <1>2, <1>3, EnqueueAsks
<1>4. ASSUME NEW d, d.pc \in {"index", "delete"}, call' = [call EXCEPT ![r] = d]
      PROVE  Asked' = Asked
  BY <1>1, <1>4, AskedStays DEF Waits, Order
<1> DEFINE i == [Idle EXCEPT !.pc = "index", !.session = s]
           d == [Idle EXCEPT !.pc = "delete", !.session = s]
<1>5. i.pc = "index" /\ d.pc = "delete"
  BY DEF Idle
<1>6. \/ EnqueueWrite(r, "upsert", s)
      \/ call' = [call EXCEPT ![r] = i]
      \/ call' = [call EXCEPT ![r] = d]
  BY DEF CreateSession, VerifySession, EndRead
<1> HIDE DEF i, d
<1>7. Table!TableNext \/ Asked' = Asked
  BY <1>3, <1>4, <1>5, <1>6
<1> QED BY <1>2, <1>7 DEF Table!table

LEMMA HandlersAsk ==
    ASSUME BrokerInv, NEW r \in Request, Handler(r)
    PROVE  Table!TableNext
<1>1. r \in Actor /\ call[r].pc \in {"index", "delete"} /\ UNCHANGED <<file, broker>>
  BY DEF Handler, IndexSession, EndDelete, Actor
<1>2. call[r].session \in Session /\ ~Waits(r)
  BY <1>1 DEF BrokerInv, CallsFit, Waits
<1>3. \E op \in {"upsert", "remove"} : EnqueueWrite(r, op, call[r].session)
  BY DEF Handler, IndexSession, EndDelete
<1> QED BY <1>1, <1>2, <1>3, EnqueueAsks

\* An edit that begins changes nothing; one that ends is made, or given up.
LEMMA EditsFinish ==
    ASSUME BrokerInv, NEW a \in Actor, Edit(a) \/ EditFails(a)
    PROVE  [Table!TableNext]_(Table!table)
<1>1. call \in [Actor -> Call] /\ broker' = broker
  BY DEF Edit, BeginEdit, EndEdit, EditFails, BrokerInv, TypeOK
<1>2. CASE BeginEdit(a)
  <2>1. /\ call[a].pc = "queued" /\ file' = file
        /\ call' = [call EXCEPT ![a].pc = "editing", ![a].seen = file]
    BY <1>2 DEF BeginEdit
  <2>2. \A b \in Actor : /\ call'[b].op = call[b].op /\ call'[b].session = call[b].session
                         /\ b # a => call'[b].pc = call[b].pc
    BY <1>1, <2>1 DEF Call
  <2>3. call'[a].pc = "editing"
    BY <1>1, <2>1 DEF Call
  <2>4. Asked' = Asked
    BY <2>1, <2>2, <2>3, AskedStays DEF Waits, Order
  <2> QED BY <1>1, <2>1, <2>4 DEF Table!table
<1>3. CASE EndEdit(a) \/ EditFails(a)
  <2>1. call[a].pc = "editing" /\ file' \in {file, Edited(call[a])}
    BY <1>3 DEF EndEdit, EditFails
  <2>2. \/ call' = [call EXCEPT ![a].pc = "hup"]
        \/ call' = [call EXCEPT ![a] = [Idle EXCEPT !.pc = "purge"]]
        \/ call' = [call EXCEPT ![a] = Idle]
    BY <1>3 DEF EndEdit, EditFails, ScheduleHupOnce, NextPurge
  <2>3. call'[a].pc \in {"hup", "purge", "idle"} /\ \A b \in Actor \ {a} : call'[b] = call[b]
    BY <1>1, <2>2 DEF Call, Idle
  <2> QED BY <1>1, <2>1, <2>3, EditFinishes DEF Waits
<1> QED BY <1>2, <1>3 DEF Edit

\* A reload is a load of the whole table; the timers and the answers do nothing to it.
LEMMA ReloadsLoad ==
    ASSUME BrokerInv, Reload
    PROVE  [Table!TableNext]_(Table!table)
<1>1. ASSUME broker' \in {broker, file}, file' = file, Asked' = Asked
      PROVE  [Table!TableNext]_(Table!table)
  BY <1>1 DEF Table!Load, Table!TableNext, Table!table
<1>2. file' = file /\ broker' \in {broker, file}
  <2>1. CASE HupFires
    BY <2>1 DEF HupFires
  <2>2. ASSUME NEW h \in hups, ReloadMqttBroker(h)
        PROVE  file' = file /\ broker' \in {broker, file}
    BY <2>2 DEF ReloadMqttBroker
  <2>3. ASSUME NEW h \in hups, HupDone(h)
        PROVE  file' = file /\ broker' \in {broker, file}
    BY <2>3 DEF HupDone
  <2> QED BY <2>1, <2>2, <2>3 DEF Reload
<1>3. Asked' = Asked
  <2>1. CASE HupFires \/ \E h \in hups : ReloadMqttBroker(h)
    <3>1. ASSUME HupFires PROVE call' = call
      BY <3>1 DEF HupFires
    <3>2. ASSUME NEW h \in hups, ReloadMqttBroker(h) PROVE call' = call
      BY <3>2 DEF ReloadMqttBroker
    <3>3. call' = call
      BY <2>1, <3>1, <3>2
    <3> QED BY <3>3, AskedStays DEF Waits, Order
  <2>2. ASSUME NEW h \in hups, HupDone(h) PROVE Asked' = Asked
    <3>1. \A a \in Actor : call'[a] = IF a \in h.waiters THEN Idle ELSE call[a]
      BY <2>2 DEF HupDone, AnswerWaiters
    <3>2. \A a \in h.waiters : call[a].pc = "hup"
      BY DEF BrokerInv, HupsApart, Waiting
    <3> QED BY <3>1, <3>2, CallTypes, AskedStays DEF Waits, Order
  <2> QED BY <2>1, <2>2 DEF Reload
<1> QED BY <1>1, <1>2, <1>3

\* The clean-up asks for removals, one at a time, and has the broker load the file.
LEMMA CleanupAsks ==
    ASSUME BrokerInv, Cleanup
    PROVE  [Table!TableNext]_(Table!table)
<1>1. Cleaner \in Actor /\ call \in [Actor -> Call] /\ file' = file
  BY DEF Actor, BrokerInv, TypeOK, Cleanup, CleanupList, CleanupCompare, CleanupReload,
         CleanupNext
<1>2. ASSUME NEW s \in expired, CleanupNext(s) PROVE Table!TableNext
  <2>1. s \in Session
    BY DEF BrokerInv, TypeOK
  <2>2. EnqueueWrite(Cleaner, "remove", s) /\ ~Waits(Cleaner) /\ broker' = broker
    BY <1>2 DEF CleanupNext, Waits
  <2> QED BY <1>1, <2>1, <2>2, EnqueueAsks
<1>3. ASSUME CleanupList \/ CleanupCompare \/ CleanupReload
      PROVE  [Table!TableNext]_(Table!table)
  <2>1. call[Cleaner].pc \in {"idle", "list", "purge"} /\ broker' \in {broker, file}
    BY <1>3 DEF CleanupList, CleanupCompare, CleanupReload
  <2>2. \E d : /\ call' = [call EXCEPT ![Cleaner] = d]
               /\ d.pc \in {"idle", "list", "purge"}
    <3>1. /\ [Idle EXCEPT !.pc = "list", !.seen = file].pc = "list"
          /\ [Idle EXCEPT !.pc = "purge"].pc = "purge" /\ Idle.pc = "idle"
      BY DEF Idle
    <3>2. \/ call' = [call EXCEPT ![Cleaner] = [Idle EXCEPT !.pc = "list", !.seen = file]]
          \/ call' = [call EXCEPT ![Cleaner] = [Idle EXCEPT !.pc = "purge"]]
          \/ call' = [call EXCEPT ![Cleaner] = Idle]
      BY <1>3 DEF CleanupList, CleanupCompare, CleanupReload, NextPurge
    <3> QED BY <3>1, <3>2
  <2>3. Asked' = Asked
    BY <1>1, <2>1, <2>2, AskedStays DEF Waits, Order
  <2> QED BY <1>1, <2>1, <2>3 DEF Table!Load, Table!TableNext, Table!table
<1> QED BY <1>2, <1>3 DEF Cleanup

\* A crash forgets what was asked for; the command that runs may still finish.
LEMMA CrashRestarts ==
    ASSUME BrokerInv, Crash
    PROVE  Table!TableNext
<1>1. Asked' = {}
  BY CallTypes DEF Crash, Asked
<1>2. file' \in {file} \cup {Table!Made(e) : e \in Asked}
  <2>1. CASE file' = file
    BY <2>1
  <2>2. ASSUME NEW a \in Actor, call[a].pc = "editing", file' = Edited(call[a])
        PROVE  file' \in {Table!Made(e) : e \in Asked}
    BY <2>2, EditIsMade, OrdersFit DEF Waits
  <2> QED BY <2>1, <2>2 DEF Crash
<1> QED BY <1>1, <1>2 DEF Crash, Table!Restart, Table!TableNext

\* Each edit of the password file is made to the file as it stands: however many
\* requests and the clean-up want to edit it, whatever fails and whenever the process
\* dies, no edit undoes another and none is made that nobody asked for.
THEOREM EditsAreInTurn == Spec => EditsInTurn
<1>1. Init => Table!TableInit
  BY CallTypes DEF Init, Asked, Table!TableInit
<1>2. BrokerInv /\ [Next]_vars => [Table!TableNext]_(Table!table)
  <2> SUFFICES ASSUME BrokerInv, [Next]_vars PROVE [Table!TableNext]_(Table!table)
    OBVIOUS
  <2>1. CASE UNCHANGED vars
    BY <2>1 DEF vars, Asked, Table!table
  <2>2. ASSUME NEW r \in Request, NEW s \in Session,
               CreateSession(r, s) \/ VerifySession(r, s) \/ EndRead(r, s)
        PROVE  [Table!TableNext]_(Table!table)
    BY <2>2, RequestsAsk
  <2>3. ASSUME NEW r \in Request, Handler(r) PROVE Table!TableNext
    BY <2>3, HandlersAsk
  <2>4. ASSUME NEW s \in Session, ExpireSession(s) PROVE UNCHANGED Table!table
    BY <2>4 DEF ExpireSession, Asked, Table!table
  <2>5. ASSUME NEW a \in Actor, Edit(a) \/ EditFails(a) PROVE [Table!TableNext]_(Table!table)
    BY <2>5, EditsFinish
  <2>6. CASE Reload
    BY <2>6, ReloadsLoad
  <2>7. CASE Cleanup
    BY <2>7, CleanupAsks
  <2>8. CASE Crash
    BY <2>8, CrashRestarts
  <2> QED BY <2>1, <2>2, <2>3, <2>4, <2>5, <2>6, <2>7, <2>8 DEF Next, User
<1> QED BY <1>1, <1>2, BrokerInvInit, BrokerInvStep, PTL DEF Spec, EditsInTurn, Table!TableSpec
=============================================================================
