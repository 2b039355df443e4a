------------------------ MODULE RemoteSessionProofs ------------------------
(***************************************************************************)
(* Theorems about RemoteSession, for any number of requests and stations,  *)
(* of attempts, invites and failures.                                      *)
(*                                                                         *)
(* TypeInv adds to TypeOK what a request holds at each of its awaits; it   *)
(* is inductive by itself.  SessionInv is the strengthening under which    *)
(* the promises of a session are inductive: every invite the record has    *)
(* had is known and never drawn again (InvitesSound), a station id is used *)
(* by one join (JoinsSound), and a kick that has still to swap finds its   *)
(* station in the record, while one that has swapped does not              *)
(* (KicksSound).                                                           *)
(***************************************************************************)
EXTENDS RemoteSession, TLAPS

-----------------------------------------------------------------------------
(* The inductive invariants.                                               *)

Joining(r) == call[r].op = "join"
Kicking(r) == call[r].op = "kick"

\* A request that has still to swap the record.
Pending(r) == call[r].pc \in {"read", "swap"}

\* What a request holds at each of its awaits.
CallsSound ==
    \A r \in Request :
        /\ call[r].pc = "idle" => call[r].op = "none"
        /\ call[r].pc = "register" => Joining(r)
        /\ Pending(r) => Joining(r) \/ Kicking(r)
        /\ call[r].pc = "code" => Kicking(r)
        /\ call[r].pc \in {"delete", "dbDelete"} => call[r].op = "end"
        /\ Joining(r) \/ Kicking(r) => call[r].station \in Station
        /\ call[r].pc = "swap" => call[r].raw \in Session

TypeInv == TypeOK /\ CallsSound

\* Before the session is created nothing has happened to it.
NothingYet ==
    issued = 0 =>
        /\ redis = Absent /\ mysql = NoRow /\ codes = {}
        /\ call = [r \in Request |-> Idle]
        /\ dead = {} /\ valid = {} /\ answered = {} /\ ~deleted
        /\ joined = {} /\ mapped = {} /\ targets = {} /\ kicked = {}

\* The record's invite is one that was never replaced; the invites of the kicks
\* under way are new, and each kick has its own.
InvitesSound ==
    /\ dead \subseteq valid /\ valid \subseteq 1..issued
    /\ redis # Absent => redis.challenge \in valid \ dead
    /\ \A r \in Request : Kicking(r) /\ Pending(r)
         => call[r].challenge \in (1..issued) \ valid
    /\ \A q, r \in Request :
         q # r /\ Kicking(q) /\ Pending(q) /\ Kicking(r) /\ Pending(r)
           => call[q].challenge # call[r].challenge

\* A station id belongs to one join, and to none once it was answered.
JoinsSound ==
    /\ joined \subseteq drawn
    /\ \A r \in Request : Joining(r) => call[r].station \in drawn \ joined
    /\ \A q, r \in Request :
         q # r /\ Joining(q) /\ Joining(r) => call[q].station # call[r].station

\* Whom a kick names has joined; with one kick of a station at a time, only that
\* kick takes the station out of the record.
KicksSound ==
    /\ kicked \subseteq targets /\ targets \subseteq joined
    /\ \A r \in Request : Kicking(r) => call[r].station \in targets
    /\ OneKick =>
         /\ \A q, r \in Request :
              q # r /\ Kicking(q) /\ Kicking(r) => call[q].station # call[r].station
         /\ \A r \in Request : Kicking(r) /\ Pending(r) /\ redis # Absent
              => call[r].station \in redis.stations
         /\ \A r \in Request : call[r].pc = "code"
              => /\ call[r].challenge \in valid
                 /\ redis # Absent => call[r].station \notin redis.stations

SessionInv ==
    /\ TypeInv /\ NothingYet
    /\ InvitesSound /\ JoinsSound /\ KicksSound
    /\ StationsKept /\ EndedStaysEnded
    /\ OneKick => KickIsReal

-----------------------------------------------------------------------------
(* The initial state.                                                      *)

\* The initial state satisfies every part of the invariant.
LEMMA SessionInvInit == Init => SessionInv
<1> SUFFICES ASSUME Init PROVE SessionInv
  OBVIOUS
<1>1. TypeInv
  BY DEF Init, TypeInv, TypeOK, CallsSound, Joining, Kicking, Pending, Call, Idle, NoRow
<1>2. NothingYet
  BY DEF Init, NothingYet
<1>3. InvitesSound /\ JoinsSound /\ KicksSound
  BY DEF Init, InvitesSound, JoinsSound, KicksSound, Joining, Kicking, Idle
<1>4. StationsKept /\ EndedStaysEnded /\ KickIsReal
  BY DEF Init, StationsKept, EndedStaysEnded, KickIsReal
<1> QED BY <1>1, <1>2, <1>3, <1>4 DEF SessionInv

\* A request that is answered has a call of the right type again.
LEMMA IdleType == Idle \in Call
BY DEF Idle, Call

\* A station enters its mapping by the script: the types are kept.
LEMMA RegisterStationType ==
    ASSUME TypeInv, NEW r \in Request, RegisterStation(r)
    PROVE  TypeInv'
<1>1. call' \in [Request -> Call]
  BY DEF TypeInv, TypeOK, Call, Idle, RegisterStation, AnswerJoin
<1>2. TypeOK'
  <2>1. redis' \in Session \cup {Absent} /\ mysql' \in Nat /\ issued' \in Nat /\ faults' \in Nat
    BY DEF TypeInv, TypeOK, CallsSound, Session, RegisterStation
  <2>2. /\ codes' \subseteq Nat /\ deleted' \in BOOLEAN /\ dead' \subseteq Nat
        /\ valid' \subseteq Nat /\ answered' \subseteq Nat
    BY DEF TypeInv, TypeOK, RegisterStation
  <2>3. /\ drawn' \subseteq Station /\ mapped' \subseteq Station /\ joined' \subseteq Station
        /\ targets' \subseteq Station /\ kicked' \subseteq Station
    BY DEF TypeInv, TypeOK, CallsSound, RegisterStation, AnswerJoin
  <2> QED BY <1>1, <2>1, <2>2, <2>3 DEF TypeOK
<1>3. CallsSound'
  BY DEF TypeInv, CallsSound, Joining, Kicking, Pending, Idle, RegisterStation, AnswerJoin
<1> QED BY <1>2, <1>3 DEF TypeInv

\* A station enters its mapping by the script: the invariant is kept.
LEMMA RegisterStationKeeps ==
    ASSUME SessionInv, NEW r \in Request, RegisterStation(r)
    PROVE  SessionInv'
<1> USE DEF SessionInv, TypeInv
<1>1. NothingYet'
  BY DEF NothingYet, Idle, RegisterStation
<1>2. InvitesSound'
  BY DEF InvitesSound, Kicking, Pending, Idle, RegisterStation, AnswerJoin
<1>3. JoinsSound'
  BY DEF JoinsSound, CallsSound, Joining, TypeOK, Idle, RegisterStation, AnswerJoin, store,
         history
<1>4. KicksSound'
  BY DEF KicksSound, JoinsSound, CallsSound, Kicking, Pending, Idle, RegisterStation, AnswerJoin
<1>5. StationsKept' /\ EndedStaysEnded'
  BY DEF StationsKept, EndedStaysEnded, RegisterStation, AnswerJoin
<1>6. OneKick => KickIsReal'
  BY DEF KickIsReal, KicksSound, JoinsSound, CallsSound, RegisterStation
<1> QED BY <1>1, <1>2, <1>3, <1>4, <1>5, <1>6, RegisterStationType

\* The script of a station's mapping fails: the types are kept.
LEMMA RegisterFailsType ==
    ASSUME TypeInv, NEW r \in Request, RegisterFails(r)
    PROVE  TypeInv'
<1>1. call' \in [Request -> Call]
  BY DEF TypeInv, TypeOK, Call, RegisterFails
<1>2. TypeOK'
  <2>1. redis' \in Session \cup {Absent} /\ mysql' \in Nat /\ issued' \in Nat /\ faults' \in Nat
    BY DEF TypeInv, TypeOK, CallsSound, Session, RegisterFails, Fault
  <2>2. /\ codes' \subseteq Nat /\ deleted' \in BOOLEAN /\ dead' \subseteq Nat
        /\ valid' \subseteq Nat /\ answered' \subseteq Nat
    BY DEF TypeInv, TypeOK, RegisterFails, history
  <2>3. /\ drawn' \subseteq Station /\ mapped' \subseteq Station /\ joined' \subseteq Station
        /\ targets' \subseteq Station /\ kicked' \subseteq Station
    BY DEF TypeInv, TypeOK, RegisterFails, history
  <2> QED BY <1>1, <2>1, <2>2, <2>3 DEF TypeOK
<1>3. CallsSound'
  BY DEF TypeInv, CallsSound, Joining, Kicking, Pending, RegisterFails
<1> QED BY <1>2, <1>3 DEF TypeInv

\* The script of a station's mapping fails: the invariant is kept.
LEMMA RegisterFailsKeeps ==
    ASSUME SessionInv, NEW r \in Request, RegisterFails(r)
    PROVE  SessionInv'
<1> USE DEF SessionInv, TypeInv
<1>1. NothingYet'
  BY DEF NothingYet, Idle, RegisterFails
<1>2. InvitesSound'
  BY DEF InvitesSound, CallsSound, Joining, Kicking, Pending, TypeOK, Session, RegisterFails,
         history
<1>3. JoinsSound'
  BY DEF JoinsSound, Joining, RegisterFails, store, history
<1>4. KicksSound'
  BY DEF KicksSound, JoinsSound, CallsSound, Kicking, Pending, TypeOK, Session, RegisterFails,
         history
<1>5. StationsKept' /\ EndedStaysEnded'
  BY DEF StationsKept, EndedStaysEnded, TypeOK, Session, RegisterFails, history
<1>6. OneKick => KickIsReal'
  BY DEF KickIsReal, KicksSound, JoinsSound, CallsSound, TypeOK, Session, RegisterFails, history
<1> QED BY <1>1, <1>2, <1>3, <1>4, <1>5, <1>6, RegisterFailsType

\* A station is authorised: the types are kept.
LEMMA JoinReadType ==
    ASSUME TypeInv, NEW r \in Request, NEW c \in (1..issued) \cup {HostCall}, JoinRead(r, c)
    PROVE  TypeInv'
<1>1. call' \in [Request -> Call]
  <2>1. c \in Nat /\ call \in [Request -> Call]
    BY DEF HostCall, TypeInv, TypeOK
  <2>2. PICK s \in Station :
              call' = [call EXCEPT ![r] = [Idle EXCEPT !.pc = "register", !.op = "join",
                                             !.station = s, !.challenge = c]]
    BY DEF JoinRead
  <2>3. [Idle EXCEPT !.pc = "register", !.op = "join", !.station = s,
                     !.challenge = c] \in Call
    BY <2>1 DEF Idle, Call
  <2> QED BY <2>1, <2>2, <2>3
<1>2. TypeOK'
  <2>1. redis' \in Session \cup {Absent} /\ mysql' \in Nat /\ issued' \in Nat /\ faults' \in Nat
    BY DEF TypeInv, TypeOK, NoRow, GetSession, JoinRead, Fault, store
  <2>2. /\ codes' \subseteq Nat /\ deleted' \in BOOLEAN /\ dead' \subseteq Nat
        /\ valid' \subseteq Nat /\ answered' \subseteq Nat
    BY DEF TypeInv, TypeOK, JoinRead, store
  <2>3. /\ drawn' \subseteq Station /\ mapped' \subseteq Station /\ joined' \subseteq Station
        /\ targets' \subseteq Station /\ kicked' \subseteq Station
    BY DEF TypeInv, TypeOK, JoinRead
  <2> QED BY <1>1, <2>1, <2>2, <2>3 DEF TypeOK
<1>3. CallsSound'
  BY DEF TypeInv, CallsSound, Joining, Kicking, Pending, JoinRead
<1> QED BY <1>2, <1>3 DEF TypeInv

\* A station is authorised: the invariant is kept.
LEMMA JoinReadKeeps ==
    ASSUME SessionInv, NEW r \in Request, NEW c \in (1..issued) \cup {HostCall}, JoinRead(r, c)
    PROVE  SessionInv'
<1> USE DEF SessionInv, TypeInv
<1>1. NothingYet'
  BY DEF NothingYet, GetSession, Stored, Fallback, JoinRead
<1>2. InvitesSound'
  BY DEF InvitesSound, Kicking, Pending, JoinRead, store
<1>3. JoinsSound'
  BY DEF JoinsSound, Joining, JoinRead
<1>4. KicksSound'
  BY DEF KicksSound, Kicking, Pending, JoinRead, store
<1>5. StationsKept' /\ EndedStaysEnded'
  BY DEF StationsKept, EndedStaysEnded, JoinRead, store
<1>6. OneKick => KickIsReal'
  BY DEF KickIsReal, JoinRead, store
<1> QED BY <1>1, <1>2, <1>3, <1>4, <1>5, <1>6, JoinReadType

\* A host starts a kick: the types are kept.
LEMMA KickReadType ==
    ASSUME TypeInv, NEW r \in Request, NEW s \in Station, KickRead(r, s)
    PROVE  TypeInv'
<1>1. call' \in [Request -> Call]
  <2>1. issued + 1 \in Nat /\ call \in [Request -> Call]
    BY DEF TypeInv, TypeOK
  <2>2. call' = [call EXCEPT ![r] = [Idle EXCEPT !.pc = "read", !.op = "kick",
                                       !.station = s, !.challenge = issued + 1]]
    BY DEF KickRead
  <2>3. [Idle EXCEPT !.pc = "read", !.op = "kick", !.station = s,
                     !.challenge = issued + 1] \in Call
    BY <2>1 DEF Idle, Call
  <2> QED BY <2>1, <2>2, <2>3
<1>2. TypeOK'
  <2>1. redis' \in Session \cup {Absent} /\ mysql' \in Nat /\ issued' \in Nat /\ faults' \in Nat
    BY DEF TypeInv, TypeOK, NoRow, HostCall, GetSession, KickRead, Fault, store
  <2>2. /\ codes' \subseteq Nat /\ deleted' \in BOOLEAN /\ dead' \subseteq Nat
        /\ valid' \subseteq Nat /\ answered' \subseteq Nat
    BY DEF TypeInv, TypeOK, KickRead, store
  <2>3. /\ drawn' \subseteq Station /\ mapped' \subseteq Station /\ joined' \subseteq Station
        /\ targets' \subseteq Station /\ kicked' \subseteq Station
    BY DEF TypeInv, TypeOK, KickRead
  <2> QED BY <1>1, <2>1, <2>2, <2>3 DEF TypeOK
<1>3. CallsSound'
  BY DEF TypeInv, CallsSound, Joining, Kicking, Pending, KickRead
<1> QED BY <1>2, <1>3 DEF TypeInv

\* A host starts a kick: the invariant is kept.
LEMMA KickReadKeeps ==
    ASSUME SessionInv, NEW r \in Request, NEW s \in Station, KickRead(r, s)
    PROVE  SessionInv'
<1> USE DEF SessionInv, TypeInv
<1>1. NothingYet'
  BY DEF NothingYet, TypeOK, KickRead
<1>2. InvitesSound'
  BY DEF InvitesSound, Kicking, Pending, TypeOK, KickRead, store
<1>3. JoinsSound'
  BY DEF JoinsSound, Joining, KickRead
<1>4. KicksSound'
  BY DEF KicksSound, Kicking, Pending, GetSession, Stored, Fallback, KickRead, store
<1>5. StationsKept' /\ EndedStaysEnded'
  BY DEF StationsKept, EndedStaysEnded, KickRead, store
<1>6. OneKick => KickIsReal'
  BY DEF KickIsReal, KickRead, store
<1> QED BY <1>1, <1>2, <1>3, <1>4, <1>5, <1>6, KickReadType

\* An attempt of updateSession reads: the types are kept.
LEMMA CasReadType ==
    ASSUME TypeInv, NEW r \in Request, CasRead(r)
    PROVE  TypeInv'
<1>1. call' \in [Request -> Call]
  <2>1. call \in [Request -> Call]
    BY DEF TypeInv, TypeOK
  <2>2. CASE redis = Absent
    BY <2>1, <2>2, IdleType DEF CasRead, GiveUp, AnswerJoin
  <2>3. CASE redis # Absent
    <3> DEFINE b == call[r].applied \/ call[r].station \in redis.stations
    <3>1. redis \in Session /\ b \in BOOLEAN
      BY <2>1, <2>3 DEF TypeInv, TypeOK
    <3>2. call' = [call EXCEPT ![r].pc = "swap", ![r].raw = redis, ![r].applied = b]
      BY <2>1, <2>3 DEF CasRead
    <3> DEFINE c == [call[r] EXCEPT !.pc = "swap", !.raw = redis, !.applied = b]
    <3> HIDE DEF b
    <3>3. c \in Call
      BY <2>1, <3>1 DEF Call
    <3>4. call' = [call EXCEPT ![r] = c]
      BY <3>2
    <3> QED BY <2>1, <3>3, <3>4
  <2> QED BY <2>2, <2>3
<1>2. TypeOK'
  <2>1. redis' \in Session \cup {Absent} /\ mysql' \in Nat /\ issued' \in Nat /\ faults' \in Nat
    BY DEF TypeInv, TypeOK, CasRead, store
  <2>2. /\ codes' \subseteq Nat /\ deleted' \in BOOLEAN /\ dead' \subseteq Nat
        /\ valid' \subseteq Nat /\ answered' \subseteq Nat
    BY DEF TypeInv, TypeOK, CasRead, store
  <2>3. /\ drawn' \subseteq Station /\ mapped' \subseteq Station /\ joined' \subseteq Station
        /\ targets' \subseteq Station /\ kicked' \subseteq Station
    BY DEF TypeInv, TypeOK, CallsSound, Pending, CasRead, GiveUp, AnswerJoin
  <2> QED BY <1>1, <2>1, <2>2, <2>3 DEF TypeOK
<1>3. CallsSound'
  BY DEF TypeInv, TypeOK, CallsSound, Joining, Kicking, Pending, Call, Idle, CasRead, GiveUp,
         AnswerJoin
<1> QED BY <1>2, <1>3 DEF TypeInv

\* An attempt of updateSession reads: the invariant is kept.
LEMMA CasReadKeeps ==
    ASSUME SessionInv, NEW r \in Request, CasRead(r)
    PROVE  SessionInv'
<1> USE DEF SessionInv, TypeInv
<1>1. NothingYet'
  BY DEF NothingYet, Idle, CasRead
<1>2. InvitesSound'
  BY DEF InvitesSound, Kicking, Pending, TypeOK, Call, Idle, CasRead, GiveUp, AnswerJoin, store
<1>3. JoinsSound'
  BY DEF JoinsSound, Joining, TypeOK, Call, Idle, CasRead, GiveUp, AnswerJoin
<1>4. KicksSound'
  BY RemoteAssumption DEF KicksSound, CallsSound, Joining, Kicking, Pending, TypeOK, Call, Idle,
                          GetSession, Stored, Fallback, CasRead, GiveUp, AnswerJoin, store,
                          history
<1>5. StationsKept' /\ EndedStaysEnded'
  BY DEF StationsKept, EndedStaysEnded, CasRead, store
<1>6. OneKick => KickIsReal'
  BY DEF KickIsReal, CasRead, store
<1> QED BY <1>1, <1>2, <1>3, <1>4, <1>5, <1>6, CasReadType

\* An attempt of updateSession swaps: the types are kept.
LEMMA CasSwapType ==
    ASSUME TypeInv, NEW r \in Request, CasSwap(r)
    PROVE  TypeInv'
<1>1. call' \in [Request -> Call]
  BY IdleType DEF CasSwap, Updating, AnswerJoin, TypeInv, TypeOK, Call
<1>2. TypeOK'
  <2>1. redis' \in Session \cup {Absent} /\ mysql' \in Nat /\ issued' \in Nat /\ faults' \in Nat
    BY DEF TypeInv, TypeOK, CallsSound, Pending, Call, Session, CasSwap, Swap, Updated, Updating,
           AnswerJoin
  <2>2. /\ codes' \subseteq Nat /\ deleted' \in BOOLEAN /\ dead' \subseteq Nat
        /\ valid' \subseteq Nat /\ answered' \subseteq Nat
    BY DEF TypeInv, TypeOK, CallsSound, Call, Session, CasSwap, Swap, Updated, Updating,
           AnswerJoin
  <2>3. /\ drawn' \subseteq Station /\ mapped' \subseteq Station /\ joined' \subseteq Station
        /\ targets' \subseteq Station /\ kicked' \subseteq Station
    BY DEF TypeInv, TypeOK, CallsSound, Pending, CasSwap, Updating, AnswerJoin
  <2> QED BY <1>1, <2>1, <2>2, <2>3 DEF TypeOK
<1>3. CallsSound'
  BY DEF TypeInv, TypeOK, CallsSound, Joining, Kicking, Pending, Call, Idle, CasSwap, Updating,
         AnswerJoin
<1> QED BY <1>2, <1>3 DEF TypeInv

\* An attempt of updateSession swaps: the invariant is kept.
LEMMA CasSwapKeeps ==
    ASSUME SessionInv, NEW r \in Request, CasSwap(r)
    PROVE  SessionInv'
<1> USE DEF SessionInv, TypeInv
<1>1. NothingYet'
  BY DEF NothingYet, Idle, CasSwap
<1>2. InvitesSound'
  BY RemoteAssumption DEF InvitesSound, CallsSound, Kicking, Pending, TypeOK, Session, Call, Idle,
                          CasSwap, Swap, Updated, Updating, AnswerJoin
<1>3. JoinsSound'
  BY DEF JoinsSound, Joining, TypeOK, Call, Idle, CasSwap, Updating, AnswerJoin, store, history
<1>4. KicksSound'
  BY RemoteAssumption DEF KicksSound, JoinsSound, NothingYet, CallsSound, Kicking, Pending,
                          TypeOK, Session, Call, Idle, GetSession, Stored, Fallback, CasSwap,
                          Swap, Updated, Updating, AnswerJoin, store, history
<1>5. StationsKept' /\ EndedStaysEnded'
  BY RemoteAssumption DEF StationsKept, EndedStaysEnded, KicksSound, CallsSound, Kicking, Session,
                          CasSwap, Swap, Updated, Updating, AnswerJoin, store, history
<1>6. OneKick => KickIsReal'
  BY RemoteAssumption DEF KickIsReal, KicksSound, JoinsSound, CallsSound, Pending, Session,
                          CasSwap, Swap, Updated, Updating, AnswerJoin, store, history
<1> QED BY <1>1, <1>2, <1>3, <1>4, <1>5, <1>6, CasSwapType

\* An attempt of updateSession finds the record changed: the types are kept.
LEMMA CasLosesType ==
    ASSUME TypeInv, NEW r \in Request, CasLoses(r)
    PROVE  TypeInv'
<1>1. call' \in [Request -> Call]
  BY IdleType DEF CasLoses, GiveUp, AnswerJoin, TypeInv, TypeOK, Call
<1>2. TypeOK'
  <2>1. redis' \in Session \cup {Absent} /\ mysql' \in Nat /\ issued' \in Nat /\ faults' \in Nat
    BY DEF TypeInv, TypeOK, CasLoses, store
  <2>2. /\ codes' \subseteq Nat /\ deleted' \in BOOLEAN /\ dead' \subseteq Nat
        /\ valid' \subseteq Nat /\ answered' \subseteq Nat
    BY DEF TypeInv, TypeOK, CasLoses, store
  <2>3. /\ drawn' \subseteq Station /\ mapped' \subseteq Station /\ joined' \subseteq Station
        /\ targets' \subseteq Station /\ kicked' \subseteq Station
    BY DEF TypeInv, TypeOK, CallsSound, Pending, CasLoses, GiveUp, AnswerJoin
  <2> QED BY <1>1, <2>1, <2>2, <2>3 DEF TypeOK
<1>3. CallsSound'
  BY DEF TypeInv, TypeOK, CallsSound, Joining, Kicking, Pending, Call, Idle, CasLoses, GiveUp,
         AnswerJoin
<1> QED BY <1>2, <1>3 DEF TypeInv

\* An attempt of updateSession finds the record changed: the invariant is kept.
LEMMA CasLosesKeeps ==
    ASSUME SessionInv, NEW r \in Request, CasLoses(r)
    PROVE  SessionInv'
<1> USE DEF SessionInv, TypeInv
<1>1. NothingYet'
  BY DEF NothingYet, Idle, CasLoses
<1>2. InvitesSound'
  BY DEF InvitesSound, Kicking, Pending, TypeOK, Call, Idle, CasLoses, GiveUp, AnswerJoin, store
<1>3. JoinsSound'
  BY DEF JoinsSound, Joining, TypeOK, Call, Idle, CasLoses, GiveUp, AnswerJoin
<1>4. KicksSound'
  BY DEF KicksSound, CallsSound, Joining, Kicking, Pending, TypeOK, Call, Idle, CasLoses, GiveUp,
         AnswerJoin, store
<1>5. StationsKept' /\ EndedStaysEnded'
  BY DEF StationsKept, EndedStaysEnded, CasLoses, GiveUp, AnswerJoin, store
<1>6. OneKick => KickIsReal'
  BY DEF KickIsReal, CasLoses, store
<1> QED BY <1>1, <1>2, <1>3, <1>4, <1>5, <1>6, CasLosesType

\* An attempt of updateSession throws: the types are kept.
LEMMA CasFailsType ==
    ASSUME TypeInv, NEW r \in Request, CasFails(r)
    PROVE  TypeInv'
<1>1. call' \in [Request -> Call]
  BY IdleType DEF CasFails, GiveUp, AnswerJoin, TypeInv, TypeOK
<1>2. TypeOK'
  <2>1. redis' \in Session \cup {Absent} /\ mysql' \in Nat /\ issued' \in Nat /\ faults' \in Nat
    BY DEF TypeInv, TypeOK, CallsSound, Pending, Call, Session, CasFails, Fault, Swap, Updated,
           GiveUp, AnswerJoin
  <2>2. /\ codes' \subseteq Nat /\ deleted' \in BOOLEAN /\ dead' \subseteq Nat
        /\ valid' \subseteq Nat /\ answered' \subseteq Nat
    BY DEF TypeInv, TypeOK, Call, Session, CasFails, Swap, Updated, GiveUp, AnswerJoin
  <2>3. /\ drawn' \subseteq Station /\ mapped' \subseteq Station /\ joined' \subseteq Station
        /\ targets' \subseteq Station /\ kicked' \subseteq Station
    BY DEF TypeInv, TypeOK, CallsSound, Pending, CasFails, GiveUp, AnswerJoin
  <2> QED BY <1>1, <2>1, <2>2, <2>3 DEF TypeOK
<1>3. CallsSound'
  BY DEF TypeInv, TypeOK, CallsSound, Joining, Kicking, Pending, Idle, CasFails, GiveUp,
         AnswerJoin
<1> QED BY <1>2, <1>3 DEF TypeInv

\* An attempt of updateSession throws: the invariant is kept.
LEMMA CasFailsKeeps ==
    ASSUME SessionInv, NEW r \in Request, CasFails(r)
    PROVE  SessionInv'
<1> USE DEF SessionInv, TypeInv
<1>1. NothingYet'
  BY DEF NothingYet, Idle, CasFails
<1>2. InvitesSound'
  BY DEF InvitesSound, Kicking, Pending, TypeOK, Session, Idle, CasFails, Swap, Updated, GiveUp,
         AnswerJoin
<1>3. JoinsSound'
  BY DEF JoinsSound, Joining, TypeOK, Idle, CasFails, GiveUp, AnswerJoin, store, history
<1>4. KicksSound'
  BY DEF KicksSound, JoinsSound, CallsSound, Joining, Kicking, Pending, TypeOK, Session, Idle,
         CasFails, Swap, Updated, GiveUp, AnswerJoin
<1>5. StationsKept' /\ EndedStaysEnded'
  BY DEF StationsKept, EndedStaysEnded, KicksSound, Kicking, TypeOK, Session, CasFails, Swap,
         Updated, GiveUp, AnswerJoin
<1>6. OneKick => KickIsReal'
  BY DEF KickIsReal, KicksSound, JoinsSound, Joining, TypeOK, Session, CasFails, Swap, Updated,
         GiveUp, AnswerJoin
<1> QED BY <1>1, <1>2, <1>3, <1>4, <1>5, <1>6, CasFailsType

\* The host is answered: the types are kept.
LEMMA KickAnswerType ==
    ASSUME TypeInv, NEW r \in Request, KickAnswer(r)
    PROVE  TypeInv'
<1>1. call' \in [Request -> Call]
  BY DEF TypeInv, TypeOK, Call, Idle, KickAnswer
<1>2. TypeOK'
  <2>1. redis' \in Session \cup {Absent} /\ mysql' \in Nat /\ issued' \in Nat /\ faults' \in Nat
    BY DEF TypeInv, TypeOK, KickAnswer, Fault
  <2>2. /\ codes' \subseteq Nat /\ deleted' \in BOOLEAN /\ dead' \subseteq Nat
        /\ valid' \subseteq Nat /\ answered' \subseteq Nat
    BY DEF TypeInv, TypeOK, Call, KickAnswer
  <2>3. /\ drawn' \subseteq Station /\ mapped' \subseteq Station /\ joined' \subseteq Station
        /\ targets' \subseteq Station /\ kicked' \subseteq Station
    BY DEF TypeInv, TypeOK, CallsSound, KickAnswer
  <2> QED BY <1>1, <2>1, <2>2, <2>3 DEF TypeOK
<1>3. CallsSound'
  BY DEF TypeInv, CallsSound, Joining, Kicking, Pending, Idle, KickAnswer
<1> QED BY <1>2, <1>3 DEF TypeInv

\* The host is answered: the invariant is kept.
LEMMA KickAnswerKeeps ==
    ASSUME SessionInv, NEW r \in Request, KickAnswer(r)
    PROVE  SessionInv'
<1> USE DEF SessionInv, TypeInv
<1>1. NothingYet'
  BY DEF NothingYet, Idle, KickAnswer
<1>2. InvitesSound'
  BY DEF InvitesSound, Kicking, Pending, Idle, KickAnswer
<1>3. JoinsSound'
  BY DEF JoinsSound, Joining, Idle, KickAnswer, store, history
<1>4. KicksSound'
  BY DEF KicksSound, CallsSound, Kicking, Pending, Idle, KickAnswer
<1>5. StationsKept' /\ EndedStaysEnded'
  BY DEF StationsKept, EndedStaysEnded, KickAnswer
<1>6. OneKick => KickIsReal'
  BY DEF KickIsReal, KicksSound, KickAnswer
<1> QED BY <1>1, <1>2, <1>3, <1>4, <1>5, <1>6, KickAnswerType

\* A host starts to end the session: the types are kept.
LEMMA EndReadType ==
    ASSUME TypeInv, NEW r \in Request, EndRead(r)
    PROVE  TypeInv'
<1>1. call' \in [Request -> Call]
  BY DEF TypeInv, TypeOK, Call, Idle, EndRead
<1>2. TypeOK'
  <2>1. redis' \in Session \cup {Absent} /\ mysql' \in Nat /\ issued' \in Nat /\ faults' \in Nat
    BY DEF TypeInv, TypeOK, NoRow, HostCall, GetSession, EndRead, Fault, store
  <2>2. /\ codes' \subseteq Nat /\ deleted' \in BOOLEAN /\ dead' \subseteq Nat
        /\ valid' \subseteq Nat /\ answered' \subseteq Nat
    BY DEF TypeInv, TypeOK, EndRead, store, history
  <2>3. /\ drawn' \subseteq Station /\ mapped' \subseteq Station /\ joined' \subseteq Station
        /\ targets' \subseteq Station /\ kicked' \subseteq Station
    BY DEF TypeInv, TypeOK, EndRead, history
  <2> QED BY <1>1, <2>1, <2>2, <2>3 DEF TypeOK
<1>3. CallsSound'
  BY DEF TypeInv, CallsSound, Joining, Kicking, Pending, EndRead
<1> QED BY <1>2, <1>3 DEF TypeInv

\* A host starts to end the session: the invariant is kept.
LEMMA EndReadKeeps ==
    ASSUME SessionInv, NEW r \in Request, EndRead(r)
    PROVE  SessionInv'
<1> USE DEF SessionInv, TypeInv
<1>1. NothingYet'
  BY DEF NothingYet, GetSession, Stored, Fallback, EndRead
<1>2. InvitesSound'
  BY DEF InvitesSound, Kicking, Pending, EndRead, store, history
<1>3. JoinsSound'
  BY DEF JoinsSound, Joining, EndRead, history
<1>4. KicksSound'
  BY DEF KicksSound, Kicking, Pending, EndRead, store, history
<1>5. StationsKept' /\ EndedStaysEnded'
  BY DEF StationsKept, EndedStaysEnded, EndRead, store, history
<1>6. OneKick => KickIsReal'
  BY DEF KickIsReal, EndRead, store, history
<1> QED BY <1>1, <1>2, <1>3, <1>4, <1>5, <1>6, EndReadType

\* The key is deleted: the types are kept.
LEMMA DeleteType ==
    ASSUME TypeInv, NEW r \in Request, Delete(r)
    PROVE  TypeInv'
<1>1. call' \in [Request -> Call]
  BY RemoteAssumption DEF TypeInv, TypeOK, Call, NoRow, HostCall, Delete, store, history
<1>2. TypeOK'
  <2>1. redis' \in Session \cup {Absent} /\ mysql' \in Nat /\ issued' \in Nat /\ faults' \in Nat
    BY DEF TypeInv, TypeOK, Delete, Fault
  <2>2. /\ codes' \subseteq Nat /\ deleted' \in BOOLEAN /\ dead' \subseteq Nat
        /\ valid' \subseteq Nat /\ answered' \subseteq Nat
    BY DEF TypeInv, TypeOK, Delete
  <2>3. /\ drawn' \subseteq Station /\ mapped' \subseteq Station /\ joined' \subseteq Station
        /\ targets' \subseteq Station /\ kicked' \subseteq Station
    BY DEF TypeInv, TypeOK, Delete
  <2> QED BY <1>1, <2>1, <2>2, <2>3 DEF TypeOK
<1>3. CallsSound'
  BY DEF TypeInv, CallsSound, Joining, Kicking, Pending, Delete
<1> QED BY <1>2, <1>3 DEF TypeInv

\* The key is deleted: the invariant is kept.
LEMMA DeleteKeeps ==
    ASSUME SessionInv, NEW r \in Request, Delete(r)
    PROVE  SessionInv'
<1> USE DEF SessionInv, TypeInv
<1>1. NothingYet'
  BY DEF NothingYet, Idle, Delete
<1>2. InvitesSound'
  BY DEF InvitesSound, Kicking, Pending, Delete
<1>3. JoinsSound'
  BY DEF JoinsSound, Joining, Delete, store, history
<1>4. KicksSound'
  BY DEF KicksSound, Kicking, Pending, Delete
<1>5. StationsKept' /\ EndedStaysEnded'
  BY DEF StationsKept, EndedStaysEnded, Delete
<1>6. OneKick => KickIsReal'
  BY DEF KickIsReal, Delete
<1> QED BY <1>1, <1>2, <1>3, <1>4, <1>5, <1>6, DeleteType

\* The row is deleted: the types are kept.
LEMMA DbDeleteType ==
    ASSUME TypeInv, NEW r \in Request, DbDelete(r)
    PROVE  TypeInv'
<1>1. call' \in [Request -> Call]
  BY DEF TypeInv, TypeOK, Call, Idle, DbDelete
<1>2. TypeOK'
  <2>1. redis' \in Session \cup {Absent} /\ mysql' \in Nat /\ issued' \in Nat /\ faults' \in Nat
    BY DEF TypeInv, TypeOK, NoRow, HostCall, GetSession, DbDelete
  <2>2. /\ codes' \subseteq Nat /\ deleted' \in BOOLEAN /\ dead' \subseteq Nat
        /\ valid' \subseteq Nat /\ answered' \subseteq Nat
    BY DEF TypeInv, TypeOK, DbDelete, history
  <2>3. /\ drawn' \subseteq Station /\ mapped' \subseteq Station /\ joined' \subseteq Station
        /\ targets' \subseteq Station /\ kicked' \subseteq Station
    BY DEF TypeInv, TypeOK, DbDelete, history
  <2> QED BY <1>1, <2>1, <2>2, <2>3 DEF TypeOK
<1>3. CallsSound'
  BY DEF TypeInv, CallsSound, Joining, Kicking, Pending, Idle, DbDelete
<1> QED BY <1>2, <1>3 DEF TypeInv

\* The row is deleted: the invariant is kept.
LEMMA DbDeleteKeeps ==
    ASSUME SessionInv, NEW r \in Request, DbDelete(r)
    PROVE  SessionInv'
<1> USE DEF SessionInv, TypeInv
<1>1. NothingYet'
  BY DEF NothingYet, Idle, DbDelete
<1>2. InvitesSound'
  BY DEF InvitesSound, Kicking, Pending, Idle, DbDelete, history
<1>3. JoinsSound'
  BY DEF JoinsSound, Joining, Idle, DbDelete, store, history
<1>4. KicksSound'
  BY DEF KicksSound, Kicking, Pending, Idle, DbDelete, history
<1>5. StationsKept' /\ EndedStaysEnded'
  BY DEF StationsKept, EndedStaysEnded, DbDelete, history
<1>6. OneKick => KickIsReal'
  BY DEF KickIsReal, DbDelete, history
<1> QED BY <1>1, <1>2, <1>3, <1>4, <1>5, <1>6, DbDeleteType

\* The key or the row expires: the types are kept.
LEMMA ExpireType ==
    ASSUME TypeInv, Expire
    PROVE  TypeInv'
<1>1. call' \in [Request -> Call]
  BY DEF TypeInv, TypeOK, Expire
<1>2. TypeOK'
  <2>1. redis' \in Session \cup {Absent} /\ mysql' \in Nat /\ issued' \in Nat /\ faults' \in Nat
    BY DEF TypeInv, TypeOK, NoRow, HostCall, GetSession, Expire
  <2>2. /\ codes' \subseteq Nat /\ deleted' \in BOOLEAN /\ dead' \subseteq Nat
        /\ valid' \subseteq Nat /\ answered' \subseteq Nat
    BY DEF TypeInv, TypeOK, Expire, history
  <2>3. /\ drawn' \subseteq Station /\ mapped' \subseteq Station /\ joined' \subseteq Station
        /\ targets' \subseteq Station /\ kicked' \subseteq Station
    BY DEF TypeInv, TypeOK, Expire, history
  <2> QED BY <1>1, <2>1, <2>2, <2>3 DEF TypeOK
<1>3. CallsSound'
  BY DEF TypeInv, CallsSound, Joining, Kicking, Pending, Expire
<1> QED BY <1>2, <1>3 DEF TypeInv

\* The key or the row expires: the invariant is kept.
LEMMA ExpireKeeps ==
    ASSUME SessionInv, Expire
    PROVE  SessionInv'
<1> USE DEF SessionInv, TypeInv
<1>1. NothingYet'
  BY DEF NothingYet, Expire
<1>2. InvitesSound'
  BY DEF InvitesSound, Kicking, Pending, Expire, history
<1>3. JoinsSound'
  BY DEF JoinsSound, Joining, Expire, store, history
<1>4. KicksSound'
  BY DEF KicksSound, Kicking, Pending, Expire, history
<1>5. StationsKept' /\ EndedStaysEnded'
  BY DEF StationsKept, EndedStaysEnded, Expire, history
<1>6. OneKick => KickIsReal'
  BY DEF KickIsReal, Expire, history
<1> QED BY <1>1, <1>2, <1>3, <1>4, <1>5, <1>6, ExpireType

\* The process dies: the types are kept.
LEMMA CrashType ==
    ASSUME TypeInv, Crash
    PROVE  TypeInv'
<1>1. call' \in [Request -> Call]
  BY DEF TypeInv, Call, Idle, Crash
<1>2. TypeOK'
  <2>1. redis' \in Session \cup {Absent} /\ mysql' \in Nat /\ issued' \in Nat /\ faults' \in Nat
    BY DEF TypeInv, TypeOK, Crash, Fault, store
  <2>2. /\ codes' \subseteq Nat /\ deleted' \in BOOLEAN /\ dead' \subseteq Nat
        /\ valid' \subseteq Nat /\ answered' \subseteq Nat
    BY DEF TypeInv, TypeOK, Crash, store, history
  <2>3. /\ drawn' \subseteq Station /\ mapped' \subseteq Station /\ joined' \subseteq Station
        /\ targets' \subseteq Station /\ kicked' \subseteq Station
    BY DEF TypeInv, TypeOK, Crash, history
  <2> QED BY <1>1, <2>1, <2>2, <2>3 DEF TypeOK
<1>3. CallsSound'
  BY DEF TypeInv, CallsSound, Joining, Kicking, Pending, Idle, Crash
<1> QED BY <1>2, <1>3 DEF TypeInv

\* The process dies: the invariant is kept.
LEMMA CrashKeeps ==
    ASSUME SessionInv, Crash
    PROVE  SessionInv'
<1> USE DEF SessionInv, TypeInv
<1>1. NothingYet'
  BY DEF NothingYet, Crash, store, history
<1>2. InvitesSound'
  BY DEF InvitesSound, Pending, Idle, Crash, store, history
<1>3. JoinsSound'
  BY DEF JoinsSound, Joining, Idle, Crash, history
<1>4. KicksSound'
  BY DEF KicksSound, Kicking, Idle, Crash, history
<1>5. StationsKept' /\ EndedStaysEnded'
  BY DEF StationsKept, EndedStaysEnded, Crash, store, history
<1>6. OneKick => KickIsReal'
  BY DEF KickIsReal, Crash, store, history
<1> QED BY <1>1, <1>2, <1>3, <1>4, <1>5, <1>6, CrashType

\* The session is created: the types are kept.
LEMMA CreateRemoteSessionType ==
    ASSUME TypeInv, CreateRemoteSession
    PROVE  TypeInv'
<1>1. call' \in [Request -> Call]
  BY DEF TypeInv, TypeOK, CreateRemoteSession
<1>2. TypeOK'
  <2>1. redis' \in Session \cup {Absent} /\ mysql' \in Nat /\ issued' \in Nat /\ faults' \in Nat
    BY DEF TypeInv, TypeOK, Session, CreateRemoteSession, Fault
  <2>2. /\ codes' \subseteq Nat /\ deleted' \in BOOLEAN /\ dead' \subseteq Nat
        /\ valid' \subseteq Nat /\ answered' \subseteq Nat
    BY DEF TypeInv, TypeOK, CreateRemoteSession
  <2>3. /\ drawn' \subseteq Station /\ mapped' \subseteq Station /\ joined' \subseteq Station
        /\ targets' \subseteq Station /\ kicked' \subseteq Station
    BY DEF TypeInv, TypeOK, CreateRemoteSession
  <2> QED BY <1>1, <2>1, <2>2, <2>3 DEF TypeOK
<1>3. CallsSound'
  BY DEF TypeInv, CallsSound, Joining, Kicking, Pending, CreateRemoteSession
<1> QED BY <1>2, <1>3 DEF TypeInv

\* The session is created: the invariant is kept.
LEMMA CreateRemoteSessionKeeps ==
    ASSUME SessionInv, CreateRemoteSession
    PROVE  SessionInv'
<1> USE DEF SessionInv, TypeInv
<1>1. NothingYet'
  BY DEF NothingYet, CreateRemoteSession
<1>2. InvitesSound'
  BY DEF InvitesSound, NothingYet, Pending, Idle, CreateRemoteSession
<1>3. JoinsSound'
  BY DEF JoinsSound, Joining, CreateRemoteSession, store, history
<1>4. KicksSound'
  BY DEF KicksSound, NothingYet, Kicking, CreateRemoteSession
<1>5. StationsKept' /\ EndedStaysEnded'
  BY DEF StationsKept, EndedStaysEnded, NothingYet, CreateRemoteSession
<1>6. OneKick => KickIsReal'
  BY DEF KickIsReal, InvitesSound, TypeOK, CreateRemoteSession
<1> QED BY <1>1, <1>2, <1>3, <1>4, <1>5, <1>6, CreateRemoteSessionType

-----------------------------------------------------------------------------
(* The steps together, and the theorems.                                   *)

\* Every step keeps the types.
LEMMA TypeInvStep == TypeInv /\ [Next]_vars => TypeInv'
<1> SUFFICES ASSUME TypeInv, [Next]_vars PROVE TypeInv'
  OBVIOUS
<1>1. ASSUME NEW r \in Request, RegisterStation(r) PROVE TypeInv'
  BY <1>1, RegisterStationType
<1>2. ASSUME NEW r \in Request, RegisterFails(r) PROVE TypeInv'
  BY <1>2, RegisterFailsType
<1>3. ASSUME NEW r \in Request, NEW c \in (1..issued) \cup {HostCall}, JoinRead(r, c)
      PROVE TypeInv'
  BY <1>3, JoinReadType
<1>4. ASSUME NEW r \in Request, NEW s \in Station, KickRead(r, s) PROVE TypeInv'
  BY <1>4, KickReadType
<1>5. ASSUME NEW r \in Request, CasRead(r) PROVE TypeInv'
  BY <1>5, CasReadType
<1>6. ASSUME NEW r \in Request, CasSwap(r) PROVE TypeInv'
  BY <1>6, CasSwapType
<1>7. ASSUME NEW r \in Request, CasLoses(r) PROVE TypeInv'
  BY <1>7, CasLosesType
<1>8. ASSUME NEW r \in Request, CasFails(r) PROVE TypeInv'
  BY <1>8, CasFailsType
<1>9. ASSUME NEW r \in Request, KickAnswer(r) PROVE TypeInv'
  BY <1>9, KickAnswerType
<1>10. ASSUME NEW r \in Request, EndRead(r) PROVE TypeInv'
  BY <1>10, EndReadType
<1>11. ASSUME NEW r \in Request, Delete(r) PROVE TypeInv'
  BY <1>11, DeleteType
<1>12. ASSUME NEW r \in Request, DbDelete(r) PROVE TypeInv'
  BY <1>12, DbDeleteType
<1>13. CASE Expire
  BY <1>13, ExpireType
<1>14. CASE Crash
  BY <1>14, CrashType
<1>15. CASE CreateRemoteSession
  BY <1>15, CreateRemoteSessionType
<1>16. CASE UNCHANGED vars
  BY <1>16 DEF TypeInv, TypeOK, CallsSound, Joining, Kicking, Pending, vars, store, history
<1> QED
  BY <1>1, <1>2, <1>3, <1>4, <1>5, <1>6, <1>7, <1>8, <1>9, <1>10, <1>11, <1>12, <1>13, <1>14,
     <1>15, <1>16 DEF Next, Join, Kick, UpdateSession, End

\* Every step keeps the invariant.
LEMMA SessionInvStep == SessionInv /\ [Next]_vars => SessionInv'
<1> SUFFICES ASSUME SessionInv, [Next]_vars PROVE SessionInv'
  OBVIOUS
<1>1. ASSUME NEW r \in Request, RegisterStation(r) PROVE SessionInv'
  BY <1>1, RegisterStationKeeps
<1>2. ASSUME NEW r \in Request, RegisterFails(r) PROVE SessionInv'
  BY <1>2, RegisterFailsKeeps
<1>3. ASSUME NEW r \in Request, NEW c \in (1..issued) \cup {HostCall}, JoinRead(r, c)
      PROVE SessionInv'
  BY <1>3, JoinReadKeeps
<1>4. ASSUME NEW r \in Request, NEW s \in Station, KickRead(r, s) PROVE SessionInv'
  BY <1>4, KickReadKeeps
<1>5. ASSUME NEW r \in Request, CasRead(r) PROVE SessionInv'
  BY <1>5, CasReadKeeps
<1>6. ASSUME NEW r \in Request, CasSwap(r) PROVE SessionInv'
  BY <1>6, CasSwapKeeps
<1>7. ASSUME NEW r \in Request, CasLoses(r) PROVE SessionInv'
  BY <1>7, CasLosesKeeps
<1>8. ASSUME NEW r \in Request, CasFails(r) PROVE SessionInv'
  BY <1>8, CasFailsKeeps
<1>9. ASSUME NEW r \in Request, KickAnswer(r) PROVE SessionInv'
  BY <1>9, KickAnswerKeeps
<1>10. ASSUME NEW r \in Request, EndRead(r) PROVE SessionInv'
  BY <1>10, EndReadKeeps
<1>11. ASSUME NEW r \in Request, Delete(r) PROVE SessionInv'
  BY <1>11, DeleteKeeps
<1>12. ASSUME NEW r \in Request, DbDelete(r) PROVE SessionInv'
  BY <1>12, DbDeleteKeeps
<1>13. CASE Expire
  BY <1>13, ExpireKeeps
<1>14. CASE Crash
  BY <1>14, CrashKeeps
<1>15. CASE CreateRemoteSession
  BY <1>15, CreateRemoteSessionKeeps
<1>16. CASE UNCHANGED vars
  BY <1>16 DEF SessionInv, TypeInv, TypeOK, CallsSound, NothingYet, InvitesSound, JoinsSound,
               KicksSound, StationsKept, EndedStaysEnded, KickIsReal, Joining, Kicking, Pending,
               vars, store, history
<1> QED
  BY <1>1, <1>2, <1>3, <1>4, <1>5, <1>6, <1>7, <1>8, <1>9, <1>10, <1>11, <1>12, <1>13, <1>14,
     <1>15, <1>16 DEF Next, Join, Kick, UpdateSession, End

\* Every variable keeps its type in every behaviour.
THEOREM TypeCorrect == Spec => []TypeOK
<1>1. Init => TypeInv
  BY SessionInvInit DEF SessionInv
<1>2. TypeInv => TypeOK
  BY DEF TypeInv
<1> QED BY <1>1, <1>2, TypeInvStep, PTL DEF Spec

\* The strengthened invariant holds in every behaviour.
LEMMA SessionInvariant == Spec => []SessionInv
BY SessionInvInit, SessionInvStep, PTL DEF Spec

\* A station whose mapping was confirmed stays in the record until a kick names it,
\* however many joins and kicks run and whatever fails.
THEOREM StationsAreKept == Spec => []StationsKept
<1>1. SessionInv => StationsKept
  BY DEF SessionInv
<1> QED BY <1>1, SessionInvariant, PTL

\* A kick that is answered took its station out of the record and its invite into it,
\* provided that no station is kicked again while a kick of it is under way.
THEOREM KicksAreReal ==
    ASSUME OneKick
    PROVE  Spec => []KickIsReal
<1>1. SessionInv => KickIsReal
  BY DEF SessionInv
<1> QED BY <1>1, SessionInvariant, PTL

\* A session whose deletion was confirmed does not come back.
THEOREM EndedSessionsStayEnded == Spec => []EndedStaysEnded
<1>1. SessionInv => EndedStaysEnded
  BY DEF SessionInv
<1> QED BY <1>1, SessionInvariant, PTL

\* An invite that was replaced admits nobody, except the one in the fallback row.
THEOREM OldInvitesStayDead == Spec => OldInviteStaysDead
<1> DEFINE Step ==
      \A r \in Request :
        call[r].pc = "idle" /\ call'[r].pc = "register"
          => call'[r].challenge \notin dead \ {mysql}
<1>1. SessionInv /\ [Next]_vars => [Step]_vars
  <2> SUFFICES ASSUME SessionInv, Next, NEW r \in Request,
                      call[r].pc = "idle", call'[r].pc = "register"
               PROVE  call'[r].challenge \notin dead \ {mysql}
    OBVIOUS
  <2>1. PICK c \in (1..issued) \cup {HostCall} : JoinRead(r, c)
    <3>1. call \in [Request -> Call]
      BY DEF SessionInv, TypeInv, TypeOK
    <3>2. ~(CreateRemoteSession \/ Expire \/ Crash)
      BY <3>1 DEF CreateRemoteSession, Expire, Crash, Idle
    <3>3. ASSUME NEW q \in Request, Kick(q) \/ End(q) PROVE FALSE
      BY <3>1, <3>3 DEF Kick, End, KickRead, KickAnswer, EndRead, Delete, DbDelete, Idle
    <3>4. ASSUME NEW q \in Request, UpdateSession(q) PROVE FALSE
      BY <3>1, <3>4 DEF UpdateSession, CasRead, CasSwap, CasLoses, CasFails, AnswerJoin, GiveUp,
                        Updating, Idle, Call
    <3>5. ASSUME NEW q \in Request, RegisterStation(q) \/ RegisterFails(q) PROVE FALSE
      BY <3>1, <3>5 DEF RegisterStation, RegisterFails, AnswerJoin
    <3>6. PICK q \in Request, c \in (1..issued) \cup {HostCall} : JoinRead(q, c)
      BY <3>2, <3>3, <3>4, <3>5 DEF Next, Join
    <3>7. q = r
      BY <3>1, <3>6 DEF JoinRead
    <3> QED BY <3>6, <3>7
  <2>2. call'[r].challenge = c
    BY <2>1 DEF JoinRead, SessionInv, TypeInv
  <2>3. PICK rec \in {Stored, Fallback} : GetSession(rec) /\ IsAuthorized(rec, c)
    BY <2>1 DEF JoinRead
  <2>4. c \in {HostCall, mysql} \/ (redis # Absent /\ c = redis.challenge)
    BY <2>3 DEF IsAuthorized, GetSession, Stored, Fallback
  <2>5. HostCall \notin dead
    BY DEF SessionInv, InvitesSound, HostCall, TypeInv
  <2> QED BY <2>2, <2>4, <2>5 DEF SessionInv, InvitesSound
<1> QED BY <1>1, SessionInvariant, PTL DEF Spec, OldInviteStaysDead

-----------------------------------------------------------------------------
(* Refinement: the record changes as StationRecord promises.               *)

\* A step of the record, or none.
RecordStep == [Record!StationNext]_Record!record

\* The session exists as soon as anything has happened to it.
LEMMA BusyMeansIssued ==
    ASSUME SessionInv
    PROVE  /\ redis # Absent => issued # 0
           /\ \A r \in Request : call[r].pc # "idle" => issued # 0
BY DEF SessionInv, NothingYet, Idle

\* Nothing that StationRecord sees has changed.
LEMMA RecordUnchanged ==
    ASSUME UNCHANGED <<redis, valid>>, issued = 0 <=> issued' = 0,
           redis # Absent => targets' \ redis.stations = targets \ redis.stations
    PROVE  RecordStep
<1>1. UNCHANGED Record!record
  BY DEF Record!record, Recorded
<1> QED BY <1>1 DEF RecordStep

\* A station nobody kicked enters the record: it is admitted.
LEMMA RecordAdmits ==
    ASSUME SessionInv, NEW s \in Station, s \notin targets, redis # Absent,
           redis' = [redis EXCEPT !.stations = @ \cup {s}],
           UNCHANGED <<issued, valid, targets>>
    PROVE  RecordStep
<1>1. issued # 0
  BY BusyMeansIssued
<1>2. redis \in Session
  BY DEF SessionInv, TypeInv, TypeOK
<1>3. /\ redis' # Absent /\ redis'.challenge = redis.challenge
      /\ redis'.stations = redis.stations \cup {s}
  BY <1>2, RemoteAssumption DEF Session
<1>4. targets \ (redis.stations \cup {s}) = targets \ redis.stations
  OBVIOUS
<1>5. Record!Admit(s)
  BY <1>1, <1>3, <1>4 DEF Record!Admit, Recorded
<1> QED BY <1>5 DEF RecordStep, Record!StationNext

\* A station somebody kicked leaves it, and a challenge the session never had comes
\* with that: it is put out.
LEMMA RecordEvicts ==
    ASSUME SessionInv, NEW s \in Station, s \in targets, redis # Absent, s \in redis.stations,
           NEW c \in Nat \ valid,
           redis' = [challenge |-> c, stations |-> redis.stations \ {s}],
           valid' = valid \cup {c}, UNCHANGED <<issued, targets>>
    PROVE  RecordStep
<1>1. issued # 0
  BY BusyMeansIssued
<1>2. redis \in Session
  BY DEF SessionInv, TypeInv, TypeOK
<1>3. redis' # Absent /\ redis'.challenge = c /\ redis'.stations = redis.stations \ {s}
  BY <1>2, RemoteAssumption DEF Session
<1>4. targets \ (redis.stations \ {s}) = (targets \ redis.stations) \cup {s}
  OBVIOUS
<1>5. Record!Evict(s)
  BY <1>1, <1>3, <1>4 DEF Record!Evict, Recorded
<1> QED BY <1>5 DEF RecordStep, Record!StationNext

\* The key goes, or was not there: the record is closed, or unchanged.
LEMMA RecordCloses ==
    ASSUME SessionInv, redis' = Absent, UNCHANGED <<issued, valid, targets>>
    PROVE  RecordStep
<1>1. CASE redis = Absent
  BY <1>1, RecordUnchanged
<1>2. CASE redis # Absent
  <2>1. Record!Close
    BY <1>2, BusyMeansIssued DEF Record!Close, Recorded
  <2> QED BY <2>1 DEF RecordStep, Record!StationNext
<1> QED BY <1>1, <1>2

\* A swap that found the record as it had read it.
LEMMA RecordSwaps ==
    ASSUME SessionInv, NEW r \in Request, call[r].pc = "swap", redis = call[r].raw,
           Swap(r), UNCHANGED <<issued, targets>>
    PROVE  RecordStep
<1>1. call[r].station \in Station /\ redis \in Session /\ redis # Absent
  BY RemoteAssumption DEF SessionInv, TypeInv, CallsSound, Pending, Session
<1>2. redis.challenge \in valid
  BY <1>1 DEF SessionInv, InvitesSound
<1>3. CASE Joining(r)
  <2>1. redis' = [redis EXCEPT !.stations = @ \cup {call[r].station}]
    BY <1>3 DEF Swap, Updated, Joining
  <2>2. redis'.challenge = redis.challenge
    BY <1>1, <2>1 DEF Session
  <2>3. valid' = valid
    BY <1>2, <2>2 DEF Swap
  <2>4. call[r].station \notin targets
    BY <1>3 DEF SessionInv, JoinsSound, KicksSound
  <2> QED BY <1>1, <2>1, <2>3, <2>4, RecordAdmits
<1>4. CASE Kicking(r) /\ call[r].station \in redis.stations
  <2>1. redis' = [challenge |-> call[r].challenge, stations |-> redis.stations \ {call[r].station}]
    BY <1>4 DEF Swap, Updated, Kicking
  <2>2. call[r].challenge \in Nat \ valid
    BY <1>4 DEF SessionInv, InvitesSound, Pending, TypeInv, TypeOK
  <2>3. valid' = valid \cup {call[r].challenge}
    BY <2>1 DEF Swap
  <2>4. call[r].station \in targets
    BY <1>4 DEF SessionInv, KicksSound
  <2> QED BY <1>1, <1>4, <2>1, <2>2, <2>3, <2>4, RecordEvicts
<1>5. CASE Kicking(r) /\ call[r].station \notin redis.stations
  <2>1. redis' = redis
    BY <1>5 DEF Swap, Updated, Kicking
  <2>2. valid' = valid
    BY <1>2, <2>1 DEF Swap
  <2> QED BY <2>1, <2>2, RecordUnchanged
<1> QED BY <1>3, <1>4, <1>5 DEF SessionInv, TypeInv, CallsSound, Pending

\* Of the steps that join, only a script that is run changes the record.
LEMMA JoinKeepsPromise ==
    ASSUME SessionInv, NEW r \in Request, Join(r)
    PROVE  RecordStep
<1>1. ASSUME NEW c, JoinRead(r, c) PROVE RecordStep
  BY <1>1, RecordUnchanged DEF JoinRead, store
<1>2. CASE RegisterStation(r) \/ RegisterFails(r)
  <2>1. Joining(r) /\ call[r].station \in Station \ targets
    BY <1>2 DEF SessionInv, TypeInv, CallsSound, JoinsSound, KicksSound, RegisterStation,
                RegisterFails
  <2>2. UNCHANGED <<issued, valid, targets>>
    BY <1>2 DEF RegisterStation, RegisterFails, history
  <2>3. \/ redis' = redis
        \/ redis # Absent /\ redis' = [redis EXCEPT !.stations = @ \cup {call[r].station}]
    BY <1>2 DEF RegisterStation, RegisterFails
  <2> QED BY <2>1, <2>2, <2>3, RecordAdmits, RecordUnchanged
<1> QED BY <1>1, <1>2 DEF Join

\* A kick names whom the record still holds: starting it puts nobody out.
LEMMA KickKeepsPromise ==
    ASSUME SessionInv, NEW r \in Request, Kick(r)
    PROVE  RecordStep
<1>1. ASSUME NEW s \in Station, KickRead(r, s) PROVE RecordStep
  <2>1. redis # Absent => s \in redis.stations
    BY <1>1 DEF KickRead, GetSession, Stored, Fallback
  <2>2. issued # 0 /\ issued' # 0
    BY <1>1 DEF KickRead, GetSession, Stored, Fallback, SessionInv, NothingYet, TypeInv, TypeOK
  <2> QED BY <1>1, <2>1, <2>2, RecordUnchanged DEF KickRead, store
<1>2. CASE KickAnswer(r)
  BY <1>2, RecordUnchanged DEF KickAnswer
<1> QED BY <1>1, <1>2 DEF Kick

\* Of the steps of updateSession only a swap changes the record.
LEMMA UpdateKeepsPromise ==
    ASSUME SessionInv, NEW r \in Request, UpdateSession(r)
    PROVE  RecordStep
<1>1. CASE CasRead(r) \/ CasLoses(r)
  BY <1>1, RecordUnchanged DEF CasRead, CasLoses, store
<1>2. CASE CasSwap(r)
  BY <1>2, RecordSwaps DEF CasSwap
<1>3. CASE CasFails(r)
  BY <1>3, RecordSwaps, RecordUnchanged DEF CasFails
<1> QED BY <1>1, <1>2, <1>3 DEF UpdateSession

\* What ends a session, or interrupts its requests, closes the record or leaves it.
LEMMA EndKeepsPromise ==
    ASSUME SessionInv, (\E r \in Request : End(r)) \/ Expire \/ Crash
    PROVE  RecordStep
<1>1. UNCHANGED <<issued, valid, targets>> /\ redis' \in {redis, Absent}
  BY DEF End, EndRead, Delete, DbDelete, Expire, Crash, store, history
<1> QED BY <1>1, RecordCloses, RecordUnchanged

\* The creation opens the record, or loses it at once.
LEMMA CreationKeepsPromise ==
    ASSUME SessionInv, CreateRemoteSession
    PROVE  RecordStep
<1>1. redis = Absent /\ targets = {} /\ issued = 0 /\ issued' = 1 /\ valid' = {1}
  BY DEF CreateRemoteSession, SessionInv, NothingYet
<1>2. redis' \in {Absent, [challenge |-> 1, stations |-> {}]} /\ targets' = targets
  BY DEF CreateRemoteSession
<1>3. Record!Open
  BY <1>1, <1>2 DEF Record!Open, Recorded
<1> QED BY <1>3 DEF RecordStep, Record!StationNext

\* Every step of a session is a step of its record, or none.
LEMMA StepKeepsPromise == SessionInv /\ [Next]_vars => RecordStep
<1> SUFFICES ASSUME SessionInv, [Next]_vars PROVE RecordStep
  OBVIOUS
<1>1. CASE UNCHANGED vars
  BY <1>1, RecordUnchanged DEF vars, store, history
<1>2. CASE Next
  BY <1>2, CreationKeepsPromise, JoinKeepsPromise, KickKeepsPromise, UpdateKeepsPromise,
     EndKeepsPromise DEF Next
<1> QED BY <1>1, <1>2

\* Requests that join, kick and end one session at once, each in several awaits and
\* with any failures, change its record as if each did so in one step: one station at
\* a time, a kick with a new invite and for good, and never after the key has gone.
THEOREM RecordIsKeptAtomic == Spec => RecordIsAtomic
<1>1. Init => Record!StationInit
  BY DEF Init, Record!StationInit, Recorded
<1>2. SessionInv /\ [Next]_vars => [Record!StationNext]_Record!record
  BY StepKeepsPromise DEF RecordStep
<1> QED BY <1>1, <1>2, SessionInvariant, PTL DEF Spec, RecordIsAtomic, Record!StationSpec

=============================================================================
