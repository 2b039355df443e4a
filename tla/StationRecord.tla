--------------------------- MODULE StationRecord ---------------------------
(***************************************************************************)
(* What the record of a remote session promises to those who share it: it  *)
(* changes as if every join, kick and end were one step.  It is opened     *)
(* once and never reopens; a station that was put out never comes back;    *)
(* and nobody is put out without a new invite taking the old one's place.  *)
(* RemoteSession keeps the promise with a script and a compare-and-swap.   *)
(***************************************************************************)
CONSTANTS
    Station,   \* whom the record may name
    Invite,    \* the invites
    NoInvite   \* "no invite"

VARIABLES
    phase,     \* "none" before the session is created, "kept", then "gone"
    invite,    \* the invite that admits
    in,        \* the stations the record names
    out,       \* those put out of it
    invites    \* the invites it has had

record == <<phase, invite, in, out, invites>>

StationInit ==
    /\ phase = "none" /\ invite = NoInvite
    /\ in = {} /\ out = {} /\ invites = {}

\* The session is created; its record may be lost on the spot.
Open ==
    /\ phase = "none"
    /\ invites' \subseteq Invite
    /\ \/ phase' = "kept" /\ invite' \in invites'
       \/ phase' = "gone" /\ invite' = NoInvite
    /\ UNCHANGED <<in, out>>

Admit(s) ==
    /\ phase = "kept"
    /\ s \notin out
    /\ in' = in \cup {s}
    /\ UNCHANGED <<phase, invite, out, invites>>

Evict(s) ==
    /\ phase = "kept"
    /\ s \in in
    /\ in' = in \ {s}
    /\ out' = out \cup {s}
    /\ invite' \in Invite \ invites
    /\ invites' = invites \cup {invite'}
    /\ UNCHANGED phase

\* The session is ended, or its time to live is over.
Close ==
    /\ phase = "kept"
    /\ phase' = "gone"
    /\ invite' = NoInvite
    /\ in' = {} /\ out' = {}
    /\ UNCHANGED invites

StationNext ==
    \/ Open \/ Close
    \/ \E s \in Station : Admit(s) \/ Evict(s)

StationSpec == StationInit /\ [][StationNext]_record
=============================================================================
