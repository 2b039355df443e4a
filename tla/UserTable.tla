----------------------------- MODULE UserTable -----------------------------
(***************************************************************************)
(* What the password file promises to those who have it edited: each edit  *)
(* puts one user into the table as it is, or takes one out of it, so that  *)
(* no edit undoes another; none is made that nobody asked for; and the     *)
(* broker loads the table as a whole.  BrokerUsers keeps the promise with  *)
(* edits that read the whole file, rewrite it, and wait for their turn.    *)
(***************************************************************************)
CONSTANT User  \* who may be in the table

VARIABLES
    asked,   \* the edits asked for and neither made nor given up
    users,   \* the table
    loaded   \* the users the broker goes by

table == <<asked, users, loaded>>

Edit == [op : {"upsert", "remove"}, user : User]

Made(e) == IF e.op = "upsert" THEN users \cup {e.user} ELSE users \ {e.user}

TableInit == asked = {} /\ users = {} /\ loaded = {}

Ask(e) ==
    /\ e \in Edit
    /\ asked' = asked \cup {e}
    /\ UNCHANGED <<users, loaded>>

\* Made, or given up; another may have asked for the same.
Finish(e) ==
    /\ users' \in {users, Made(e)}
    /\ asked' \in {asked, asked \ {e}}
    /\ UNCHANGED loaded

Load ==
    /\ loaded' = users
    /\ UNCHANGED <<asked, users>>

\* Everything asked for is forgotten; one edit may be made all the same.
Restart ==
    /\ asked' = {}
    /\ users' \in {users} \cup {Made(e) : e \in asked}
    /\ UNCHANGED loaded

TableNext ==
    \/ \E e \in asked' : Ask(e)
    \/ \E e \in asked : Finish(e)
    \/ Load
    \/ Restart

TableSpec == TableInit /\ [][TableNext]_table
=============================================================================
