------------------------- MODULE SessionLifecycle -------------------------
(***************************************************************************)
(* What the rest of the system may rely on about the rows of user_sessions *)
(* (prisma model UserSession): a session is created at most once, is       *)
(* active from then on, and once its isActive flag has been cleared it     *)
(* never becomes active again and never changes its owner, whatever the    *)
(* requests of AuthSessions do concurrently.                               *)
(***************************************************************************)
CONSTANTS
    Sids,     \* identifiers of session rows
    Users,    \* owners
    NoUser    \* owner of a row that does not exist yet

VARIABLES
    status,   \* status[s] \in {"absent", "active", "revoked"}
    owner     \* owner[s], the user connected to the row

lifecycleVars == <<status, owner>>

Init ==
    /\ status = [s \in Sids |-> "absent"]
    /\ owner = [s \in Sids |-> NoUser]

(* A login stores one new row for one user. *)
Create(s, u) ==
    /\ status[s] = "absent"
    /\ status' = [status EXCEPT ![s] = "active"]
    /\ owner' = [owner EXCEPT ![s] = u]

(* A revocation clears isActive of some active rows, all of one user. *)
Revoke(S, u) ==
    /\ S # {}
    /\ \A s \in S : status[s] = "active" /\ owner[s] = u
    /\ status' = [s \in Sids |-> IF s \in S THEN "revoked" ELSE status[s]]
    /\ UNCHANGED owner

Next ==
    \E u \in Users :
        \/ \E s \in Sids : Create(s, u)
        \/ \E S \in SUBSET Sids : Revoke(S, u)

Spec == Init /\ [][Next]_lifecycleVars
=============================================================================
