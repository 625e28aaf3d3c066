--------------------------- MODULE ConnectionLease ---------------------------
(***************************************************************************)
(* What a pool of database connections promises its sessions, without      *)
(* saying how it keeps the idle connections: a connection is held by the   *)
(* sessions that share it, or on its way back, or idle, or gone, and never *)
(* two of these; only an idle or a new one is handed out; no more than     *)
(* limit are kept.                                                         *)
(***************************************************************************)
EXTENDS Naturals, FiniteSets

CONSTANTS Sessions, Connections, None

VARIABLES
    limit,      \* how many idle connections may be kept
    holds,      \* the connection of each session, or None
    returning,  \* connections whose last session has let go of them
    idle

vars == <<limit, holds, returning, idle>>

Held == {holds[s] : s \in Sessions} \ {None}

Init ==
    /\ limit \in Nat
    /\ holds = [s \in Sessions |-> None]
    /\ returning = {}
    /\ idle = {}

\* The connection that nobody holds any more when s turns to c, if any.
LeftBy(s, c) == {holds[s]} \ ({None, c} \cup {holds[r] : r \in Sessions \ {s}})

\* s turns to c; what it leaves is destroyed or goes back.
Turn(s, c) ==
    /\ holds' = [holds EXCEPT ![s] = c]
    /\ returning' \in {returning, returning \cup LeftBy(s, c)}
    /\ limit' = limit

\* s gets a connection of its own; idle ones may be dropped on the way.
Acquire(s, c) ==
    /\ c \notin Held \cup returning
    /\ Turn(s, c)
    /\ idle' \in SUBSET (idle \ {c})

Share(s, r) == holds[r] # None /\ Turn(s, holds[r]) /\ idle' = idle

Release(s) == holds[s] # None /\ Turn(s, None) /\ idle' = idle

\* A connection that came back becomes idle; it or others may be dropped.
Deposit(c) ==
    /\ c \in returning
    /\ returning' = returning \ {c}
    /\ idle' \in SUBSET (idle \cup {c})
    /\ Cardinality(idle') <= limit
    /\ UNCHANGED <<holds, limit>>

Drop == idle' \in SUBSET idle /\ UNCHANGED <<holds, returning, limit>>

Next ==
    \/ \E s \in Sessions, c \in Connections : Acquire(s, c)
    \/ \E s, r \in Sessions : Share(s, r)
    \/ \E s \in Sessions : Release(s)
    \/ \E c \in Connections : Deposit(c)
    \/ Drop

Spec == Init /\ [][Next]_vars
=============================================================================
