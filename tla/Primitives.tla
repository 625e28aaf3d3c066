----------------------------- MODULE Primitives -----------------------------
(* The primitives of threading/ and base/ that the rest is built from.  They  *)
(* share no state, so a behaviour exercises one of them.                      *)
EXTENDS PosixThreads, OnceInit, Handles

VARIABLE scene
vars == <<scene, ptvars, oncevars, hvars>>

Init == scene \in {"threads", "once", "handles"} /\ PTInit /\ OnceStart /\ HandlesInit
        /\ (scene = "handles" \/ kind = "guard")

Next ==
    \/ scene = "threads" /\ PTNext /\ UNCHANGED <<scene, oncevars, hvars>>
    \/ scene = "once" /\ OnceNext /\ UNCHANGED <<scene, ptvars, hvars>>
    \/ scene = "handles" /\ HandlesNext /\ UNCHANGED <<scene, ptvars, oncevars>>

\* Every thread that has begun something goes on: the scheduler is fair, and Run returns.
\* A mutex need not be fair.
Spec ==
    /\ Init /\ [][Next]_vars
    /\ \A a \in Actors : WF_pc(Continue(a))
    /\ \A c \in Callers : WF_step(OnceContinue(c))

\* Start, Join, SetName, the destructor and GetInstance return, whatever other threads call
\* meanwhile; above all Join, which waits with the lock held for a thread that ends.  Only on
\* an object that a failed pthread_create has damaged may others, who join it in vain again
\* and again, keep a caller from the lock.
CallsReturn ==
    /\ \A c \in Clients : pc[c] # Idle ~> pc[c] = Idle \/ (pc[c].on # None /\ Damaged(pc[c].on))
    /\ \A c \in Callers : step[c] # "idle" ~> step[c] = "idle"
=============================================================================
