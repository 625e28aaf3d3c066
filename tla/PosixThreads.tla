---------------------------- MODULE PosixThreads ----------------------------
(* The thread objects of threading/thread_factory: who holds one, what its    *)
(* Start, Join and destructor do to the thread of the system behind it, and   *)
(* the set of ids of live threads.  The name of a thread is left out: only    *)
(* the lock that SetName takes matters.                                       *)
EXTENDS Integers

CONSTANTS
    Objects,    \* PthreadThread objects, one runnable each
    Clients,    \* threads that use them and were not made by the factory
    Ids,        \* values of pthread_t; the system uses one again once it is free
    Sharers,    \* Sharers[o]: the clients that may have a pointer to object o
    Factory,    \* [policy, priority]: the settings of the factory
    MayFail,    \* the objects for which pthread_create may fail
    None

ASSUME PosixThreadsAssumption ==
    /\ Clients \cap Objects = {} /\ None \notin Clients \cup Objects \cup Ids
    /\ {"selfRef", "thread"} \cap Clients = {}
    /\ Sharers \in [Objects -> SUBSET Clients]

VARIABLES
    th,         \* th[o]: the members of a PthreadThread, and whether it exists
    refs,       \* refs[o]: who has a shared_ptr to it: clients, selfRef, ThreadMain
    lock,       \* lock[o]: the thread that has state_lock_
    os,         \* os[i]: the system's thread with id i
    live,       \* live_thread_ids
    pc,         \* pc[a]: what a client, or the thread of an object, is doing
    failed,     \* objects whose pthread_create failed
    ender       \* ender[o]: the thread that ran the destructor
ptvars == <<th, refs, lock, os, live, pc, failed, ender>>

Actors == Clients \cup Objects
Idle == [at |-> "idle", on |-> None]
At(a, at, o) == pc' = [pc EXCEPT ![a] = [at |-> at, on |-> o]]
NoThread == [status |-> "free", of |-> None, joinable |-> FALSE]

\* The thread of the system that has the id which the object remembers.
ThreadOf(o) == IF th[o].pthread = None THEN NoThread ELSE os[th[o].pthread]

(* -------------------------------- priority -------------------------------- *)

LOWEST == 0
NORMAL == 3
HIGHEST == 6
\* sched_get_priority_min and _max for FIFO and RR, the nice values for OTHER.
MinPriority(policy) == IF policy \in {"FIFO", "RR"} THEN 1 ELSE 19
MaxPriority(policy) == IF policy \in {"FIFO", "RR"} THEN 99 ELSE -20
TowardsZero(n, d) == IF n >= 0 THEN n \div d ELSE -((-n) \div d)
\* INCREMENT and DECREMENT trip an assertion; without assertions they mean NORMAL.
ToPthreadPriority(policy, priority) ==
    LET quanta == HIGHEST - LOWEST
        p == IF priority <= HIGHEST THEN priority ELSE NORMAL
    IN TowardsZero(MinPriority(policy) * quanta + (MaxPriority(policy) - MinPriority(policy)) * p, quanta)

PTInit ==
    /\ th = [o \in Objects |-> [exists |-> FALSE, state |-> "uninitialized", detached |-> FALSE,
                                priority |-> 0, pthread |-> None]]
    /\ refs = [o \in Objects |-> {}] /\ lock = [o \in Objects |-> None]
    /\ os = [i \in Ids |-> NoThread] /\ live = {}
    /\ pc = [a \in Actors |-> Idle]
    /\ failed = {} /\ ender = [o \in Objects |-> None]

(* -------------------------------- clients --------------------------------- *)

\* NewThread(runnable, detachState): the caller gets the only strong reference; the object
\* and its runnable know each other, the runnable by a weak_ptr.
NewThread(c, o, detached) ==
    /\ c \in Sharers[o] /\ pc[c] = Idle /\ ~th[o].exists /\ ender[o] = None
    /\ th' = [th EXCEPT ![o].exists = TRUE, ![o].detached = detached,
                        ![o].priority = ToPthreadPriority(Factory.policy, Factory.priority)]
    /\ refs' = [refs EXCEPT ![o] = {c}]
    /\ UNCHANGED <<lock, os, live, pc, failed, ender>>

\* A client copies its shared_ptr for another one.
Share(c, d, o) ==
    /\ pc[c] = Idle /\ c \in refs[o] /\ d \in Sharers[o] \ refs[o]
    /\ refs' = [refs EXCEPT ![o] = @ \cup {d}]
    /\ UNCHANGED <<th, lock, os, live, pc, failed, ender>>

\* A client calls Start, Join or SetName.
Call(c, o, method) ==
    /\ pc[c] = Idle /\ c \in refs[o]
    /\ At(c, method, o)
    /\ UNCHANGED <<th, refs, lock, os, live, failed, ender>>

\* Guard g(state_lock_).
Enter(a, method, o) == pc[a] = [at |-> method, on |-> o] /\ lock[o] = None

\* A second Start does nothing, and a failure to set the attributes throws before anything
\* has changed.
StartRefused(c, o) ==
    /\ Enter(c, "Start", o)
    /\ th[o].state # "uninitialized" \/ o \in MayFail
    /\ pc' = [pc EXCEPT ![c] = Idle]
    /\ UNCHANGED <<th, refs, lock, os, live, failed, ender>>

\* pthread_create gives the new thread a free id and selfRef to ThreadMain.
StartCreates(c, o) ==
    /\ Enter(c, "Start", o) /\ th[o].state = "uninitialized"
    /\ \E i \in Ids :
         /\ os[i] = NoThread
         /\ os' = [os EXCEPT ![i] = [status |-> "running", of |-> o, joinable |-> ~th[o].detached]]
         /\ th' = [th EXCEPT ![o].state = "starting", ![o].pthread = i]
    /\ refs' = [refs EXCEPT ![o] = @ \cup {"selfRef"}]
    /\ lock' = [lock EXCEPT ![o] = c]
    /\ pc' = [pc EXCEPT ![c] = [at |-> "AddLiveThreadId", on |-> o],
                        ![o] = [at |-> "ThreadMain", on |-> o]]
    /\ UNCHANGED <<live, failed, ender>>

\* It fails: state_ is starting, selfRef is never deleted, and the id is what it was or
\* what the library had got ready.
StartFails(c, o) ==
    /\ o \in MayFail /\ Enter(c, "Start", o) /\ th[o].state = "uninitialized"
    /\ \E i \in {None} \cup {j \in Ids : os[j] = NoThread} :
         th' = [th EXCEPT ![o].state = "starting", ![o].pthread = i]
    /\ refs' = [refs EXCEPT ![o] = @ \cup {"selfRef"}]
    /\ failed' = failed \cup {o}
    /\ pc' = [pc EXCEPT ![c] = Idle]
    /\ UNCHANGED <<lock, os, live, ender>>

\* Start goes on: UpdateName, then AddLiveThreadId, then the lock is released.
AddLiveThreadId(c, o) ==
    /\ pc[c] = [at |-> "AddLiveThreadId", on |-> o]
    /\ live' = live \cup {th[o].pthread}
    /\ lock' = [lock EXCEPT ![o] = None]
    /\ pc' = [pc EXCEPT ![c] = Idle]
    /\ UNCHANGED <<th, refs, os, failed, ender>>

SetName(c, o) ==
    /\ Enter(c, "SetName", o)
    /\ pc' = [pc EXCEPT ![c] = Idle]
    /\ UNCHANGED <<th, refs, lock, os, live, failed, ender>>

\* The caller of Join returns to its own work, or to the destructor it is in.
After(a, o) == IF refs[o] = {} THEN [at |-> "RemoveLiveThreadId", on |-> o] ELSE Idle

\* Join of a detached, joined or never started thread returns at once.
JoinRefused(a, o) ==
    /\ Enter(a, "Join", o)
    /\ th[o].detached \/ th[o].state = "uninitialized"
    /\ pc' = [pc EXCEPT ![a] = After(a, o)]
    /\ UNCHANGED <<th, refs, lock, os, live, failed, ender>>

\* pthread_join waits with state_lock_ held.
JoinWaits(a, o) ==
    /\ Enter(a, "Join", o)
    /\ ~th[o].detached /\ th[o].state = "starting"
    /\ lock' = [lock EXCEPT ![o] = a]
    /\ At(a, "pthread_join", o)
    /\ UNCHANGED <<th, refs, os, live, failed, ender>>

\* A thread of the system that has ended is reaped, and its id is free again.
Reap(i) == os' = [os EXCEPT ![i] = NoThread]

\* Faulty variant: detached_ is not set, so that the next Join joins again.
JoinReturnsForgotten(a, o) ==
    /\ pc[a] = [at |-> "pthread_join", on |-> o]
    /\ ThreadOf(o).status = "ended"
    /\ Reap(th[o].pthread)
    /\ lock' = [lock EXCEPT ![o] = None]
    /\ pc' = [pc EXCEPT ![a] = After(a, o)]
    /\ UNCHANGED <<th, refs, live, failed, ender>>

JoinReturns(a, o) ==
    /\ pc[a] = [at |-> "pthread_join", on |-> o]
    /\ ThreadOf(o).status = "ended"
    /\ Reap(th[o].pthread)
    /\ th' = [th EXCEPT ![o].detached = TRUE]
    /\ lock' = [lock EXCEPT ![o] = None]
    /\ pc' = [pc EXCEPT ![a] = After(a, o)]
    /\ UNCHANGED <<refs, live, failed, ender>>

\* pthread_join fails: the thread would join itself (EDEADLK), there is no such thread, or
\* it is detached.  The error is logged and the lock released.
JoinFails(a, o) ==
    /\ pc[a] = [at |-> "pthread_join", on |-> o]
    /\ a = o \/ ~ThreadOf(o).joinable
    /\ lock' = [lock EXCEPT ![o] = None]
    /\ pc' = [pc EXCEPT ![a] = After(a, o)]
    /\ UNCHANGED <<th, refs, os, live, failed, ender>>

\* A shared_ptr goes; with the last one the object is destroyed by the same thread, which
\* joins the thread first unless it is detached.
DropBy(a, holder, o, otherwise) ==
    /\ refs' = [refs EXCEPT ![o] = @ \ {holder}]
    /\ IF refs[o] = {holder}
       THEN /\ ender' = [ender EXCEPT ![o] = a]
            /\ At(a, IF th[o].detached THEN "RemoveLiveThreadId" ELSE "Join", o)
       ELSE pc' = [pc EXCEPT ![a] = otherwise] /\ UNCHANGED ender
Drop(c, o) ==
    /\ pc[c] = Idle /\ c \in refs[o]
    /\ DropBy(c, c, o, Idle)
    /\ UNCHANGED <<th, lock, os, live, failed>>

\* The destructor's last statement.
RemoveLiveThreadId(a, o) ==
    /\ pc[a] = [at |-> "RemoveLiveThreadId", on |-> o]
    /\ live' = live \ {th[o].pthread}
    /\ th' = [th EXCEPT ![o].exists = FALSE]
    /\ pc' = [pc EXCEPT ![a] = IF a \in Clients THEN Idle ELSE [at |-> "return", on |-> a]]
    /\ UNCHANGED <<refs, lock, os, failed, ender>>

(* ------------------------------- ThreadMain ------------------------------- *)

\* ThreadMain copies *selfRef and deletes it, sets its priority and runs the runnable.
ThreadMain(o) ==
    /\ pc[o] = [at |-> "ThreadMain", on |-> o]
    /\ refs' = [refs EXCEPT ![o] = (@ \ {"selfRef"}) \cup {"thread"}]
    /\ At(o, "Run", o)
    /\ UNCHANGED <<th, lock, os, live, failed, ender>>
\* Run has returned, and the local variable thread goes.
RunReturns(o) ==
    /\ pc[o] = [at |-> "Run", on |-> o]
    /\ DropBy(o, "thread", o, [at |-> "return", on |-> o])
    /\ UNCHANGED <<th, lock, os, live, failed>>
\* The thread ends; nobody has to wait for a detached one.
ThreadReturns(o) ==
    /\ pc[o] = [at |-> "return", on |-> o]
    /\ \E i \in Ids : /\ os[i].of = o
                      /\ os' = [os EXCEPT ![i] = IF @.joinable THEN [@ EXCEPT !.status = "ended"] ELSE NoThread]
    /\ pc' = [pc EXCEPT ![o] = [at |-> "ended", on |-> o]]
    /\ UNCHANGED <<th, refs, lock, live, failed, ender>>

\* What a thread does once it has begun a call, and what a client chooses to do.
Continue(a) ==
    \E o \in {pc[a].on} \ {None} :
        \/ a \in Clients /\ (StartRefused(a, o) \/ StartCreates(a, o) \/ StartFails(a, o)
                             \/ AddLiveThreadId(a, o) \/ SetName(a, o))
        \/ JoinRefused(a, o)
        \/ JoinWaits(a, o)
        \/ JoinReturns(a, o)
        \/ JoinFails(a, o)
        \/ RemoveLiveThreadId(a, o)
        \/ a = o /\ (ThreadMain(o) \/ RunReturns(o) \/ ThreadReturns(o))
Choose(c) ==
    \E o \in Objects :
        \/ \E detached \in BOOLEAN : NewThread(c, o, detached)
        \/ \E d \in Clients : Share(c, d, o)
        \/ \E method \in {"Start", "Join", "SetName"} : Call(c, o, method)
        \/ Drop(c, o)
PTNext == (\E a \in Actors : Continue(a)) \/ \E c \in Clients : Choose(c)

(* ------------------------------- properties ------------------------------- *)

Joining(a, o) == pc[a] = [at |-> "pthread_join", on |-> o]

\* pthread_create failed for the object, or left behind the id that the object got later.
Damaged(o) ==
    \E p \in failed : p = o \/ (th[p].pthread = th[o].pthread /\ th[o].pthread # None)

\* pthread_join is called for the thread this object made and no other, not after it was
\* reaped, not by two threads at a time, and never on a detached one.  The exception is an
\* object whose pthread_create failed, which Join takes for one that was started, and any
\* other that got the id which that call left behind.
JoinsOwnThread ==
    \A a \in Actors, o \in Objects :
        Joining(a, o) /\ ~Damaged(o) =>
            /\ ThreadOf(o).of = o /\ ThreadOf(o).joinable
            /\ \A b \in Actors : Joining(b, o) => b = a
\* Nobody uses an object that has gone, and its destructor runs once nobody has it.
NoUseAfterDelete ==
    \A o \in Objects :
        /\ refs[o] # {} => th[o].exists /\ ender[o] = None
        /\ ~th[o].exists => \A a \in Actors : pc[a].on = o => pc[a].at \in {"return", "ended"} /\ a = o
\* "threads ... will be properly cleaned up once the last strong reference ... is given up":
\* the thread of an object that has gone is not left for a join that nobody can call, except
\* where that reference was the thread's own.
CleanedUp ==
    \A o \in Objects, i \in Ids :
        ender[o] # None /\ ~th[o].exists /\ os[i].of = o /\ os[i].joinable => ender[o] = o
\* The id of a thread that runs is in live_thread_ids from the end of Start on, unless
\* another object had the same id before.
LiveIdsKnown ==
    \A o \in Objects :
        LET i == th[o].pthread IN
        /\ o \notin failed /\ i # None /\ pc[o].at = "Run" /\ lock[o] = None
        /\ \A p \in Objects \ {o} : th[p].pthread # i
        => i \in live
ThreadsReaped == JoinsOwnThread /\ NoUseAfterDelete /\ CleanedUp /\ LiveIdsKnown
=============================================================================
