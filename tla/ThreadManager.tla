--------------------------- MODULE ThreadManager ---------------------------
(***************************************************************************)
(* threading/thread_manager.cc: a pool of worker threads that serve a      *)
(* queue of tasks.                                                         *)
(*                                                                         *)
(* The code has two locks.  mutex_ protects the queue and is shared by the *)
(* monitors monitor_ (idle workers sleep on it) and max_monitor_ (callers  *)
(* of Add sleep on it while the queue is full).  worker_monitor_ has a     *)
(* mutex of its own; the callers of AddWorker and RemoveWorker sleep on it *)
(* until worker_count_ equals worker_max_count_.  A critical section is    *)
(* one step, except the two that update worker_count_: they hold different *)
(* locks, so each is a load and a store between which the other may run.   *)
(* A wait set is the set of threads whose pc says that they sleep there; a *)
(* woken thread has to take the mutex again and may lose it to another.    *)
(* RemoveExpiredTasks is public and takes no lock.  Where a client may call *)
(* it, tasks are also taken in two steps, front() and pop(), so that the   *)
(* call can come between them.                                             *)
(***************************************************************************)
EXTENDS Integers, Sequences, FiniteSets

CONSTANTS
    Workers,     \* thread identities that AddWorker can create
    Clients,     \* threads that call the manager from outside
    Tasks,       \* Runnables handed to Add; each is handed over once
    May,         \* May[c]: the operations that client c calls
    Timeouts,    \* kinds of the timeout argument of Add that occur
    Expiring,    \* the tasks that are added with a nonzero expiration
    Limits,      \* values given to PendingTaskCountMax
    Batch,       \* values given to AddWorker and RemoveWorker
    NestedAdd,   \* TRUE if running tasks call Add themselves
    SizeT,       \* the modulus of size_t
    NoTask

Threads == Workers \cup Clients

\* Every operation of the manager's interface that changes its state.
Operations == {"SetThreadFactory", "SetExpireCallback", "PendingTaskCountMax",
               "Start", "AddWorker", "RemoveWorker", "Stop", "Join", "Add",
               "RemoveNextPending", "RemoveExpiredTasks", "ExpiredTaskCount"}

\* timeout < 0, timeout = 0 and timeout > 0.
TimeoutKinds == {"nowait", "forever", "timed"}

ASSUME ThreadsAssumption ==
    /\ Workers \cap Clients = {}
    /\ IsFiniteSet(Workers)
    /\ IsFiniteSet(Clients)
ASSUME TasksAssumption == NoTask \notin Tasks /\ Expiring \subseteq Tasks
ASSUME UseAssumption ==
    /\ May \in [Clients -> SUBSET Operations]
    /\ Timeouts \subseteq TimeoutKinds
    /\ NestedAdd \in BOOLEAN
ASSUME SizeAssumption ==
    /\ SizeT \in Nat
    /\ Cardinality(Workers) < SizeT
    /\ Limits \subseteq Nat
    /\ Batch \subseteq Nat \ {0}

VARIABLES
    state_, thread_factory_, expire_callback_,
    worker_count_,           \* workers that entered Run and have not left it
    worker_max_count_,       \* workers wanted
    idle_count_,             \* workers inside monitor_.Wait
    pending_task_count_max_, \* 0: no limit
    expired_count_,
    tasks_,                  \* the queue
    workers_, dead_workers_, id_map_,
    pc,
    taskState,  \* Task::state_, and what became of a task that left the queue
    deadline,   \* expire_time_ against the clock: "never", "future", "past"
    current,    \* the task a worker runs
    addTask,    \* the argument of the Add a thread is blocked in, or the task
                \* that it found at the front of the queue and will pop
    timed,      \* whether that Add gave a positive timeout
    tmp,        \* a register: worker_count_ as loaded, or RemoveWorker's value
    newThreads, \* AddWorker's threads that are not yet in id_map_
    inStop      \* whether RemoveWorker was called by StopImpl

manager == <<state_, thread_factory_, expire_callback_, pending_task_count_max_>>
pool    == <<worker_max_count_, workers_, dead_workers_, id_map_>>
queue   == <<tasks_, taskState, deadline, expired_count_>>
frames  == <<current, addTask, timed, tmp, newThreads, inStop>>
vars    == <<manager, pool, queue, frames, worker_count_, idle_count_, pc>>

WorkerPcs == {"unborn", "created", "starting", "storing", "announce", "loop",
              "waiting", "woken", "taking", "running", "exit", "exitStoring", "dead",
              "stillborn", "crashed"}
ClientPcs == {"idle", "spawning", "mapping", "counting", "countWait",
              "stopRead", "lowering", "draining", "drainWait", "stopped",
              "taking", "popping", "crashed"}
AddPcs    == {"maxWaiting", "maxWoken"}

PcOK(p) ==
    /\ p \in [Threads -> WorkerPcs \cup ClientPcs \cup AddPcs]
    /\ \A w \in Workers : p[w] \in WorkerPcs \cup AddPcs
    /\ \A c \in Clients : p[c] \in ClientPcs \cup AddPcs

TaskStates == {"new", "adding", "rejected", "WAITING", "EXECUTING", "COMPLETE", "failed",
               "expired", "dropped", "removed", "lost"}

\* What the manager's variables and the threads' frames may hold.
TypeOK ==
    /\ state_ \in {"UNINITIALIZED", "STARTED", "JOINING", "STOPPING", "STOPPED"}
    /\ thread_factory_ \in BOOLEAN
    /\ expire_callback_ \in BOOLEAN
    /\ worker_count_ \in 0 .. SizeT - 1
    /\ worker_max_count_ \in Nat
    /\ idle_count_ \in Nat
    /\ pending_task_count_max_ \in Nat
    /\ expired_count_ \in Nat
    /\ tasks_ \in Seq(Tasks)
    /\ workers_ \subseteq Workers
    /\ dead_workers_ \subseteq Workers
    /\ id_map_ \subseteq Workers
    /\ PcOK(pc)
    /\ taskState \in [Tasks -> TaskStates]
    /\ deadline \in [Tasks -> {"never", "future", "past"}]
    /\ current \in [Workers -> Tasks \cup {NoTask}]
    /\ addTask \in [Threads -> Tasks \cup {NoTask}]
    /\ timed \in [Threads -> BOOLEAN]
    /\ tmp \in [Threads -> Nat]
    /\ newThreads \in [Clients -> SUBSET Workers]
    /\ inStop \in [Clients -> BOOLEAN]

Init ==
    /\ state_ = "UNINITIALIZED"
    /\ thread_factory_ = FALSE
    /\ expire_callback_ = FALSE
    /\ worker_count_ = 0
    /\ worker_max_count_ = 0
    /\ idle_count_ = 0
    /\ pending_task_count_max_ = 0
    /\ expired_count_ = 0
    /\ tasks_ = << >>
    /\ workers_ = {}
    /\ dead_workers_ = {}
    /\ id_map_ = {}
    /\ pc = [th \in Threads |-> IF th \in Workers THEN "unborn" ELSE "idle"]
    /\ taskState = [t \in Tasks |-> "new"]
    /\ deadline = [t \in Tasks |-> "never"]
    /\ current = [w \in Workers |-> NoTask]
    /\ addTask = [th \in Threads |-> NoTask]
    /\ timed = [th \in Threads |-> FALSE]
    /\ tmp = [th \in Threads |-> 0]
    /\ newThreads = [c \in Clients |-> {}]
    /\ inStop = [c \in Clients |-> FALSE]

-----------------------------------------------------------------------------
(* Locks and monitors.                                                     *)

\* Faulty variant: the queue is used without Guard.
UnlockedMutex == \A w \in Workers : pc[w] # "storing"

\* mutex_ is held between steps only by a worker that is about to store the
\* incremented worker_count_ and by a thread that is about to pop the task it
\* found, worker_monitor_ only by a worker that leaves Run.
MutexFree == \A th \in Threads : pc[th] \notin {"storing", "taking"}
\* Faulty variant: the exit path without its Guard.
UnlockedWorkerMonitor == TRUE

WorkerMonitorFree == \A w \in Workers : pc[w] # "exitStoring"

\* The places where a thread sleeps, and where it continues once it is woken.
SleepPcs == {"waiting", "maxWaiting", "countWait", "drainWait"}
WakesTo(label) == CASE label = "waiting"    -> "woken"
                    [] label = "maxWaiting" -> "maxWoken"
                    [] label = "countWait"  -> "counting"
                    [] label = "drainWait"  -> "draining"

Asleep(labels) == {th \in Threads : pc[th] \in labels}

\* The sets of sleepers that pthread_cond_signal may wake.
Notify(sleepers) == IF sleepers = {} THEN {{}} ELSE {{th} : th \in sleepers}

\* k calls of Notify in a row.
NotifyTimes(sleepers, k) ==
    {S \in SUBSET sleepers :
        Cardinality(S) = IF k < Cardinality(sleepers) THEN k ELSE Cardinality(sleepers)}

\* p with the threads of S moved out of their wait sets.
Wake(p, S) == [th \in Threads |-> IF th \in S THEN WakesTo(p[th]) ELSE p[th]]

\* pthread_cond_wait may return without a signal.
SpuriousWakeup(th) ==
    /\ pc[th] \in SleepPcs
    /\ pc' = Wake(pc, {th})
    /\ UNCHANGED <<manager, pool, queue, frames, worker_count_, idle_count_>>

-----------------------------------------------------------------------------
(* The queue: Add, RemoveNextPending, RemoveExpiredTasks, and the clock.   *)

IsExpired(t) == deadline[t] = "past"

\* Faulty variant: every task with an expiration counts as expired.
TimedPrefix ==
    Cardinality({i \in 1 .. Len(tasks_) : \A j \in 1 .. i : deadline[tasks_[j]] # "never"})

\* How many tasks RemoveExpiredTasks pops: it stops at the first live one.
ExpiredPrefix ==
    Cardinality({i \in 1 .. Len(tasks_) : \A j \in 1 .. i : IsExpired(tasks_[j])})

\* Faulty variant: the expired tasks are not popped.
UnpoppedTasks == tasks_

\* The queue, the tasks' states and the counter after RemoveExpiredTasks.
LiveTasks == SubSeq(tasks_, ExpiredPrefix + 1, Len(tasks_))
Expired == {tasks_[i] : i \in 1 .. ExpiredPrefix}
AfterExpiry == [t \in Tasks |-> IF t \in Expired
                                THEN IF expire_callback_ THEN "expired" ELSE "dropped"
                                ELSE taskState[t]]
CountExpired == expired_count_' = expired_count_ + ExpiredPrefix

\* A task's expire_time_ passes while it waits in the queue.
Expire(t) ==
    /\ taskState[t] = "WAITING"
    /\ deadline[t] = "future"
    /\ deadline' = [deadline EXCEPT ![t] = "past"]
    /\ UNCHANGED <<manager, pool, frames, tasks_, taskState, expired_count_,
                   worker_count_, idle_count_, pc>>

Full(q) == pending_task_count_max_ > 0 /\ Len(q) >= pending_task_count_max_

\* The thread is not one of the manager's workers, as far as id_map_ knows.
CanSleep(th) == th \notin id_map_

\* Where a thread that calls Add is before the call and after it.
Home(th) == IF th \in Workers THEN "running" ELSE "idle"

CallsAdd(th, t) ==
    /\ pc[th] = Home(th)
    /\ IF th \in Workers THEN NestedAdd ELSE "Add" \in May[th]
    /\ taskState[t] = "new"

\* Faulty variant: idle_count_ > 1 for > 0.
WokenByPushIfMany == IF idle_count_ > 1 THEN Notify(Asleep({"waiting"})) ELSE {{}}

\* The idle workers that a push may wake.
WokenByPush == IF idle_count_ > 0 THEN Notify(Asleep({"waiting"})) ELSE {{}}

\* The end of Add: thread th pushes t behind q.
Push(th, t, q, ts) ==
    /\ tasks_' = Append(q, t)
    /\ taskState' = [ts EXCEPT ![t] = "WAITING"]
    /\ deadline' = [deadline EXCEPT ![t] = IF t \in Expiring THEN "future" ELSE "never"]
    /\ \E S \in WokenByPush : pc' = Wake([pc EXCEPT ![th] = Home(th)], S)

\* TimedOutException: the lock could not be had at once or in time.
AddContended(th, t) ==
    /\ CallsAdd(th, t)
    /\ Timeouts \cap {"nowait", "timed"} # {}
    /\ \E other \in Threads \ {th} : pc[other] \notin {"unborn", "created", "dead", "stillborn"}
    /\ taskState' = [taskState EXCEPT ![t] = "rejected"]
    /\ UNCHANGED <<manager, pool, frames, tasks_, deadline, expired_count_,
                   worker_count_, idle_count_, pc>>

\* IllegalStateException.
AddNotStarted(th, t) ==
    /\ CallsAdd(th, t)
    /\ MutexFree
    /\ state_ # "STARTED"
    /\ taskState' = [taskState EXCEPT ![t] = "rejected"]
    /\ UNCHANGED <<manager, pool, frames, tasks_, deadline, expired_count_,
                   worker_count_, idle_count_, pc>>

AddPush(th, t) ==
    /\ CallsAdd(th, t)
    /\ MutexFree
    /\ state_ = "STARTED"
    /\ ~Full(LiveTasks)
    /\ CountExpired
    /\ Push(th, t, LiveTasks, AfterExpiry)
    /\ UNCHANGED <<manager, pool, frames, worker_count_, idle_count_>>

\* The queue is full: sleep on max_monitor_.
AddSleep(th, t, timeout) ==
    /\ CallsAdd(th, t)
    /\ MutexFree
    /\ state_ = "STARTED"
    /\ Full(LiveTasks)
    /\ CanSleep(th) /\ timeout # "nowait"
    /\ CountExpired
    /\ tasks_' = LiveTasks
    /\ taskState' = [AfterExpiry EXCEPT ![t] = "adding"]
    /\ addTask' = [addTask EXCEPT ![th] = t]
    /\ timed' = [timed EXCEPT ![th] = timeout = "timed"]
    /\ pc' = [pc EXCEPT ![th] = "maxWaiting"]
    /\ UNCHANGED <<manager, pool, current, tmp, newThreads, inStop, deadline,
                   worker_count_, idle_count_>>

\* TooManyPendingTasksException.
AddTooMany(th, t, timeout) ==
    /\ CallsAdd(th, t)
    /\ MutexFree
    /\ state_ = "STARTED"
    /\ Full(LiveTasks)
    /\ ~(CanSleep(th) /\ timeout # "nowait")
    /\ CountExpired
    /\ tasks_' = LiveTasks
    /\ taskState' = [AfterExpiry EXCEPT ![t] = "rejected"]
    /\ UNCHANGED <<manager, pool, frames, deadline, worker_count_, idle_count_, pc>>

\* A thread woken in Add looks at the queue again, but not at state_.
AddResume(th) ==
    /\ pc[th] = "maxWoken"
    /\ MutexFree
    /\ ~Full(tasks_)
    /\ Push(th, addTask[th], tasks_, taskState)
    /\ addTask' = [addTask EXCEPT ![th] = NoTask]
    /\ timed' = [timed EXCEPT ![th] = FALSE]
    /\ UNCHANGED <<manager, pool, current, tmp, newThreads, inStop, expired_count_,
                   worker_count_, idle_count_>>

AddSleepAgain(th) ==
    /\ pc[th] = "maxWoken"
    /\ MutexFree
    /\ Full(tasks_)
    /\ pc' = [pc EXCEPT ![th] = "maxWaiting"]
    /\ UNCHANGED <<manager, pool, queue, frames, worker_count_, idle_count_>>

\* max_monitor_.Wait(timeout) throws TimedOutException.
AddTimedOut(th) ==
    /\ pc[th] = "maxWaiting"
    /\ timed[th]
    /\ MutexFree
    /\ pc' = [pc EXCEPT ![th] = Home(th)]
    /\ taskState' = [taskState EXCEPT ![addTask[th]] = "rejected"]
    /\ addTask' = [addTask EXCEPT ![th] = NoTask]
    /\ timed' = [timed EXCEPT ![th] = FALSE]
    /\ UNCHANGED <<manager, pool, current, tmp, newThreads, inStop, tasks_, deadline,
                   expired_count_, worker_count_, idle_count_>>

Calls(c, op) == pc[c] = "idle" /\ op \in May[c]

RemoveNextPending(c) ==
    /\ Calls(c, "RemoveNextPending")
    /\ MutexFree
    /\ state_ = "STARTED"
    /\ tasks_ # << >>
    /\ tasks_' = Tail(tasks_)
    /\ taskState' = [taskState EXCEPT ![Head(tasks_)] = "removed"]
    /\ UNCHANGED <<manager, pool, frames, deadline, expired_count_, worker_count_,
                   idle_count_, pc>>

ExpiredTaskCount(c) ==
    /\ Calls(c, "ExpiredTaskCount")
    /\ MutexFree
    /\ expired_count_ > 0
    /\ expired_count_' = 0
    /\ UNCHANGED <<manager, pool, frames, tasks_, taskState, deadline, worker_count_,
                   idle_count_, pc>>

-----------------------------------------------------------------------------
(* Worker::Run.                                                            *)

\* Faulty variant: JOINING is forgotten.
ActiveUnlessLowered == worker_count_ <= worker_max_count_

IsActive ==
    \/ worker_count_ <= worker_max_count_
    \/ state_ = "JOINING" /\ tasks_ # << >>

\* worker_count_++, under mutex_: the load ...
WorkerEnter(w) ==
    /\ pc[w] = "starting"
    /\ MutexFree
    /\ worker_count_ < worker_max_count_
    /\ tmp' = [tmp EXCEPT ![w] = worker_count_]
    /\ pc' = [pc EXCEPT ![w] = "storing"]
    /\ UNCHANGED <<manager, pool, queue, current, addTask, timed, newThreads, inStop,
                   worker_count_, idle_count_>>

\* ... and the store, with the test for notify_manager.
WorkerEntered(w) ==
    /\ pc[w] = "storing"
    /\ worker_count_' = (tmp[w] + 1) % SizeT
    /\ pc' = [pc EXCEPT ![w] = IF worker_count_' = worker_max_count_
                               THEN "announce" ELSE "loop"]
    /\ UNCHANGED <<manager, pool, queue, frames, idle_count_>>

\* A worker that is not wanted any more when it starts.
WorkerNotWanted(w) ==
    /\ pc[w] = "starting"
    /\ MutexFree
    /\ worker_count_ >= worker_max_count_
    /\ pc' = [pc EXCEPT ![w] = "exit"]
    /\ UNCHANGED <<manager, pool, queue, frames, worker_count_, idle_count_>>

OnWorkerMonitor == {"countWait", "drainWait"}

WorkerAnnounce(w) ==
    /\ pc[w] = "announce"
    /\ WorkerMonitorFree
    /\ \E S \in Notify(Asleep(OnWorkerMonitor)) :
          pc' = Wake([pc EXCEPT ![w] = "loop"], S)
    /\ UNCHANGED <<manager, pool, queue, frames, worker_count_, idle_count_>>

\* Worker w has mutex_ at the head of its loop or after monitor_.Wait.
AtQueue(w) == pc[w] \in {"loop", "woken"} /\ MutexFree

\* Faulty variant: the decrement is missing.
IdleStill(w) == idle_count_

\* idle_count_ once a worker that was in monitor_.Wait has left it.
IdleWithout(w) == IF pc[w] = "woken" THEN idle_count_ - 1 ELSE idle_count_

WorkerWait(w) ==
    /\ AtQueue(w)
    /\ IsActive
    /\ tasks_ = << >>
    /\ idle_count_' = IdleWithout(w) + 1
    /\ pc' = [pc EXCEPT ![w] = "waiting"]
    /\ UNCHANGED <<manager, pool, queue, frames, worker_count_>>

WorkerRetire(w) ==
    /\ AtQueue(w)
    /\ ~IsActive
    /\ idle_count_' = IdleWithout(w)
    /\ pc' = [pc EXCEPT ![w] = "exit"]
    /\ UNCHANGED <<manager, pool, queue, frames, worker_count_>>

\* Faulty variant: < for <=.
WokenByPopLate(rest) ==
    IF pending_task_count_max_ # 0 /\ Len(rest) < pending_task_count_max_ - 1
    THEN Notify(Asleep({"maxWaiting"})) ELSE {{}}

\* The callers of Add that a worker wakes when it leaves rest in the queue.
WokenByPop(rest) ==
    IF pending_task_count_max_ # 0 /\ Len(rest) <= pending_task_count_max_ - 1
    THEN Notify(Asleep({"maxWaiting"})) ELSE {{}}

WorkerTake(w) ==
    /\ AtQueue(w)
    /\ IsActive
    /\ tasks_ # << >>
    /\ LiveTasks # << >>
    /\ CountExpired
    /\ tasks_' = Tail(LiveTasks)
    /\ taskState' = [AfterExpiry EXCEPT ![Head(LiveTasks)] = "EXECUTING"]
    /\ current' = [current EXCEPT ![w] = Head(LiveTasks)]
    /\ idle_count_' = IdleWithout(w)
    /\ \E S \in WokenByPop(Tail(LiveTasks)) :
          pc' = Wake([pc EXCEPT ![w] = "running"], S)
    /\ UNCHANGED <<manager, pool, addTask, timed, tmp, newThreads, inStop, deadline,
                   worker_count_>>

\* Every queued task had expired: the worker goes around its loop.
WorkerTakeNone(w) ==
    /\ AtQueue(w)
    /\ IsActive
    /\ tasks_ # << >>
    /\ LiveTasks = << >>
    /\ CountExpired
    /\ tasks_' = << >>
    /\ taskState' = AfterExpiry
    /\ idle_count_' = IdleWithout(w)
    /\ \E S \in WokenByPop(<< >>) : pc' = Wake([pc EXCEPT ![w] = "loop"], S)
    /\ UNCHANGED <<manager, pool, frames, deadline, worker_count_>>

\* The Runnable returns, or throws and leaves the Task EXECUTING.
WorkerRan(w, outcome) ==
    /\ pc[w] = "running"
    /\ taskState' = [taskState EXCEPT ![current[w]] = outcome]
    /\ current' = [current EXCEPT ![w] = NoTask]
    /\ pc' = [pc EXCEPT ![w] = "loop"]
    /\ UNCHANGED <<manager, pool, addTask, timed, tmp, newThreads, inStop, tasks_,
                   deadline, expired_count_, worker_count_, idle_count_>>

\* Faulty variant: signed arithmetic.
SignedDecrement(n) == n - 1

\* size_t arithmetic: one less than 0 is the largest value.
Decrement(n) == (n + SizeT - 1) % SizeT

\* worker_count_--, under worker_monitor_ only: the load ...
WorkerExit(w) ==
    /\ pc[w] = "exit"
    /\ WorkerMonitorFree
    /\ dead_workers_' = dead_workers_ \cup {w}
    /\ tmp' = [tmp EXCEPT ![w] = worker_count_]
    /\ pc' = [pc EXCEPT ![w] = "exitStoring"]
    /\ UNCHANGED <<manager, queue, current, addTask, timed, newThreads, inStop,
                   worker_max_count_, workers_, id_map_, worker_count_, idle_count_>>

\* ... and the store, with the notification of the manager.
WorkerExited(w) ==
    /\ pc[w] = "exitStoring"
    /\ worker_count_' = Decrement(tmp[w])
    /\ \E S \in IF worker_count_' = worker_max_count_
                 THEN Notify(Asleep(OnWorkerMonitor)) ELSE {{}} :
          pc' = Wake([pc EXCEPT ![w] = "dead"], S)
    /\ UNCHANGED <<manager, pool, queue, frames, idle_count_>>

-----------------------------------------------------------------------------
(* RemoveExpiredTasks called from outside.  Its caller looks at the front  *)
(* of the queue and pops the front, once per round of its loop, beside the *)
(* threads that hold mutex_.                                               *)

\* Nobody but the manager calls it, with mutex_ held.
LockedExpiry == \A c \in Clients : "RemoveExpiredTasks" \notin May[c]

\* The front task has expired and is handed to the callback ...
RemoveExpiredLook(c) ==
    /\ Calls(c, "RemoveExpiredTasks")
    /\ tasks_ # << >>
    /\ IsExpired(Head(tasks_))
    /\ addTask' = [addTask EXCEPT ![c] = Head(tasks_)]
    /\ pc' = [pc EXCEPT ![c] = "popping"]
    /\ UNCHANGED <<manager, pool, queue, current, timed, tmp, newThreads, inStop,
                   worker_count_, idle_count_>>

\* ... and the front is popped; a task that came there since is lost: nobody
\* has it, and its state_ stays WAITING.
RemoveExpiredPop(c) ==
    /\ pc[c] = "popping"
    /\ tasks_ # << >>
    /\ tasks_' = Tail(tasks_)
    /\ taskState' = [taskState EXCEPT ![Head(tasks_)] =
                        CASE Head(tasks_) # addTask[c] -> "lost"
                          [] expire_callback_          -> "expired"
                          [] OTHER                     -> "dropped"]
    /\ expired_count_' = expired_count_ + 1
    /\ addTask' = [addTask EXCEPT ![c] = NoTask]
    /\ pc' = [pc EXCEPT ![c] = "idle"]
    /\ UNCHANGED <<manager, pool, current, timed, tmp, newThreads, inStop, deadline,
                   worker_count_, idle_count_>>

\* front() of a worker and of RemoveNextPending, both with mutex_ held ...
WorkerFront(w) ==
    /\ AtQueue(w)
    /\ IsActive
    /\ LiveTasks # << >>
    /\ CountExpired
    /\ tasks_' = LiveTasks
    /\ taskState' = AfterExpiry
    /\ addTask' = [addTask EXCEPT ![w] = Head(LiveTasks)]
    /\ idle_count_' = IdleWithout(w)
    /\ pc' = [pc EXCEPT ![w] = "taking"]
    /\ UNCHANGED <<manager, pool, current, timed, tmp, newThreads, inStop, deadline,
                   worker_count_>>

RemoveNextFront(c) ==
    /\ Calls(c, "RemoveNextPending")
    /\ MutexFree
    /\ state_ = "STARTED"
    /\ tasks_ # << >>
    /\ addTask' = [addTask EXCEPT ![c] = Head(tasks_)]
    /\ pc' = [pc EXCEPT ![c] = "taking"]
    /\ UNCHANGED <<manager, pool, queue, current, timed, tmp, newThreads, inStop,
                   worker_count_, idle_count_>>

\* ... and their pop(), of whatever task is in front by then.
TakeFound(th, fate) ==
    /\ pc[th] = "taking"
    /\ tasks_ # << >>
    /\ tasks_' = Tail(tasks_)
    /\ taskState' = [[taskState EXCEPT ![Head(tasks_)] = "lost"] EXCEPT ![addTask[th]] = fate]
    /\ addTask' = [addTask EXCEPT ![th] = NoTask]
    /\ UNCHANGED <<manager, pool, timed, tmp, newThreads, inStop, deadline,
                   expired_count_, worker_count_, idle_count_>>

WorkerPop(w) ==
    /\ TakeFound(w, "EXECUTING")
    /\ current' = [current EXCEPT ![w] = addTask[w]]
    /\ \E S \in WokenByPop(Tail(tasks_)) : pc' = Wake([pc EXCEPT ![w] = "running"], S)

RemoveNextPop(c) ==
    /\ TakeFound(c, "removed")
    /\ current' = current
    /\ pc' = [pc EXCEPT ![c] = "idle"]

\* pop() of an empty std::queue.
PopCrash(th) ==
    /\ pc[th] \in {"popping", "taking"}
    /\ tasks_ = << >>
    /\ pc' = [other \in Threads |-> "crashed"]
    /\ UNCHANGED <<manager, pool, queue, frames, worker_count_, idle_count_>>

UnlockedExpiry ==
    \/ \E c \in Clients : RemoveExpiredLook(c) \/ RemoveExpiredPop(c)
    \/ \E w \in Workers : WorkerFront(w) \/ WorkerPop(w)
    \/ \E c \in Clients : RemoveNextFront(c) \/ RemoveNextPop(c)
    \/ \E th \in Threads : PopCrash(th)

-----------------------------------------------------------------------------
(* The manager's life cycle.                                               *)

SetThreadFactory(c) ==
    /\ Calls(c, "SetThreadFactory")
    /\ MutexFree
    /\ thread_factory_' = TRUE
    /\ UNCHANGED <<state_, expire_callback_, pending_task_count_max_, pool, queue,
                   frames, worker_count_, idle_count_, pc>>

SetExpireCallback(c) ==
    /\ Calls(c, "SetExpireCallback")
    /\ expire_callback_' = TRUE
    /\ UNCHANGED <<state_, thread_factory_, pending_task_count_max_, pool, queue,
                   frames, worker_count_, idle_count_, pc>>

\* The setter; it wakes nobody.
PendingTaskCountMax(c, value) ==
    /\ Calls(c, "PendingTaskCountMax")
    /\ MutexFree
    /\ pending_task_count_max_' = value
    /\ UNCHANGED <<state_, thread_factory_, expire_callback_, pool, queue, frames,
                   worker_count_, idle_count_, pc>>

\* No thread ever sleeps on monitor_ for Start: STARTING is never assigned.
Start(c) ==
    /\ Calls(c, "Start")
    /\ MutexFree
    /\ state_ = "UNINITIALIZED"
    /\ thread_factory_
    /\ state_' = "STARTED"
    /\ pc' = Wake(pc, Asleep({"waiting"}))
    /\ UNCHANGED <<thread_factory_, expire_callback_, pending_task_count_max_, pool,
                   queue, frames, worker_count_, idle_count_>>

AddWorker(c, value) ==
    /\ Calls(c, "AddWorker")
    /\ thread_factory_
    /\ MutexFree
    /\ \E S \in SUBSET {w \in Workers : pc[w] = "unborn"} :
          /\ Cardinality(S) = value
          /\ newThreads' = [newThreads EXCEPT ![c] = S]
          /\ workers_' = workers_ \cup S
          /\ pc' = [th \in Threads |-> IF th \in S THEN "created"
                                       ELSE IF th = c THEN "spawning" ELSE pc[th]]
    /\ worker_max_count_' = worker_max_count_ + value
    /\ UNCHANGED <<manager, queue, current, addTask, timed, tmp, inStop, dead_workers_,
                   id_map_, worker_count_, idle_count_>>

\* Thread::Start of one of the new threads ...
AddWorkerSpawn(c, w) ==
    /\ pc[c] = "spawning"
    /\ w \in newThreads[c]
    /\ pc[w] = "created"
    /\ pc' = [pc EXCEPT ![c] = "mapping", ![w] = "starting"]
    /\ UNCHANGED <<manager, pool, queue, frames, worker_count_, idle_count_>>

\* ... which throws SystemResourceException when no thread can be created:
\* worker_max_count_ stays raised, the remaining threads are not started ...
AddWorkerFails(c) ==
    /\ pc[c] = "spawning"
    /\ \E w \in newThreads[c] : pc[w] = "created"
    /\ newThreads' = [newThreads EXCEPT ![c] = {}]
    /\ pc' = [th \in Threads |->
                IF th \in newThreads[c] /\ pc[th] = "created" THEN "stillborn"
                ELSE IF th = c THEN "idle" ELSE pc[th]]
    /\ UNCHANGED <<manager, pool, queue, current, addTask, timed, tmp, inStop,
                   worker_count_, idle_count_>>

\* ... and its entry in id_map_, which is made without a lock.
AddWorkerMap(c, w) ==
    /\ pc[c] = "mapping"
    /\ w \in newThreads[c]
    /\ pc[w] # "created"
    /\ id_map_' = id_map_ \cup {w}
    /\ newThreads' = [newThreads EXCEPT ![c] = @ \ {w}]
    /\ pc' = [pc EXCEPT ![c] = IF newThreads[c] = {w} THEN "counting" ELSE "spawning"]
    /\ UNCHANGED <<manager, queue, current, addTask, timed, tmp, inStop,
                   worker_max_count_, workers_, dead_workers_, worker_count_, idle_count_>>

\* Faulty variant: >= for =.
SettledFromAbove == worker_count_ >= worker_max_count_

\* What AddWorker and RemoveWorker wait for.
Settled == worker_count_ = worker_max_count_

\* AddWorker's wait for the new workers, under worker_monitor_.
AddWorkerWait(c) ==
    /\ pc[c] = "counting"
    /\ WorkerMonitorFree
    /\ pc' = [pc EXCEPT ![c] = IF Settled THEN "idle" ELSE "countWait"]
    /\ UNCHANGED <<manager, pool, queue, frames, worker_count_, idle_count_>>

RemoveWorker(c, value) ==
    /\ Calls(c, "RemoveWorker")
    /\ pc' = [pc EXCEPT ![c] = "lowering"]
    /\ tmp' = [tmp EXCEPT ![c] = value]
    /\ UNCHANGED <<manager, pool, queue, current, addTask, timed, newThreads, inStop,
                   worker_count_, idle_count_>>

\* Faulty variant: no Notify when too few are idle.
WokenIfAllIdle(value) ==
    IF idle_count_ < value THEN {{}} ELSE {Asleep({"waiting"})}

\* The idle workers that RemoveWorker(value) wakes.
WokenByRemoval(value) ==
    IF idle_count_ < value THEN NotifyTimes(Asleep({"waiting"}), idle_count_)
                           ELSE {Asleep({"waiting"})}

RemoveWorkerLower(c) ==
    /\ pc[c] = "lowering"
    /\ MutexFree
    /\ tmp[c] <= worker_max_count_
    /\ worker_max_count_' = worker_max_count_ - tmp[c]
    /\ \E S \in WokenByRemoval(tmp[c]) : pc' = Wake([pc EXCEPT ![c] = "draining"], S)
    /\ UNCHANGED <<manager, queue, frames, workers_, dead_workers_, id_map_,
                   worker_count_, idle_count_>>

\* InvalidArgumentException; from StopImpl it leaves state_ as it is.
RemoveWorkerInvalid(c) ==
    /\ pc[c] = "lowering"
    /\ MutexFree
    /\ tmp[c] > worker_max_count_
    /\ pc' = [pc EXCEPT ![c] = "idle"]
    /\ inStop' = [inStop EXCEPT ![c] = FALSE]
    /\ UNCHANGED <<manager, pool, queue, current, addTask, timed, tmp, newThreads,
                   worker_count_, idle_count_>>

RemoveWorkerWait(c) ==
    /\ pc[c] = "draining"
    /\ WorkerMonitorFree
    /\ ~Settled
    /\ pc' = [pc EXCEPT ![c] = "drainWait"]
    /\ UNCHANGED <<manager, pool, queue, frames, worker_count_, idle_count_>>

ReleasedIds == id_map_ \ dead_workers_

\* The dead workers' threads are released.
RemoveWorkerDone(c) ==
    /\ pc[c] = "draining"
    /\ WorkerMonitorFree
    /\ Settled
    /\ id_map_' = ReleasedIds
    /\ workers_' = workers_ \ dead_workers_
    /\ dead_workers_' = {}
    /\ pc' = [pc EXCEPT ![c] = IF inStop[c] THEN "stopped" ELSE "idle"]
    /\ UNCHANGED <<manager, queue, frames, worker_max_count_, worker_count_, idle_count_>>

\* StopImpl(join).  Only the first caller removes the workers.
StopImpl(c, join) ==
    /\ Calls(c, IF join THEN "Join" ELSE "Stop")
    /\ MutexFree
    /\ IF state_ \in {"UNINITIALIZED", "STARTED"}
       THEN /\ state_' = IF join THEN "JOINING" ELSE "STOPPING"
            /\ pc' = [pc EXCEPT ![c] = "stopRead"]
       ELSE /\ state_ # "STOPPED"
            /\ state_' = state_
            /\ pc' = [pc EXCEPT ![c] = "stopped"]
    /\ UNCHANGED <<thread_factory_, expire_callback_, pending_task_count_max_, pool,
                   queue, frames, worker_count_, idle_count_>>

\* The argument of RemoveWorker(worker_count_), read without a lock.
StopRead(c) ==
    /\ pc[c] = "stopRead"
    /\ tmp' = [tmp EXCEPT ![c] = worker_count_]
    /\ inStop' = [inStop EXCEPT ![c] = TRUE]
    /\ pc' = [pc EXCEPT ![c] = "lowering"]
    /\ UNCHANGED <<manager, pool, queue, current, addTask, timed, newThreads,
                   worker_count_, idle_count_>>

StopDone(c) ==
    /\ pc[c] = "stopped"
    /\ MutexFree
    /\ state_' = "STOPPED"
    /\ inStop' = [inStop EXCEPT ![c] = FALSE]
    /\ pc' = [pc EXCEPT ![c] = "idle"]
    /\ UNCHANGED <<thread_factory_, expire_callback_, pending_task_count_max_, pool,
                   queue, current, addTask, timed, tmp, newThreads, worker_count_,
                   idle_count_>>

-----------------------------------------------------------------------------
\* A step of a call that is under way.
AddStep(th) == AddResume(th) \/ AddSleepAgain(th)

WorkerStep(w) ==
    \/ WorkerEnter(w) \/ WorkerEntered(w) \/ WorkerNotWanted(w) \/ WorkerAnnounce(w)
    \/ WorkerWait(w) \/ WorkerRetire(w) \/ WorkerTake(w) \/ WorkerTakeNone(w)
    \/ \E outcome \in {"COMPLETE", "failed"} : WorkerRan(w, outcome)
    \/ WorkerExit(w) \/ WorkerExited(w)

ClientStep(c) ==
    \/ \E w \in Workers : AddWorkerSpawn(c, w) \/ AddWorkerMap(c, w)
    \/ AddWorkerWait(c)
    \/ RemoveWorkerLower(c) \/ RemoveWorkerInvalid(c)
    \/ RemoveWorkerWait(c) \/ RemoveWorkerDone(c)
    \/ StopRead(c) \/ StopDone(c)

\* What the environment may do, or not: calls, the clock, spurious wake-ups, and
\* to have no more threads.
AddCall(th) ==
    \E t \in Tasks :
        \/ AddContended(th, t) \/ AddNotStarted(th, t) \/ AddPush(th, t)
        \/ \E timeout \in Timeouts : AddSleep(th, t, timeout) \/ AddTooMany(th, t, timeout)

ClientCall(c) ==
    \/ RemoveNextPending(c) \/ ExpiredTaskCount(c)
    \/ SetThreadFactory(c) \/ SetExpireCallback(c) \/ Start(c)
    \/ \E value \in Limits : PendingTaskCountMax(c, value)
    \/ \E value \in Batch : AddWorker(c, value) \/ RemoveWorker(c, value)
    \/ \E join \in BOOLEAN : StopImpl(c, join)

Environment ==
    \/ \E th \in Threads : AddCall(th) \/ AddTimedOut(th) \/ SpuriousWakeup(th)
    \/ \E c \in Clients : ClientCall(c) \/ AddWorkerFails(c)
    \/ \E t \in Tasks : Expire(t)

Next ==
    \/ \E th \in Threads : AddStep(th)
    \/ \E w \in Workers : WorkerStep(w)
    \/ \E c \in Clients : ClientStep(c)
    \/ Environment
    \/ ~LockedExpiry /\ UnlockedExpiry

Spec == Init /\ [][Next]_vars

\* Threads inside the manager are scheduled, and every Runnable returns.
Fairness ==
    /\ \A th \in Threads : WF_vars(AddStep(th))
    /\ \A w \in Workers : WF_vars(WorkerStep(w))
    /\ \A c \in Clients : WF_vars(ClientStep(c))

FairSpec == Spec /\ Fairness

-----------------------------------------------------------------------------
(* Properties.                                                             *)

\* The queue q and the tasks' states ts agree: a task is in q at most once,
\* and exactly the tasks of q are WAITING.
QueueOwns(q, ts) ==
    /\ \A i, j \in 1 .. Len(q) : q[i] = q[j] => i = j
    /\ \A t \in Tasks : ts[t] = "WAITING" <=> \E i \in 1 .. Len(q) : q[i] = t

\* The task of a worker inside Task::Run is its own.
RunnersOwn ==
    /\ \A w \in Workers : current[w] # NoTask => taskState[current[w]] = "EXECUTING"
    /\ \A w \in Workers : pc[w] \in {"running"} \cup AddPcs => current[w] # NoTask
    /\ \A v, w \in Workers : current[v] = current[w] /\ current[v] # NoTask => v = w

\* The task of a blocked Add is its own.
AddersOwn ==
    /\ \A th \in Threads : addTask[th] # NoTask => taskState[addTask[th]] = "adding"
    /\ \A th \in Threads : pc[th] \in AddPcs => addTask[th] # NoTask
    /\ \A s, th \in Threads : addTask[s] = addTask[th] /\ addTask[s] # NoTask => s = th

\* A task has one owner at a time: it is in the queue once, or one worker
\* runs it, or one blocked Add still holds it.  So no Runnable is run twice
\* and none is run that was expired or removed (Worker::Run, Add,
\* RemoveNextPending and the manager's own RemoveExpiredTasks move tasks).
TaskOwnership == QueueOwns(tasks_, taskState) /\ RunnersOwn /\ AddersOwn

\* idle_count_ is the number of workers that are inside monitor_.Wait, also
\* when RemoveWorker retires some of them: Add and RemoveWorker decide by it
\* whom to notify.
Idlers == Asleep({"waiting", "woken"})
IdleCountExact == idle_count_ = Cardinality(Idlers)

\* The inductive invariant of the theorems about callers that leave
\* RemoveExpiredTasks to the manager.
Inv == TypeOK /\ IdleCountExact /\ TaskOwnership

\* No AddWorker has failed to create a thread.  After one has, worker_max_count_
\* counts workers that never come: AddWorker, RemoveWorker and Stop wait for
\* them, or take a worker that was not counted yet for one of them.
AllStarted == \A w \in Workers : pc[w] # "stillborn"

\* No wake-up is lost: while tasks are pending and a worker sleeps, another
\* worker is awake and will come back to the queue.  Add notifies only if
\* idle_count_ > 0, and a woken worker may be told to retire instead.
NoLostWakeup ==
    tasks_ # << >> /\ Asleep({"waiting"}) # {} =>
        Asleep({"announce", "loop", "woken", "running", "maxWaiting", "maxWoken"})
            \cap Workers # {}

\* worker_count_ counts the workers between their increment under mutex_ and
\* their decrement under worker_monitor_, and never wraps around, in a pool
\* whose threads could all be created (AddWorker counts them before).
Counted == Asleep({"announce", "loop", "waiting", "woken", "running", "exit",
                   "exitStoring", "maxWaiting", "maxWoken"}) \cap Workers
WorkerCountExact == AllStarted => worker_count_ = Cardinality(Counted)

\* A caller of Add sleeps on max_monitor_ only while somebody is bound to wake
\* it: the queue holds a task, whose pop notifies, or another caller has been
\* woken, whose push leads to such a pop.  A dropped prefix of expired tasks
\* frees several places and still notifies only one caller (Worker::Run).
SleepingAddHasCause ==
    Asleep({"maxWaiting"}) # {} =>
        \/ tasks_ # << >>
        \/ Asleep({"maxWoken"}) # {}

\* Stop and Join block for the workers: state_ becomes STOPPED only when every
\* worker has left Run (StopImpl waits in RemoveWorker for worker_count_ = 0),
\* in a pool whose threads could all be created.
StopsWhenGone ==
    [][AllStarted /\ state_ # "STOPPED" /\ state_' = "STOPPED" =>
         \A w \in Workers : pc[w] \in {"unborn", "dead"}]_vars

\* Join is Stop that first lets the workers empty the queue: when state_
\* becomes STOPPED no accepted task is left behind in a pool that had workers
\* (IsActive keeps workers while JOINING with tasks).  For an unlimited queue
\* and a pool whose threads could all be created.
JoinDrains ==
    [][AllStarted /\ state_ # "STOPPED" /\ state_' = "STOPPED" =>
         tasks_ = << >> \/ \A w \in Workers : pc[w] = "unborn"]_vars

\* Only a task whose time has passed is dropped as expired, and such a task
\* is not run any more (RemoveExpiredTasks before every pop).
ExpiryRespected ==
    [][\A t \in Tasks : taskState[t] = "WAITING" =>
         /\ taskState'[t] \in {"expired", "dropped"} => IsExpired(t)
         /\ taskState'[t] = "EXECUTING" => ~IsExpired(t)]_vars

\* A task that was begun by a worker, or given back by RemoveNextPending, is
\* never handed out again, whatever the callers do: the unlocked
\* RemoveExpiredTasks may lose a task, and end one that a worker has found, but
\* it does not make two takers find one (the Guards around front and pop).
HandedOutOnce ==
    [][\A t \in Tasks :
         /\ taskState[t] = "EXECUTING" => taskState'[t] \in {"EXECUTING", "COMPLETE", "failed"}
         /\ taskState[t] \in {"COMPLETE", "failed", "removed"} => taskState'[t] = taskState[t]]_vars

\* An accepted task leaves the queue once there are workers, unless Stop
\* aborts it: neither Add's notification nor a retiring worker loses it.
\* (After a thread that could not be created there may be no worker at all.)
TasksServed ==
    \A t \in Tasks :
        taskState[t] = "WAITING" /\ worker_max_count_ > 0 ~>
            taskState[t] # "WAITING" \/ state_ \in {"STOPPING", "STOPPED"} \/ ~AllStarted

\* AddWorker, RemoveWorker, Stop and Join return: "eventually the manager
\* will see" that worker_count_ has reached worker_max_count_, unless a thread
\* that was counted could not be created.
LifecycleCallsReturn ==
    \A c \in Clients :
        pc[c] \in {"spawning", "mapping", "counting", "countWait", "stopRead",
                  "lowering", "draining", "drainWait", "stopped"} ~>
            pc[c] = "idle" \/ ~AllStarted

\* A caller blocked on a full queue gets its place (or its time runs out)
\* while the pool has workers and is not being stopped.
BlockedAddReturns ==
    \A th \in Threads :
        pc[th] \in AddPcs /\ worker_max_count_ > 0 ~>
            pc[th] \notin AddPcs \/ state_ # "STARTED" \/ ~AllStarted

\* What TaskService calls the state of a task.
StatusOf(s) == CASE s \in {"new", "adding"}                 -> "new"
                 [] s = "rejected"                          -> "refused"
                 [] s = "WAITING"                           -> "pending"
                 [] s = "EXECUTING"                         -> "running"
                 [] s \in {"COMPLETE", "failed"}            -> "done"
                 [] s \in {"expired", "dropped", "removed", "lost"} -> "discarded"

Service == INSTANCE TaskService WITH
               queue  <- tasks_,
               status <- [t \in Tasks |-> StatusOf(taskState[t])],
               late   <- {t \in Tasks : IsExpired(t)},
               runs   <- current

\* The manager keeps the promise of TaskService, for callers that leave
\* RemoveExpiredTasks to it: the threads that push, pop, drop, remove and run
\* tasks under mutex_ together serve them in order, at most once and not after
\* their time.
ImplementsService == Service!Spec

=============================================================================
