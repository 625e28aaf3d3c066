----------------------------- MODULE AmqpServer -----------------------------
(***************************************************************************)
(* server/amqp/amqp_server.{h,cc}: the server that runs each of its        *)
(* services in a thread of its own and whose Join waits for all of them.   *)
(*                                                                         *)
(* mu_ is held for the whole of Start, Stop, Join, InsertAsyncService and  *)
(* RemoveAsyncService, so also while Join sleeps.  monitor_ has a mutex of *)
(* its own; the executors' threads take it to decrement total_tasks_, in a *)
(* load and a store.  InsertAsyncService and RemoveAsyncService change     *)
(* total_tasks_ without it and rely on being called before Start.          *)
(***************************************************************************)
EXTENDS Integers, FiniteSets

CONSTANTS
    Services,   \* the AsyncServiceInterfaces
    Callers,    \* threads that call the server
    May,        \* May[c]: the operations that c calls
    FailStart,  \* TRUE if creating a thread may fail
    MaxStarts,  \* bound on the calls of Start that find the server NEW
    Free

Operations == {"InsertAsyncService", "RemoveAsyncService", "Start", "Stop", "Join",
               "Destroy"}

ASSUME ServicesAssumption == IsFiniteSet(Services)
ASSUME CallersAssumption == Free \notin Callers /\ May \in [Callers -> SUBSET Operations]
ASSUME BoundsAssumption ==
    FailStart \in BOOLEAN /\ MaxStarts \in Nat \ {0}

\* A Start creates one thread for each service.
Threads == Services \X (1 .. MaxStarts)

VARIABLES
    state_,
    mu_,                    \* Free, or the caller that holds it
    total_tasks_,
    service_executor_list_, \* the services that have an executor
    thread_,                \* the threads of thread_pool_ and what they do
    starts,                 \* Starts that went through the case NEW
    pc,
    reg,                    \* a thread's register: total_tasks_ as it loaded it
    life                    \* of the server object, and of the process

vars == <<state_, mu_, total_tasks_, service_executor_list_, thread_, starts, pc, reg,
          life>>

\* The states of the server, its lock, its threads and its callers.
TypeOK ==
    /\ state_ \in {"NEW", "STARTED", "STOPPED"}
    /\ mu_ \in Callers \cup {Free}
    /\ total_tasks_ \in -Cardinality(Threads) .. Cardinality(Services)
    /\ service_executor_list_ \subseteq Services
    /\ thread_ \in [Threads -> {"none", "new", "failed", "running", "returned",
                                "storing", "done"}]
    /\ starts \in 0 .. MaxStarts
    /\ pc \in [Callers -> {"idle", "starting", "joining", "joinWait"}]
    /\ reg \in [Threads -> Int]
    /\ life \in {"alive", "ending", "destroyed", "crashed"}

Init ==
    /\ state_ = "NEW"
    /\ mu_ = Free
    /\ total_tasks_ = 0
    /\ service_executor_list_ = {}
    /\ thread_ = [t \in Threads |-> "none"]
    /\ starts = 0
    /\ pc = [c \in Callers |-> "idle"]
    /\ reg = [t \in Threads |-> 0]
    /\ life = "alive"

-----------------------------------------------------------------------------
\* Faulty variant: the executor does not take monitor_.
MonitorUnlocked == TRUE

\* monitor_'s mutex is held between steps only by a thread that is about to
\* store total_tasks_.
MonitorFree == \A t \in Threads : thread_[t] # "storing"

\* Faulty variant: mu_ is not taken.
MuIgnored(c, op) == pc[c] = "idle" /\ op \in May[c] /\ life = "alive"

\* Caller c enters op and takes mu_.
Enters(c, op) == pc[c] = "idle" /\ op \in May[c] /\ life = "alive" /\ mu_ = Free

\* "Use this before Start, Stop() and Join()".
InTime == state_ = "NEW" /\ starts = 0

\* Whether InsertAsyncService accepts s: otherwise ALREADY_EXISTS.
IsNewService(s) == s \notin service_executor_list_

InsertAsyncService(c, s) ==
    /\ Enters(c, "InsertAsyncService")
    /\ InTime
    /\ IsNewService(s)
    /\ service_executor_list_' = service_executor_list_ \cup {s}
    /\ total_tasks_' = total_tasks_ + 1
    /\ UNCHANGED <<state_, mu_, thread_, starts, pc, reg, life>>

\* The loop increments an iterator that it has just erased: it may also run
\* into freed memory.  Nothing else is under way then: no caller enters a
\* server that has crashed and it has no threads yet.
RemoveAsyncService(c, s) ==
    /\ Enters(c, "RemoveAsyncService")
    /\ InTime
    /\ s \in service_executor_list_
    /\ service_executor_list_' = service_executor_list_ \ {s}
    /\ total_tasks_' = total_tasks_ - 1
    /\ life' \in {"alive", "crashed"}
    /\ UNCHANGED <<state_, mu_, thread_, starts, pc, reg>>

\* Start of a NEW server: a thread for each executor joins thread_pool_ ...
Start(c) ==
    /\ Enters(c, "Start")
    /\ state_ = "NEW"
    /\ starts < MaxStarts
    /\ starts' = starts + 1
    /\ thread_' = [t \in Threads |->
                     IF t[1] \in service_executor_list_ /\ t[2] = starts'
                     THEN "new" ELSE thread_[t]]
    /\ mu_' = c
    /\ pc' = [pc EXCEPT ![c] = "starting"]
    /\ UNCHANGED <<state_, total_tasks_, service_executor_list_, reg, life>>

\* ... and every thread of the pool is started ...
StartThread(c, t) ==
    /\ pc[c] = "starting"
    /\ thread_[t] = "new"
    /\ thread_' = [thread_ EXCEPT ![t] = "running"]
    /\ UNCHANGED <<state_, mu_, total_tasks_, service_executor_list_, starts, pc, reg, life>>

\* ... unless one of them cannot be: the exception leaves the server NEW.
StartThreadFails(c, t) ==
    /\ FailStart
    /\ pc[c] = "starting"
    /\ thread_[t] = "new"
    /\ thread_' = [thread_ EXCEPT ![t] = "failed"]
    /\ mu_' = Free
    /\ pc' = [pc EXCEPT ![c] = "idle"]
    /\ UNCHANGED <<state_, total_tasks_, service_executor_list_, starts, reg, life>>

StartDone(c) ==
    /\ pc[c] = "starting"
    /\ \A t \in Threads : thread_[t] # "new"
    /\ state_' = "STARTED"
    /\ mu_' = Free
    /\ pc' = [pc EXCEPT ![c] = "idle"]
    /\ UNCHANGED <<total_tasks_, service_executor_list_, thread_, starts, reg, life>>

\* Stop only changes state_: no service is shut down.
Stop(c) ==
    /\ Enters(c, "Stop")
    /\ state_ # "STOPPED"
    /\ state_' = "STOPPED"
    /\ UNCHANGED <<mu_, total_tasks_, service_executor_list_, thread_, starts, pc, reg, life>>

JoinNew(c) ==
    /\ Enters(c, "Join")
    /\ state_ = "NEW"
    /\ state_' = "STOPPED"
    /\ UNCHANGED <<mu_, total_tasks_, service_executor_list_, thread_, starts, pc, reg, life>>

Join(c) ==
    /\ Enters(c, "Join")
    /\ state_ # "NEW"
    /\ mu_' = c
    /\ pc' = [pc EXCEPT ![c] = "joining"]
    /\ UNCHANGED <<state_, total_tasks_, service_executor_list_, thread_, starts, reg, life>>

\* ~AmqpServer: Stop() and then Join().  Nobody else may be using the server.
Destroy(c) ==
    /\ Enters(c, "Destroy")
    /\ \A d \in Callers : pc[d] = "idle"
    /\ state_' = "STOPPED"
    /\ life' = "ending"
    /\ mu_' = c
    /\ pc' = [pc EXCEPT ![c] = "joining"]
    /\ UNCHANGED <<total_tasks_, service_executor_list_, thread_, starts, reg>>

\* Faulty variant: off by one.
AtMostOneTask == total_tasks_ <= 1

\* What Join waits for.
NoTasks == total_tasks_ <= 0

JoinWait(c) ==
    /\ pc[c] = "joining"
    /\ MonitorFree
    /\ ~NoTasks
    /\ pc' = [pc EXCEPT ![c] = "joinWait"]
    /\ UNCHANGED <<state_, mu_, total_tasks_, service_executor_list_, thread_, starts, reg,
                   life>>

\* Join returns; called by the destructor, the object is gone then.
JoinDone(c) ==
    /\ pc[c] = "joining"
    /\ MonitorFree
    /\ NoTasks
    /\ mu_' = Free
    /\ life' = IF life = "ending" THEN "destroyed" ELSE life
    /\ pc' = [pc EXCEPT ![c] = "idle"]
    /\ UNCHANGED <<state_, total_tasks_, service_executor_list_, thread_, starts, reg>>

SpuriousWakeup(c) ==
    /\ pc[c] = "joinWait"
    /\ pc' = [pc EXCEPT ![c] = "joining"]
    /\ UNCHANGED <<state_, mu_, total_tasks_, service_executor_list_, thread_, starts, reg,
                   life>>

-----------------------------------------------------------------------------
(* ServiceExecutor::Run.                                                   *)

\* HandleLoop returns: the event loop has nothing left to wait for.
ServiceReturns(t) ==
    /\ thread_[t] = "running"
    /\ thread_' = [thread_ EXCEPT ![t] = "returned"]
    /\ UNCHANGED <<state_, mu_, total_tasks_, service_executor_list_, starts, pc, reg, life>>

ExecutorLocks(t) ==
    /\ thread_[t] = "returned"
    /\ MonitorFree
    /\ reg' = [reg EXCEPT ![t] = total_tasks_]
    /\ thread_' = [thread_ EXCEPT ![t] = "storing"]
    /\ UNCHANGED <<state_, mu_, total_tasks_, service_executor_list_, starts, pc, life>>

\* Faulty variant: off by one.
WokenNearEnd(n) == IF n = 1 THEN {c \in Callers : pc[c] = "joinWait"} ELSE {}

\* Who is woken when an executor leaves n tasks: Notify at 0.  mu_ admits one
\* caller to Join, so the set of sleepers has at most one member.
WokenByExecutor(n) == IF n = 0 THEN {c \in Callers : pc[c] = "joinWait"} ELSE {}

ExecutorDone(t) ==
    /\ thread_[t] = "storing"
    /\ total_tasks_' = reg[t] - 1
    /\ thread_' = [thread_ EXCEPT ![t] = "done"]
    /\ pc' = [c \in Callers |-> IF c \in WokenByExecutor(total_tasks_')
                                THEN "joining" ELSE pc[c]]
    /\ UNCHANGED <<state_, mu_, service_executor_list_, starts, reg, life>>

-----------------------------------------------------------------------------
CallerStep(c) ==
    \/ \E t \in Threads : StartThread(c, t)
    \/ StartDone(c)
    \/ JoinWait(c) \/ JoinDone(c)

Call(c) ==
    \/ \E s \in Services : InsertAsyncService(c, s) \/ RemoveAsyncService(c, s)
    \/ Start(c) \/ Stop(c) \/ JoinNew(c) \/ Join(c) \/ Destroy(c)

ExecutorStep(t) == ExecutorLocks(t) \/ ExecutorDone(t)

Next ==
    \/ \E c \in Callers : CallerStep(c) \/ Call(c) \/ SpuriousWakeup(c)
    \/ \E c \in Callers, t \in Threads : StartThreadFails(c, t)
    \/ \E t \in Threads : ServiceReturns(t) \/ ExecutorStep(t)

Spec == Init /\ [][Next]_vars

\* Threads inside the server are scheduled; a blocked call of Stop or Join
\* gets mu_ when it is free.
Scheduling ==
    /\ \A c \in Callers : WF_vars(CallerStep(c))
    /\ \A t \in Threads : WF_vars(ExecutorStep(t))

\* The broker closes every connection in the end, so that HandleLoop returns.
ServicesEnd == \A t \in Threads : WF_vars(ServiceReturns(t))

FairSpec == Spec /\ Scheduling
EndingSpec == FairSpec /\ ServicesEnd

-----------------------------------------------------------------------------
(* Properties.                                                             *)

Finished(t) == thread_[t] \in {"none", "done"}

\* total_tasks_ is the number of services that still have to come back, and
\* only those: decrements of executors that finish together are not lost, and
\* neither a duplicate nor a removed service is counted.
TotalTasksExact ==
    total_tasks_ = Cardinality(service_executor_list_)
                     - Cardinality({t \in Threads : thread_[t] = "done"})

\* Start was not tried again after a thread could not be created.  A retry gives
\* every service a second thread, total_tasks_ passes 0 while executors still
\* run, and those touch a server that may be gone by then.
StartedOnce == starts = 1
Succeeded == StartedOnce /\ \A t \in Threads : thread_[t] \notin {"new", "failed"}

\* Join of a server whose Start was not retried returns only when every service
\* has come back: the waiter re-checks total_tasks_, and executors notify at 0.
JoinMeansFinished ==
    [][\A c \in Callers : pc[c] = "joining" /\ pc'[c] = "idle" /\ StartedOnce =>
         \A t \in Threads : Finished(t)]_vars

\* In a server whose Start was not retried, whether it failed or not, an
\* executor's thread never touches monitor_ or total_tasks_, which it holds by
\* reference, after the server has been destroyed.
NoUseAfterDestroy == life = "destroyed" /\ StartedOnce => \A t \in Threads : Finished(t)

\* No service begins to run in a server that has been stopped, also when Start
\* failed and is retried: Start holds mu_ from its check of state_ to its last
\* thread.
NoStartAfterStop ==
    [][\A t \in Threads : thread_[t] = "new" /\ thread_'[t] = "running" =>
         state_ = "NEW"]_vars

\* Once its services come back, Join of a server that was started returns.
StartedJoinReturns ==
    \A c \in Callers :
        pc[c] \in {"joining", "joinWait"} /\ Succeeded ~> pc[c] = "idle"
=============================================================================
