--------------------------- MODULE AmqpServerProofs ---------------------------
(***************************************************************************)
(* TotalTasksExact, NoUseAfterDestroy, JoinMeansFinished and               *)
(* NoStartAfterStop of AmqpServer, for any services, any callers with any  *)
(* operations, and any number of Starts.                                   *)
(*                                                                         *)
(* The counter is exact because an executor that has loaded it holds       *)
(* monitor_ alone and nobody changes it meanwhile (Monitor): the calls     *)
(* that change it without monitor_ come before the first thread (Pooled).  *)
(* That a counter of zero means that all have come back is counting: after *)
(* one Start the pool has exactly one thread per counted service.          *)
(***************************************************************************)
EXTENDS AmqpServer, FiniteSetTheorems, TLAPS

Types ==
    /\ state_ \in {"NEW", "STARTED", "STOPPED"}
    /\ mu_ \in Callers \cup {Free}
    /\ total_tasks_ \in Int
    /\ service_executor_list_ \subseteq Services
    /\ thread_ \in [Threads -> {"none", "new", "failed", "running", "returned",
                                "storing", "done"}]
    /\ starts \in 0 .. MaxStarts
    /\ pc \in [Callers -> {"idle", "starting", "joining", "joinWait"}]
    /\ reg \in [Threads -> Int]
    /\ life \in {"alive", "ending", "destroyed", "crashed"}

\* A caller inside an operation holds mu_, and state_ stays NEW throughout Start.
Locked ==
    \A c \in Callers : /\ pc[c] # "idle" => mu_ = c
                       /\ pc[c] = "starting" => state_ = "NEW"

\* One thread at a time is between its load and its store, and what it loaded is current.
Monitor ==
    \A t \in Threads : thread_[t] = "storing" =>
        /\ reg[t] = total_tasks_
        /\ \A u \in Threads : thread_[u] = "storing" => u = t

\* Every Start has a thread for each service, and there are no others.
Pooled ==
    \A t \in Threads : thread_[t] # "none" <=> t[1] \in service_executor_list_ /\ t[2] <= starts

Gone == life = "destroyed" => total_tasks_ <= 0

Inv == Types /\ Locked /\ Monitor /\ Pooled /\ TotalTasksExact /\ Gone

-----------------------------------------------------------------------------
(* Counting.                                                               *)

Back == {t \in Threads : thread_[t] = "done"}

\* There are finitely many threads, and each belongs to a service and to a Start.
LEMMA ThreadsFinite ==
    /\ IsFiniteSet(Threads)
    /\ \A t \in Threads : t[1] \in Services /\ t[2] \in 1 .. MaxStarts
<1>1. IsFiniteSet(1 .. MaxStarts)
  BY FS_Interval, BoundsAssumption
<1>2. IsFiniteSet(Services \X (1 .. MaxStarts))
  BY <1>1, FS_Product, ServicesAssumption
<1> QED
  BY <1>2 DEF Threads

\* The sets that total_tasks_ is compared with are finite.
LEMMA BackFinite ==
    ASSUME Types
    PROVE  /\ IsFiniteSet(Back) /\ Cardinality(Back) \in Nat
           /\ Cardinality(Back) <= Cardinality(Threads) /\ Cardinality(Threads) \in Nat
           /\ IsFiniteSet(service_executor_list_) /\ Cardinality(service_executor_list_) \in Nat
           /\ Cardinality(service_executor_list_) <= Cardinality(Services)
           /\ Cardinality(Services) \in Nat
<1>1. Back \in SUBSET Threads
  BY DEF Back
<1>2. service_executor_list_ \in SUBSET Services
  BY DEF Types
<1>3. /\ IsFiniteSet(Back) /\ Cardinality(Back) <= Cardinality(Threads)
      /\ IsFiniteSet(service_executor_list_)
      /\ Cardinality(service_executor_list_) <= Cardinality(Services)
  BY <1>1, <1>2, FS_Subset, ThreadsFinite, ServicesAssumption
<1> QED
  BY <1>3, FS_CardinalityType, ThreadsFinite, ServicesAssumption

\* After one Start, no tasks means that all its threads are done: as many have come back as
\* there are services, and each service has one thread.
LEMMA AllBack ==
    ASSUME Types, Pooled, TotalTasksExact, starts = 1, total_tasks_ <= 0
    PROVE  \A t \in Threads : Finished(t)
<1> DEFINE P == service_executor_list_ \X {1}
<1>1. Back \in SUBSET P
  <2>1. ASSUME NEW t \in Back PROVE t[1] \in service_executor_list_ /\ t[2] = 1 /\ t \in Threads
    BY ThreadsFinite DEF Back, Pooled
  <2>2. ASSUME NEW t \in Back PROVE t = <<t[1], t[2]>>
    BY <2>1 DEF Threads
  <2> QED
    BY <2>1, <2>2
<1>2. IsFiniteSet(P) /\ Cardinality(P) = Cardinality(service_executor_list_)
  <2>1. IsFiniteSet({1}) /\ Cardinality({1}) = 1
    BY FS_Singleton
  <2>2. IsFiniteSet(P) /\ Cardinality(P) = Cardinality(service_executor_list_) * Cardinality({1})
    BY <2>1, BackFinite, FS_Product
  <2> QED
    BY <2>1, <2>2, BackFinite
<1>3. Cardinality(Back) <= Cardinality(P)
  BY <1>1, <1>2, FS_Subset
<1>4. Cardinality(service_executor_list_) <= Cardinality(Back)
  BY BackFinite DEF TotalTasksExact, Back, Types
<1>5. P = Back
  BY <1>1, <1>2, <1>3, <1>4, BackFinite, FS_Subset
<1>6. ASSUME NEW t \in Threads, thread_[t] # "none" PROVE t \in Back
  <2>1. t[1] \in service_executor_list_ /\ t[2] = 1
    BY <1>6, ThreadsFinite DEF Pooled
  <2>2. t = <<t[1], t[2]>>
    BY DEF Threads
  <2> QED
    BY <1>5, <2>1, <2>2
<1> QED
  BY <1>6 DEF Back, Finished

-----------------------------------------------------------------------------
(* The steps.                                                              *)

\* A new server has no services, no threads and no callers.
LEMMA InitInv == Init => Inv
<1> SUFFICES ASSUME Init PROVE Inv
  OBVIOUS
<1> USE BoundsAssumption DEF Init
<1>1. Types
  BY DEF Types
<1>2. Locked /\ Monitor /\ Gone
  BY DEF Locked, Monitor, Gone
<1>3. Pooled
  BY DEF Pooled
<1>4. TotalTasksExact
  <2>1. {t \in Threads : thread_[t] = "done"} = {}
    OBVIOUS
  <2> QED
    BY <2>1, FS_EmptySet DEF TotalTasksExact
<1> QED
  BY <1>1, <1>2, <1>3, <1>4 DEF Inv

\* A step that touches neither the services nor the threads nor the counter.
LEMMA CountKept ==
    ASSUME Inv, UNCHANGED <<total_tasks_, service_executor_list_, thread_, starts, reg>>
    PROVE  Monitor' /\ Pooled' /\ TotalTasksExact'
BY DEF Inv, Monitor, Pooled, TotalTasksExact

\* Before the first Start there are no threads, so the counter may change without monitor_.
LEMMA ServicesInv ==
    ASSUME Inv, NEW c \in Callers, NEW s \in Services,
           InsertAsyncService(c, s) \/ RemoveAsyncService(c, s)
    PROVE  Inv'
<1>1. \A t \in Threads : thread_[t] = "none" /\ ~(t[2] <= starts)
  BY ThreadsFinite, BoundsAssumption
  DEF Inv, Types, Pooled, InsertAsyncService, RemoveAsyncService, InTime
<1>2. Types' /\ Locked'
  BY DEF Inv, Types, Locked, InsertAsyncService, RemoveAsyncService
<1>3. Monitor' /\ Pooled'
  BY <1>1 DEF Monitor, Pooled, InsertAsyncService, RemoveAsyncService
<1>4. Gone'
  BY DEF Gone, Enters, InsertAsyncService, RemoveAsyncService
<1>5. IsFiniteSet(service_executor_list_) /\ Cardinality(service_executor_list_) \in Nat
  BY BackFinite DEF Inv
<1>6. {t \in Threads : thread_'[t] = "done"} = {}
  BY <1>1 DEF InsertAsyncService, RemoveAsyncService
<1>7. total_tasks_ = Cardinality(service_executor_list_)
  <2>1. {t \in Threads : thread_[t] = "done"} = {}
    BY <1>1
  <2> QED
    BY <1>5, <2>1, FS_EmptySet DEF Inv, TotalTasksExact
<1>8. total_tasks_' = Cardinality(service_executor_list_')
  BY <1>5, <1>7, FS_AddElement, FS_RemoveElement
  DEF InsertAsyncService, IsNewService, RemoveAsyncService
<1>9. TotalTasksExact'
  BY <1>6, <1>8, FS_EmptySet, <1>2 DEF TotalTasksExact, Types
<1> QED
  BY <1>2, <1>3, <1>4, <1>9 DEF Inv

\* Start takes mu_ in a NEW server and adds the threads of this Start; a thread of an earlier
\* one that is at its store stays there.
LEMMA StartInv ==
    ASSUME Inv, NEW c \in Callers, Start(c)
    PROVE  Inv'
<1> USE DEF Start
<1>1. starts' = starts + 1 /\ starts \in Nat /\ starts' \in 0 .. MaxStarts
  BY BoundsAssumption DEF Inv, Types
<1>2. \A t \in Threads : thread_'[t] = IF t[1] \in service_executor_list_ /\ t[2] = starts'
                                       THEN "new" ELSE thread_[t]
  OBVIOUS
<1>3. Types'
  BY <1>1 DEF Inv, Types
<1>4. Locked'
  BY CallersAssumption DEF Inv, Types, Locked, Enters
<1>5. \A t \in Threads : t[2] = starts' => thread_[t] = "none"
  BY <1>1 DEF Inv, Pooled
<1>6. Monitor'
  BY <1>2, <1>5 DEF Inv, Monitor
<1>7. Pooled'
  BY <1>1, <1>2, ThreadsFinite DEF Inv, Pooled
<1>8. {t \in Threads : thread_'[t] = "done"} = {t \in Threads : thread_[t] = "done"}
  BY <1>2, <1>5
<1>9. TotalTasksExact'
  BY <1>8 DEF Inv, TotalTasksExact
<1> QED
  BY <1>3, <1>4, <1>6, <1>7, <1>9 DEF Inv, Gone

\* Threads are started, or one cannot be; no thread enters or leaves the pool.
LEMMA StartThreadInv ==
    ASSUME Inv, NEW c \in Callers, NEW t \in Threads, StartThread(c, t) \/ StartThreadFails(c, t)
    PROVE  Inv'
<1>1. PICK how \in {"running", "failed"} :
        thread_[t] = "new" /\ thread_' = [thread_ EXCEPT ![t] = how]
  BY DEF StartThread, StartThreadFails
<1>2. UNCHANGED <<state_, total_tasks_, service_executor_list_, starts, reg, life>>
  BY DEF StartThread, StartThreadFails
<1>3. Types'
  BY <1>1 DEF Inv, Types, StartThread, StartThreadFails
<1>4. Locked'
  BY DEF Inv, Types, Locked, StartThread, StartThreadFails
<1>5. \A u \in Threads : thread_'[u] = IF u = t THEN how ELSE thread_[u]
  BY <1>1 DEF Inv, Types
<1>6. Monitor' /\ Pooled'
  BY <1>1, <1>2, <1>5 DEF Inv, Monitor, Pooled
<1>7. {u \in Threads : thread_'[u] = "done"} = {u \in Threads : thread_[u] = "done"}
  BY <1>1, <1>5
<1>8. TotalTasksExact' /\ Gone'
  BY <1>2, <1>7 DEF Inv, TotalTasksExact, Gone
<1> QED
  BY <1>3, <1>4, <1>6, <1>8 DEF Inv

\* The callers' other steps only move mu_, state_ and the end of the object.
LEMMA CallerInv ==
    ASSUME Inv, NEW c \in Callers,
           \/ StartDone(c) \/ Stop(c) \/ JoinNew(c) \/ Join(c) \/ Destroy(c)
           \/ JoinWait(c) \/ JoinDone(c) \/ SpuriousWakeup(c)
    PROVE  Inv'
<1> USE DEF StartDone, Stop, JoinNew, Join, Destroy, JoinWait, JoinDone, SpuriousWakeup, Enters
<1>1. UNCHANGED <<total_tasks_, service_executor_list_, thread_, starts, reg>>
  OBVIOUS
<1>2. Types'
  BY DEF Inv, Types
<1>3. Locked'
  BY CallersAssumption DEF Inv, Types, Locked
<1>4. Gone'
  BY DEF Inv, Gone, NoTasks
<1> QED
  BY <1>1, <1>2, <1>3, <1>4, CountKept DEF Inv

\* An executor comes back, waits for monitor_ and stores what it has loaded, less one.
LEMMA ExecutorInv ==
    ASSUME Inv, NEW t \in Threads, ServiceReturns(t) \/ ExecutorStep(t)
    PROVE  Inv'
<1>1. CASE ServiceReturns(t)
  <2> USE <1>1 DEF ServiceReturns
  <2>1. Types' /\ Locked' /\ Gone'
    BY DEF Inv, Types, Locked, Gone
  <2>2. \A u \in Threads : thread_'[u] = IF u = t THEN "returned" ELSE thread_[u]
    BY DEF Inv, Types
  <2>3. Monitor' /\ Pooled'
    BY <2>2 DEF Inv, Monitor, Pooled
  <2>4. {u \in Threads : thread_'[u] = "done"} = {u \in Threads : thread_[u] = "done"}
    BY <2>2
  <2> QED
    BY <2>1, <2>3, <2>4 DEF Inv, TotalTasksExact
<1>2. CASE ExecutorLocks(t)
  <2> USE <1>2 DEF ExecutorLocks
  <2>1. Types' /\ Locked' /\ Gone'
    BY DEF Inv, Types, Locked, Gone
  <2>2. \A u \in Threads : thread_'[u] = IF u = t THEN "storing" ELSE thread_[u]
    BY DEF Inv, Types
  <2>3. reg'[t] = total_tasks_
    BY DEF Inv, Types
  <2>4. Monitor' /\ Pooled'
    BY <2>2, <2>3 DEF Inv, Monitor, MonitorFree, Pooled
  <2>5. {u \in Threads : thread_'[u] = "done"} = {u \in Threads : thread_[u] = "done"}
    BY <2>2
  <2> QED
    BY <2>1, <2>4, <2>5 DEF Inv, TotalTasksExact
<1>3. CASE ExecutorDone(t)
  <2> USE <1>3 DEF ExecutorDone
  <2>1. total_tasks_' = total_tasks_ - 1 /\ total_tasks_ \in Int
    BY DEF Inv, Monitor, Types
  <2>2. Types'
    BY <2>1 DEF Inv, Types
  <2>3. Locked'
    BY DEF Inv, Types, Locked, WokenByExecutor
  <2>4. Gone'
    BY <2>1 DEF Inv, Gone
  <2>5. \A u \in Threads : thread_'[u] = IF u = t THEN "done" ELSE thread_[u]
    BY DEF Inv, Types
  <2>6. Monitor'
    BY <2>5 DEF Inv, Monitor
  <2>7. Pooled'
    BY <2>5 DEF Inv, Pooled
  <2>8. {u \in Threads : thread_'[u] = "done"} = Back \cup {t} /\ t \notin Back
    BY <2>5 DEF Back
  <2>9. Cardinality(Back \cup {t}) = Cardinality(Back) + 1
    BY <2>8, BackFinite, FS_AddElement DEF Inv
  <2>10. TotalTasksExact'
    <3>1. total_tasks_ = Cardinality(service_executor_list_) - Cardinality(Back)
      BY DEF Inv, TotalTasksExact, Back
    <3>2. Cardinality(service_executor_list_) \in Nat /\ Cardinality(Back) \in Nat
      BY BackFinite DEF Inv
    <3>3. total_tasks_' = Cardinality(service_executor_list_') - Cardinality(Back \cup {t})
      BY <2>1, <2>9, <3>1, <3>2
    <3> QED
      BY <2>8, <3>3 DEF TotalTasksExact
  <2> QED
    BY <2>2, <2>3, <2>4, <2>6, <2>7, <2>10 DEF Inv
<1> QED
  BY <1>1, <1>2, <1>3 DEF ExecutorStep

\* Every step preserves the invariant.
LEMMA NextInv == Inv /\ [Next]_vars => Inv'
<1> SUFFICES ASSUME Inv, [Next]_vars PROVE Inv'
  OBVIOUS
<1>1. CASE Next
  BY <1>1, ServicesInv, StartInv, StartThreadInv, CallerInv, ExecutorInv
  DEF Next, CallerStep, Call
<1>2. CASE UNCHANGED vars
  BY <1>2, CountKept DEF vars, Inv, Types, Locked, Gone
<1> QED
  BY <1>1, <1>2

\* The invariant holds throughout.
LEMMA InvHolds == Spec => []Inv
BY InitInv, NextInv, PTL DEF Spec

-----------------------------------------------------------------------------
(* The theorems.                                                           *)

\* The variables keep their types; total_tasks_ exceeds neither the number of services nor,
\* below zero, that of the threads of all Starts.
THEOREM TypeCorrect == Spec => []TypeOK
<1>1. Inv => TypeOK
  <2> SUFFICES ASSUME Inv PROVE TypeOK
    OBVIOUS
  <2>1. total_tasks_ \in -Cardinality(Threads) .. Cardinality(Services)
    BY BackFinite DEF Inv, TotalTasksExact, Back, Types
  <2> QED
    BY <2>1 DEF Inv, Types, TypeOK
<1> QED
  BY <1>1, InvHolds, PTL

\* total_tasks_ is the number of services that have not come back: no decrement is lost.
THEOREM TotalTasksExactHolds == Spec => []TotalTasksExact
<1>1. Inv => TotalTasksExact
  BY DEF Inv
<1> QED
  BY <1>1, InvHolds, PTL

\* When ~AmqpServer has returned, no executor of a server whose Start was not retried still
\* has to take its monitor.
THEOREM NoUseAfterDestroyHolds == Spec => []NoUseAfterDestroy
<1>1. Inv => NoUseAfterDestroy
  BY AllBack DEF Inv, Gone, NoUseAfterDestroy, StartedOnce
<1> QED
  BY <1>1, InvHolds, PTL

\* Join of a server whose Start was not retried returns only when every service has come back.
THEOREM JoinMeansFinishedHolds == Spec => JoinMeansFinished
<1> DEFINE A == \A c \in Callers : pc[c] = "joining" /\ pc'[c] = "idle" /\ StartedOnce =>
                    \A t \in Threads : Finished(t)
<1>1. Inv /\ [Next]_vars => [A]_vars
  <2> SUFFICES ASSUME Inv, Next, NEW c \in Callers, pc[c] = "joining", pc'[c] = "idle",
                      StartedOnce
               PROVE  \A t \in Threads : Finished(t)
    OBVIOUS
  <2>1. total_tasks_ <= 0
    <3>1. ASSUME NEW d \in Callers, CallerStep(d) \/ Call(d) \/ SpuriousWakeup(d)
          PROVE  d = c
      BY <3>1 DEF Inv, Types, CallerStep, Call, StartThread, StartDone, JoinWait, JoinDone,
         InsertAsyncService, RemoveAsyncService, Start, Stop, JoinNew, Join, Destroy,
         SpuriousWakeup
    <3>2. ASSUME NEW d \in Callers, NEW t \in Threads, StartThreadFails(d, t) PROVE FALSE
      BY <3>2 DEF Inv, Types, StartThreadFails
    <3>3. ASSUME NEW t \in Threads, ServiceReturns(t) \/ ExecutorStep(t) PROVE FALSE
      BY <3>3 DEF Inv, Types, ServiceReturns, ExecutorStep, ExecutorLocks, ExecutorDone
    <3>4. CallerStep(c) \/ Call(c) \/ SpuriousWakeup(c)
      BY <3>1, <3>2, <3>3 DEF Next
    <3>5. JoinDone(c)
      BY <3>4 DEF Inv, Types, CallerStep, Call, StartThread, StartDone, JoinWait, JoinDone,
         InsertAsyncService, RemoveAsyncService, Start, Stop, JoinNew, Join, Destroy, Enters,
         SpuriousWakeup
    <3> QED
      BY <3>5 DEF JoinDone, NoTasks
  <2> QED
    BY <2>1, AllBack DEF Inv, StartedOnce
<1> QED
  BY <1>1, InvHolds, PTL DEF Spec, JoinMeansFinished

\* A thread is started only while the server is NEW: no Stop or Join comes in between.
THEOREM NoStartAfterStopHolds == Spec => NoStartAfterStop
<1> DEFINE A == \A t \in Threads : thread_[t] = "new" /\ thread_'[t] = "running" => state_ = "NEW"
<1>1. Inv /\ [Next]_vars => [A]_vars
  <2> SUFFICES ASSUME Inv, Next, NEW t \in Threads, thread_[t] = "new", thread_'[t] = "running"
               PROVE  state_ = "NEW"
    OBVIOUS
  <2>1. ASSUME NEW c \in Callers, NEW u \in Threads, StartThread(c, u) PROVE state_ = "NEW"
    BY <2>1 DEF Inv, Locked, StartThread
  <2>2. ASSUME NEW c \in Callers, Start(c) PROVE state_ = "NEW"
    BY <2>2 DEF Start
  <2>3. ASSUME thread_' = thread_ PROVE FALSE
    BY <2>3
  <2>4. ASSUME NEW u \in Threads, NEW how \in {"failed", "returned", "storing", "done"},
               thread_' = [thread_ EXCEPT ![u] = how]
        PROVE  FALSE
    BY <2>4 DEF Inv, Types
  <2>5. ASSUME NEW c \in Callers, CallerStep(c) \/ Call(c) \/ SpuriousWakeup(c)
        PROVE  state_ = "NEW"
    BY <2>1, <2>2, <2>3, <2>5 DEF CallerStep, Call, StartDone, JoinWait, JoinDone,
       InsertAsyncService, RemoveAsyncService, Stop, JoinNew, Join, Destroy, SpuriousWakeup
  <2>6. ASSUME NEW c \in Callers, NEW u \in Threads, StartThreadFails(c, u) PROVE FALSE
    BY <2>4, <2>6 DEF StartThreadFails
  <2>7. ASSUME NEW u \in Threads, ServiceReturns(u) \/ ExecutorStep(u) PROVE FALSE
    BY <2>4, <2>7 DEF ServiceReturns, ExecutorStep, ExecutorLocks, ExecutorDone
  <2> QED
    BY <2>5, <2>6, <2>7 DEF Next
<1> QED
  BY <1>1, InvHolds, PTL DEF Spec, NoStartAfterStop
=============================================================================
