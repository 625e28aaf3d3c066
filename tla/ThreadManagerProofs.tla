------------------------ MODULE ThreadManagerProofs ------------------------
(***************************************************************************)
(* Safety of ThreadManager for any number of threads, tasks and limits:    *)
(* first the invariant Inv, then what the manager promises to users who    *)
(* keep to a discipline, and at the end the refinement of TaskService.     *)
(* The properties are false without the discipline, as the hazards of      *)
(* AddWorker, RemoveWorker and RemoveExpiredTasks show; each theorem names *)
(* the least its proof needs, as a condition on May, the calls that        *)
(* clients make:                                                           *)
(*                                                                         *)
(*   LockedExpiry   nobody calls RemoveExpiredTasks, which takes no lock;  *)
(*   ManagedBy(m)   nor RemoveWorker, and only client m adds workers,      *)
(*                  stops and joins;                                       *)
(*   Unlimited      no limit is set on the queue, and there is only Join;  *)
(*   SteadyLimit    a limit is never lifted, and tasks leave the queue     *)
(*                  only through workers.                                  *)
(*                                                                         *)
(* What depends on the number of workers holds as long as AllStarted does. *)
(***************************************************************************)
EXTENDS ThreadManager, FiniteSetTheorems, SequenceTheorems, TLAPS

-----------------------------------------------------------------------------
(* What the helpers return.                                                *)

\* RemoveExpiredTasks pops no more tasks than there are.
LEMMA PrefixBound ==
    ASSUME TypeOK
    PROVE  ExpiredPrefix \in 0 .. Len(tasks_)
<1> DEFINE P == {i \in 1 .. Len(tasks_) : \A j \in 1 .. i : IsExpired(tasks_[j])}
<1>1. Len(tasks_) \in Nat
  BY DEF TypeOK
<1>2. IsFiniteSet(1 .. Len(tasks_)) /\ Cardinality(1 .. Len(tasks_)) = Len(tasks_)
  <2>1. 1 \in Int /\ Len(tasks_) \in Int
    BY <1>1
  <2>2. /\ IsFiniteSet(1 .. Len(tasks_))
        /\ Cardinality(1 .. Len(tasks_)) =
             IF 1 > Len(tasks_) THEN 0 ELSE Len(tasks_) - 1 + 1
    BY <2>1, FS_Interval, Zenon
  <2> QED
    BY <1>1, <2>2
<1>3. IsFiniteSet(P) /\ Cardinality(P) <= Cardinality(1 .. Len(tasks_))
  BY <1>2, FS_Subset
<1>4. Cardinality(P) \in Nat
  BY <1>3, FS_CardinalityType
<1> QED
  BY <1>1, <1>2, <1>3, <1>4 DEF ExpiredPrefix

\* What RemoveExpiredTasks leaves is the queue without that prefix.
LEMMA LiveTasksFacts ==
    ASSUME TypeOK
    PROVE  /\ LiveTasks \in Seq(Tasks)
           /\ Len(LiveTasks) = Len(tasks_) - ExpiredPrefix
           /\ \A i \in 1 .. Len(LiveTasks) : LiveTasks[i] = tasks_[i + ExpiredPrefix]
<1>1. ExpiredPrefix \in 0 .. Len(tasks_)
  BY PrefixBound
<1>2. tasks_ \in Seq(Tasks) /\ Len(tasks_) \in Nat
  BY DEF TypeOK
<1> QED
  BY <1>1, <1>2 DEF LiveTasks

\* The tasks that are popped were in the queue, the others were not popped.
LEMMA ExpiredFacts ==
    ASSUME TypeOK
    PROVE  /\ Expired \subseteq Tasks
           /\ AfterExpiry \in [Tasks -> TaskStates]
<1>1. ExpiredPrefix \in 0 .. Len(tasks_)
  BY PrefixBound
<1>2. tasks_ \in Seq(Tasks) /\ Len(tasks_) \in Nat
  BY DEF TypeOK
<1>3. \A i \in 1 .. ExpiredPrefix : tasks_[i] \in Tasks
  BY <1>1, <1>2
<1> QED
  BY <1>3 DEF Expired, AfterExpiry, TypeOK, TaskStates

\* Waking sleepers keeps every thread within its own set of labels.
LEMMA WakeType ==
    ASSUME NEW p, PcOK(p), NEW S \in SUBSET Threads, \A th \in S : p[th] \in SleepPcs
    PROVE  PcOK(Wake(p, S))
  BY DEF PcOK, Wake, WakesTo, SleepPcs, WorkerPcs, ClientPcs, AddPcs, Threads

\* Notify and its relatives choose among the sleepers.
LEMMA NotifyChoosesSleepers ==
    ASSUME NEW labels \in SUBSET SleepPcs, NEW S \in Notify(Asleep(labels))
    PROVE  S \in SUBSET Threads /\ \A th \in S : pc[th] \in labels
  BY DEF Notify, Asleep

\* The end of Add is well-typed.
LEMMA PushType ==
    ASSUME TypeOK, NEW th \in Threads, NEW t \in Tasks, NEW q \in Seq(Tasks),
           NEW ts \in [Tasks -> TaskStates], pc[th] \notin SleepPcs, Push(th, t, q, ts)
    PROVE  /\ tasks_' \in Seq(Tasks)
           /\ taskState' \in [Tasks -> TaskStates]
           /\ deadline' \in [Tasks -> {"never", "future", "past"}]
           /\ PcOK(pc')
<1>1. tasks_' \in Seq(Tasks)
  BY DEF Push
<1>2. taskState' \in [Tasks -> TaskStates]
  BY DEF Push, TaskStates
<1>3. deadline' \in [Tasks -> {"never", "future", "past"}]
  BY DEF Push, TypeOK
<1>4. PcOK(pc')
  <2> DEFINE p == [pc EXCEPT ![th] = Home(th)]
  <2>1. PICK S \in WokenByPush : pc' = Wake(p, S)
    BY DEF Push
  <2>2. S \in SUBSET Threads /\ \A x \in S : pc[x] \in {"waiting"}
    BY NotifyChoosesSleepers DEF WokenByPush, SleepPcs
  <2>3. PcOK(p)
    BY ThreadsAssumption DEF TypeOK, PcOK, Home, WorkerPcs, ClientPcs, AddPcs, Threads
  <2>4. \A x \in S : p[x] \in SleepPcs
    BY <2>2 DEF TypeOK, PcOK, SleepPcs
  <2> QED
    BY <2>1, <2>2, <2>3, <2>4, WakeType
<1> QED
  BY <1>1, <1>2, <1>3, <1>4

-----------------------------------------------------------------------------
(* Type correctness.                                                       *)

\* A woken worker is counted in idle_count_, which can go down by one.
LEMMA IdleWithoutType ==
    ASSUME Inv, NEW w \in Workers, pc[w] \in {"loop", "woken"}
    PROVE  IdleWithout(w) \in Nat
<1>1. IsFiniteSet(Threads)
  BY ThreadsAssumption, FS_Union DEF Threads
<1>2. IsFiniteSet(Idlers)
  BY <1>1, FS_Subset DEF Idlers, Asleep
<1>3. CASE pc[w] = "woken"
  <2>1. w \in Idlers
    BY <1>3 DEF Idlers, Asleep, Threads
  <2>2. Cardinality(Idlers) \in Nat /\ Cardinality(Idlers) # 0
    BY <1>2, <2>1, FS_CardinalityType, FS_EmptySet
  <2> QED
    BY <1>3, <2>2 DEF Inv, IdleCountExact, IdleWithout
<1> QED
  BY <1>3 DEF Inv, TypeOK, IdleWithout

\* Every step keeps the types.
LEMMA TypeStep ==
    ASSUME Inv, LockedExpiry, [Next]_vars
    PROVE  TypeOK'
<1> USE DEF manager, pool, queue, frames
<1>1. ASSUME NEW th \in Threads, SpuriousWakeup(th)
      PROVE  TypeOK'
  <2>1. PcOK(pc')
    BY <1>1, WakeType DEF Inv, TypeOK, SpuriousWakeup
  <2> QED
    BY <1>1, <2>1 DEF Inv, TypeOK, SpuriousWakeup
<1>2. ASSUME NEW t \in Tasks, Expire(t)
      PROVE  TypeOK'
  BY <1>2 DEF Inv, TypeOK, Expire
<1>3. ASSUME NEW th \in Threads, NEW t \in Tasks, AddContended(th, t)
      PROVE  TypeOK'
  BY <1>3 DEF Inv, TypeOK, AddContended, TaskStates
<1>4. ASSUME NEW th \in Threads, NEW t \in Tasks, AddNotStarted(th, t)
      PROVE  TypeOK'
  BY <1>4 DEF Inv, TypeOK, AddNotStarted, TaskStates
<1>5. ASSUME NEW th \in Threads, NEW t \in Tasks, AddPush(th, t)
      PROVE  TypeOK'
  <2>1. expired_count_' \in Nat
    BY <1>5, PrefixBound DEF Inv, TypeOK, AddPush, CountExpired
  <2>2. pc[th] \notin SleepPcs
    BY <1>5 DEF AddPush, CallsAdd, Home, SleepPcs
  <2>3. /\ tasks_' \in Seq(Tasks)
        /\ taskState' \in [Tasks -> TaskStates]
        /\ deadline' \in [Tasks -> {"never", "future", "past"}]
        /\ PcOK(pc')
    BY <1>5, <2>2, PushType, LiveTasksFacts, ExpiredFacts DEF Inv, AddPush
  <2> QED
    BY <1>5, <2>1, <2>3 DEF Inv, TypeOK, AddPush
<1>6. ASSUME NEW th \in Threads, NEW t \in Tasks, NEW timeout \in Timeouts,
             AddSleep(th, t, timeout)
      PROVE  TypeOK'
  <2>1. expired_count_' \in Nat
    BY <1>6, PrefixBound DEF Inv, TypeOK, AddSleep, CountExpired
  <2>2. tasks_' \in Seq(Tasks)
    BY <1>6, LiveTasksFacts DEF Inv, AddSleep
  <2>3. taskState' \in [Tasks -> TaskStates]
    BY <1>6, ExpiredFacts DEF Inv, AddSleep, TaskStates
  <2> QED
    BY <1>6, <2>1, <2>2, <2>3 DEF Inv, TypeOK, AddSleep, PcOK, AddPcs, Threads
<1>7. ASSUME NEW th \in Threads, NEW t \in Tasks, NEW timeout \in Timeouts,
             AddTooMany(th, t, timeout)
      PROVE  TypeOK'
  <2>1. expired_count_' \in Nat
    BY <1>7, PrefixBound DEF Inv, TypeOK, AddTooMany, CountExpired
  <2>2. tasks_' \in Seq(Tasks)
    BY <1>7, LiveTasksFacts DEF Inv, AddTooMany
  <2>3. taskState' \in [Tasks -> TaskStates]
    BY <1>7, ExpiredFacts DEF Inv, AddTooMany, TaskStates
  <2> QED
    BY <1>7, <2>1, <2>2, <2>3 DEF Inv, TypeOK, AddTooMany, PcOK, AddPcs, Threads
<1>8. ASSUME NEW th \in Threads, AddResume(th)
      PROVE  TypeOK'
  <2>1. addTask[th] \in Tasks
    BY <1>8 DEF Inv, TypeOK, TaskOwnership, AddersOwn, AddResume, AddPcs
  <2>2. pc[th] \notin SleepPcs
    BY <1>8 DEF AddResume, SleepPcs
  <2>3. /\ tasks_' \in Seq(Tasks)
        /\ taskState' \in [Tasks -> TaskStates]
        /\ deadline' \in [Tasks -> {"never", "future", "past"}]
        /\ PcOK(pc')
    BY <1>8, <2>1, <2>2, PushType DEF Inv, TypeOK, AddResume
  <2> QED
    BY <1>8, <2>3 DEF Inv, TypeOK, AddResume
<1>9. ASSUME NEW th \in Threads, AddSleepAgain(th)
      PROVE  TypeOK'
  BY <1>9 DEF Inv, TypeOK, AddSleepAgain, PcOK, AddPcs, Threads
<1>10. ASSUME NEW th \in Threads, AddTimedOut(th)
      PROVE  TypeOK'
  BY <1>10, ThreadsAssumption DEF Inv, TypeOK, AddTimedOut, TaskStates, PcOK, Home, WorkerPcs, ClientPcs, AddPcs, Threads
<1>11. ASSUME NEW c \in Clients, RemoveNextPending(c)
      PROVE  TypeOK'
  BY <1>11 DEF Inv, TypeOK, RemoveNextPending, TaskStates
<1>12. ASSUME NEW c \in Clients, AddWorkerFails(c)
      PROVE  TypeOK'
  BY <1>12, ThreadsAssumption DEF Inv, TypeOK, AddWorkerFails, PcOK, WorkerPcs, ClientPcs, AddPcs, Threads
<1>15. ASSUME NEW c \in Clients, ExpiredTaskCount(c)
      PROVE  TypeOK'
  BY <1>15 DEF Inv, TypeOK, ExpiredTaskCount
<1>16. ASSUME NEW c \in Clients, SetThreadFactory(c)
      PROVE  TypeOK'
  BY <1>16 DEF Inv, TypeOK, SetThreadFactory
<1>17. ASSUME NEW c \in Clients, SetExpireCallback(c)
      PROVE  TypeOK'
  BY <1>17 DEF Inv, TypeOK, SetExpireCallback
<1>18. ASSUME NEW c \in Clients, NEW value \in Limits, PendingTaskCountMax(c, value)
      PROVE  TypeOK'
  BY <1>18, SizeAssumption DEF Inv, TypeOK, PendingTaskCountMax
<1>19. ASSUME NEW c \in Clients, Start(c)
      PROVE  TypeOK'
  <2>1. PcOK(pc')
    BY <1>19, WakeType DEF Inv, TypeOK, Start, Asleep, SleepPcs
  <2> QED
    BY <1>19, <2>1 DEF Inv, TypeOK, Start
<1>20. ASSUME NEW c \in Clients, NEW value \in Batch, AddWorker(c, value)
      PROVE  TypeOK'
  BY <1>20, ThreadsAssumption, SizeAssumption DEF Inv, TypeOK, AddWorker, PcOK, WorkerPcs, ClientPcs, AddPcs, Threads
<1>21. ASSUME NEW c \in Clients, NEW w \in Workers, AddWorkerSpawn(c, w)
      PROVE  TypeOK'
  BY <1>21, ThreadsAssumption DEF Inv, TypeOK, AddWorkerSpawn, PcOK, WorkerPcs, ClientPcs, AddPcs, Threads
<1>22. ASSUME NEW c \in Clients, NEW w \in Workers, AddWorkerMap(c, w)
      PROVE  TypeOK'
  BY <1>22, ThreadsAssumption DEF Inv, TypeOK, AddWorkerMap, PcOK, WorkerPcs, ClientPcs, AddPcs, Threads
<1>23. ASSUME NEW c \in Clients, AddWorkerWait(c)
      PROVE  TypeOK'
  BY <1>23, ThreadsAssumption DEF Inv, TypeOK, AddWorkerWait, PcOK, WorkerPcs, ClientPcs, AddPcs, Threads
<1>24. ASSUME NEW c \in Clients, NEW value \in Batch, RemoveWorker(c, value)
      PROVE  TypeOK'
  BY <1>24, ThreadsAssumption, SizeAssumption DEF Inv, TypeOK, RemoveWorker, PcOK, WorkerPcs, ClientPcs, AddPcs, Threads
<1>25. ASSUME NEW c \in Clients, RemoveWorkerLower(c)
      PROVE  TypeOK'
  <2>1. worker_max_count_' \in Nat
    BY <1>25 DEF Inv, TypeOK, RemoveWorkerLower, Threads
  <2> DEFINE p == [pc EXCEPT ![c] = "draining"]
  <2>2. PICK S \in WokenByRemoval(tmp[c]) : pc' = Wake(p, S)
    BY <1>25 DEF RemoveWorkerLower
  <2>3. S \in SUBSET Threads /\ \A x \in S : pc[x] = "waiting"
    BY DEF WokenByRemoval, NotifyTimes, Asleep
  <2>4. PcOK(p)
    BY ThreadsAssumption DEF Inv, TypeOK, PcOK, WorkerPcs, ClientPcs, AddPcs, Threads
  <2>5. \A x \in S : p[x] \in SleepPcs
    BY <1>25, <2>3 DEF RemoveWorkerLower, Inv, TypeOK, PcOK, SleepPcs
  <2>6. PcOK(pc')
    BY <2>2, <2>3, <2>4, <2>5, WakeType
  <2> QED
    BY <1>25, <2>1, <2>6 DEF Inv, TypeOK, RemoveWorkerLower
<1>26. ASSUME NEW c \in Clients, RemoveWorkerInvalid(c)
      PROVE  TypeOK'
  BY <1>26, ThreadsAssumption DEF Inv, TypeOK, RemoveWorkerInvalid, PcOK, WorkerPcs, ClientPcs, AddPcs, Threads
<1>27. ASSUME NEW c \in Clients, RemoveWorkerWait(c)
      PROVE  TypeOK'
  BY <1>27, ThreadsAssumption DEF Inv, TypeOK, RemoveWorkerWait, PcOK, WorkerPcs, ClientPcs, AddPcs, Threads
<1>28. ASSUME NEW c \in Clients, RemoveWorkerDone(c)
      PROVE  TypeOK'
  BY <1>28, ThreadsAssumption DEF Inv, TypeOK, RemoveWorkerDone, PcOK, WorkerPcs, ClientPcs, AddPcs, Threads, ReleasedIds
<1>29. ASSUME NEW c \in Clients, NEW join \in BOOLEAN, StopImpl(c, join)
      PROVE  TypeOK'
  BY <1>29, ThreadsAssumption DEF Inv, TypeOK, StopImpl, PcOK, WorkerPcs, ClientPcs, AddPcs, Threads
<1>30. ASSUME NEW c \in Clients, StopRead(c)
      PROVE  TypeOK'
  BY <1>30, ThreadsAssumption, SizeAssumption DEF Inv, TypeOK, StopRead, PcOK, WorkerPcs, ClientPcs, AddPcs, Threads
<1>31. ASSUME NEW c \in Clients, StopDone(c)
      PROVE  TypeOK'
  BY <1>31, ThreadsAssumption DEF Inv, TypeOK, StopDone, PcOK, WorkerPcs, ClientPcs, AddPcs, Threads
<1>32. ASSUME NEW w \in Workers, WorkerEnter(w)
      PROVE  TypeOK'
  BY <1>32, ThreadsAssumption, SizeAssumption DEF Inv, TypeOK, WorkerEnter, PcOK, WorkerPcs, ClientPcs, AddPcs, Threads
<1>33. ASSUME NEW w \in Workers, WorkerEntered(w)
      PROVE  TypeOK'
  <2>1. SizeT \in Nat /\ SizeT > 0
    BY ThreadsAssumption, SizeAssumption, FS_CardinalityType
  <2>2. worker_count_' \in 0 .. SizeT - 1
    BY <1>33, <2>1 DEF Inv, TypeOK, WorkerEntered, Threads
  <2>3. PcOK(pc')
    BY <1>33, ThreadsAssumption DEF Inv, TypeOK, WorkerEntered, PcOK, WorkerPcs, ClientPcs, AddPcs, Threads
  <2> QED
    BY <1>33, <2>2, <2>3 DEF Inv, TypeOK, WorkerEntered
<1>34. ASSUME NEW w \in Workers, WorkerNotWanted(w)
      PROVE  TypeOK'
  BY <1>34, ThreadsAssumption DEF Inv, TypeOK, WorkerNotWanted, PcOK, WorkerPcs, ClientPcs, AddPcs, Threads
<1>35. ASSUME NEW w \in Workers, WorkerAnnounce(w)
      PROVE  TypeOK'
  <2> DEFINE p == [pc EXCEPT ![w] = "loop"]
  <2>1. PICK S \in Notify(Asleep(OnWorkerMonitor)) : pc' = Wake(p, S)
    BY <1>35 DEF WorkerAnnounce
  <2>2. S \in SUBSET Threads /\ \A x \in S : pc[x] \in OnWorkerMonitor
    BY NotifyChoosesSleepers DEF SleepPcs, OnWorkerMonitor
  <2>3. PcOK(p)
    BY ThreadsAssumption DEF Inv, TypeOK, PcOK, WorkerPcs, ClientPcs, AddPcs, Threads
  <2>4. \A x \in S : p[x] \in SleepPcs
    BY <1>35, <2>2 DEF WorkerAnnounce, Inv, TypeOK, PcOK, SleepPcs, OnWorkerMonitor
  <2>5. PcOK(pc')
    BY <2>1, <2>2, <2>3, <2>4, WakeType
  <2> QED
    BY <1>35, <2>5 DEF Inv, TypeOK, WorkerAnnounce
<1>36. ASSUME NEW w \in Workers, WorkerWait(w)
      PROVE  TypeOK'
  <2>1. idle_count_' \in Nat
    BY <1>36, IdleWithoutType DEF Inv, TypeOK, WorkerWait, AtQueue
  <2>2. PcOK(pc')
    BY <1>36, ThreadsAssumption DEF Inv, TypeOK, WorkerWait, PcOK, WorkerPcs, ClientPcs, AddPcs, Threads
  <2> QED
    BY <1>36, <2>1, <2>2 DEF Inv, TypeOK, WorkerWait
<1>37. ASSUME NEW w \in Workers, WorkerRetire(w)
      PROVE  TypeOK'
  <2>1. idle_count_' \in Nat
    BY <1>37, IdleWithoutType DEF Inv, TypeOK, WorkerRetire, AtQueue
  <2>2. PcOK(pc')
    BY <1>37, ThreadsAssumption DEF Inv, TypeOK, WorkerRetire, PcOK, WorkerPcs, ClientPcs, AddPcs, Threads
  <2> QED
    BY <1>37, <2>1, <2>2 DEF Inv, TypeOK, WorkerRetire
<1>38. ASSUME NEW w \in Workers, WorkerTake(w)
      PROVE  TypeOK'
  <2> DEFINE p == [pc EXCEPT ![w] = "running"]
  <2>1. PICK S \in WokenByPop(Tail(LiveTasks)) : pc' = Wake(p, S)
    BY <1>38 DEF WorkerTake
  <2>2. S \in SUBSET Threads /\ \A x \in S : pc[x] \in {"maxWaiting"}
    BY NotifyChoosesSleepers DEF SleepPcs, WokenByPop
  <2>3. PcOK(p)
    BY ThreadsAssumption DEF Inv, TypeOK, PcOK, WorkerPcs, ClientPcs, AddPcs, Threads
  <2>4. \A x \in S : p[x] \in SleepPcs
    BY <1>38, <2>2 DEF WorkerTake, Inv, TypeOK, PcOK, SleepPcs, AtQueue
  <2>5. PcOK(pc')
    BY <2>1, <2>2, <2>3, <2>4, WakeType
  <2>6. idle_count_' \in Nat
    BY <1>38, IdleWithoutType DEF Inv, TypeOK, WorkerTake, AtQueue
  <2>7. expired_count_' \in Nat
    BY <1>38, PrefixBound DEF Inv, TypeOK, WorkerTake, CountExpired
  <2>8. tasks_' \in Seq(Tasks) /\ Head(LiveTasks) \in Tasks
    BY <1>38, LiveTasksFacts DEF Inv, WorkerTake
  <2>9. taskState' \in [Tasks -> TaskStates]
    BY <1>38, <2>8, ExpiredFacts DEF Inv, WorkerTake, TaskStates
  <2>10. current' \in [Workers -> Tasks \cup {NoTask}]
    BY <1>38, <2>8 DEF Inv, TypeOK, WorkerTake
  <2> QED
    BY <1>38, <2>5, <2>6, <2>7, <2>8, <2>9, <2>10 DEF Inv, TypeOK, WorkerTake
<1>39. ASSUME NEW w \in Workers, WorkerTakeNone(w)
      PROVE  TypeOK'
  <2> DEFINE p == [pc EXCEPT ![w] = "loop"]
  <2>1. PICK S \in WokenByPop(<< >>) : pc' = Wake(p, S)
    BY <1>39 DEF WorkerTakeNone
  <2>2. S \in SUBSET Threads /\ \A x \in S : pc[x] \in {"maxWaiting"}
    BY NotifyChoosesSleepers DEF SleepPcs, WokenByPop
  <2>3. PcOK(p)
    BY ThreadsAssumption DEF Inv, TypeOK, PcOK, WorkerPcs, ClientPcs, AddPcs, Threads
  <2>4. \A x \in S : p[x] \in SleepPcs
    BY <1>39, <2>2 DEF WorkerTakeNone, Inv, TypeOK, PcOK, SleepPcs, AtQueue
  <2>5. PcOK(pc')
    BY <2>1, <2>2, <2>3, <2>4, WakeType
  <2>6. idle_count_' \in Nat
    BY <1>39, IdleWithoutType DEF Inv, TypeOK, WorkerTakeNone, AtQueue
  <2>7. expired_count_' \in Nat
    BY <1>39, PrefixBound DEF Inv, TypeOK, WorkerTakeNone, CountExpired
  <2>8. tasks_' \in Seq(Tasks)
    BY <1>39 DEF WorkerTakeNone
  <2>9. taskState' \in [Tasks -> TaskStates]
    BY <1>39, ExpiredFacts DEF Inv, WorkerTakeNone
  <2> QED
    BY <1>39, <2>5, <2>6, <2>7, <2>8, <2>9 DEF Inv, TypeOK, WorkerTakeNone
<1>40. ASSUME NEW w \in Workers, NEW outcome \in {"COMPLETE", "failed"},
             WorkerRan(w, outcome)
      PROVE  TypeOK'
  BY <1>40, ThreadsAssumption DEF Inv, TypeOK, WorkerRan, PcOK, WorkerPcs, ClientPcs, AddPcs, Threads, TaskStates
<1>41. ASSUME NEW w \in Workers, WorkerExit(w)
      PROVE  TypeOK'
  BY <1>41, ThreadsAssumption, SizeAssumption DEF Inv, TypeOK, WorkerExit, PcOK, WorkerPcs, ClientPcs, AddPcs, Threads
<1>42. ASSUME NEW w \in Workers, WorkerExited(w)
      PROVE  TypeOK'
  <2>1. SizeT \in Nat /\ SizeT > 0
    BY ThreadsAssumption, SizeAssumption, FS_CardinalityType
  <2>2. worker_count_' \in 0 .. SizeT - 1
    BY <1>42, <2>1 DEF Inv, TypeOK, WorkerExited, Threads, Decrement
  <2> DEFINE p == [pc EXCEPT ![w] = "dead"]
  <2>3. PICK S \in IF worker_count_' = worker_max_count_
                  THEN Notify(Asleep(OnWorkerMonitor)) ELSE {{}} : pc' = Wake(p, S)
    BY <1>42 DEF WorkerExited
  <2>4. S \in SUBSET Threads /\ \A x \in S : pc[x] \in OnWorkerMonitor
    BY NotifyChoosesSleepers DEF SleepPcs, OnWorkerMonitor
  <2>5. PcOK(p)
    BY ThreadsAssumption DEF Inv, TypeOK, PcOK, WorkerPcs, ClientPcs, AddPcs, Threads
  <2>6. \A x \in S : p[x] \in SleepPcs
    BY <1>42, <2>4 DEF WorkerExited, Inv, TypeOK, PcOK, SleepPcs, OnWorkerMonitor
  <2>7. PcOK(pc')
    BY <2>3, <2>4, <2>5, <2>6, WakeType
  <2> QED
    BY <1>42, <2>2, <2>7 DEF Inv, TypeOK, WorkerExited
<1>43. CASE UNCHANGED vars
  BY <1>43 DEF Inv, TypeOK, vars
<1> QED
  BY <1>1, <1>2, <1>3, <1>4, <1>5, <1>6, <1>7, <1>8, <1>9, <1>10, <1>11, <1>12, <1>15, <1>16, <1>17, <1>18, <1>19, <1>20, <1>21, <1>22, <1>23, <1>24, <1>25, <1>26, <1>27, <1>28, <1>29, <1>30, <1>31, <1>32, <1>33, <1>34, <1>35, <1>36, <1>37, <1>38, <1>39, <1>40, <1>41, <1>42, <1>43 DEF Next, AddStep, WorkerStep, ClientStep,
     Environment, AddCall, ClientCall

-----------------------------------------------------------------------------
(* idle_count_ is exact.                                                   *)

\* There are finitely many threads to count.
LEMMA IdlersFinite == IsFiniteSet(Idlers)
<1>1. IsFiniteSet(Threads)
  BY ThreadsAssumption, FS_Union DEF Threads
<1> QED
  BY <1>1, FS_Subset DEF Idlers, Asleep

\* Nobody enters or leaves monitor_.Wait, and idle_count_ stays.
LEMMA SameIdlers ==
    ASSUME Inv, pc' = pc, idle_count_' = idle_count_
    PROVE  IdleCountExact'
  BY DEF Inv, IdleCountExact, Idlers, Asleep

\* A thread that is not in monitor_.Wait moves on and wakes sleepers: a woken
\* worker is still inside Wait.
LEMMA WakeIdlers ==
    ASSUME Inv, NEW x \in Threads, NEW label, NEW S \in SUBSET Threads,
           pc[x] \notin {"waiting", "woken"}, label \notin {"waiting", "woken"},
           \A y \in S : [pc EXCEPT ![x] = label][y] \in SleepPcs,
           pc' = Wake([pc EXCEPT ![x] = label], S)
    PROVE  Idlers' = Idlers
  BY DEF Idlers, Asleep, Wake, WakesTo, SleepPcs, Inv, TypeOK, PcOK

\* A worker leaves the wait, or passes the queue without having waited.
LEMMA LeaveIdlers ==
    ASSUME Inv, NEW w \in Workers, pc[w] \in {"loop", "woken"},
           idle_count_' = IdleWithout(w), Idlers' = Idlers \ {w}
    PROVE  IdleCountExact'
<1>1. CASE pc[w] = "woken"
  <2>1. w \in Idlers
    BY <1>1 DEF Idlers, Asleep, Threads
  <2>2. Cardinality(Idlers') = Cardinality(Idlers) - 1
    BY <2>1, IdlersFinite, FS_RemoveElement
  <2> QED
    BY <1>1, <2>2 DEF Inv, IdleCountExact, IdleWithout
<1>2. CASE pc[w] = "loop"
  <2>1. w \notin Idlers
    BY <1>2 DEF Idlers, Asleep
  <2>2. Idlers' = Idlers
    BY <2>1
  <2> QED
    BY <1>2, <2>2 DEF Inv, IdleCountExact, IdleWithout
<1> QED
  BY <1>1, <1>2

\* Every step keeps idle_count_ exact.
LEMMA IdleStep ==
    ASSUME Inv, LockedExpiry, [Next]_vars
    PROVE  IdleCountExact'
<1> USE DEF manager, pool, queue, frames
<1>1. ASSUME NEW th \in Threads, SpuriousWakeup(th)
      PROVE  IdleCountExact'
  <2>1. Idlers' = Idlers
    BY <1>1 DEF SpuriousWakeup, Idlers, Asleep, Wake, WakesTo, SleepPcs, Inv, TypeOK, PcOK
  <2> QED
    BY <1>1, <2>1 DEF SpuriousWakeup, Inv, IdleCountExact
<1>2. ASSUME NEW t \in Tasks, Expire(t)
      PROVE  IdleCountExact'
  BY <1>2, SameIdlers DEF Expire
<1>3. ASSUME NEW th \in Threads, NEW t \in Tasks, AddContended(th, t)
      PROVE  IdleCountExact'
  BY <1>3, SameIdlers DEF AddContended
<1>4. ASSUME NEW th \in Threads, NEW t \in Tasks, AddNotStarted(th, t)
      PROVE  IdleCountExact'
  BY <1>4, SameIdlers DEF AddNotStarted
<1>5. ASSUME NEW th \in Threads, NEW t \in Tasks, AddPush(th, t)
      PROVE  IdleCountExact'
  <2> DEFINE p == [pc EXCEPT ![th] = Home(th)]
  <2>1. PICK S \in WokenByPush : pc' = Wake(p, S)
    BY <1>5 DEF AddPush, Push
  <2>2. S \in SUBSET Threads /\ \A x \in S : pc[x] \in {"waiting"}
    BY NotifyChoosesSleepers DEF WokenByPush, SleepPcs
  <2>3. pc[th] \notin {"waiting", "woken"} /\ Home(th) \notin {"waiting", "woken"}
    BY <1>5 DEF AddPush, CallsAdd, Home
  <2>4. \A x \in S : p[x] \in SleepPcs
    BY <2>2, <2>3 DEF SleepPcs, Inv, TypeOK, PcOK
  <2>5. Idlers' = Idlers
    BY <2>1, <2>2, <2>3, <2>4, WakeIdlers
  <2> QED
    BY <1>5, <2>5 DEF AddPush, Inv, IdleCountExact
<1>6. ASSUME NEW th \in Threads, NEW t \in Tasks, NEW timeout \in Timeouts,
             AddSleep(th, t, timeout)
      PROVE  IdleCountExact'
  <2>1. Idlers' = Idlers
    BY <1>6 DEF AddSleep, CallsAdd, Home, Idlers, Asleep, Inv, TypeOK, PcOK
  <2> QED
    BY <1>6, <2>1 DEF AddSleep, Inv, IdleCountExact
<1>7. ASSUME NEW th \in Threads, NEW t \in Tasks, NEW timeout \in Timeouts,
             AddTooMany(th, t, timeout)
      PROVE  IdleCountExact'
  BY <1>7, SameIdlers DEF AddTooMany
<1>8. ASSUME NEW th \in Threads, AddResume(th)
      PROVE  IdleCountExact'
  <2> DEFINE p == [pc EXCEPT ![th] = Home(th)]
  <2>1. PICK S \in WokenByPush : pc' = Wake(p, S)
    BY <1>8 DEF AddResume, Push
  <2>2. S \in SUBSET Threads /\ \A x \in S : pc[x] \in {"waiting"}
    BY NotifyChoosesSleepers DEF WokenByPush, SleepPcs
  <2>3. pc[th] \notin {"waiting", "woken"} /\ Home(th) \notin {"waiting", "woken"}
    BY <1>8 DEF AddResume, CallsAdd, Home
  <2>4. \A x \in S : p[x] \in SleepPcs
    BY <2>2, <2>3 DEF SleepPcs, Inv, TypeOK, PcOK
  <2>5. Idlers' = Idlers
    BY <2>1, <2>2, <2>3, <2>4, WakeIdlers
  <2> QED
    BY <1>8, <2>5 DEF AddResume, Inv, IdleCountExact
<1>9. ASSUME NEW th \in Threads, AddSleepAgain(th)
      PROVE  IdleCountExact'
  <2>1. Idlers' = Idlers
    BY <1>9, ThreadsAssumption DEF AddSleepAgain, Idlers, Asleep, Threads, Inv, TypeOK, PcOK
  <2> QED
    BY <1>9, <2>1 DEF AddSleepAgain, Inv, IdleCountExact
<1>10. ASSUME NEW th \in Threads, AddTimedOut(th)
      PROVE  IdleCountExact'
  <2>1. Idlers' = Idlers
    BY <1>10, ThreadsAssumption DEF AddTimedOut, Home, Idlers, Asleep, Threads, Inv, TypeOK, PcOK
  <2> QED
    BY <1>10, <2>1 DEF AddTimedOut, Inv, IdleCountExact
<1>11. ASSUME NEW c \in Clients, RemoveNextPending(c)
      PROVE  IdleCountExact'
  BY <1>11, SameIdlers DEF RemoveNextPending
<1>12. ASSUME NEW c \in Clients, AddWorkerFails(c)
      PROVE  IdleCountExact'
  <2>1. Idlers' = Idlers
    BY <1>12, ThreadsAssumption DEF AddWorkerFails, Idlers, Asleep, Threads, Inv, TypeOK, PcOK
  <2> QED
    BY <1>12, <2>1 DEF AddWorkerFails, Inv, IdleCountExact
<1>15. ASSUME NEW c \in Clients, ExpiredTaskCount(c)
      PROVE  IdleCountExact'
  BY <1>15, SameIdlers DEF ExpiredTaskCount
<1>16. ASSUME NEW c \in Clients, SetThreadFactory(c)
      PROVE  IdleCountExact'
  BY <1>16, SameIdlers DEF SetThreadFactory
<1>17. ASSUME NEW c \in Clients, SetExpireCallback(c)
      PROVE  IdleCountExact'
  BY <1>17, SameIdlers DEF SetExpireCallback
<1>18. ASSUME NEW c \in Clients, NEW value \in Limits, PendingTaskCountMax(c, value)
      PROVE  IdleCountExact'
  BY <1>18, SameIdlers DEF PendingTaskCountMax
<1>19. ASSUME NEW c \in Clients, Start(c)
      PROVE  IdleCountExact'
  <2>1. Idlers' = Idlers
    BY <1>19 DEF Start, Idlers, Asleep, Wake, WakesTo
  <2> QED
    BY <1>19, <2>1 DEF Start, Inv, IdleCountExact
<1>20. ASSUME NEW c \in Clients, NEW value \in Batch, AddWorker(c, value)
      PROVE  IdleCountExact'
  <2>1. Idlers' = Idlers
    BY <1>20, ThreadsAssumption DEF AddWorker, Calls, Idlers, Asleep, Threads, Inv, TypeOK, PcOK
  <2> QED
    BY <1>20, <2>1 DEF AddWorker, Inv, IdleCountExact
<1>21. ASSUME NEW c \in Clients, NEW w \in Workers, AddWorkerSpawn(c, w)
      PROVE  IdleCountExact'
  <2>1. Idlers' = Idlers
    BY <1>21, ThreadsAssumption DEF AddWorkerSpawn, Idlers, Asleep, Threads, Inv, TypeOK, PcOK
  <2> QED
    BY <1>21, <2>1 DEF AddWorkerSpawn, Inv, IdleCountExact
<1>22. ASSUME NEW c \in Clients, NEW w \in Workers, AddWorkerMap(c, w)
      PROVE  IdleCountExact'
  <2>1. Idlers' = Idlers
    BY <1>22, ThreadsAssumption DEF AddWorkerMap, Idlers, Asleep, Threads, Inv, TypeOK, PcOK
  <2> QED
    BY <1>22, <2>1 DEF AddWorkerMap, Inv, IdleCountExact
<1>23. ASSUME NEW c \in Clients, AddWorkerWait(c)
      PROVE  IdleCountExact'
  <2>1. Idlers' = Idlers
    BY <1>23, ThreadsAssumption DEF AddWorkerWait, Idlers, Asleep, Threads, Inv, TypeOK, PcOK
  <2> QED
    BY <1>23, <2>1 DEF AddWorkerWait, Inv, IdleCountExact
<1>24. ASSUME NEW c \in Clients, NEW value \in Batch, RemoveWorker(c, value)
      PROVE  IdleCountExact'
  <2>1. Idlers' = Idlers
    BY <1>24, ThreadsAssumption DEF RemoveWorker, Calls, Idlers, Asleep, Threads, Inv, TypeOK, PcOK
  <2> QED
    BY <1>24, <2>1 DEF RemoveWorker, Inv, IdleCountExact
<1>25. ASSUME NEW c \in Clients, RemoveWorkerLower(c)
      PROVE  IdleCountExact'
  <2> DEFINE p == [pc EXCEPT ![c] = "draining"]
  <2>1. PICK S \in WokenByRemoval(tmp[c]) : pc' = Wake(p, S)
    BY <1>25 DEF RemoveWorkerLower
  <2>2. S \in SUBSET Threads /\ \A x \in S : pc[x] = "waiting"
    BY DEF WokenByRemoval, NotifyTimes, Asleep
  <2>3. \A x \in S : p[x] \in SleepPcs
    BY <1>25, <2>2 DEF RemoveWorkerLower, Inv, TypeOK, PcOK, SleepPcs
  <2>4. c \in Threads /\ pc[c] \notin {"waiting", "woken"}
    BY <1>25 DEF RemoveWorkerLower, Threads
  <2>5. Idlers' = Idlers
    BY <2>1, <2>2, <2>3, <2>4, WakeIdlers
  <2> QED
    BY <1>25, <2>5 DEF RemoveWorkerLower, Inv, IdleCountExact
<1>26. ASSUME NEW c \in Clients, RemoveWorkerInvalid(c)
      PROVE  IdleCountExact'
  <2>1. Idlers' = Idlers
    BY <1>26, ThreadsAssumption DEF RemoveWorkerInvalid, Idlers, Asleep, Threads, Inv, TypeOK, PcOK
  <2> QED
    BY <1>26, <2>1 DEF RemoveWorkerInvalid, Inv, IdleCountExact
<1>27. ASSUME NEW c \in Clients, RemoveWorkerWait(c)
      PROVE  IdleCountExact'
  <2>1. Idlers' = Idlers
    BY <1>27, ThreadsAssumption DEF RemoveWorkerWait, Idlers, Asleep, Threads, Inv, TypeOK, PcOK
  <2> QED
    BY <1>27, <2>1 DEF RemoveWorkerWait, Inv, IdleCountExact
<1>28. ASSUME NEW c \in Clients, RemoveWorkerDone(c)
      PROVE  IdleCountExact'
  <2>1. Idlers' = Idlers
    BY <1>28, ThreadsAssumption DEF RemoveWorkerDone, Idlers, Asleep, Threads, Inv, TypeOK, PcOK
  <2> QED
    BY <1>28, <2>1 DEF RemoveWorkerDone, Inv, IdleCountExact
<1>29. ASSUME NEW c \in Clients, NEW join \in BOOLEAN, StopImpl(c, join)
      PROVE  IdleCountExact'
  <2>1. Idlers' = Idlers
    BY <1>29, ThreadsAssumption DEF StopImpl, Calls, Idlers, Asleep, Threads, Inv, TypeOK, PcOK
  <2> QED
    BY <1>29, <2>1 DEF StopImpl, Inv, IdleCountExact
<1>30. ASSUME NEW c \in Clients, StopRead(c)
      PROVE  IdleCountExact'
  <2>1. Idlers' = Idlers
    BY <1>30, ThreadsAssumption DEF StopRead, Idlers, Asleep, Threads, Inv, TypeOK, PcOK
  <2> QED
    BY <1>30, <2>1 DEF StopRead, Inv, IdleCountExact
<1>31. ASSUME NEW c \in Clients, StopDone(c)
      PROVE  IdleCountExact'
  <2>1. Idlers' = Idlers
    BY <1>31, ThreadsAssumption DEF StopDone, Idlers, Asleep, Threads, Inv, TypeOK, PcOK
  <2> QED
    BY <1>31, <2>1 DEF StopDone, Inv, IdleCountExact
<1>32. ASSUME NEW w \in Workers, WorkerEnter(w)
      PROVE  IdleCountExact'
  <2>1. Idlers' = Idlers
    BY <1>32, ThreadsAssumption DEF WorkerEnter, Idlers, Asleep, Threads, Inv, TypeOK, PcOK
  <2> QED
    BY <1>32, <2>1 DEF WorkerEnter, Inv, IdleCountExact
<1>33. ASSUME NEW w \in Workers, WorkerEntered(w)
      PROVE  IdleCountExact'
  <2>1. Idlers' = Idlers
    BY <1>33, ThreadsAssumption DEF WorkerEntered, Idlers, Asleep, Threads, Inv, TypeOK, PcOK
  <2> QED
    BY <1>33, <2>1 DEF WorkerEntered, Inv, IdleCountExact
<1>34. ASSUME NEW w \in Workers, WorkerNotWanted(w)
      PROVE  IdleCountExact'
  <2>1. Idlers' = Idlers
    BY <1>34, ThreadsAssumption DEF WorkerNotWanted, Idlers, Asleep, Threads, Inv, TypeOK, PcOK
  <2> QED
    BY <1>34, <2>1 DEF WorkerNotWanted, Inv, IdleCountExact
<1>35. ASSUME NEW w \in Workers, WorkerAnnounce(w)
      PROVE  IdleCountExact'
  <2> DEFINE p == [pc EXCEPT ![w] = "loop"]
  <2>1. PICK S \in Notify(Asleep(OnWorkerMonitor)) : pc' = Wake(p, S)
    BY <1>35 DEF WorkerAnnounce
  <2>2. S \in SUBSET Threads /\ \A x \in S : pc[x] \in OnWorkerMonitor
    BY NotifyChoosesSleepers DEF SleepPcs, OnWorkerMonitor
  <2>3. \A x \in S : p[x] \in SleepPcs
    BY <1>35, <2>2 DEF WorkerAnnounce, Inv, TypeOK, PcOK, SleepPcs, OnWorkerMonitor
  <2>4. w \in Threads /\ pc[w] \notin {"waiting", "woken"}
    BY <1>35 DEF WorkerAnnounce, Threads
  <2>5. Idlers' = Idlers
    BY <2>1, <2>2, <2>3, <2>4, WakeIdlers
  <2> QED
    BY <1>35, <2>5 DEF WorkerAnnounce, Inv, IdleCountExact
<1>36. ASSUME NEW w \in Workers, WorkerWait(w)
      PROVE  IdleCountExact'
  <2>1. Idlers' = Idlers \cup {w}
    BY <1>36 DEF WorkerWait, AtQueue, Idlers, Asleep, Threads, Inv, TypeOK, PcOK
  <2>2. CASE pc[w] = "woken"
    <3>1. w \in Idlers
      BY <2>2 DEF Idlers, Asleep, Threads
    <3>2. Idlers' = Idlers
      BY <2>1, <3>1
    <3> QED
      BY <1>36, <2>2, <3>2 DEF WorkerWait, IdleWithout, Inv, TypeOK, IdleCountExact
  <2>3. CASE pc[w] = "loop"
    <3>1. w \notin Idlers
      BY <2>3 DEF Idlers, Asleep
    <3>2. Cardinality(Idlers') = Cardinality(Idlers) + 1
      BY <2>1, <3>1, IdlersFinite, FS_AddElement
    <3> QED
      BY <1>36, <2>3, <3>2 DEF WorkerWait, IdleWithout, Inv, IdleCountExact
  <2> QED
    BY <1>36, <2>2, <2>3 DEF WorkerWait, AtQueue
<1>37. ASSUME NEW w \in Workers, WorkerRetire(w)
      PROVE  IdleCountExact'
  <2>1. Idlers' = Idlers \ {w}
    BY <1>37 DEF WorkerRetire, Idlers, Asleep, Threads, Inv, TypeOK, PcOK
  <2> QED
    BY <1>37, <2>1, LeaveIdlers DEF WorkerRetire, AtQueue
<1>38. ASSUME NEW w \in Workers, WorkerTake(w)
      PROVE  IdleCountExact'
  <2> DEFINE p == [pc EXCEPT ![w] = "running"]
  <2>1. PICK S \in WokenByPop(Tail(LiveTasks)) : pc' = Wake(p, S)
    BY <1>38 DEF WorkerTake
  <2>2. S \in SUBSET Threads /\ \A x \in S : pc[x] \in {"maxWaiting"}
    BY NotifyChoosesSleepers DEF SleepPcs, WokenByPop
  <2>3. \A x \in S : p[x] \in SleepPcs
    BY <1>38, <2>2 DEF WorkerTake, Inv, TypeOK, PcOK, SleepPcs, AtQueue
  <2>4. Idlers' = Idlers \ {w}
    BY <2>1, <2>2, <2>3 DEF Idlers, Asleep, Wake, WakesTo, SleepPcs, Threads, Inv, TypeOK, PcOK
  <2> QED
    BY <1>38, <2>4, LeaveIdlers DEF WorkerTake, AtQueue
<1>39. ASSUME NEW w \in Workers, WorkerTakeNone(w)
      PROVE  IdleCountExact'
  <2> DEFINE p == [pc EXCEPT ![w] = "loop"]
  <2>1. PICK S \in WokenByPop(<< >>) : pc' = Wake(p, S)
    BY <1>39 DEF WorkerTakeNone
  <2>2. S \in SUBSET Threads /\ \A x \in S : pc[x] \in {"maxWaiting"}
    BY NotifyChoosesSleepers DEF SleepPcs, WokenByPop
  <2>3. \A x \in S : p[x] \in SleepPcs
    BY <1>39, <2>2 DEF WorkerTakeNone, Inv, TypeOK, PcOK, SleepPcs, AtQueue
  <2>4. Idlers' = Idlers \ {w}
    BY <2>1, <2>2, <2>3 DEF Idlers, Asleep, Wake, WakesTo, SleepPcs, Threads, Inv, TypeOK, PcOK
  <2> QED
    BY <1>39, <2>4, LeaveIdlers DEF WorkerTakeNone, AtQueue
<1>40. ASSUME NEW w \in Workers, NEW outcome \in {"COMPLETE", "failed"},
             WorkerRan(w, outcome)
      PROVE  IdleCountExact'
  <2>1. Idlers' = Idlers
    BY <1>40, ThreadsAssumption DEF WorkerRan, Idlers, Asleep, Threads, Inv, TypeOK, PcOK
  <2> QED
    BY <1>40, <2>1 DEF WorkerRan, Inv, IdleCountExact
<1>41. ASSUME NEW w \in Workers, WorkerExit(w)
      PROVE  IdleCountExact'
  <2>1. Idlers' = Idlers
    BY <1>41, ThreadsAssumption DEF WorkerExit, Idlers, Asleep, Threads, Inv, TypeOK, PcOK
  <2> QED
    BY <1>41, <2>1 DEF WorkerExit, Inv, IdleCountExact
<1>42. ASSUME NEW w \in Workers, WorkerExited(w)
      PROVE  IdleCountExact'
  <2> DEFINE p == [pc EXCEPT ![w] = "dead"]
  <2>1. PICK S \in IF worker_count_' = worker_max_count_
                  THEN Notify(Asleep(OnWorkerMonitor)) ELSE {{}} : pc' = Wake(p, S)
    BY <1>42 DEF WorkerExited
  <2>2. S \in SUBSET Threads /\ \A x \in S : pc[x] \in OnWorkerMonitor
    BY NotifyChoosesSleepers DEF SleepPcs, OnWorkerMonitor
  <2>3. \A x \in S : p[x] \in SleepPcs
    BY <1>42, <2>2 DEF WorkerExited, Inv, TypeOK, PcOK, SleepPcs, OnWorkerMonitor
  <2>4. w \in Threads /\ pc[w] \notin {"waiting", "woken"}
    BY <1>42 DEF WorkerExited, Threads
  <2>5. Idlers' = Idlers
    BY <2>1, <2>2, <2>3, <2>4, WakeIdlers
  <2> QED
    BY <1>42, <2>5 DEF WorkerExited, Inv, IdleCountExact
<1>43. CASE UNCHANGED vars
  BY <1>43 DEF Inv, IdleCountExact, Idlers, Asleep, vars
<1> QED
  BY <1>1, <1>2, <1>3, <1>4, <1>5, <1>6, <1>7, <1>8, <1>9, <1>10, <1>11, <1>12, <1>15, <1>16, <1>17, <1>18, <1>19, <1>20, <1>21, <1>22, <1>23, <1>24, <1>25, <1>26, <1>27, <1>28, <1>29, <1>30, <1>31, <1>32, <1>33, <1>34, <1>35, <1>36, <1>37, <1>38, <1>39, <1>40, <1>41, <1>42, <1>43 DEF Next, AddStep, WorkerStep, ClientStep,
     Environment, AddCall, ClientCall

-----------------------------------------------------------------------------
(* Every task has one owner.                                               *)

\* Workers are threads.
LEMMA WorkersAreThreads == Workers \subseteq Threads
  BY DEF Threads

\* A task that is not in the queue can change its state, but not to WAITING.
LEMMA RestateOwned ==
    ASSUME NEW q \in Seq(Tasks), NEW ts \in [Tasks -> TaskStates], QueueOwns(q, ts),
           NEW t \in Tasks, ts[t] # "WAITING", NEW s, s # "WAITING"
    PROVE  QueueOwns(q, [ts EXCEPT ![t] = s])
  BY DEF QueueOwns

\* Add's push.
LEMMA AppendOwned ==
    ASSUME NEW q \in Seq(Tasks), NEW ts \in [Tasks -> TaskStates], QueueOwns(q, ts),
           NEW t \in Tasks, ts[t] # "WAITING"
    PROVE  QueueOwns(Append(q, t), [ts EXCEPT ![t] = "WAITING"])
<1> DEFINE r == Append(q, t)
<1>1. /\ Len(q) \in Nat /\ Len(r) = Len(q) + 1
      /\ \A i \in 1 .. Len(q) : r[i] = q[i]
      /\ r[Len(q) + 1] = t
  OBVIOUS
<1>2. \A i \in 1 .. Len(q) : q[i] # t
  BY DEF QueueOwns
<1>3. \A i, j \in 1 .. Len(r) : r[i] = r[j] => i = j
  BY <1>1, <1>2 DEF QueueOwns
<1>4. \A u \in Tasks : (\E i \in 1 .. Len(r) : r[i] = u)
                        <=> u = t \/ \E i \in 1 .. Len(q) : q[i] = u
  <2>1. 1 .. Len(r) = (1 .. Len(q)) \cup {Len(q) + 1}
    BY <1>1
  <2> QED
    BY <1>1, <2>1
<1> QED
  BY <1>3, <1>4 DEF QueueOwns

\* The task at the front of the queue.
LEMMA HeadWaits ==
    ASSUME NEW q \in Seq(Tasks), q # << >>, NEW ts \in [Tasks -> TaskStates],
           QueueOwns(q, ts)
    PROVE  /\ Head(q) \in Tasks
           /\ ts[Head(q)] = "WAITING"
<1>1. Len(q) \in Nat /\ Len(q) > 0 /\ Head(q) = q[1] /\ q[1] \in Tasks
  OBVIOUS
<1> QED
  BY <1>1 DEF QueueOwns

\* The pop of the front task, whose state changes.
LEMMA TailOwned ==
    ASSUME NEW q \in Seq(Tasks), q # << >>, NEW ts \in [Tasks -> TaskStates],
           QueueOwns(q, ts), NEW after \in [Tasks -> TaskStates],
           after[Head(q)] # "WAITING", \A u \in Tasks \ {Head(q)} : after[u] = ts[u]
    PROVE  QueueOwns(Tail(q), after)
<1> DEFINE r == Tail(q)
<1>1. /\ Len(q) \in Nat /\ Len(q) > 0 /\ Len(r) = Len(q) - 1
      /\ \A i \in 1 .. Len(r) : r[i] = q[i + 1]
      /\ Head(q) = q[1] /\ q[1] \in Tasks
  OBVIOUS
<1>2. \A i, j \in 1 .. Len(r) : r[i] = r[j] => i = j
  BY <1>1 DEF QueueOwns
<1>3. \A u \in Tasks : (\E i \in 1 .. Len(r) : r[i] = u)
                        <=> u # Head(q) /\ \E i \in 1 .. Len(q) : q[i] = u
  <2>1. ASSUME NEW i \in 1 .. Len(r)
        PROVE  r[i] # Head(q) /\ \E j \in 1 .. Len(q) : q[j] = r[i]
    BY <1>1 DEF QueueOwns
  <2>2. ASSUME NEW i \in 1 .. Len(q), q[i] # Head(q)
        PROVE  \E j \in 1 .. Len(r) : r[j] = q[i]
    <3>1. i - 1 \in 1 .. Len(r) /\ r[i - 1] = q[i]
      BY <1>1, <2>2
    <3> QED
      BY <3>1
  <2> SUFFICES ASSUME NEW u \in Tasks
               PROVE  (\E i \in 1 .. Len(r) : r[i] = u)
                        <=> u # Head(q) /\ \E i \in 1 .. Len(q) : q[i] = u
    OBVIOUS
  <2>3. ASSUME NEW i \in 1 .. Len(r), r[i] = u
        PROVE  u # Head(q) /\ \E j \in 1 .. Len(q) : q[j] = u
    BY <2>1, <2>3
  <2>4. ASSUME NEW i \in 1 .. Len(q), q[i] = u, u # Head(q)
        PROVE  \E j \in 1 .. Len(r) : r[j] = u
    <3>1. PICK j \in 1 .. Len(r) : r[j] = q[i]
      BY <2>2, <2>4
    <3> QED
      BY <2>4, <3>1
  <2> QED
    BY <2>3, <2>4
<1> QED
  BY <1>1, <1>2, <1>3 DEF QueueOwns

\* RemoveExpiredTasks takes only WAITING tasks, and those that it leaves in the
\* queue stay WAITING.
LEMMA ExpiryOwned ==
    ASSUME Inv
    PROVE  /\ QueueOwns(LiveTasks, AfterExpiry)
           /\ \A t \in Tasks : taskState[t] # "WAITING" => AfterExpiry[t] = taskState[t]
           /\ \A t \in Tasks : AfterExpiry[t] = "WAITING" => taskState[t] = "WAITING"
<1> DEFINE k == ExpiredPrefix
<1>1. /\ k \in 0 .. Len(tasks_) /\ Len(tasks_) \in Nat
      /\ Len(LiveTasks) = Len(tasks_) - k
      /\ \A i \in 1 .. Len(LiveTasks) : LiveTasks[i] = tasks_[i + k]
  BY PrefixBound, LiveTasksFacts DEF Inv, TypeOK
<1>2. \A t \in Expired : t \in Tasks /\ taskState[t] = "WAITING"
  BY <1>1, ExpiredFacts DEF Expired, Inv, TaskOwnership, QueueOwns
<1>3. \A t \in Tasks : /\ t \in Expired => AfterExpiry[t] \in {"expired", "dropped"}
                       /\ t \notin Expired => AfterExpiry[t] = taskState[t]
  BY DEF AfterExpiry
<1>4. \A i, j \in 1 .. Len(LiveTasks) : LiveTasks[i] = LiveTasks[j] => i = j
  BY <1>1 DEF Inv, TaskOwnership, QueueOwns
<1>5. \A t \in Tasks : (\E i \in 1 .. Len(LiveTasks) : LiveTasks[i] = t)
                        <=> t \notin Expired /\ \E i \in 1 .. Len(tasks_) : tasks_[i] = t
  <2>1. ASSUME NEW i \in 1 .. Len(LiveTasks)
        PROVE  /\ LiveTasks[i] \notin Expired
               /\ \E j \in 1 .. Len(tasks_) : tasks_[j] = LiveTasks[i]
    BY <1>1 DEF Expired, Inv, TaskOwnership, QueueOwns
  <2>2. ASSUME NEW i \in 1 .. Len(tasks_), tasks_[i] \notin Expired
        PROVE  \E j \in 1 .. Len(LiveTasks) : LiveTasks[j] = tasks_[i]
    <3>1. i > k
      BY <1>1, <2>2 DEF Expired
    <3>2. i - k \in 1 .. Len(LiveTasks) /\ LiveTasks[i - k] = tasks_[i]
      BY <1>1, <3>1
    <3> QED
      BY <3>2
  <2> QED
    BY <2>1, <2>2
<1>6. \A t \in Tasks : taskState[t] = "WAITING" <=> \E i \in 1 .. Len(tasks_) : tasks_[i] = t
  BY DEF Inv, TaskOwnership, QueueOwns
<1>7. QueueOwns(LiveTasks, AfterExpiry)
  BY <1>3, <1>4, <1>5, <1>6 DEF QueueOwns
<1> QED
  BY <1>2, <1>3, <1>7

\* The push moves only the caller and sleeping workers.
LEMMA PushPcs ==
    ASSUME Inv, NEW th \in Threads, NEW t, NEW q, NEW ts, Push(th, t, q, ts),
           pc[th] \notin SleepPcs
    PROVE  /\ \A x \in Threads \ {th} : /\ pc'[x] \in AddPcs => pc[x] \in AddPcs
                                        /\ pc'[x] = "running" => pc[x] = "running"
           /\ pc'[th] = Home(th) /\ pc'[th] \notin AddPcs
<1> DEFINE p == [pc EXCEPT ![th] = Home(th)]
<1>1. PICK S \in WokenByPush : pc' = Wake(p, S)
  BY DEF Push
<1>2. S \in SUBSET Threads /\ \A x \in S : pc[x] \in {"waiting"}
  BY NotifyChoosesSleepers DEF WokenByPush, SleepPcs
<1> QED
  BY <1>1, <1>2 DEF Wake, WakesTo, Home, AddPcs, SleepPcs, Inv, TypeOK, PcOK

\* Nobody's task changes hands, and no thread starts to run or to wait in Add.
LEMMA OwnersKept ==
    ASSUME Inv, current' = current, addTask' = addTask, QueueOwns(tasks_', taskState'),
           \A t \in Tasks : taskState[t] \in {"EXECUTING", "adding"} => taskState'[t] = taskState[t],
           \A w \in Workers : pc'[w] \in {"running"} \cup AddPcs => pc[w] \in {"running"} \cup AddPcs,
           \A th \in Threads : pc'[th] \in AddPcs => pc[th] \in AddPcs
    PROVE  TaskOwnership'
<1>1. RunnersOwn'
  BY DEF Inv, TypeOK, TaskOwnership, RunnersOwn
<1>2. AddersOwn'
  BY DEF Inv, TypeOK, TaskOwnership, AddersOwn
<1> QED
  BY <1>1, <1>2 DEF TaskOwnership

\* The same for a step that touches no task at all.
LEMMA TasksUntouched ==
    ASSUME Inv, UNCHANGED <<tasks_, taskState, current, addTask>>,
           \A th \in Threads : /\ pc'[th] \in AddPcs => pc[th] \in AddPcs
                               /\ pc'[th] = "running" => pc[th] = "running"
    PROVE  TaskOwnership'
<1>1. QueueOwns(tasks_', taskState')
  BY DEF Inv, TaskOwnership
<1> QED
  BY <1>1, OwnersKept, WorkersAreThreads

\* Waking sleepers starts nobody to run, and leaves the callers of Add in Add.
LEMMA WakePcs ==
    ASSUME Inv, NEW x \in Threads, NEW label, label \notin {"running"} \cup AddPcs,
           NEW S \in SUBSET Threads,
           \A y \in S : [pc EXCEPT ![x] = label][y] \in SleepPcs,
           pc' = Wake([pc EXCEPT ![x] = label], S)
    PROVE  \A th \in Threads : /\ pc'[th] \in AddPcs => pc[th] \in AddPcs
                               /\ pc'[th] = "running" => pc[th] = "running"
  BY DEF Wake, WakesTo, SleepPcs, AddPcs, Inv, TypeOK, PcOK

\* Every step keeps the ownership of the tasks.
LEMMA OwnStep ==
    ASSUME Inv, LockedExpiry, [Next]_vars
    PROVE  TaskOwnership'
<1> USE DEF manager, pool, queue, frames
<1>1. ASSUME NEW th \in Threads, SpuriousWakeup(th)
      PROVE  TaskOwnership'
  <2>1. \A x \in Threads : /\ pc'[x] \in AddPcs => pc[x] \in AddPcs
                           /\ pc'[x] = "running" => pc[x] = "running"
    BY <1>1 DEF SpuriousWakeup, Asleep, Wake, WakesTo, SleepPcs, AddPcs
  <2> QED
    BY <1>1, <2>1, TasksUntouched DEF SpuriousWakeup
<1>2. ASSUME NEW t \in Tasks, Expire(t)
      PROVE  TaskOwnership'
  BY <1>2, TasksUntouched DEF Expire
<1>3. ASSUME NEW th \in Threads, NEW t \in Tasks, AddContended(th, t)
      PROVE  TaskOwnership'
  <2>1. taskState[t] \notin {"WAITING", "EXECUTING", "adding"}
    BY <1>3 DEF AddContended, CallsAdd
  <2>2. QueueOwns(tasks_', taskState')
    BY <1>3, <2>1, RestateOwned DEF AddContended, Inv, TypeOK, TaskOwnership
  <2> QED
    BY <1>3, <2>1, <2>2, OwnersKept DEF AddContended, Inv, TypeOK
<1>4. ASSUME NEW th \in Threads, NEW t \in Tasks, AddNotStarted(th, t)
      PROVE  TaskOwnership'
  <2>1. taskState[t] \notin {"WAITING", "EXECUTING", "adding"}
    BY <1>4 DEF AddNotStarted, CallsAdd
  <2>2. QueueOwns(tasks_', taskState')
    BY <1>4, <2>1, RestateOwned DEF AddNotStarted, Inv, TypeOK, TaskOwnership
  <2> QED
    BY <1>4, <2>1, <2>2, OwnersKept DEF AddNotStarted, Inv, TypeOK
<1>5. ASSUME NEW th \in Threads, NEW t \in Tasks, AddPush(th, t)
      PROVE  TaskOwnership'
  <2>1. taskState[t] \notin {"WAITING", "EXECUTING", "adding"}
    BY <1>5 DEF AddPush, CallsAdd
  <2>2. AfterExpiry[t] = taskState[t]
    BY <2>1, ExpiryOwned
  <2>3. QueueOwns(tasks_', taskState')
    BY <1>5, <2>1, <2>2, ExpiryOwned, LiveTasksFacts, ExpiredFacts, AppendOwned
    DEF AddPush, Push, Inv
  <2>4. \A x \in Threads : /\ pc'[x] \in AddPcs => pc[x] \in AddPcs
                           /\ pc'[x] = "running" => pc[x] = "running"
    <3>1. pc[th] = Home(th) /\ pc[th] \notin SleepPcs
      BY <1>5 DEF AddPush, CallsAdd, Home, SleepPcs
    <3>2. Push(th, t, LiveTasks, AfterExpiry)
      BY <1>5 DEF AddPush
    <3>3. \A x \in Threads \ {th} : /\ pc'[x] \in AddPcs => pc[x] \in AddPcs
                                    /\ pc'[x] = "running" => pc[x] = "running"
      BY <3>1, <3>2, PushPcs
    <3>4. pc'[th] = Home(th) /\ pc'[th] \notin AddPcs
      BY <3>1, <3>2, PushPcs
    <3> QED
      BY <3>1, <3>3, <3>4
  <2>5. \A u \in Tasks : taskState[u] \in {"EXECUTING", "adding"} => taskState'[u] = taskState[u]
    BY <1>5, <2>1, ExpiryOwned, ExpiredFacts DEF AddPush, Push, Inv
  <2> QED
    BY <1>5, <2>3, <2>4, <2>5, OwnersKept, WorkersAreThreads DEF AddPush
<1>6. ASSUME NEW th \in Threads, NEW t \in Tasks, NEW timeout \in Timeouts,
             AddSleep(th, t, timeout)
      PROVE  TaskOwnership'
  <2>1. taskState[t] \notin {"WAITING", "EXECUTING", "adding"}
    BY <1>6 DEF AddSleep, CallsAdd
  <2>2. AfterExpiry[t] = taskState[t]
    BY <2>1, ExpiryOwned
  <2>3. QueueOwns(tasks_', taskState')
    BY <1>6, <2>1, <2>2, ExpiryOwned, LiveTasksFacts, ExpiredFacts, RestateOwned DEF AddSleep, Inv
  <2>4. \A u \in Tasks \ {t} : taskState[u] \in {"EXECUTING", "adding"} => taskState'[u] = taskState[u]
    BY <1>6, <2>1, ExpiryOwned, ExpiredFacts DEF AddSleep, Inv
  <2>5. taskState'[t] = "adding"
    BY <1>6, ExpiredFacts DEF AddSleep, Inv
  <2>6. RunnersOwn'
    <3>1. current' = current
      BY <1>6 DEF AddSleep
    <3>2. \A w \in Workers : pc'[w] \in {"running"} \cup AddPcs => pc[w] \in {"running"} \cup AddPcs
      BY <1>6 DEF AddSleep, CallsAdd, Home, Inv, TypeOK, PcOK
    <3> QED
      BY <2>1, <2>4, <3>1, <3>2 DEF Inv, TypeOK, TaskOwnership, RunnersOwn
  <2>7. AddersOwn'
    BY <1>6, <2>1, <2>4, <2>5, TasksAssumption DEF AddSleep, Inv, TypeOK, PcOK, TaskOwnership, AddersOwn
  <2> QED
    BY <2>3, <2>6, <2>7 DEF TaskOwnership
<1>7. ASSUME NEW th \in Threads, NEW t \in Tasks, NEW timeout \in Timeouts,
             AddTooMany(th, t, timeout)
      PROVE  TaskOwnership'
  <2>1. taskState[t] \notin {"WAITING", "EXECUTING", "adding"}
    BY <1>7 DEF AddTooMany, CallsAdd
  <2>2. AfterExpiry[t] = taskState[t]
    BY <2>1, ExpiryOwned
  <2>3. QueueOwns(tasks_', taskState')
    BY <1>7, <2>1, <2>2, ExpiryOwned, LiveTasksFacts, ExpiredFacts, RestateOwned DEF AddTooMany, Inv
  <2> QED
    BY <1>7, <2>1, <2>3, ExpiryOwned, ExpiredFacts, OwnersKept DEF AddTooMany, Inv, TypeOK
<1>8. ASSUME NEW th \in Threads, AddResume(th)
      PROVE  TaskOwnership'
  <2>1. addTask[th] \in Tasks /\ taskState[addTask[th]] = "adding"
    BY <1>8 DEF AddResume, Inv, TypeOK, TaskOwnership, AddersOwn, AddPcs
  <2>2. QueueOwns(tasks_', taskState')
    BY <1>8, <2>1, AppendOwned DEF AddResume, Push, Inv, TypeOK, TaskOwnership
  <2>3. /\ \A x \in Threads \ {th} : /\ pc'[x] \in AddPcs => pc[x] \in AddPcs
                                     /\ pc'[x] = "running" => pc[x] = "running"
        /\ pc'[th] \notin AddPcs
    <3>1. pc[th] \notin SleepPcs
      BY <1>8 DEF AddResume, SleepPcs
    <3>2. Push(th, addTask[th], tasks_, taskState)
      BY <1>8 DEF AddResume
    <3> QED
      BY <3>1, <3>2, PushPcs
  <2>5. \A u \in Tasks \ {addTask[th]} : taskState'[u] = taskState[u]
    BY <1>8 DEF AddResume, Push, Inv, TypeOK
  <2>6. RunnersOwn'
    <3>1. current' = current
      BY <1>8 DEF AddResume
    <3>2. \A w \in Workers : pc'[w] \in {"running"} \cup AddPcs => pc[w] \in {"running"} \cup AddPcs
      BY <1>8, <2>3, WorkersAreThreads DEF AddResume, AddPcs
    <3> QED
      BY <2>1, <2>5, <3>1, <3>2 DEF Inv, TypeOK, TaskOwnership, RunnersOwn
  <2>7. AddersOwn'
    BY <1>8, <2>1, <2>3, <2>5 DEF AddResume, Inv, TypeOK, TaskOwnership, AddersOwn
  <2> QED
    BY <2>2, <2>6, <2>7 DEF TaskOwnership
<1>9. ASSUME NEW th \in Threads, AddSleepAgain(th)
      PROVE  TaskOwnership'
  <2>1. \A x \in Threads : /\ pc'[x] \in AddPcs => pc[x] \in AddPcs
                           /\ pc'[x] = "running" => pc[x] = "running"
    BY <1>9 DEF AddSleepAgain, AddPcs, Inv, TypeOK, PcOK
  <2> QED
    BY <1>9, <2>1, TasksUntouched DEF AddSleepAgain
<1>10. ASSUME NEW th \in Threads, AddTimedOut(th)
      PROVE  TaskOwnership'
  <2>1. addTask[th] \in Tasks /\ taskState[addTask[th]] = "adding"
    BY <1>10 DEF AddTimedOut, Inv, TypeOK, TaskOwnership, AddersOwn, AddPcs
  <2>2. QueueOwns(tasks_', taskState')
    BY <1>10, <2>1, RestateOwned DEF AddTimedOut, Inv, TypeOK, TaskOwnership
  <2>3. \A u \in Tasks \ {addTask[th]} : taskState'[u] = taskState[u]
    BY <1>10 DEF AddTimedOut, Inv, TypeOK
  <2>4. RunnersOwn'
    <3>1. current' = current
      BY <1>10 DEF AddTimedOut
    <3>2. \A w \in Workers : pc'[w] \in {"running"} \cup AddPcs => pc[w] \in {"running"} \cup AddPcs
      BY <1>10 DEF AddTimedOut, AddPcs, Home, Inv, TypeOK, PcOK
    <3> QED
      BY <2>1, <2>3, <3>1, <3>2 DEF Inv, TypeOK, TaskOwnership, RunnersOwn
  <2>5. AddersOwn'
    BY <1>10, <2>1, <2>3 DEF AddTimedOut, Home, AddPcs, Inv, TypeOK, PcOK, TaskOwnership, AddersOwn
  <2> QED
    BY <2>2, <2>4, <2>5 DEF TaskOwnership
<1>11. ASSUME NEW c \in Clients, RemoveNextPending(c)
      PROVE  TaskOwnership'
  <2>1. /\ Head(tasks_) \in Tasks /\ taskState[Head(tasks_)] = "WAITING"
        /\ QueueOwns(tasks_', taskState')
    <3>1. Head(tasks_) \in Tasks /\ taskState[Head(tasks_)] = "WAITING"
      BY <1>11, HeadWaits DEF RemoveNextPending, Inv, TypeOK, TaskOwnership
    <3>2. taskState' \in [Tasks -> TaskStates]
      BY TypeStep DEF TypeOK
    <3> QED
      BY <1>11, <3>1, <3>2, TailOwned DEF RemoveNextPending, Inv, TypeOK, TaskOwnership
  <2> QED
    BY <1>11, <2>1, OwnersKept DEF RemoveNextPending, Inv, TypeOK
<1>12. ASSUME NEW c \in Clients, AddWorkerFails(c)
      PROVE  TaskOwnership'
  <2>1. \A x \in Threads : /\ pc'[x] \in AddPcs => pc[x] \in AddPcs
                           /\ pc'[x] = "running" => pc[x] = "running"
    BY <1>12 DEF AddWorkerFails, AddPcs, Inv, TypeOK, PcOK
  <2> QED
    BY <1>12, <2>1, TasksUntouched DEF AddWorkerFails
<1>15. ASSUME NEW c \in Clients, ExpiredTaskCount(c)
      PROVE  TaskOwnership'
  BY <1>15, TasksUntouched DEF ExpiredTaskCount
<1>16. ASSUME NEW c \in Clients, SetThreadFactory(c)
      PROVE  TaskOwnership'
  BY <1>16, TasksUntouched DEF SetThreadFactory
<1>17. ASSUME NEW c \in Clients, SetExpireCallback(c)
      PROVE  TaskOwnership'
  BY <1>17, TasksUntouched DEF SetExpireCallback
<1>18. ASSUME NEW c \in Clients, NEW value \in Limits, PendingTaskCountMax(c, value)
      PROVE  TaskOwnership'
  BY <1>18, TasksUntouched DEF PendingTaskCountMax
<1>19. ASSUME NEW c \in Clients, Start(c)
      PROVE  TaskOwnership'
  <2>1. \A x \in Threads : /\ pc'[x] \in AddPcs => pc[x] \in AddPcs
                           /\ pc'[x] = "running" => pc[x] = "running"
    BY <1>19 DEF Start, Asleep, Wake, WakesTo, SleepPcs, AddPcs
  <2> QED
    BY <1>19, <2>1, TasksUntouched DEF Start
<1>20. ASSUME NEW c \in Clients, NEW value \in Batch, AddWorker(c, value)
      PROVE  TaskOwnership'
  <2>1. \A x \in Threads : /\ pc'[x] \in AddPcs => pc[x] \in AddPcs
                           /\ pc'[x] = "running" => pc[x] = "running"
    BY <1>20 DEF AddWorker, AddPcs, Inv, TypeOK, PcOK
  <2> QED
    BY <1>20, <2>1, TasksUntouched DEF AddWorker
<1>21. ASSUME NEW c \in Clients, NEW w \in Workers, AddWorkerSpawn(c, w)
      PROVE  TaskOwnership'
  <2>1. \A x \in Threads : /\ pc'[x] \in AddPcs => pc[x] \in AddPcs
                           /\ pc'[x] = "running" => pc[x] = "running"
    BY <1>21 DEF AddWorkerSpawn, AddPcs, Inv, TypeOK, PcOK
  <2> QED
    BY <1>21, <2>1, TasksUntouched DEF AddWorkerSpawn
<1>22. ASSUME NEW c \in Clients, NEW w \in Workers, AddWorkerMap(c, w)
      PROVE  TaskOwnership'
  <2>1. \A x \in Threads : /\ pc'[x] \in AddPcs => pc[x] \in AddPcs
                           /\ pc'[x] = "running" => pc[x] = "running"
    BY <1>22 DEF AddWorkerMap, AddPcs, Inv, TypeOK, PcOK
  <2> QED
    BY <1>22, <2>1, TasksUntouched DEF AddWorkerMap
<1>23. ASSUME NEW c \in Clients, AddWorkerWait(c)
      PROVE  TaskOwnership'
  <2>1. \A x \in Threads : /\ pc'[x] \in AddPcs => pc[x] \in AddPcs
                           /\ pc'[x] = "running" => pc[x] = "running"
    BY <1>23 DEF AddWorkerWait, AddPcs, Inv, TypeOK, PcOK
  <2> QED
    BY <1>23, <2>1, TasksUntouched DEF AddWorkerWait
<1>24. ASSUME NEW c \in Clients, NEW value \in Batch, RemoveWorker(c, value)
      PROVE  TaskOwnership'
  <2>1. \A x \in Threads : /\ pc'[x] \in AddPcs => pc[x] \in AddPcs
                           /\ pc'[x] = "running" => pc[x] = "running"
    BY <1>24 DEF RemoveWorker, AddPcs, Inv, TypeOK, PcOK
  <2> QED
    BY <1>24, <2>1, TasksUntouched DEF RemoveWorker
<1>25. ASSUME NEW c \in Clients, RemoveWorkerLower(c)
      PROVE  TaskOwnership'
  <2> DEFINE p == [pc EXCEPT ![c] = "draining"]
  <2>1. PICK S \in WokenByRemoval(tmp[c]) : pc' = Wake(p, S)
    BY <1>25 DEF RemoveWorkerLower
  <2>2. S \in SUBSET Threads /\ \A x \in S : pc[x] = "waiting"
    BY DEF WokenByRemoval, NotifyTimes, Asleep
  <2>3. \A x \in S : p[x] \in SleepPcs
    BY <1>25, <2>2 DEF RemoveWorkerLower, Inv, TypeOK, PcOK, SleepPcs
  <2>4. c \in Threads /\ "draining" \notin {"running"} \cup AddPcs
    BY DEF Threads, AddPcs
  <2>5. \A x \in Threads : /\ pc'[x] \in AddPcs => pc[x] \in AddPcs
                           /\ pc'[x] = "running" => pc[x] = "running"
    BY <2>1, <2>2, <2>3, <2>4, WakePcs
  <2> QED
    BY <1>25, <2>5, TasksUntouched DEF RemoveWorkerLower
<1>26. ASSUME NEW c \in Clients, RemoveWorkerInvalid(c)
      PROVE  TaskOwnership'
  <2>1. \A x \in Threads : /\ pc'[x] \in AddPcs => pc[x] \in AddPcs
                           /\ pc'[x] = "running" => pc[x] = "running"
    BY <1>26 DEF RemoveWorkerInvalid, AddPcs, Inv, TypeOK, PcOK
  <2> QED
    BY <1>26, <2>1, TasksUntouched DEF RemoveWorkerInvalid
<1>27. ASSUME NEW c \in Clients, RemoveWorkerWait(c)
      PROVE  TaskOwnership'
  <2>1. \A x \in Threads : /\ pc'[x] \in AddPcs => pc[x] \in AddPcs
                           /\ pc'[x] = "running" => pc[x] = "running"
    BY <1>27 DEF RemoveWorkerWait, AddPcs, Inv, TypeOK, PcOK
  <2> QED
    BY <1>27, <2>1, TasksUntouched DEF RemoveWorkerWait
<1>28. ASSUME NEW c \in Clients, RemoveWorkerDone(c)
      PROVE  TaskOwnership'
  <2>1. \A x \in Threads : /\ pc'[x] \in AddPcs => pc[x] \in AddPcs
                           /\ pc'[x] = "running" => pc[x] = "running"
    BY <1>28 DEF RemoveWorkerDone, AddPcs, Inv, TypeOK, PcOK
  <2> QED
    BY <1>28, <2>1, TasksUntouched DEF RemoveWorkerDone
<1>29. ASSUME NEW c \in Clients, NEW join \in BOOLEAN, StopImpl(c, join)
      PROVE  TaskOwnership'
  <2>1. \A x \in Threads : /\ pc'[x] \in AddPcs => pc[x] \in AddPcs
                           /\ pc'[x] = "running" => pc[x] = "running"
    BY <1>29 DEF StopImpl, AddPcs, Inv, TypeOK, PcOK
  <2> QED
    BY <1>29, <2>1, TasksUntouched DEF StopImpl
<1>30. ASSUME NEW c \in Clients, StopRead(c)
      PROVE  TaskOwnership'
  <2>1. \A x \in Threads : /\ pc'[x] \in AddPcs => pc[x] \in AddPcs
                           /\ pc'[x] = "running" => pc[x] = "running"
    BY <1>30 DEF StopRead, AddPcs, Inv, TypeOK, PcOK
  <2> QED
    BY <1>30, <2>1, TasksUntouched DEF StopRead
<1>31. ASSUME NEW c \in Clients, StopDone(c)
      PROVE  TaskOwnership'
  <2>1. \A x \in Threads : /\ pc'[x] \in AddPcs => pc[x] \in AddPcs
                           /\ pc'[x] = "running" => pc[x] = "running"
    BY <1>31 DEF StopDone, AddPcs, Inv, TypeOK, PcOK
  <2> QED
    BY <1>31, <2>1, TasksUntouched DEF StopDone
<1>32. ASSUME NEW w \in Workers, WorkerEnter(w)
      PROVE  TaskOwnership'
  <2>1. \A x \in Threads : /\ pc'[x] \in AddPcs => pc[x] \in AddPcs
                           /\ pc'[x] = "running" => pc[x] = "running"
    BY <1>32 DEF WorkerEnter, AddPcs, Inv, TypeOK, PcOK
  <2> QED
    BY <1>32, <2>1, TasksUntouched DEF WorkerEnter
<1>33. ASSUME NEW w \in Workers, WorkerEntered(w)
      PROVE  TaskOwnership'
  <2>1. \A x \in Threads : /\ pc'[x] \in AddPcs => pc[x] \in AddPcs
                           /\ pc'[x] = "running" => pc[x] = "running"
    BY <1>33 DEF WorkerEntered, AddPcs, Inv, TypeOK, PcOK
  <2> QED
    BY <1>33, <2>1, TasksUntouched DEF WorkerEntered
<1>34. ASSUME NEW w \in Workers, WorkerNotWanted(w)
      PROVE  TaskOwnership'
  <2>1. \A x \in Threads : /\ pc'[x] \in AddPcs => pc[x] \in AddPcs
                           /\ pc'[x] = "running" => pc[x] = "running"
    BY <1>34 DEF WorkerNotWanted, AddPcs, Inv, TypeOK, PcOK
  <2> QED
    BY <1>34, <2>1, TasksUntouched DEF WorkerNotWanted
<1>35. ASSUME NEW w \in Workers, WorkerAnnounce(w)
      PROVE  TaskOwnership'
  <2> DEFINE p == [pc EXCEPT ![w] = "loop"]
  <2>1. PICK S \in Notify(Asleep(OnWorkerMonitor)) : pc' = Wake(p, S)
    BY <1>35 DEF WorkerAnnounce
  <2>2. S \in SUBSET Threads /\ \A x \in S : pc[x] \in OnWorkerMonitor
    BY NotifyChoosesSleepers DEF SleepPcs, OnWorkerMonitor
  <2>3. \A x \in S : p[x] \in SleepPcs
    BY <1>35, <2>2 DEF WorkerAnnounce, Inv, TypeOK, PcOK, SleepPcs, OnWorkerMonitor
  <2>4. w \in Threads /\ "loop" \notin {"running"} \cup AddPcs
    BY DEF Threads, AddPcs
  <2>5. \A x \in Threads : /\ pc'[x] \in AddPcs => pc[x] \in AddPcs
                           /\ pc'[x] = "running" => pc[x] = "running"
    BY <1>35, <2>1, <2>2, <2>4 DEF WorkerAnnounce, Wake, WakesTo, OnWorkerMonitor, AddPcs, Inv, TypeOK, PcOK
  <2> QED
    BY <1>35, <2>5, TasksUntouched DEF WorkerAnnounce
<1>36. ASSUME NEW w \in Workers, WorkerWait(w)
      PROVE  TaskOwnership'
  <2>1. \A x \in Threads : /\ pc'[x] \in AddPcs => pc[x] \in AddPcs
                           /\ pc'[x] = "running" => pc[x] = "running"
    BY <1>36 DEF WorkerWait, AddPcs, Inv, TypeOK, PcOK
  <2> QED
    BY <1>36, <2>1, TasksUntouched DEF WorkerWait
<1>37. ASSUME NEW w \in Workers, WorkerRetire(w)
      PROVE  TaskOwnership'
  <2>1. \A x \in Threads : /\ pc'[x] \in AddPcs => pc[x] \in AddPcs
                           /\ pc'[x] = "running" => pc[x] = "running"
    BY <1>37 DEF WorkerRetire, AddPcs, Inv, TypeOK, PcOK
  <2> QED
    BY <1>37, <2>1, TasksUntouched DEF WorkerRetire
<1>38. ASSUME NEW w \in Workers, WorkerTake(w)
      PROVE  TaskOwnership'
  <2> DEFINE p == [pc EXCEPT ![w] = "running"]
  <2>1. PICK S \in WokenByPop(Tail(LiveTasks)) : pc' = Wake(p, S)
    BY <1>38 DEF WorkerTake
  <2>2. S \in SUBSET Threads /\ \A x \in S : pc[x] \in {"maxWaiting"}
    BY NotifyChoosesSleepers DEF SleepPcs, WokenByPop
  <2>3. \A x \in Threads \ {w} : /\ pc'[x] \in AddPcs => pc[x] \in AddPcs
                                 /\ pc'[x] = "running" => pc[x] = "running"
    BY <1>38, <2>1, <2>2 DEF Wake, WakesTo, AddPcs, Inv, TypeOK, PcOK
  <2>4. pc'[w] = "running"
    BY <1>38, <2>1, <2>2, WorkersAreThreads DEF WorkerTake, AtQueue, Wake, Inv, TypeOK, PcOK
  <2> DEFINE t == Head(LiveTasks)
  <2>5. /\ t \in Tasks /\ AfterExpiry[t] = "WAITING"
        /\ QueueOwns(tasks_', taskState')
    <3>1. /\ LiveTasks \in Seq(Tasks) /\ LiveTasks # << >>
          /\ AfterExpiry \in [Tasks -> TaskStates]
          /\ QueueOwns(LiveTasks, AfterExpiry)
      BY <1>38, ExpiryOwned, LiveTasksFacts, ExpiredFacts DEF WorkerTake, Inv
    <3>2. t \in Tasks /\ AfterExpiry[t] = "WAITING"
      BY <3>1, HeadWaits
    <3>3. tasks_' = Tail(LiveTasks) /\ taskState' = [AfterExpiry EXCEPT ![t] = "EXECUTING"]
      BY <1>38 DEF WorkerTake
    <3>4. taskState' \in [Tasks -> TaskStates]
      BY TypeStep DEF TypeOK
    <3>5. taskState'[t] # "WAITING" /\ \A u \in Tasks \ {t} : taskState'[u] = AfterExpiry[u]
      BY <3>1, <3>2, <3>3
    <3>6. QueueOwns(Tail(LiveTasks), taskState')
      BY <3>1, <3>4, <3>5, TailOwned
    <3> QED
      BY <3>2, <3>3, <3>6
  <2>6. taskState[t] = "WAITING" /\ taskState'[t] = "EXECUTING"
    BY <1>38, <2>5, ExpiryOwned, ExpiredFacts DEF WorkerTake, Inv
  <2>7. \A u \in Tasks : taskState[u] \in {"EXECUTING", "adding"} => taskState'[u] = taskState[u]
    BY <1>38, <2>6, ExpiryOwned, ExpiredFacts DEF WorkerTake, Inv
  <2>8. RunnersOwn'
    <3>1. current' = [current EXCEPT ![w] = t] /\ current \in [Workers -> Tasks \cup {NoTask}]
      BY <1>38 DEF WorkerTake, Inv, TypeOK
    <3>2. \A v \in Workers \ {w} : pc'[v] \in {"running"} \cup AddPcs => pc[v] \in {"running"} \cup AddPcs
      BY <2>3, WorkersAreThreads
    <3>3. t # NoTask /\ \A v \in Workers : current[v] # t
      BY <2>5, <2>6, TasksAssumption DEF Inv, TaskOwnership, RunnersOwn
    <3> QED
      BY <2>5, <2>6, <2>7, <3>1, <3>2, <3>3 DEF Inv, TaskOwnership, RunnersOwn
  <2>9. AddersOwn'
    <3>1. addTask' = addTask
      BY <1>38 DEF WorkerTake
    <3>2. \A x \in Threads : pc'[x] \in AddPcs => pc[x] \in AddPcs
      BY <2>3, <2>4 DEF AddPcs
    <3> QED
      BY <2>7, <3>1, <3>2 DEF Inv, TypeOK, TaskOwnership, AddersOwn
  <2> QED
    BY <2>5, <2>8, <2>9 DEF TaskOwnership
<1>39. ASSUME NEW w \in Workers, WorkerTakeNone(w)
      PROVE  TaskOwnership'
  <2> DEFINE p == [pc EXCEPT ![w] = "loop"]
  <2>1. PICK S \in WokenByPop(<< >>) : pc' = Wake(p, S)
    BY <1>39 DEF WorkerTakeNone
  <2>2. S \in SUBSET Threads /\ \A x \in S : pc[x] \in {"maxWaiting"}
    BY NotifyChoosesSleepers DEF SleepPcs, WokenByPop
  <2>3. \A x \in Threads \ {w} : /\ pc'[x] \in AddPcs => pc[x] \in AddPcs
                                 /\ pc'[x] = "running" => pc[x] = "running"
    BY <1>39, <2>1, <2>2 DEF Wake, WakesTo, AddPcs, Inv, TypeOK, PcOK
  <2>4. pc'[w] = "loop"
    BY <1>39, <2>1, <2>2, WorkersAreThreads DEF WorkerTakeNone, AtQueue, Wake, Inv, TypeOK, PcOK
  <2>5. QueueOwns(tasks_', taskState')
    BY <1>39, ExpiryOwned DEF WorkerTakeNone
  <2>6. \A x \in Threads : /\ pc'[x] \in AddPcs => pc[x] \in AddPcs
                           /\ pc'[x] = "running" => pc[x] = "running"
    BY <2>3, <2>4 DEF AddPcs
  <2> QED
    BY <1>39, <2>5, <2>6, ExpiryOwned, OwnersKept, WorkersAreThreads DEF WorkerTakeNone
<1>40. ASSUME NEW w \in Workers, NEW outcome \in {"COMPLETE", "failed"},
             WorkerRan(w, outcome)
      PROVE  TaskOwnership'
  <2>1. current[w] \in Tasks /\ taskState[current[w]] = "EXECUTING"
    BY <1>40 DEF WorkerRan, Inv, TypeOK, TaskOwnership, RunnersOwn
  <2>2. QueueOwns(tasks_', taskState')
    BY <1>40, <2>1, RestateOwned DEF WorkerRan, Inv, TypeOK, TaskOwnership
  <2>3. \A u \in Tasks \ {current[w]} : taskState'[u] = taskState[u]
    BY <1>40 DEF WorkerRan, Inv, TypeOK
  <2>4. RunnersOwn'
    <3>1. current' = [current EXCEPT ![w] = NoTask] /\ current \in [Workers -> Tasks \cup {NoTask}]
      BY <1>40 DEF WorkerRan, Inv, TypeOK
    <3>2. \A v \in Workers \ {w} : pc'[v] = pc[v]
      BY <1>40 DEF WorkerRan, Inv, TypeOK, PcOK
    <3>3. pc'[w] \notin {"running"} \cup AddPcs
      BY <1>40, WorkersAreThreads DEF WorkerRan, AddPcs, Inv, TypeOK, PcOK
    <3> QED
      BY <2>1, <2>3, <3>1, <3>2, <3>3 DEF Inv, TaskOwnership, RunnersOwn
  <2>5. AddersOwn'
    <3>1. addTask' = addTask
      BY <1>40 DEF WorkerRan
    <3>2. \A x \in Threads : pc'[x] \in AddPcs => pc[x] \in AddPcs
      BY <1>40 DEF WorkerRan, AddPcs, Inv, TypeOK, PcOK
    <3> QED
      BY <2>1, <2>3, <3>1, <3>2 DEF Inv, TypeOK, TaskOwnership, AddersOwn
  <2> QED
    BY <2>2, <2>4, <2>5 DEF TaskOwnership
<1>41. ASSUME NEW w \in Workers, WorkerExit(w)
      PROVE  TaskOwnership'
  <2>1. \A x \in Threads : /\ pc'[x] \in AddPcs => pc[x] \in AddPcs
                           /\ pc'[x] = "running" => pc[x] = "running"
    BY <1>41 DEF WorkerExit, AddPcs, Inv, TypeOK, PcOK
  <2> QED
    BY <1>41, <2>1, TasksUntouched DEF WorkerExit
<1>42. ASSUME NEW w \in Workers, WorkerExited(w)
      PROVE  TaskOwnership'
  <2> DEFINE p == [pc EXCEPT ![w] = "dead"]
  <2>1. PICK S \in IF worker_count_' = worker_max_count_
                  THEN Notify(Asleep(OnWorkerMonitor)) ELSE {{}} : pc' = Wake(p, S)
    BY <1>42 DEF WorkerExited
  <2>2. S \in SUBSET Threads /\ \A x \in S : pc[x] \in OnWorkerMonitor
    BY NotifyChoosesSleepers DEF SleepPcs, OnWorkerMonitor
  <2>3. \A x \in S : p[x] \in SleepPcs
    BY <1>42, <2>2 DEF WorkerExited, Inv, TypeOK, PcOK, SleepPcs, OnWorkerMonitor
  <2>4. w \in Threads /\ "dead" \notin {"running"} \cup AddPcs
    BY DEF Threads, AddPcs
  <2>5. \A x \in Threads : /\ pc'[x] \in AddPcs => pc[x] \in AddPcs
                           /\ pc'[x] = "running" => pc[x] = "running"
    BY <1>42, <2>1, <2>2, <2>4 DEF WorkerExited, Wake, WakesTo, OnWorkerMonitor, AddPcs, Inv, TypeOK, PcOK
  <2> QED
    BY <1>42, <2>5, TasksUntouched DEF WorkerExited
<1>43. CASE UNCHANGED vars
  BY <1>43, TasksUntouched DEF vars
<1> QED
  BY <1>1, <1>2, <1>3, <1>4, <1>5, <1>6, <1>7, <1>8, <1>9, <1>10, <1>11, <1>12, <1>15, <1>16, <1>17, <1>18, <1>19, <1>20, <1>21, <1>22, <1>23, <1>24, <1>25, <1>26, <1>27, <1>28, <1>29, <1>30, <1>31, <1>32, <1>33, <1>34, <1>35, <1>36, <1>37, <1>38, <1>39, <1>40, <1>41, <1>42, <1>43 DEF Next, AddStep, WorkerStep, ClientStep,
     Environment, AddCall, ClientCall

-----------------------------------------------------------------------------
(* The inductive invariant.                                                *)

\* The constructor establishes the invariant.
LEMMA InitInv == Init => Inv
<1> SUFFICES ASSUME Init PROVE Inv
  OBVIOUS
<1>1. TypeOK
  <2>1. 0 \in 0 .. SizeT - 1
    BY ThreadsAssumption, SizeAssumption, FS_CardinalityType
  <2>2. PcOK(pc)
    BY ThreadsAssumption DEF Init, PcOK, Threads, WorkerPcs, ClientPcs, AddPcs
  <2>3. taskState \in [Tasks -> TaskStates]
    BY DEF Init, TaskStates
  <2>4. tasks_ \in Seq(Tasks)
    BY DEF Init
  <2>5. /\ current \in [Workers -> Tasks \cup {NoTask}]
        /\ addTask \in [Threads -> Tasks \cup {NoTask}]
        /\ timed \in [Threads -> BOOLEAN]
        /\ tmp \in [Threads -> Nat]
        /\ newThreads \in [Clients -> SUBSET Workers]
        /\ inStop \in [Clients -> BOOLEAN]
        /\ deadline \in [Tasks -> {"never", "future", "past"}]
    BY DEF Init
  <2> QED
    BY <2>1, <2>2, <2>3, <2>4, <2>5 DEF Init, TypeOK
<1>2. IdleCountExact
  <2>1. Idlers = {}
    BY DEF Init, Idlers, Asleep
  <2> QED
    BY <2>1, FS_EmptySet DEF Init, IdleCountExact
<1>3. TaskOwnership
  BY DEF Init, TaskOwnership, QueueOwns, RunnersOwn, AddersOwn, AddPcs, Threads
<1> QED
  BY <1>1, <1>2, <1>3 DEF Inv

\* The inductive invariant: the type needs the count (idle_count_ never falls
\* below 0) and the ownership (a blocked Add has a task to push).  For callers
\* that leave RemoveExpiredTasks to the manager: beside a pop without mutex_
\* (thread_manager.cc:478) the queue keeps no promise.
THEOREM InvHolds ==
    ASSUME LockedExpiry
    PROVE  Spec => []Inv
<1>1. Inv /\ [Next]_vars => Inv'
  BY TypeStep, IdleStep, OwnStep DEF Inv
<1> QED
  BY InitInv, <1>1, PTL DEF Spec

\* The manager's variables keep their types whatever else the callers do; no
\* queue, set or counter of thread_manager.cc leaves its range.
THEOREM TypeCorrect ==
    ASSUME LockedExpiry
    PROVE  Spec => []TypeOK
<1>1. Inv => TypeOK
  BY DEF Inv
<1> QED
  BY InvHolds, <1>1, PTL

\* idle_count_ is the number of workers inside monitor_.Wait in every reachable
\* state, with any number of workers coming and going.
THEOREM IdleCountCorrect ==
    ASSUME LockedExpiry
    PROVE  Spec => []IdleCountExact
<1>1. Inv => IdleCountExact
  BY DEF Inv
<1> QED
  BY InvHolds, <1>1, PTL

\* No task is run twice, and none that was expired, removed or refused is run,
\* where every pop of the queue holds mutex_.
THEOREM TaskOwnershipCorrect ==
    ASSUME LockedExpiry
    PROVE  Spec => []TaskOwnership
<1>1. Inv => TaskOwnership
  BY DEF Inv
<1> QED
  BY InvHolds, <1>1, PTL

-----------------------------------------------------------------------------
(* The disciplines.                                                        *)

Managing == {"AddWorker", "RemoveWorker", "Stop", "Join"}

ManagedBy(m) ==
    /\ LockedExpiry
    /\ m \in Clients /\ "RemoveWorker" \notin May[m]
    /\ \A c \in Clients \ {m} : May[c] \cap Managing = {}

Unlimited == \A c \in Clients : May[c] \cap {"PendingTaskCountMax", "Stop"} = {}

SteadyLimit ==
    /\ 0 \notin Limits
    /\ LockedExpiry
    /\ \A c \in Clients : "RemoveNextPending" \notin May[c]

-----------------------------------------------------------------------------
(* The phases of the pool.  While the manager waits in AddWorker, workers  *)
(* only come; while it waits in RemoveWorker, called by StopImpl, they     *)
(* only leave, for then none is wanted; otherwise their number is fixed.   *)

Growing == {"spawning", "mapping", "counting", "countWait"}
Draining == {"draining", "drainWait"}
Stopping == {"stopRead", "lowering", "stopped"} \cup Draining
Unmanaging == {"idle"} \cup AddPcs

ComingPcs == {"created", "starting", "storing"}
LeavingPcs == {"exit", "exitStoring"}
CountedPcs == {"announce", "loop", "waiting", "woken", "running", "exit", "exitStoring",
               "maxWaiting", "maxWoken"}
TornPcs == {"taking", "crashed"}
Coming == {w \in Workers : pc[w] \in ComingPcs}
Pool == {w \in Workers : pc[w] \in ComingPcs \cup CountedPcs}

\* Who is on the way, and what the manager does meanwhile.
Phases(m) ==
    /\ \A c \in Clients \ {m} : pc[c] \in Unmanaging
    /\ \A w \in Workers : pc[w] \in ComingPcs => pc[m] \in Growing
    /\ \A w \in Workers : pc[w] \in LeavingPcs => pc[m] \in Draining
    /\ \A w \in Workers : pc[w] \notin TornPcs
    /\ state_ \in {"JOINING", "STOPPING"} <=> pc[m] \in Stopping

\* The workers that are wanted.
Wanted(m) ==
    /\ pc[m] \notin Draining => worker_max_count_ = Cardinality(Pool)
    /\ pc[m] \in Draining \cup {"stopped"} => worker_max_count_ = 0

\* What a thread has loaded is current, and only one worker is between load and store.
Registers(m) ==
    /\ \A w \in Workers : pc[w] \in {"storing", "exitStoring"} => tmp[w] = worker_count_
    /\ \A v, w \in Workers : pc[v] = "storing" /\ pc[w] = "storing" => v = w
    /\ \A v, w \in Workers : pc[v] = "exitStoring" /\ pc[w] = "exitStoring" => v = w
    /\ pc[m] = "lowering" => tmp[m] = worker_count_
    /\ pc[m] \in {"lowering"} \cup Draining => inStop[m]

\* RemoveWorker has woken everybody, and nobody sleeps again in a pool that nobody wants.
NoneAsleep(m) == pc[m] \in Draining => \A w \in Workers : pc[w] # "waiting"

\* worker_count_ is exact.
CountExact == worker_count_ = Cardinality(Counted)

LifeInv(m) ==
    /\ Phases(m) /\ Wanted(m) /\ Registers(m) /\ NoneAsleep(m)
    /\ CountExact /\ NoLostWakeup

JoinInv ==
    /\ pending_task_count_max_ = 0 /\ \A th \in Threads : pc[th] \notin AddPcs
    /\ state_ # "STOPPING"
    /\ state_ \in {"UNINITIALIZED", "STARTED"} => \A w \in Workers : pc[w] # "dead"
    /\ state_ = "JOINING" /\ tasks_ # << >> =>
         \A w \in Workers : pc[w] \notin LeavingPcs \cup {"dead"}

LimitInv ==
    \A th \in Threads : pc[th] \in AddPcs => pending_task_count_max_ > 0

-----------------------------------------------------------------------------
(* Steps that concern neither the size of the pool nor its manager.        *)

WorkingPcs == {"announce", "loop", "waiting", "woken", "running", "maxWaiting", "maxWoken"}
AwakePcs == WorkingPcs \ {"waiting"}

\* The counters stay, and every thread keeps to its phase.
Steady ==
    /\ UNCHANGED <<worker_count_, worker_max_count_, tmp, inStop>>
    /\ state_ \in {"JOINING", "STOPPING"} <=> state_' \in {"JOINING", "STOPPING"}
    /\ \A w \in Workers : pc'[w] = pc[w] \/ {pc[w], pc'[w]} \subseteq WorkingPcs
    /\ \A c \in Clients : pc'[c] = pc[c] \/ \E G \in {Unmanaging, Growing, Draining} :
                                                {pc[c], pc'[c]} \subseteq G

\* Nobody falls asleep, nobody retires, and the queue does not get its first task.
Calm ==
    /\ tasks_' # << >> => tasks_ # << >>
    /\ \A w \in Workers : /\ pc'[w] = "waiting" => pc[w] = "waiting"
                          /\ pc[w] \in AwakePcs => pc'[w] \in AwakePcs

\* Thread y stays where it is, or is woken.
Stirs(y) ==
    \/ pc'[y] = pc[y]
    \/ pc[y] = "waiting" /\ pc'[y] = "woken"
    \/ pc[y] = "maxWaiting" /\ pc'[y] = "maxWoken"
    \/ pc[y] = "countWait" /\ pc'[y] = "counting"
    \/ pc[y] = "drainWait" /\ pc'[y] = "draining"

\* A thread that goes on to label and wakes sleepers on its way.
LEMMA WakeMoves ==
    ASSUME Inv, NEW x \in Threads, NEW label, pc[x] \notin SleepPcs, NEW S \in SUBSET Threads,
           \A y \in S : pc[y] \in SleepPcs, pc' = Wake([pc EXCEPT ![x] = label], S)
    PROVE  pc'[x] = label /\ \A y \in Threads \ {x} : Stirs(y)
BY DEF Inv, TypeOK, PcOK, Wake, WakesTo, SleepPcs, Stirs

\* The sets of workers that are counted and wanted are finite.
LEMMA PoolFinite ==
    /\ Counted = {w \in Workers : pc[w] \in CountedPcs}
    /\ IsFiniteSet(Counted) /\ Cardinality(Counted) \in Nat
    /\ IsFiniteSet(Pool) /\ Cardinality(Pool) \in Nat
    /\ Counted \in SUBSET Pool /\ Pool = Counted \cup Coming
    /\ Cardinality(Pool) <= Cardinality(Workers) /\ Cardinality(Workers) \in Nat
<1>1. Counted = {w \in Workers : pc[w] \in CountedPcs}
  BY DEF Counted, Asleep, CountedPcs, Threads
<1>2. Counted \in SUBSET Workers /\ Pool \in SUBSET Workers
  BY <1>1 DEF Pool
<1>3. IsFiniteSet(Counted) /\ IsFiniteSet(Pool) /\ Cardinality(Pool) <= Cardinality(Workers)
  BY <1>2, ThreadsAssumption, FS_Subset
<1>4. Counted \in SUBSET Pool /\ Pool = Counted \cup Coming
  BY <1>1 DEF Pool, Coming
<1> QED
  BY <1>1, <1>3, <1>4, ThreadsAssumption, FS_CardinalityType

\* Where NoLostWakeup looks: only workers sleep on monitor_.
LEMMA WakeupByWorkers ==
    ASSUME PcOK(pc)
    PROVE  NoLostWakeup <=>
             (tasks_ # << >> /\ (\E w \in Workers : pc[w] = "waiting") =>
                  \E w \in Workers : pc[w] \in AwakePcs)
BY DEF NoLostWakeup, Asleep, PcOK, Threads, ClientPcs, AddPcs, AwakePcs, WorkingPcs

\* A steady step keeps the phases and the counts.
LEMMA SteadyLife ==
    ASSUME Inv, NEW m, ManagedBy(m), LifeInv(m), Steady
    PROVE  Phases(m)' /\ Wanted(m)' /\ Registers(m)' /\ CountExact'
<1>1. \A w \in Workers : /\ pc'[w] \in ComingPcs <=> pc[w] \in ComingPcs
                         /\ pc'[w] \in CountedPcs <=> pc[w] \in CountedPcs
                         /\ pc'[w] \in LeavingPcs <=> pc[w] \in LeavingPcs
                         /\ pc'[w] = "storing" <=> pc[w] = "storing"
                         /\ pc'[w] = "exitStoring" <=> pc[w] = "exitStoring"
  BY DEF Steady, WorkingPcs, ComingPcs, CountedPcs, LeavingPcs
<1>2. m \in Clients /\ Clients \subseteq Threads
  BY DEF ManagedBy, Threads
<1>3. /\ pc'[m] \in Growing <=> pc[m] \in Growing
      /\ pc'[m] \in Draining <=> pc[m] \in Draining
      /\ pc'[m] \in Stopping <=> pc[m] \in Stopping
      /\ pc'[m] = "lowering" <=> pc[m] = "lowering"
      /\ pc'[m] = "stopped" <=> pc[m] = "stopped"
  BY <1>2 DEF Steady, Unmanaging, Growing, Draining, Stopping, AddPcs
<1>4. \A c \in Clients \ {m} : pc'[c] \in Unmanaging
  BY DEF Steady, LifeInv, Phases, Unmanaging, Growing, Draining, AddPcs
<1>5. Phases(m)'
  <2>1. \A w \in Workers : pc'[w] \notin TornPcs
    BY DEF Steady, WorkingPcs, LifeInv, Phases, TornPcs
  <2> QED
    BY <1>1, <1>3, <1>4, <2>1 DEF LifeInv, Phases, Steady
<1>6. Counted' = Counted /\ Pool' = Pool
  BY <1>1, PoolFinite DEF Pool, Counted, Asleep, CountedPcs
<1>7. Wanted(m)'
  BY <1>3, <1>6 DEF LifeInv, Wanted, Steady
<1>8. Registers(m)'
  BY <1>1, <1>3 DEF LifeInv, Registers, Steady
<1> QED
  BY <1>5, <1>6, <1>7, <1>8 DEF LifeInv, CountExact, Steady

\* A calm step loses no wake-up.
LEMMA CalmSleep ==
    ASSUME Inv, PcOK(pc)', NEW m, LifeInv(m), Calm, pc'[m] \in Draining => pc[m] \in Draining
    PROVE  NoneAsleep(m)' /\ NoLostWakeup'
<1>1. NoneAsleep(m)'
  BY DEF Calm, LifeInv, NoneAsleep
<1>2. NoLostWakeup'
  <2>1. PcOK(pc) /\ NoLostWakeup
    BY DEF Inv, TypeOK, LifeInv
  <2>2. tasks_ # << >> /\ (\E w \in Workers : pc[w] = "waiting") =>
            \E w \in Workers : pc[w] \in AwakePcs
    BY <2>1, WakeupByWorkers
  <2>3. tasks_' # << >> /\ (\E w \in Workers : pc'[w] = "waiting") =>
            \E w \in Workers : pc'[w] \in AwakePcs
    BY <2>2 DEF Calm
  <2> QED
    BY <2>3 DEF NoLostWakeup, Asleep, PcOK, Threads, ClientPcs, AddPcs, AwakePcs, WorkingPcs
<1> QED
  BY <1>1, <1>2

\* Both together preserve everything.
LEMMA QuietLife ==
    ASSUME Inv, Inv', NEW m, ManagedBy(m), LifeInv(m), Steady, Calm
    PROVE  LifeInv(m)'
<1>1. m \in Clients
  BY DEF ManagedBy
<1>2. pc'[m] \in Draining => pc[m] \in Draining
  BY <1>1 DEF Steady, Unmanaging, Growing, Draining, AddPcs
<1>3. PcOK(pc)'
  BY DEF Inv, TypeOK
<1> QED
  BY <1>2, <1>3, SteadyLife, CalmSleep DEF LifeInv

\* What one thread does in such a step.
QuietMove(y) ==
    /\ y \in Workers =>
         /\ pc'[y] = pc[y] \/ {pc[y], pc'[y]} \subseteq WorkingPcs
         /\ pc'[y] = "waiting" => pc[y] = "waiting"
         /\ pc[y] \in AwakePcs => pc'[y] \in AwakePcs
    /\ y \in Clients =>
         pc'[y] = pc[y] \/ \E G \in {Unmanaging, Growing, Draining} : {pc[y], pc'[y]} \subseteq G

\* Being woken is quiet.
LEMMA StirsQuietly ==
    ASSUME Inv, NEW y \in Threads, Stirs(y)
    PROVE  QuietMove(y)
<1>1. pc[y] \in {"waiting", "maxWaiting"} \/ y \notin Workers \/ pc'[y] = pc[y]
  BY DEF Inv, TypeOK, PcOK, Stirs, WorkerPcs, AddPcs
<1>2. pc[y] # "waiting" \/ y \notin Clients
  BY DEF Inv, TypeOK, PcOK, ClientPcs, AddPcs
<1> QED
  BY <1>1, <1>2 DEF Stirs, QuietMove, WorkingPcs, AwakePcs, Unmanaging, Growing, Draining, AddPcs

\* A step whose every move is quiet, and that leaves the counters alone.
LEMMA QuietMoves ==
    ASSUME Inv, Inv', NEW m, ManagedBy(m), LifeInv(m),
           UNCHANGED <<worker_count_, worker_max_count_, tmp, inStop>>,
           state_ \in {"JOINING", "STOPPING"} <=> state_' \in {"JOINING", "STOPPING"},
           tasks_' # << >> => tasks_ # << >>,
           \A y \in Threads : QuietMove(y)
    PROVE  LifeInv(m)'
<1>1. Steady
  BY DEF Steady, QuietMove, Threads
<1>2. Calm
  BY DEF Calm, QuietMove, Threads
<1> QED
  BY <1>1, <1>2, QuietLife

\* A thread that moves quietly and wakes sleepers on its way.
LEMMA QuietWake ==
    ASSUME Inv, NEW x \in Threads, NEW label, pc[x] \notin SleepPcs, NEW S \in SUBSET Threads,
           \A y \in S : pc[y] \in SleepPcs, pc' = Wake([pc EXCEPT ![x] = label], S),
           pc'[x] = label => QuietMove(x)
    PROVE  \A y \in Threads : QuietMove(y)
  BY WakeMoves, StirsQuietly

\* A thread that moves alone.
LEMMA QuietAlone ==
    ASSUME Inv, NEW x \in Threads, NEW label, pc' = [pc EXCEPT ![x] = label],
           pc'[x] = label => QuietMove(x)
    PROVE  \A y \in Threads : QuietMove(y)
<1>1. pc'[x] = label /\ \A y \in Threads \ {x} : pc'[y] = pc[y]
  BY DEF Inv, TypeOK, PcOK
<1>2. \A y \in Threads \ {x} : QuietMove(y)
  BY <1>1, StirsQuietly DEF Stirs
<1> QED
  BY <1>1, <1>2

-----------------------------------------------------------------------------
(* Add.                                                                    *)

\* A push wakes a worker if one sleeps: idle_count_ > 0 tells whether.
LEMMA PushLife ==
    ASSUME Inv, Inv', NEW m, ManagedBy(m), LifeInv(m), NEW th \in Threads, NEW t, NEW q, NEW ts,
           pc[th] \in {Home(th), "maxWoken"}, Push(th, t, q, ts),
           UNCHANGED <<worker_count_, worker_max_count_, tmp, inStop, state_>>
    PROVE  LifeInv(m)'
<1>1. pc[th] \notin SleepPcs /\ pc[th] # "waiting"
  BY DEF Home, SleepPcs
<1>2. PICK S \in WokenByPush : pc' = Wake([pc EXCEPT ![th] = Home(th)], S)
  BY DEF Push
<1>3. S \in SUBSET Threads /\ \A y \in S : pc[y] = "waiting"
  BY NotifyChoosesSleepers DEF WokenByPush, SleepPcs
<1>4. pc'[th] = Home(th) /\ \A y \in Threads \ {th} : Stirs(y)
  BY <1>1, <1>2, <1>3, WakeMoves DEF SleepPcs
<1>5. pc'[th] = Home(th) => QuietMove(th)
  BY <1>1, ThreadsAssumption DEF QuietMove, Home, WorkingPcs, AwakePcs, Unmanaging, AddPcs
<1>6. \A y \in Threads : QuietMove(y)
  BY <1>4, <1>5, StirsQuietly
<1>7. Steady
  BY <1>6 DEF Steady, QuietMove, Threads
<1>8. NoneAsleep(m)'
  <2>1. m \in Threads
    BY DEF ManagedBy, Threads
  <2>2. pc'[m] \in Draining => pc[m] \in Draining
    BY <1>6, <2>1 DEF ManagedBy, QuietMove, Unmanaging, Growing, Draining, AddPcs
  <2>3. \A w \in Workers : pc'[w] = "waiting" => pc[w] = "waiting"
    BY <1>6 DEF QuietMove, Threads
  <2> QED
    BY <2>2, <2>3 DEF LifeInv, NoneAsleep
<1>9. ASSUME NEW w \in Workers, pc'[w] = "waiting"
      PROVE  \E v \in Workers : pc'[v] \in AwakePcs
  <2>1. w \in Threads /\ pc[w] = "waiting"
    BY <1>6, <1>9 DEF QuietMove, Threads
  <2>2. idle_count_ > 0
    <3>1. w \in Idlers
      BY <2>1 DEF Idlers, Asleep
    <3>2. Cardinality(Idlers) \in Nat /\ Cardinality(Idlers) # 0
      BY <3>1, IdlersFinite, FS_CardinalityType, FS_EmptySet
    <3> QED
      BY <3>2 DEF Inv, IdleCountExact
  <2>3. PICK x \in Threads : pc[x] = "waiting" /\ S = {x}
    BY <1>2, <2>1, <2>2 DEF WokenByPush, Notify, Asleep
  <2>4. x \in Workers
    BY <2>3 DEF Inv, TypeOK, PcOK, Threads, ClientPcs, AddPcs
  <2>5. pc'[x] = "woken"
    BY <1>1, <1>2, <2>3 DEF Wake, WakesTo, Inv, TypeOK, PcOK
  <2> QED
    BY <2>4, <2>5 DEF AwakePcs, WorkingPcs
<1>10. NoLostWakeup'
  <2>1. PcOK(pc')
    BY DEF Inv, TypeOK
  <2> QED
    BY <1>9, <2>1 DEF NoLostWakeup, Asleep, PcOK, Threads, ClientPcs, AddPcs, AwakePcs, WorkingPcs
<1> QED
  BY <1>7, <1>8, <1>10, SteadyLife DEF LifeInv

\* RemoveExpiredTasks only shortens the queue.
LEMMA LiveTasksShorter ==
    ASSUME Inv
    PROVE  LiveTasks # << >> => tasks_ # << >>
<1>1. Len(LiveTasks) <= Len(tasks_) /\ LiveTasks \in Seq(Tasks) /\ tasks_ \in Seq(Tasks)
  BY PrefixBound, LiveTasksFacts DEF Inv, TypeOK
<1> QED
  BY <1>1

\* Whatever happens in Add, and spurious wake-ups anywhere.
LEMMA AddLife ==
    ASSUME Inv, Inv', NEW m, ManagedBy(m), LifeInv(m), NEW th \in Threads,
           AddStep(th) \/ AddCall(th) \/ AddTimedOut(th) \/ SpuriousWakeup(th)
    PROVE  LifeInv(m)'
<1> USE DEF manager, pool, queue, frames
<1>1. CASE SpuriousWakeup(th)
  <2>1. \A y \in Threads : Stirs(y)
    BY <1>1 DEF SpuriousWakeup, Wake, WakesTo, SleepPcs, Stirs
  <2> QED
    BY <1>1, <2>1, StirsQuietly, QuietMoves DEF SpuriousWakeup
<1>2. CASE AddTimedOut(th)
  <2>1. pc[th] = "maxWaiting" /\ pc' = [pc EXCEPT ![th] = Home(th)]
    BY <1>2 DEF AddTimedOut
  <2>2. pc'[th] = Home(th) => QuietMove(th)
    BY <2>1, ThreadsAssumption DEF QuietMove, Home, WorkingPcs, AwakePcs, Unmanaging, AddPcs
  <2> QED
    BY <1>2, <2>1, <2>2, QuietAlone, QuietMoves DEF AddTimedOut
<1>3. CASE AddResume(th)
  BY <1>3, PushLife DEF AddResume
<1>4. CASE AddSleepAgain(th)
  <2>1. pc[th] = "maxWoken" /\ pc' = [pc EXCEPT ![th] = "maxWaiting"]
    BY <1>4 DEF AddSleepAgain
  <2>2. pc'[th] = "maxWaiting" => QuietMove(th)
    BY <2>1 DEF QuietMove, WorkingPcs, AwakePcs, Unmanaging, AddPcs
  <2> QED
    BY <1>4, <2>1, <2>2, QuietAlone, QuietMoves DEF AddSleepAgain
<1>5. ASSUME NEW t \in Tasks, AddContended(th, t) \/ AddNotStarted(th, t)
      PROVE  LifeInv(m)'
  <2>1. \A y \in Threads : Stirs(y)
    BY <1>5 DEF AddContended, AddNotStarted, Stirs
  <2> QED
    BY <1>5, <2>1, StirsQuietly, QuietMoves DEF AddContended, AddNotStarted
<1>6. ASSUME NEW t \in Tasks, AddPush(th, t)
      PROVE  LifeInv(m)'
  BY <1>6, PushLife DEF AddPush, CallsAdd
<1>7. LiveTasks # << >> => tasks_ # << >>
  BY LiveTasksShorter
<1>8. ASSUME NEW t \in Tasks, NEW timeout \in Timeouts, AddSleep(th, t, timeout)
      PROVE  LifeInv(m)'
  <2>1. pc[th] = Home(th) /\ pc' = [pc EXCEPT ![th] = "maxWaiting"]
    BY <1>8 DEF AddSleep, CallsAdd
  <2>2. pc'[th] = "maxWaiting" => QuietMove(th)
    BY <2>1, ThreadsAssumption DEF QuietMove, Home, WorkingPcs, AwakePcs, Unmanaging, AddPcs
  <2> QED
    BY <1>7, <1>8, <2>1, <2>2, QuietAlone, QuietMoves DEF AddSleep
<1>9. ASSUME NEW t \in Tasks, NEW timeout \in Timeouts, AddTooMany(th, t, timeout)
      PROVE  LifeInv(m)'
  <2>1. \A y \in Threads : Stirs(y)
    BY <1>9 DEF AddTooMany, Stirs
  <2> QED
    BY <1>7, <1>9, <2>1, StirsQuietly, QuietMoves DEF AddTooMany
<1> QED
  BY <1>1, <1>2, <1>3, <1>4, <1>5, <1>6, <1>8, <1>9 DEF AddStep, AddCall

-----------------------------------------------------------------------------
(* Worker::Run.                                                            *)

\* A worker on its way in is wanted and not yet counted.
LEMMA ComingLeavesRoom ==
    ASSUME NEW w \in Workers, pc[w] \in ComingPcs
    PROVE  Cardinality(Counted) + 1 <= Cardinality(Pool) /\ w \notin Counted
<1>1. w \notin Counted /\ w \in Pool
  BY PoolFinite DEF ComingPcs, CountedPcs, Pool
<1>2. Cardinality(Counted \cup {w}) = Cardinality(Counted) + 1
  BY <1>1, PoolFinite, FS_AddElement
<1>3. Cardinality(Counted \cup {w}) <= Cardinality(Pool)
  BY <1>1, PoolFinite, FS_Subset
<1> QED
  BY <1>1, <1>2, <1>3

\* A counted worker is counted.
LEMMA CountedAtLeastOne ==
    ASSUME NEW w \in Workers, pc[w] \in CountedPcs
    PROVE  w \in Counted /\ Cardinality(Counted) >= 1
<1>1. w \in Counted
  BY PoolFinite
<1>2. Cardinality(Counted) \in Nat /\ Cardinality(Counted) # 0
  BY <1>1, PoolFinite, FS_EmptySet
<1> QED
  BY <1>1, <1>2

\* Outside RemoveWorker at most as many workers are counted as wanted.
LEMMA CountWithinWanted ==
    ASSUME NEW m, LifeInv(m), pc[m] \notin Draining
    PROVE  worker_count_ <= worker_max_count_
<1>1. Cardinality(Counted) <= Cardinality(Pool)
  BY PoolFinite, FS_Subset
<1> QED
  BY <1>1 DEF LifeInv, Wanted, CountExact

\* A worker comes in: worker_count_++ counts it, for no other worker and no
\* leaving one is between its load and its store.
LEMMA EnterLife ==
    ASSUME Inv, Inv', NEW m, ManagedBy(m), LifeInv(m), NEW w \in Workers,
           WorkerEnter(w) \/ WorkerEntered(w) \/ WorkerNotWanted(w)
    PROVE  LifeInv(m)'
<1> USE DEF manager, pool, queue, frames
<1>1. pc[w] \in ComingPcs
  BY DEF WorkerEnter, WorkerEntered, WorkerNotWanted, ComingPcs
<1>2. m \in Clients /\ m \in Threads /\ w \in Threads /\ m # w
  BY ThreadsAssumption DEF ManagedBy, Threads
<1>3. pc[m] \in Growing
  BY <1>1 DEF LifeInv, Phases
<1>4. pc[m] \notin Draining \cup Stopping /\ pc[m] # "lowering"
  BY <1>3 DEF Growing, Draining, Stopping
<1>5. Cardinality(Counted) + 1 <= Cardinality(Pool) /\ w \notin Counted
  BY <1>1, ComingLeavesRoom
<1>6. /\ worker_count_ = Cardinality(Counted) /\ worker_max_count_ = Cardinality(Pool)
      /\ worker_count_ \in Nat /\ worker_max_count_ \in Nat
  BY <1>4, PoolFinite DEF LifeInv, CountExact, Wanted
<1>7. \A v \in Workers : pc[v] \notin LeavingPcs
  BY <1>4 DEF LifeInv, Phases
<1>8. pc \in [Threads -> WorkerPcs \cup ClientPcs \cup AddPcs] /\ tmp \in [Threads -> Nat]
  BY DEF Inv, TypeOK, PcOK
<1>9. PcOK(pc)'
  BY DEF Inv, TypeOK
<1>10. ~WorkerNotWanted(w)
  BY <1>5, <1>6, PoolFinite DEF WorkerNotWanted
<1>11. CASE WorkerEnter(w)
  <2>1. /\ pc[w] = "starting" /\ pc'[w] = "storing" /\ tmp'[w] = worker_count_
        /\ \A y \in Threads \ {w} : pc'[y] = pc[y] /\ tmp'[y] = tmp[y]
    BY <1>2, <1>8, <1>11 DEF WorkerEnter
  <2>2. UNCHANGED <<worker_count_, worker_max_count_, inStop, state_, tasks_>>
    BY <1>11 DEF WorkerEnter
  <2>3. \A v \in Workers : pc[v] # "storing"
    BY <1>11 DEF WorkerEnter, MutexFree, Threads
  <2>4. \A v \in Workers : pc'[v] = "storing" => v = w
    BY <2>1, <2>3 DEF Threads
  <2>5. Phases(m)'
    BY ThreadsAssumption, <1>2, <1>3, <2>1, <2>2 DEF LifeInv, Phases, LeavingPcs, TornPcs, Threads
  <2>6. Counted' = Counted /\ Pool' = Pool
    <3>1. \A v \in Workers : /\ pc'[v] \in CountedPcs <=> pc[v] \in CountedPcs
                             /\ pc'[v] \in ComingPcs <=> pc[v] \in ComingPcs
      BY <2>1 DEF Threads, ComingPcs, CountedPcs
    <3> QED
      BY <3>1 DEF Pool, Counted, Asleep, CountedPcs
  <2>7. Wanted(m)'
    BY <1>2, <2>1, <2>2, <2>6 DEF LifeInv, Wanted
  <2>8. Registers(m)'
    BY <1>2, <1>4, <1>7, <2>1, <2>2, <2>4 DEF LifeInv, Registers, LeavingPcs, Threads
  <2>9. Calm
    BY <2>1, <2>2 DEF Calm, Threads, AwakePcs, WorkingPcs
  <2>10. NoneAsleep(m)' /\ NoLostWakeup'
    BY <1>2, <1>9, <2>1, <2>9, CalmSleep
  <2> QED
    BY <2>2, <2>5, <2>6, <2>7, <2>8, <2>10 DEF LifeInv, CountExact
<1>12. CASE WorkerEntered(w)
  <2>1. /\ pc[w] = "storing" /\ pc'[w] \in {"announce", "loop"}
        /\ \A y \in Threads \ {w} : pc'[y] = pc[y]
    BY <1>2, <1>8, <1>12 DEF WorkerEntered
  <2>2. UNCHANGED <<worker_max_count_, inStop, state_, tasks_, tmp>>
    BY <1>12 DEF WorkerEntered
  <2>3. worker_count_' = worker_count_ + 1
    <3>1. tmp[w] = worker_count_
      BY <2>1 DEF LifeInv, Registers
    <3>2. worker_count_ + 1 \in 0 .. SizeT - 1
      BY <1>5, <1>6, PoolFinite, SizeAssumption
    <3> QED
      BY <1>12, <3>1, <3>2, SizeAssumption DEF WorkerEntered
  <2>4. \A v \in Workers : pc'[v] # "storing"
    BY <2>1 DEF LifeInv, Registers, Threads
  <2>5. Phases(m)'
    BY ThreadsAssumption, <1>2, <1>3, <2>1, <2>2
    DEF LifeInv, Phases, LeavingPcs, ComingPcs, TornPcs, Threads
  <2>6. Counted' = Counted \cup {w} /\ Pool' = Pool
    <3>1. \A v \in Workers \ {w} : pc'[v] = pc[v]
      BY <2>1 DEF Threads
    <3>2. pc'[w] \in CountedPcs
      BY <2>1 DEF CountedPcs
    <3>3. Counted' = {v \in Workers : pc'[v] \in CountedPcs}
      BY DEF Counted, Asleep, CountedPcs, Threads
    <3> QED
      BY <1>1, <3>1, <3>2, <3>3, PoolFinite DEF Pool
  <2>7. CountExact'
    BY <1>5, <1>6, <2>3, <2>6, PoolFinite, FS_AddElement DEF CountExact
  <2>8. Wanted(m)'
    BY <1>2, <2>1, <2>2, <2>6 DEF LifeInv, Wanted
  <2>9. Registers(m)'
    BY <1>2, <1>4, <1>7, <2>1, <2>2, <2>4 DEF LifeInv, Registers, LeavingPcs, Threads
  <2>10. Calm
    BY <2>1, <2>2 DEF Calm, Threads, AwakePcs, WorkingPcs
  <2>11. NoneAsleep(m)' /\ NoLostWakeup'
    BY <1>2, <1>9, <2>1, <2>10, CalmSleep
  <2> QED
    BY <2>5, <2>7, <2>8, <2>9, <2>11 DEF LifeInv
<1> QED
  BY <1>10, <1>11, <1>12

\* A worker at the queue, at work, or announcing that the pool is complete.
LEMMA ServeLife ==
    ASSUME Inv, Inv', NEW m, ManagedBy(m), LifeInv(m), NEW w \in Workers,
           \/ WorkerAnnounce(w) \/ WorkerWait(w) \/ WorkerTake(w) \/ WorkerTakeNone(w)
           \/ \E outcome \in {"COMPLETE", "failed"} : WorkerRan(w, outcome)
    PROVE  LifeInv(m)'
<1> USE DEF manager, pool, queue, frames
<1>1. w \in Threads /\ w \notin Clients
  BY ThreadsAssumption DEF Threads
<1>2. CASE WorkerAnnounce(w)
  <2>1. PICK S \in Notify(Asleep(OnWorkerMonitor)) : pc' = Wake([pc EXCEPT ![w] = "loop"], S)
    BY <1>2 DEF WorkerAnnounce
  <2>2. S \in SUBSET Threads /\ \A y \in S : pc[y] \in OnWorkerMonitor
    BY NotifyChoosesSleepers DEF OnWorkerMonitor, SleepPcs
  <2>3. pc[w] = "announce" /\ pc[w] \notin SleepPcs /\ \A y \in S : pc[y] \in SleepPcs
    BY <1>2, <2>2 DEF WorkerAnnounce, OnWorkerMonitor, SleepPcs
  <2>4. pc'[w] = "loop" => QuietMove(w)
    BY <1>1, <2>3 DEF QuietMove, WorkingPcs, AwakePcs
  <2>5. \A y \in Threads : QuietMove(y)
    BY <1>1, <2>1, <2>2, <2>3, <2>4, QuietWake
  <2> QED
    BY <1>2, <2>5, QuietMoves DEF WorkerAnnounce
<1>3. CASE WorkerWait(w)
  <2>1. pc[w] \in {"loop", "woken"} /\ tasks_ = << >> /\ worker_count_ <= worker_max_count_
    BY <1>3 DEF WorkerWait, AtQueue, IsActive
  <2>2. pc[m] \notin Draining
    <3>1. worker_count_ >= 1
      BY <2>1, CountedAtLeastOne DEF LifeInv, CountExact, CountedPcs
    <3>2. worker_max_count_ # 0
      BY <2>1, <3>1 DEF Inv, TypeOK
    <3> QED
      BY <3>2 DEF LifeInv, Wanted
  <2>3. pc'[w] = "waiting" /\ \A y \in Threads \ {w} : pc'[y] = pc[y]
    BY <1>1, <1>3 DEF WorkerWait, Inv, TypeOK, PcOK
  <2>4. UNCHANGED <<worker_count_, worker_max_count_, tmp, inStop, state_, tasks_>>
    BY <1>3 DEF WorkerWait
  <2>5. Steady
    BY <1>1, <2>1, <2>3, <2>4 DEF Steady, Threads, WorkingPcs
  <2>6. m \in Threads \ {w}
    BY <1>1 DEF ManagedBy, Threads
  <2>7. NoneAsleep(m)' /\ NoLostWakeup'
    BY <2>1, <2>2, <2>3, <2>4, <2>6 DEF NoneAsleep, NoLostWakeup
  <2> QED
    BY <2>5, <2>7, SteadyLife DEF LifeInv
<1>4. ASSUME NEW rest, NEW S \in WokenByPop(rest)
      PROVE  S \in SUBSET Threads /\ \A y \in S : pc[y] \in SleepPcs
  BY <1>4, NotifyChoosesSleepers DEF WokenByPop, SleepPcs
<1>5. CASE WorkerTake(w)
  <2>1. PICK S \in WokenByPop(Tail(LiveTasks)) : pc' = Wake([pc EXCEPT ![w] = "running"], S)
    BY <1>5 DEF WorkerTake
  <2>2. pc[w] \in {"loop", "woken"} /\ pc[w] \notin SleepPcs
    BY <1>5 DEF WorkerTake, AtQueue, SleepPcs
  <2>3. pc'[w] = "running" => QuietMove(w)
    BY <1>1, <2>2 DEF QuietMove, WorkingPcs, AwakePcs
  <2>4. \A y \in Threads : QuietMove(y)
    BY <1>1, <1>4, <2>1, <2>2, <2>3, QuietWake
  <2> QED
    BY <1>5, <2>4, QuietMoves DEF WorkerTake
<1>6. CASE WorkerTakeNone(w)
  <2>1. PICK S \in WokenByPop(<< >>) : pc' = Wake([pc EXCEPT ![w] = "loop"], S)
    BY <1>6 DEF WorkerTakeNone
  <2>2. pc[w] \in {"loop", "woken"} /\ pc[w] \notin SleepPcs
    BY <1>6 DEF WorkerTakeNone, AtQueue, SleepPcs
  <2>3. pc'[w] = "loop" => QuietMove(w)
    BY <1>1, <2>2 DEF QuietMove, WorkingPcs, AwakePcs
  <2>4. \A y \in Threads : QuietMove(y)
    BY <1>1, <1>4, <2>1, <2>2, <2>3, QuietWake
  <2> QED
    BY <1>6, <2>4, QuietMoves DEF WorkerTakeNone
<1>7. ASSUME NEW outcome \in {"COMPLETE", "failed"}, WorkerRan(w, outcome)
      PROVE  LifeInv(m)'
  <2>1. pc[w] = "running" /\ pc' = [pc EXCEPT ![w] = "loop"]
    BY <1>7 DEF WorkerRan
  <2>2. pc'[w] = "loop" => QuietMove(w)
    BY <1>1, <2>1 DEF QuietMove, WorkingPcs, AwakePcs
  <2> QED
    BY <1>1, <1>7, <2>1, <2>2, QuietAlone, QuietMoves DEF WorkerRan
<1> QED
  BY <1>2, <1>3, <1>5, <1>6, <1>7

\* A worker leaves: only while RemoveWorker waits, and one at a time between
\* the load and the store of worker_count_--.
LEMMA ExitLife ==
    ASSUME Inv, Inv', NEW m, ManagedBy(m), LifeInv(m), NEW w \in Workers,
           WorkerRetire(w) \/ WorkerExit(w) \/ WorkerExited(w)
    PROVE  LifeInv(m)'
<1> USE DEF manager, pool, queue, frames
<1>1. m \in Clients /\ m \in Threads /\ w \in Threads /\ w \notin Clients
  BY ThreadsAssumption DEF ManagedBy, Threads
<1>2. pc[w] \in CountedPcs /\ pc[w] \notin ComingPcs
  BY DEF WorkerRetire, AtQueue, WorkerExit, WorkerExited, CountedPcs, ComingPcs
<1>3. w \in Counted /\ worker_count_ >= 1 /\ worker_count_ = Cardinality(Counted)
  BY <1>2, CountedAtLeastOne DEF LifeInv, CountExact
<1>4. pc[m] \in Draining
  <2>1. CASE WorkerRetire(w)
    <3>1. worker_count_ > worker_max_count_
      BY <2>1 DEF WorkerRetire, IsActive, Inv, TypeOK
    <3> QED
      BY <3>1, CountWithinWanted DEF Inv, TypeOK
  <2>2. CASE pc[w] \in LeavingPcs
    BY <2>2 DEF LifeInv, Phases
  <2> QED
    BY <2>1, <2>2 DEF WorkerExit, WorkerExited, LeavingPcs
<1>5. pc[m] \in Stopping /\ pc[m] \notin Growing /\ pc[m] # "lowering" /\ inStop[m]
  BY <1>4 DEF LifeInv, Registers, Stopping, Draining, Growing
<1>6. \A v \in Workers : pc[v] \notin ComingPcs /\ pc[v] # "waiting"
  BY <1>4, <1>5 DEF LifeInv, Phases, NoneAsleep
<1>7. worker_max_count_ = 0
  BY <1>4 DEF LifeInv, Wanted
<1>8. pc \in [Threads -> WorkerPcs \cup ClientPcs \cup AddPcs] /\ tmp \in [Threads -> Nat]
  BY DEF Inv, TypeOK, PcOK
<1>9. PcOK(pc')
  BY DEF Inv, TypeOK
<1>10. UNCHANGED <<worker_max_count_, inStop, state_, tasks_>>
  BY DEF WorkerRetire, WorkerExit, WorkerExited
<1>11. /\ pc'[w] \in {"exit", "exitStoring", "dead"} /\ \A y \in Threads \ {w} : Stirs(y)
  <2>1. CASE WorkerRetire(w)
    BY <1>1, <1>8, <2>1 DEF WorkerRetire, Stirs
  <2>2. CASE WorkerExit(w)
    BY <1>1, <1>8, <2>2 DEF WorkerExit, Stirs
  <2>3. CASE WorkerExited(w)
    <3>1. PICK S \in Notify(Asleep(OnWorkerMonitor)) \cup {{}} :
              pc' = Wake([pc EXCEPT ![w] = "dead"], S)
      BY <2>3 DEF WorkerExited
    <3>2. S \in SUBSET Threads /\ \A y \in S : pc[y] \in OnWorkerMonitor
      BY NotifyChoosesSleepers DEF OnWorkerMonitor, SleepPcs
    <3>3. pc[w] \notin SleepPcs /\ \A y \in S : pc[y] \in SleepPcs
      BY <2>3, <3>2 DEF WorkerExited, OnWorkerMonitor, SleepPcs
    <3> QED
      BY <1>1, <3>1, <3>2, <3>3, WakeMoves
  <2> QED
    BY <2>1, <2>2, <2>3
<1>12. \A v \in Workers \ {w} : pc'[v] \in {pc[v], "maxWoken"} /\ (pc'[v] # pc[v] => pc[v] = "maxWaiting")
  <2>1. \A v \in Workers \ {w} : Stirs(v) /\ pc[v] \in WorkerPcs \cup AddPcs /\ pc[v] # "waiting"
    BY <1>6, <1>11 DEF Inv, TypeOK, PcOK, Threads
  <2> QED
    BY <2>1 DEF Stirs, WorkerPcs, AddPcs
<1>13. pc'[m] \in Draining
  BY <1>1, <1>4, <1>11 DEF Stirs, Draining
<1>14. Phases(m)'
  <2>1. \A c \in Clients \ {m} : pc'[c] \in Unmanaging
    BY <1>1, <1>11 DEF LifeInv, Phases, Stirs, Threads, Unmanaging, AddPcs
  <2>2. \A v \in Workers : pc'[v] \notin ComingPcs
    BY <1>6, <1>11, <1>12 DEF ComingPcs
  <2>3. pc'[m] \in Stopping
    BY <1>13 DEF Stopping
  <2>4. \A v \in Workers : pc'[v] \notin TornPcs
    BY <1>11, <1>12 DEF LifeInv, Phases, TornPcs
  <2> QED
    BY <1>5, <1>10, <1>13, <2>1, <2>2, <2>3, <2>4 DEF LifeInv, Phases
<1>15. Wanted(m)'
  BY <1>7, <1>10, <1>13 DEF Wanted
<1>16. NoneAsleep(m)' /\ NoLostWakeup'
  <2>1. \A v \in Workers : pc'[v] # "waiting"
    BY <1>6, <1>11, <1>12
  <2>2. Asleep({"waiting"})' = {}
    BY <1>9, <2>1 DEF Asleep, PcOK, Threads, ClientPcs, AddPcs
  <2> QED
    BY <2>1, <2>2 DEF NoneAsleep, NoLostWakeup
<1>17. Counted' = {v \in Workers : pc'[v] \in CountedPcs}
  BY DEF Counted, Asleep, CountedPcs, Threads
<1>18. \A v \in Workers \ {w} : /\ pc'[v] \in CountedPcs <=> pc[v] \in CountedPcs
                                /\ pc'[v] \in LeavingPcs => pc'[v] = pc[v]
                                /\ pc'[v] # "storing"
  BY <1>6, <1>12 DEF CountedPcs, LeavingPcs, ComingPcs
<1>19. pc'[m] # "lowering"
  BY <1>13 DEF Draining
<1>20. CASE WorkerRetire(w)
  <2>1. pc'[w] = "exit" /\ UNCHANGED <<worker_count_, tmp>>
    BY <1>1, <1>8, <1>20 DEF WorkerRetire
  <2>2. Counted' = Counted
    BY <1>2, <1>17, <1>18, <2>1, PoolFinite DEF CountedPcs
  <2>3. Registers(m)'
    BY <1>5, <1>10, <1>18, <1>19, <2>1 DEF LifeInv, Registers, LeavingPcs
  <2> QED
    BY <1>14, <1>15, <1>16, <2>1, <2>2, <2>3 DEF LifeInv, CountExact
<1>21. CASE WorkerExit(w)
  <2>1. /\ pc'[w] = "exitStoring" /\ UNCHANGED worker_count_
        /\ tmp'[w] = worker_count_ /\ \A v \in Workers \ {w} : pc[v] # "exitStoring"
    BY <1>1, <1>8, <1>21 DEF WorkerExit, WorkerMonitorFree
  <2>2. Counted' = Counted
    BY <1>2, <1>17, <1>18, <2>1, PoolFinite DEF CountedPcs
  <2>3. \A v \in Workers : pc'[v] = "exitStoring" => v = w
    BY <1>18, <2>1 DEF LeavingPcs
  <2>4. Registers(m)'
    BY <1>5, <1>10, <1>18, <1>19, <2>1, <2>3 DEF Registers
  <2> QED
    BY <1>14, <1>15, <1>16, <2>1, <2>2, <2>4 DEF LifeInv, CountExact
<1>22. CASE WorkerExited(w)
  <2>1. pc[w] = "exitStoring" /\ pc'[w] = "dead" /\ UNCHANGED tmp
    <3>1. pc[w] = "exitStoring" /\ UNCHANGED tmp
      BY <1>22 DEF WorkerExited
    <3>2. PICK S \in Notify(Asleep(OnWorkerMonitor)) \cup {{}} :
              pc' = Wake([pc EXCEPT ![w] = "dead"], S)
      BY <1>22 DEF WorkerExited
    <3>3. w \notin S
      BY <3>1, <3>2, NotifyChoosesSleepers DEF OnWorkerMonitor, SleepPcs
    <3> QED
      BY <1>1, <1>8, <3>1, <3>2, <3>3 DEF Wake
  <2>2. worker_count_' = worker_count_ - 1
    <3>1. tmp[w] = worker_count_ /\ worker_count_ \in 1 .. SizeT - 1
      BY <1>3, <2>1 DEF LifeInv, Registers, Inv, TypeOK
    <3>2. worker_count_' = (worker_count_ + SizeT - 1) % SizeT
      BY <1>22, <3>1 DEF WorkerExited, Decrement
    <3> QED
      BY <3>1, <3>2, SizeAssumption
  <2>3. Counted' = Counted \ {w}
    BY <1>17, <1>18, <2>1, PoolFinite DEF CountedPcs
  <2>4. CountExact'
    BY <1>3, <2>2, <2>3, PoolFinite, FS_RemoveElement DEF CountExact
  <2>5. \A v \in Workers : pc'[v] # "exitStoring"
    BY <1>18, <2>1 DEF LifeInv, Registers, LeavingPcs
  <2>6. \A v \in Workers : pc'[v] # "storing"
    BY <1>18, <2>1
  <2>7. Registers(m)'
    BY <1>5, <1>10, <1>19, <2>5, <2>6 DEF Registers
  <2> QED
    BY <1>14, <1>15, <1>16, <2>4, <2>7 DEF LifeInv
<1> QED
  BY <1>20, <1>21, <1>22

-----------------------------------------------------------------------------
(* The callers.                                                            *)

\* Calls that concern the queue or the manager's settings.
LEMMA SettingsLife ==
    ASSUME Inv, Inv', NEW m, ManagedBy(m), LifeInv(m), NEW c \in Clients,
           \/ RemoveNextPending(c) \/ ExpiredTaskCount(c)
           \/ SetThreadFactory(c) \/ SetExpireCallback(c) \/ Start(c)
           \/ \E value \in Limits : PendingTaskCountMax(c, value)
    PROVE  LifeInv(m)'
<1> USE DEF manager, pool, queue, frames
<1>1. c \in Threads /\ c \notin Workers
  BY ThreadsAssumption DEF Threads
<1>2. UNCHANGED <<worker_count_, worker_max_count_, tmp, inStop>>
  BY DEF RemoveNextPending, ExpiredTaskCount, SetThreadFactory, SetExpireCallback, Start, PendingTaskCountMax
<1>3. state_ \in {"JOINING", "STOPPING"} <=> state_' \in {"JOINING", "STOPPING"}
  BY DEF RemoveNextPending, ExpiredTaskCount, SetThreadFactory, SetExpireCallback, Start, PendingTaskCountMax
<1>4. tasks_' # << >> => tasks_ # << >>
  BY DEF RemoveNextPending, ExpiredTaskCount, SetThreadFactory, SetExpireCallback, Start, PendingTaskCountMax
<1>5. \A y \in Threads : QuietMove(y)
  <2>1. CASE pc' = pc
    BY <2>1, StirsQuietly DEF Stirs
  <2>3. CASE Start(c)
    <3>1. \A y \in Threads : Stirs(y)
      BY <2>3 DEF Start, Wake, WakesTo, Asleep, Stirs
    <3> QED
      BY <3>1, StirsQuietly
  <2> QED
    BY <2>1, <2>3 DEF RemoveNextPending, ExpiredTaskCount, SetThreadFactory, SetExpireCallback, PendingTaskCountMax, Calls
<1> QED
  BY <1>2, <1>3, <1>4, <1>5, QuietMoves

\* AddWorker: the pool and the number of wanted workers grow together, and the
\* call returns only when nobody is on the way any more.
LEMMA AddWorkerLife ==
    ASSUME Inv, Inv', NEW m, ManagedBy(m), LifeInv(m), NEW c \in Clients,
           \/ \E value \in Batch : AddWorker(c, value)
           \/ \E w \in Workers : AddWorkerSpawn(c, w) \/ AddWorkerMap(c, w)
           \/ AddWorkerWait(c)
    PROVE  LifeInv(m)'
<1> USE DEF manager, pool, queue, frames
<1>1. c = m
  BY DEF ManagedBy, Managing, AddWorker, Calls, LifeInv, Phases, Unmanaging, AddPcs,
         AddWorkerSpawn, AddWorkerMap, AddWorkerWait
<1>2. m \in Clients /\ m \in Threads /\ m \notin Workers /\ Workers \subseteq Threads
  BY ThreadsAssumption DEF ManagedBy, Threads
<1>3. pc[m] \in Growing \cup {"idle"}
  BY <1>1 DEF AddWorker, Calls, AddWorkerSpawn, AddWorkerMap, AddWorkerWait, Growing
<1>4. pc[m] \notin Stopping \cup Draining /\ pc[m] # "lowering"
  BY <1>3 DEF Growing, Stopping, Draining
<1>5. PcOK(pc)'
  BY DEF Inv, TypeOK
<1>6. pc \in [Threads -> WorkerPcs \cup ClientPcs \cup AddPcs]
  BY DEF Inv, TypeOK, PcOK
<1>7. ASSUME NEW value \in Batch, AddWorker(m, value)
      PROVE  LifeInv(m)'
  <2>1. PICK S \in SUBSET {w \in Workers : pc[w] = "unborn"} :
            /\ Cardinality(S) = value
            /\ pc' = [th \in Threads |-> IF th \in S THEN "created"
                                         ELSE IF th = m THEN "spawning" ELSE pc[th]]
    BY <1>7 DEF AddWorker
  <2>2. /\ worker_max_count_' = worker_max_count_ + value
        /\ UNCHANGED <<worker_count_, tmp, inStop, state_, tasks_>>
    BY <1>7 DEF AddWorker
  <2>3. /\ pc'[m] = "spawning" /\ \A w \in S : w \in Workers /\ pc[w] = "unborn" /\ pc'[w] = "created"
        /\ \A y \in Threads \ (S \cup {m}) : pc'[y] = pc[y]
    BY <1>2, <2>1
  <2>4. \A w \in Workers \ S : pc'[w] = pc[w]
    BY <1>2, <2>3
  <2>5. Phases(m)'
    <3>1. \A d \in Clients \ {m} : pc'[d] = pc[d]
      BY <2>3, ThreadsAssumption DEF Threads
    <3>2. pc'[m] \in Growing /\ pc'[m] \notin Stopping
      BY <2>3 DEF Growing, Stopping, Draining
    <3>3. \A w \in Workers : pc'[w] \notin LeavingPcs
      BY <1>4, <2>3, <2>4 DEF LifeInv, Phases, LeavingPcs
    <3>4. \A w \in Workers : pc'[w] \notin TornPcs
      BY <2>3, <2>4 DEF LifeInv, Phases, TornPcs
    <3> QED
      BY <1>4, <2>2, <3>1, <3>2, <3>3, <3>4 DEF LifeInv, Phases
  <2>6. Counted' = Counted
    <3>1. \A w \in Workers : pc'[w] \in CountedPcs <=> pc[w] \in CountedPcs
      BY <2>3, <2>4 DEF CountedPcs
    <3> QED
      BY <3>1 DEF Counted, Asleep, CountedPcs, Threads
  <2>7. Pool' = Pool \cup S /\ Pool \cap S = {}
    BY <2>3, <2>4 DEF Pool, ComingPcs, CountedPcs
  <2>8. Cardinality(Pool)' = Cardinality(Pool) + value
    <3>1. IsFiniteSet(S)
      BY ThreadsAssumption, FS_Subset
    <3>2. Cardinality(Pool \cup S) = Cardinality(Pool) + Cardinality(S) - Cardinality(Pool \cap S)
      BY <3>1, PoolFinite, FS_Union
    <3>3. Cardinality(Pool \cap S) = 0
      BY <2>7, FS_EmptySet
    <3> QED
      BY <2>1, <2>7, <3>2, <3>3, PoolFinite, SizeAssumption
  <2>9. Wanted(m)'
    BY <1>4, <2>2, <2>3, <2>8 DEF LifeInv, Wanted, Draining
  <2>10. Registers(m)'
    <3>1. \A w \in Workers : /\ pc'[w] = "storing" => pc[w] = "storing"
                             /\ pc'[w] = "exitStoring" => pc[w] = "exitStoring"
      BY <2>3, <2>4
    <3> QED
      BY <2>2, <2>3, <3>1 DEF LifeInv, Registers, Draining
  <2>11. Calm
    BY <2>2, <2>3, <2>4 DEF Calm, AwakePcs, WorkingPcs
  <2>12. NoneAsleep(m)' /\ NoLostWakeup'
    BY <1>5, <2>3, <2>11, CalmSleep DEF Draining
  <2> QED
    BY <2>2, <2>5, <2>6, <2>9, <2>10, <2>12 DEF LifeInv, CountExact
<1>8. ASSUME NEW w \in Workers, AddWorkerSpawn(m, w)
      PROVE  LifeInv(m)'
  <2>1. /\ pc[m] = "spawning" /\ pc'[m] = "mapping" /\ pc[w] = "created" /\ pc'[w] = "starting"
        /\ \A y \in Threads \ {m, w} : pc'[y] = pc[y]
    BY <1>2, <1>6, <1>8 DEF AddWorkerSpawn
  <2>2. UNCHANGED <<worker_count_, worker_max_count_, tmp, inStop, state_, tasks_>>
    BY <1>8 DEF AddWorkerSpawn
  <2>3. \A v \in Workers : /\ pc'[v] \in ComingPcs <=> pc[v] \in ComingPcs
                           /\ pc'[v] \in CountedPcs <=> pc[v] \in CountedPcs
                           /\ pc'[v] \in LeavingPcs <=> pc[v] \in LeavingPcs
                           /\ pc'[v] = "storing" <=> pc[v] = "storing"
                           /\ pc'[v] = "exitStoring" <=> pc[v] = "exitStoring"
    BY <1>2, <2>1 DEF ComingPcs, CountedPcs, LeavingPcs
  <2>4. Phases(m)'
    <3>1. \A d \in Clients \ {m} : pc'[d] = pc[d]
      BY <2>1, ThreadsAssumption DEF Threads
    <3>2. pc'[m] \in Growing /\ pc'[m] \notin Stopping
      BY <2>1 DEF Growing, Stopping, Draining
    <3>3. \A v \in Workers : pc'[v] \notin TornPcs
      BY <1>2, <2>1, ThreadsAssumption DEF LifeInv, Phases, TornPcs, Threads
    <3> QED
      BY <1>4, <2>2, <2>3, <3>1, <3>2, <3>3 DEF LifeInv, Phases
  <2>5. Counted' = Counted /\ Pool' = Pool
    BY <2>3 DEF Pool, Counted, Asleep, CountedPcs, Threads
  <2>6. Wanted(m)' /\ Registers(m)'
    BY <1>4, <2>1, <2>2, <2>3, <2>5 DEF LifeInv, Wanted, Registers, Draining
  <2>7. Calm
    BY <1>2, <2>1, <2>2 DEF Calm, AwakePcs, WorkingPcs
  <2>8. NoneAsleep(m)' /\ NoLostWakeup'
    BY <1>5, <2>1, <2>7, CalmSleep DEF Draining
  <2> QED
    BY <2>2, <2>4, <2>5, <2>6, <2>8 DEF LifeInv, CountExact
<1>9. ASSUME NEW w \in Workers, AddWorkerMap(m, w)
      PROVE  LifeInv(m)'
  <2>1. PICK label \in {"counting", "spawning"} : pc' = [pc EXCEPT ![m] = label]
    BY <1>9 DEF AddWorkerMap
  <2>2. pc'[m] = label => QuietMove(m)
    BY <1>2, <1>9 DEF QuietMove, AddWorkerMap, Growing
  <2> QED
    BY <1>2, <1>9, <2>1, <2>2, QuietAlone, QuietMoves DEF AddWorkerMap
<1>10. CASE AddWorkerWait(m) /\ ~Settled
  <2>1. pc[m] = "counting" /\ pc' = [pc EXCEPT ![m] = "countWait"]
    BY <1>10 DEF AddWorkerWait
  <2>2. pc'[m] = "countWait" => QuietMove(m)
    BY <1>2, <2>1 DEF QuietMove, Growing
  <2> QED
    BY <1>2, <1>10, <2>1, <2>2, QuietAlone, QuietMoves DEF AddWorkerWait
<1>11. CASE AddWorkerWait(m) /\ Settled
  <2>1. pc[m] = "counting" /\ pc'[m] = "idle" /\ \A y \in Threads \ {m} : pc'[y] = pc[y]
    BY <1>2, <1>6, <1>11 DEF AddWorkerWait
  <2>2. UNCHANGED <<worker_count_, worker_max_count_, tmp, inStop, state_, tasks_>>
    BY <1>11 DEF AddWorkerWait
  <2>3. \A w \in Workers : pc'[w] = pc[w]
    BY <1>2, <2>1
  <2>4. \A w \in Workers : pc[w] \notin ComingPcs
    BY <1>4, <1>11, ComingLeavesRoom, PoolFinite DEF Settled, LifeInv, CountExact, Wanted
  <2>5. Phases(m)'
    <3>1. \A d \in Clients \ {m} : pc'[d] = pc[d]
      BY <2>1 DEF Threads
    <3>2. pc'[m] \notin Stopping
      BY <2>1 DEF Stopping, Draining
    <3> QED
      BY <1>4, <2>2, <2>3, <2>4, <3>1, <3>2 DEF LifeInv, Phases
  <2>6. Counted' = Counted /\ Pool' = Pool
    BY <2>3 DEF Pool, Counted, Asleep, Threads
  <2>7. Wanted(m)' /\ Registers(m)'
    BY <1>4, <2>1, <2>2, <2>3, <2>6 DEF LifeInv, Wanted, Registers, Draining
  <2>8. Calm
    BY <2>2, <2>3 DEF Calm
  <2>9. NoneAsleep(m)' /\ NoLostWakeup'
    BY <1>5, <2>1, <2>8, CalmSleep DEF Draining
  <2> QED
    BY <2>2, <2>5, <2>6, <2>7, <2>9 DEF LifeInv, CountExact
<1> QED
  BY <1>1, <1>7, <1>8, <1>9, <1>10, <1>11

\* RemoveWorker notifies as many times as workers sleep: everybody wakes.
LEMMA RemovalWakesAll ==
    ASSUME Inv, NEW value, NEW S \in WokenByRemoval(value)
    PROVE  S = Asleep({"waiting"})
<1>1. Asleep({"waiting"}) \in SUBSET Idlers
  BY DEF Idlers, Asleep
<1>2. IsFiniteSet(Asleep({"waiting"})) /\ Cardinality(Asleep({"waiting"})) <= Cardinality(Idlers)
  BY <1>1, IdlersFinite, FS_Subset
<1>3. CASE S \in NotifyTimes(Asleep({"waiting"}), idle_count_)
  <2>1. /\ Cardinality(Asleep({"waiting"})) \in Nat /\ idle_count_ \in Nat
        /\ Cardinality(Asleep({"waiting"})) <= idle_count_
    BY <1>2, FS_CardinalityType DEF Inv, TypeOK, IdleCountExact
  <2>2. S \in SUBSET Asleep({"waiting"}) /\ Cardinality(S) = Cardinality(Asleep({"waiting"}))
    BY <1>3, <2>1 DEF NotifyTimes
  <2> QED
    BY <1>2, <2>2, FS_Subset
<1> QED
  BY <1>3 DEF WokenByRemoval

\* When nobody is on the way, the pool is what is counted.
LEMMA PoolCounted ==
    ASSUME NEW m, LifeInv(m), pc[m] \notin Growing
    PROVE  Pool = Counted /\ \A w \in Workers : pc[w] \notin ComingPcs
<1>1. \A w \in Workers : pc[w] \notin ComingPcs
  BY DEF LifeInv, Phases
<1> QED
  BY <1>1, PoolFinite DEF Coming

\* Stop and Join: RemoveWorker takes what is counted, which is what is wanted,
\* so nobody is wanted any more, and waits until nobody is left.
LEMMA StopLife ==
    ASSUME Inv, Inv', NEW m, ManagedBy(m), LifeInv(m), NEW c \in Clients,
           \/ \E value \in Batch : RemoveWorker(c, value)
           \/ RemoveWorkerLower(c) \/ RemoveWorkerInvalid(c)
           \/ RemoveWorkerWait(c) \/ RemoveWorkerDone(c)
           \/ StopRead(c) \/ StopDone(c)
           \/ \E join \in BOOLEAN : StopImpl(c, join)
    PROVE  LifeInv(m)'
<1> USE DEF manager, pool, queue, frames
<1>1. ~ \E value \in Batch : RemoveWorker(c, value)
  BY DEF ManagedBy, Managing, RemoveWorker, Calls
<1>2. c = m
  BY <1>1 DEF ManagedBy, Managing, Calls, LifeInv, Phases, Unmanaging, AddPcs, RemoveWorkerLower,
         RemoveWorkerInvalid, RemoveWorkerWait, RemoveWorkerDone, StopRead, StopDone, StopImpl
<1>3. m \in Clients /\ m \in Threads /\ m \notin Workers /\ Workers \subseteq Threads
  BY ThreadsAssumption DEF ManagedBy, Threads
<1>4. pc[m] \notin Growing
  BY <1>1, <1>2 DEF Calls, Growing, RemoveWorkerLower,
         RemoveWorkerInvalid, RemoveWorkerWait, RemoveWorkerDone, StopRead, StopDone, StopImpl
<1>5. Pool = Counted /\ \A w \in Workers : pc[w] \notin ComingPcs
  BY <1>4, PoolCounted
<1>6. PcOK(pc)'
  BY DEF Inv, TypeOK
<1>7. pc \in [Threads -> WorkerPcs \cup ClientPcs \cup AddPcs] /\ tmp \in [Threads -> Nat]
      /\ inStop \in [Clients -> BOOLEAN]
  BY DEF Inv, TypeOK, PcOK
<1>8. pc[m] = "lowering" => tmp[m] = worker_max_count_ /\ inStop[m]
  BY <1>5 DEF LifeInv, Wanted, Registers, CountExact, Draining
<1>9. ~RemoveWorkerInvalid(m)
  BY <1>8 DEF RemoveWorkerInvalid, Inv, TypeOK
\* Steps of the manager alone.
<1>10. ASSUME \A y \in Threads \ {m} : pc'[y] = pc[y], UNCHANGED <<worker_count_, worker_max_count_, tasks_>>
       PROVE  /\ \A w \in Workers : pc'[w] = pc[w]
              /\ \A d \in Clients \ {m} : pc'[d] = pc[d]
              /\ Counted' = Counted /\ Pool' = Pool /\ CountExact' /\ Calm
  <2>1. /\ \A w \in Workers : pc'[w] = pc[w]
        /\ \A d \in Clients \ {m} : pc'[d] = pc[d]
    BY <1>3, <1>10 DEF Threads
  <2>2. Counted' = Counted /\ Pool' = Pool
    BY <2>1 DEF Pool, Counted, Asleep, Threads
  <2> QED
    BY <1>10, <2>1, <2>2 DEF Calm, LifeInv, CountExact
<1>11. CASE RemoveWorkerLower(m)
  <2>1. PICK S \in WokenByRemoval(tmp[m]) : pc' = Wake([pc EXCEPT ![m] = "draining"], S)
    BY <1>11 DEF RemoveWorkerLower
  <2>2. S = Asleep({"waiting"})
    BY <2>1, RemovalWakesAll
  <2>3. pc[m] = "lowering" /\ pc[m] \notin SleepPcs /\ S \in SUBSET Threads /\ \A y \in S : pc[y] \in SleepPcs
    BY <1>11, <2>2 DEF RemoveWorkerLower, Asleep, SleepPcs
  <2>4. pc'[m] = "draining" /\ \A y \in Threads \ {m} : Stirs(y)
    BY <1>3, <2>1, <2>3, WakeMoves
  <2>5. worker_max_count_' = 0 /\ UNCHANGED <<worker_count_, tmp, inStop, state_, tasks_>>
    BY <1>8, <1>11, <2>3 DEF RemoveWorkerLower, Inv, TypeOK
  <2>6. \A w \in Workers : pc'[w] # "waiting"
    BY <1>3, <1>7, <2>1, <2>2 DEF Wake, WakesTo, Asleep
  <2>7. \A w \in Workers : \/ pc'[w] = pc[w]
                           \/ pc[w] = "waiting" /\ pc'[w] = "woken"
                           \/ pc[w] = "maxWaiting" /\ pc'[w] = "maxWoken"
    BY <1>3, <2>4 DEF Stirs, Inv, TypeOK, PcOK, WorkerPcs, AddPcs
  <2>8. \A w \in Workers : /\ pc'[w] \notin ComingPcs
                           /\ pc'[w] \in CountedPcs <=> pc[w] \in CountedPcs
                           /\ pc'[w] \in LeavingPcs <=> pc[w] \in LeavingPcs
                           /\ pc'[w] = "exitStoring" <=> pc[w] = "exitStoring"
                           /\ pc'[w] # "storing"
    BY <1>5, <2>7 DEF ComingPcs, CountedPcs, LeavingPcs
  <2>9. Phases(m)'
    <3>1. \A d \in Clients \ {m} : pc'[d] \in Unmanaging
      BY <2>4 DEF LifeInv, Phases, Stirs, Threads, Unmanaging, AddPcs
    <3>2. pc[m] \in Stopping /\ pc'[m] \in Stopping /\ pc'[m] \in Draining
      BY <2>3, <2>4 DEF Stopping, Draining
    <3>3. \A w \in Workers : pc'[w] \notin TornPcs
      BY <2>7 DEF LifeInv, Phases, TornPcs
    <3> QED
      BY <2>5, <2>8, <3>1, <3>2, <3>3 DEF LifeInv, Phases
  <2>10. Wanted(m)' /\ Registers(m)'
    BY <1>8, <2>3, <2>4, <2>5, <2>8 DEF LifeInv, Wanted, Registers, Draining
  <2>11. CountExact'
    <3>1. Counted' = Counted
      BY <2>8 DEF Counted, Asleep, CountedPcs, Threads
    <3> QED
      BY <2>5, <3>1 DEF LifeInv, CountExact
  <2>12. NoneAsleep(m)' /\ NoLostWakeup'
    <3>1. Asleep({"waiting"})' = {}
      BY <1>6, <2>6 DEF Asleep, PcOK, Threads, ClientPcs, AddPcs
    <3> QED
      BY <2>6, <3>1 DEF NoneAsleep, NoLostWakeup
  <2> QED
    BY <2>9, <2>10, <2>11, <2>12 DEF LifeInv
<1>12. CASE RemoveWorkerWait(m)
  <2>1. pc[m] = "draining" /\ pc' = [pc EXCEPT ![m] = "drainWait"]
    BY <1>12 DEF RemoveWorkerWait
  <2>2. pc'[m] = "drainWait" => QuietMove(m)
    BY <1>3, <2>1 DEF QuietMove, Draining
  <2> QED
    BY <1>3, <1>12, <2>1, <2>2, QuietAlone, QuietMoves DEF RemoveWorkerWait
<1>13. CASE RemoveWorkerDone(m)
  <2>1. pc[m] = "draining" /\ pc[m] \in Draining /\ pc[m] \in Stopping /\ inStop[m]
    BY <1>13 DEF RemoveWorkerDone, LifeInv, Registers, Draining, Stopping
  <2>2. pc'[m] = "stopped" /\ \A y \in Threads \ {m} : pc'[y] = pc[y]
    BY <1>3, <1>7, <1>13, <2>1 DEF RemoveWorkerDone
  <2>3. UNCHANGED <<worker_count_, worker_max_count_, tmp, inStop, state_, tasks_>>
    BY <1>13 DEF RemoveWorkerDone
  <2>4. worker_max_count_ = 0 /\ Cardinality(Counted) = 0
    BY <1>13, <2>1 DEF RemoveWorkerDone, Settled, LifeInv, Wanted, CountExact
  <2>5. Counted = {}
    BY <2>4, PoolFinite, FS_EmptySet
  <2>6. \A w \in Workers : pc[w] \notin LeavingPcs
    BY <2>5, PoolFinite DEF CountedPcs, LeavingPcs
  <2>7. Phases(m)'
    BY <1>5, <1>10, <2>1, <2>2, <2>3, <2>6 DEF LifeInv, Phases, Stopping, Draining
  <2>8. Wanted(m)' /\ Registers(m)'
    BY <1>5, <1>10, <2>2, <2>3, <2>4 DEF LifeInv, Wanted, Registers, Draining
  <2>9. NoneAsleep(m)' /\ NoLostWakeup'
    BY <1>6, <1>10, <2>2, <2>3, CalmSleep DEF Draining
  <2> QED
    BY <1>10, <2>2, <2>3, <2>7, <2>8, <2>9 DEF LifeInv
<1>14. CASE StopRead(m)
  <2>1. /\ pc[m] = "stopRead" /\ pc'[m] = "lowering" /\ tmp'[m] = worker_count_ /\ inStop'[m]
        /\ \A y \in Threads \ {m} : pc'[y] = pc[y] /\ tmp'[y] = tmp[y]
    BY <1>3, <1>7, <1>14 DEF StopRead
  <2>2. UNCHANGED <<worker_count_, worker_max_count_, state_, tasks_>>
    BY <1>14 DEF StopRead
  <2>3. Phases(m)'
    BY <1>5, <1>10, <2>1, <2>2 DEF LifeInv, Phases, Stopping, Draining
  <2>4. Wanted(m)' /\ Registers(m)'
    BY <1>3, <1>5, <1>10, <2>1, <2>2 DEF LifeInv, Wanted, Registers, Draining
  <2>5. NoneAsleep(m)' /\ NoLostWakeup'
    BY <1>6, <1>10, <2>1, <2>2, CalmSleep DEF Draining
  <2> QED
    BY <1>10, <2>1, <2>2, <2>3, <2>4, <2>5 DEF LifeInv
<1>15. CASE StopDone(m)
  <2>1. /\ pc[m] = "stopped" /\ pc'[m] = "idle" /\ state_' = "STOPPED"
        /\ \A y \in Threads \ {m} : pc'[y] = pc[y]
    BY <1>3, <1>7, <1>15 DEF StopDone
  <2>2. UNCHANGED <<worker_count_, worker_max_count_, tasks_, tmp>>
    BY <1>15 DEF StopDone
  <2>3. Phases(m)'
    BY <1>5, <1>10, <2>1, <2>2 DEF LifeInv, Phases, Stopping, Draining
  <2>4. Wanted(m)' /\ Registers(m)'
    BY <1>3, <1>5, <1>10, <2>1, <2>2 DEF LifeInv, Wanted, Registers, Draining
  <2>5. NoneAsleep(m)' /\ NoLostWakeup'
    BY <1>6, <1>10, <2>1, <2>2, CalmSleep DEF Draining
  <2> QED
    BY <1>10, <2>1, <2>2, <2>3, <2>4, <2>5 DEF LifeInv
<1>16. ASSUME NEW join \in BOOLEAN, StopImpl(m, join)
       PROVE  LifeInv(m)'
  <2>1. pc[m] = "idle" /\ UNCHANGED <<worker_count_, worker_max_count_, tasks_, tmp, inStop>>
    BY <1>16 DEF StopImpl, Calls
  <2>2. state_ \in {"UNINITIALIZED", "STARTED", "STOPPED"}
    BY <2>1 DEF Inv, TypeOK, LifeInv, Phases, Stopping, Draining
  <2>3. state_' \in {"JOINING", "STOPPING"} /\ pc' = [pc EXCEPT ![m] = "stopRead"]
    BY <1>16, <2>2 DEF StopImpl
  <2>4. pc'[m] = "stopRead" /\ \A y \in Threads \ {m} : pc'[y] = pc[y]
    BY <1>3, <1>7, <2>3
  <2>5. Phases(m)'
    BY <1>5, <1>10, <2>1, <2>3, <2>4 DEF LifeInv, Phases, Stopping, Draining
  <2>6. Wanted(m)' /\ Registers(m)'
    BY <1>3, <1>5, <1>10, <2>1, <2>4 DEF LifeInv, Wanted, Registers, Draining
  <2>7. NoneAsleep(m)' /\ NoLostWakeup'
    BY <1>6, <1>10, <2>1, <2>4, CalmSleep DEF Draining
  <2> QED
    BY <1>10, <2>1, <2>4, <2>5, <2>6, <2>7 DEF LifeInv
<1> QED
  BY <1>1, <1>2, <1>9, <1>11, <1>12, <1>13, <1>14, <1>15, <1>16

-----------------------------------------------------------------------------
(* Steps that leave the queue and the callers of Add alone.                *)

GonePcs == LeavingPcs \cup {"dead"}

Bystander(y) ==
    /\ pc[y] \in AddPcs \/ pc'[y] \in AddPcs => pc'[y] = pc[y]
    /\ y \in Workers /\ pc'[y] \in GonePcs =>
          pc[y] \in GonePcs \/ WorkerRetire(y) \/ WorkerNotWanted(y)
    /\ y \in Workers /\ pc'[y] = "dead" => pc[y] \in {"exitStoring", "dead"}
    /\ pc[y] = "stillborn" => pc'[y] = "stillborn"
    /\ y \in Workers /\ pc[y] = "running" => pc'[y] = "running" \/ current'[y] = NoTask

\* Workers, unless they take a task.
LEMMA WorkersStandBy ==
    ASSUME Inv, NEW w \in Workers, WorkerStep(w), ~WorkerTake(w), ~WorkerTakeNone(w)
    PROVE  tasks_' = tasks_ /\ UNCHANGED manager /\ \A y \in Threads : Bystander(y)
<1> USE DEF manager, pool, queue, frames
<1>1. tasks_' = tasks_ /\ UNCHANGED manager
  BY DEF WorkerStep, WorkerEnter, WorkerEntered, WorkerNotWanted, WorkerAnnounce, WorkerWait,
         WorkerRetire, WorkerRan, WorkerExit, WorkerExited
<1>2. w \in Threads /\ pc \in [Threads -> WorkerPcs \cup ClientPcs \cup AddPcs]
  BY DEF Threads, Inv, TypeOK, PcOK
<1>3. ASSUME NEW label, pc[w] \notin AddPcs, label \notin AddPcs,
             pc' = [pc EXCEPT ![w] = label],
             label \in GonePcs => pc[w] \in GonePcs \/ WorkerRetire(w) \/ WorkerNotWanted(w),
             label # "dead", pc[w] # "stillborn",
             pc[w] = "running" => current'[w] = NoTask
      PROVE  \A y \in Threads : Bystander(y)
  BY <1>2, <1>3 DEF Bystander
<1>4. CASE WorkerEnter(w)
  BY <1>3, <1>4 DEF WorkerEnter, AddPcs, GonePcs, LeavingPcs
<1>5. CASE WorkerEntered(w)
  <2>1. PICK label \in {"announce", "loop"} : pc' = [pc EXCEPT ![w] = label]
    BY <1>5 DEF WorkerEntered
  <2> QED
    BY <1>3, <1>5, <2>1 DEF WorkerEntered, AddPcs, GonePcs, LeavingPcs
<1>6. CASE WorkerNotWanted(w)
  BY <1>3, <1>6 DEF WorkerNotWanted, AddPcs
<1>7. CASE WorkerWait(w)
  BY <1>3, <1>7 DEF WorkerWait, AtQueue, AddPcs, GonePcs, LeavingPcs
<1>8. CASE WorkerRetire(w)
  BY <1>3, <1>8 DEF WorkerRetire, AtQueue, AddPcs
<1>9. ASSUME NEW outcome \in {"COMPLETE", "failed"}, WorkerRan(w, outcome)
      PROVE  \A y \in Threads : Bystander(y)
  <2>1. current'[w] = NoTask
    BY <1>9 DEF WorkerRan, Inv, TypeOK
  <2> QED
    BY <1>3, <1>9, <2>1 DEF WorkerRan, AddPcs, GonePcs, LeavingPcs
<1>10. CASE WorkerExit(w)
  BY <1>3, <1>10 DEF WorkerExit, AddPcs, GonePcs, LeavingPcs
<1>11. ASSUME NEW label \in {"loop", "dead"}, NEW S, S \in Notify(Asleep(OnWorkerMonitor)) \cup {{}},
              pc' = Wake([pc EXCEPT ![w] = label], S),
              pc[w] = IF label = "loop" THEN "announce" ELSE "exitStoring"
       PROVE  \A y \in Threads : Bystander(y)
  <2>1. S \in SUBSET Threads /\ \A y \in S : pc[y] \in {"countWait", "drainWait"}
    BY <1>11, NotifyChoosesSleepers DEF OnWorkerMonitor, SleepPcs
  <2>2. pc'[w] = label
    BY <1>2, <1>11, <2>1 DEF Wake
  <2>3. \A y \in Threads \ {w} : \/ pc'[y] = pc[y]
                                 \/ /\ pc[y] \in {"countWait", "drainWait"}
                                    /\ pc'[y] \in {"counting", "draining"}
    BY <1>2, <1>11, <2>1 DEF Wake, WakesTo
  <2> QED
    BY <1>11, <2>2, <2>3 DEF Bystander, AddPcs, GonePcs, LeavingPcs
<1>12. CASE WorkerAnnounce(w)
  BY <1>11, <1>12 DEF WorkerAnnounce
<1>13. CASE WorkerExited(w)
  <2>1. PICK S \in Notify(Asleep(OnWorkerMonitor)) \cup {{}} :
            pc' = Wake([pc EXCEPT ![w] = "dead"], S)
    BY <1>13 DEF WorkerExited
  <2> QED
    BY <1>11, <1>13, <2>1 DEF WorkerExited
<1> QED
  BY <1>1, <1>4, <1>5, <1>6, <1>7, <1>8, <1>9, <1>10, <1>12, <1>13 DEF WorkerStep

\* Callers, unless they pop a task.
LEMMA ClientsStandBy ==
    ASSUME Inv, NEW c \in Clients, ClientStep(c) \/ ClientCall(c) \/ AddWorkerFails(c),
           ~RemoveNextPending(c)
    PROVE  tasks_' = tasks_ /\ \A y \in Threads : Bystander(y)
<1> USE DEF manager, pool, queue, frames
<1>1. tasks_' = tasks_
  BY DEF ClientStep, AddWorkerSpawn, AddWorkerMap, AddWorkerWait, RemoveWorkerLower,
         RemoveWorkerInvalid, RemoveWorkerWait, RemoveWorkerDone, StopRead, StopDone,
         AddWorkerFails, ClientCall, ExpiredTaskCount, SetThreadFactory,
         SetExpireCallback, Start, PendingTaskCountMax, AddWorker, RemoveWorker, StopImpl
<1>2. /\ c \in Threads /\ c \notin Workers /\ Workers \subseteq Threads
      /\ pc \in [Threads -> WorkerPcs \cup ClientPcs \cup AddPcs]
  BY ThreadsAssumption DEF Threads, Inv, TypeOK, PcOK
<1>3. CASE pc' = pc
  BY <1>1, <1>3 DEF Bystander
<1>4. ASSUME NEW label \in ClientPcs, pc[c] \in ClientPcs, pc' = [pc EXCEPT ![c] = label]
      PROVE  \A y \in Threads : Bystander(y)
  BY <1>2, <1>4 DEF Bystander, ClientPcs, AddPcs
<1>5. CASE Start(c)
  BY <1>5 DEF Start, Wake, WakesTo, Asleep, Bystander, AddPcs, GonePcs, LeavingPcs
<1>6. CASE RemoveWorkerLower(c)
  <2>1. PICK S \in WokenByRemoval(tmp[c]) : pc' = Wake([pc EXCEPT ![c] = "draining"], S)
    BY <1>6 DEF RemoveWorkerLower
  <2>2. S = Asleep({"waiting"}) /\ pc[c] = "lowering"
    BY <1>6, <2>1, RemovalWakesAll DEF RemoveWorkerLower
  <2>3. pc'[c] = "draining"
    BY <1>2, <2>1, <2>2 DEF Wake, Asleep
  <2>4. \A y \in Threads \ {c} : pc'[y] = pc[y] \/ (pc[y] = "waiting" /\ pc'[y] = "woken")
    <3> SUFFICES ASSUME NEW y \in Threads \ {c}
                 PROVE  pc'[y] = pc[y] \/ (pc[y] = "waiting" /\ pc'[y] = "woken")
      OBVIOUS
    <3>1. y \in S => pc[y] = "waiting" /\ pc'[y] = WakesTo("waiting")
      BY <1>2, <2>1, <2>2 DEF Wake, Asleep
    <3>2. y \notin S => pc'[y] = pc[y]
      BY <1>2, <2>1 DEF Wake
    <3> QED
      BY <3>1, <3>2 DEF WakesTo
  <2> QED
    BY <1>1, <1>2, <2>2, <2>3, <2>4 DEF Bystander, AddPcs, GonePcs, LeavingPcs
<1>7. ASSUME NEW value \in Batch, AddWorker(c, value)
      PROVE  \A y \in Threads : Bystander(y)
  BY <1>2, <1>7 DEF AddWorker, Calls, Bystander, AddPcs, GonePcs, LeavingPcs
<1>8. ASSUME NEW w \in Workers, AddWorkerSpawn(c, w)
      PROVE  \A y \in Threads : Bystander(y)
  BY <1>2, <1>8 DEF AddWorkerSpawn, Bystander, AddPcs, GonePcs, LeavingPcs
<1>9. ASSUME NEW w \in Workers, AddWorkerMap(c, w)
      PROVE  \A y \in Threads : Bystander(y)
  <2>1. PICK label \in {"counting", "spawning"} : pc' = [pc EXCEPT ![c] = label]
    BY <1>9 DEF AddWorkerMap
  <2> QED
    BY <1>4, <1>9, <2>1 DEF AddWorkerMap, ClientPcs
<1>10. CASE AddWorkerWait(c)
  <2>1. PICK label \in {"idle", "countWait"} : pc' = [pc EXCEPT ![c] = label]
    BY <1>10 DEF AddWorkerWait
  <2> QED
    BY <1>4, <1>10, <2>1 DEF AddWorkerWait, ClientPcs
<1>11. CASE RemoveWorkerDone(c)
  <2>1. PICK label \in {"idle", "stopped"} : pc' = [pc EXCEPT ![c] = label]
    BY <1>11 DEF RemoveWorkerDone
  <2> QED
    BY <1>4, <1>11, <2>1 DEF RemoveWorkerDone, ClientPcs
<1>12. ASSUME NEW join \in BOOLEAN, StopImpl(c, join)
       PROVE  \A y \in Threads : Bystander(y)
  <2>1. PICK label \in {"stopRead", "stopped"} : pc' = [pc EXCEPT ![c] = label]
    BY <1>12 DEF StopImpl
  <2> QED
    BY <1>4, <1>12, <2>1 DEF StopImpl, Calls, ClientPcs
<1>13. CASE RemoveWorkerInvalid(c) \/ RemoveWorkerWait(c) \/ StopRead(c) \/ StopDone(c)
            \/ \E value \in Batch : RemoveWorker(c, value)
  BY <1>4, <1>13 DEF RemoveWorkerInvalid, RemoveWorkerWait, StopRead, StopDone, RemoveWorker,
                     Calls, ClientPcs
<1>14. CASE ExpiredTaskCount(c) \/ SetThreadFactory(c) \/ SetExpireCallback(c)
            \/ \E value \in Limits : PendingTaskCountMax(c, value)
  BY <1>3, <1>14 DEF ExpiredTaskCount, SetThreadFactory, SetExpireCallback, PendingTaskCountMax
<1>15. CASE AddWorkerFails(c)
  BY <1>2, <1>15 DEF AddWorkerFails, Bystander, ClientPcs, AddPcs, GonePcs, LeavingPcs
<1> QED
  BY <1>1, <1>5, <1>6, <1>7, <1>8, <1>9, <1>10, <1>11, <1>12, <1>13, <1>14, <1>15 DEF ClientStep, ClientCall

\* A thread that could not be created never runs.
LEMMA StayStillborn ==
    ASSUME Inv, LockedExpiry, [Next]_vars, AllStarted'
    PROVE  AllStarted
<1> USE DEF manager, pool, queue, frames
<1> SUFFICES \A y \in Threads : Bystander(y) \/ Stirs(y) \/ pc[y] # "stillborn"
  BY DEF AllStarted, Bystander, Stirs, Threads
<1>1. /\ Clients \subseteq Threads /\ Workers \subseteq Threads
      /\ pc \in [Threads -> WorkerPcs \cup ClientPcs \cup AddPcs]
  BY DEF Threads, Inv, TypeOK, PcOK
<1>2. CASE pc' = pc
  BY <1>2 DEF Stirs
<1>3. ASSUME NEW th \in Threads, AddStep(th) \/ AddCall(th) \/ AddTimedOut(th) \/ SpuriousWakeup(th)
      PROVE  \A y \in Threads : Stirs(y) \/ pc[y] # "stillborn"
  <2>1. ASSUME NEW label, pc[th] # "stillborn", pc' = [pc EXCEPT ![th] = label]
        PROVE  \A y \in Threads : Stirs(y) \/ pc[y] # "stillborn"
    BY <1>1, <2>1 DEF Stirs
  <2>2. ASSUME NEW t, NEW q, NEW ts, Push(th, t, q, ts), pc[th] \notin SleepPcs, pc[th] # "stillborn"
        PROVE  \A y \in Threads : Stirs(y) \/ pc[y] # "stillborn"
    <3>1. PICK S \in WokenByPush : pc' = Wake([pc EXCEPT ![th] = Home(th)], S)
      BY <2>2 DEF Push
    <3>2. S \in SUBSET Threads /\ \A y \in S : pc[y] = "waiting"
      BY NotifyChoosesSleepers DEF WokenByPush, SleepPcs
    <3>3. \A y \in Threads \ {th} : Stirs(y)
      BY <2>2, <3>1, <3>2, WakeMoves DEF SleepPcs
    <3> QED
      BY <2>2, <3>3
  <2>3. CASE pc' = pc
    BY <2>3 DEF Stirs
  <2>4. CASE SpuriousWakeup(th)
    BY <1>1, <2>4 DEF SpuriousWakeup, Wake, WakesTo, SleepPcs, Stirs
  <2>5. CASE AddResume(th)
    BY <2>2, <2>5 DEF AddResume, SleepPcs
  <2>6. CASE AddSleepAgain(th) \/ AddTimedOut(th)
    BY <2>1, <2>6 DEF AddSleepAgain, AddTimedOut
  <2>7. ASSUME NEW t \in Tasks, AddPush(th, t)
        PROVE  \A y \in Threads : Stirs(y) \/ pc[y] # "stillborn"
    BY <2>2, <2>7 DEF AddPush, CallsAdd, Home, SleepPcs
  <2>8. ASSUME NEW t \in Tasks, NEW timeout \in Timeouts, AddSleep(th, t, timeout)
        PROVE  \A y \in Threads : Stirs(y) \/ pc[y] # "stillborn"
    BY <2>1, <2>8 DEF AddSleep, CallsAdd, Home
  <2> QED
    BY <1>3, <2>3, <2>4, <2>5, <2>6, <2>7, <2>8
    DEF AddStep, AddCall, AddContended, AddNotStarted, AddTooMany
<1>4. ASSUME NEW w \in Workers, WorkerTake(w) \/ WorkerTakeNone(w)
      PROVE  \A y \in Threads : Stirs(y) \/ pc[y] # "stillborn"
  <2>1. PICK label \in {"running", "loop"} : \E S \in WokenByPop(tasks_') : pc' = Wake([pc EXCEPT ![w] = label], S)
    BY <1>4 DEF WorkerTake, WorkerTakeNone
  <2>2. PICK S \in WokenByPop(tasks_') : pc' = Wake([pc EXCEPT ![w] = label], S)
    BY <2>1
  <2>3. S \in SUBSET Threads /\ \A y \in S : pc[y] = "maxWaiting"
    BY NotifyChoosesSleepers DEF WokenByPop, SleepPcs
  <2>4. pc[w] \in {"loop", "woken"} /\ pc[w] \notin SleepPcs
    BY <1>4 DEF WorkerTake, WorkerTakeNone, AtQueue, SleepPcs
  <2>5. \A y \in Threads \ {w} : Stirs(y)
    BY <1>1, <2>2, <2>3, <2>4, WakeMoves DEF SleepPcs
  <2> QED
    BY <2>4, <2>5
<1>5. ASSUME NEW w \in Workers, WorkerStep(w)
      PROVE  \A y \in Threads : Bystander(y) \/ Stirs(y) \/ pc[y] # "stillborn"
  BY <1>4, <1>5, WorkersStandBy
<1>6. ASSUME NEW c \in Clients, ClientStep(c) \/ ClientCall(c) \/ AddWorkerFails(c)
      PROVE  \A y \in Threads : Bystander(y) \/ Stirs(y) \/ pc[y] # "stillborn"
  BY <1>2, <1>6, ClientsStandBy DEF RemoveNextPending
<1> QED
  BY <1>2, <1>3, <1>5, <1>6 DEF Next, Environment, Expire, vars

-----------------------------------------------------------------------------
(* A pool that one client manages.                                         *)

\* Nothing has happened yet.
LEMMA LifeInit ==
    ASSUME Init, NEW m, ManagedBy(m)
    PROVE  LifeInv(m)
<1>1. m \in Clients /\ m \notin Workers
  BY ThreadsAssumption DEF ManagedBy
<1>2. (\A w \in Workers : pc[w] = "unborn") /\ \A c \in Clients : pc[c] = "idle"
  BY ThreadsAssumption DEF Init, Threads
<1>3. pc[m] = "idle"
  BY <1>1, <1>2
<1>4. Pool = {} /\ Counted = {} /\ Cardinality({}) = 0
  BY <1>2, FS_EmptySet DEF Pool, ComingPcs, CountedPcs, Counted, Asleep, Threads
<1>5. Phases(m)
  BY <1>2, <1>3 DEF Init, Phases, Unmanaging, ComingPcs, LeavingPcs, TornPcs, Stopping, Draining
<1>6. Wanted(m) /\ Registers(m) /\ NoneAsleep(m)
  BY <1>2, <1>3, <1>4 DEF Init, Wanted, Registers, NoneAsleep, Draining
<1>7. CountExact /\ NoLostWakeup
  BY <1>4 DEF Init, CountExact, NoLostWakeup
<1> QED
  BY <1>5, <1>6, <1>7 DEF LifeInv

\* Every step keeps the manager's view of the pool.
LEMMA LifeStep ==
    ASSUME Inv, Inv', NEW m, ManagedBy(m), LifeInv(m), [Next]_vars, AllStarted'
    PROVE  LifeInv(m)'
<1>1. ASSUME NEW th \in Threads,
             AddStep(th) \/ AddCall(th) \/ AddTimedOut(th) \/ SpuriousWakeup(th)
      PROVE  LifeInv(m)'
  BY <1>1, AddLife
<1>2. ASSUME NEW w \in Workers, WorkerStep(w)
      PROVE  LifeInv(m)'
  BY <1>2, EnterLife, ServeLife, ExitLife DEF WorkerStep
<1>3. ASSUME NEW c \in Clients, ClientStep(c) \/ ClientCall(c)
      PROVE  LifeInv(m)'
  BY <1>3, SettingsLife, AddWorkerLife, StopLife DEF ClientStep, ClientCall
<1>4. \A c \in Clients : ~AddWorkerFails(c)
  <2> SUFFICES ASSUME NEW c \in Clients, AddWorkerFails(c)
               PROVE  FALSE
    OBVIOUS
  <2>1. PICK w \in newThreads[c] : pc[w] = "created"
    BY DEF AddWorkerFails
  <2>2. w \in Workers
    BY DEF Inv, TypeOK
  <2>3. pc'[w] = "stillborn"
    BY <2>1, <2>2 DEF AddWorkerFails, Threads
  <2> QED
    BY <2>2, <2>3 DEF AllStarted
<1>5. ASSUME UNCHANGED <<pc, tasks_, state_, worker_count_, worker_max_count_, tmp, inStop>>
      PROVE  LifeInv(m)'
  BY <1>5, StirsQuietly, QuietMoves DEF Stirs
<1>6. ASSUME NEW t \in Tasks, Expire(t)
      PROVE  LifeInv(m)'
  BY <1>5, <1>6 DEF Expire, manager, pool, frames
<1>7. CASE UNCHANGED vars
  BY <1>5, <1>7 DEF vars, manager, pool, queue, frames
<1> QED
  BY <1>1, <1>2, <1>3, <1>4, <1>6, <1>7 DEF Next, Environment, ManagedBy

\* The inductive invariant of a managed pool: the phase of the manager's call
\* says which workers are on their way in or out, the number wanted is the
\* number that came, and a register between load and store is current.  As long
\* as every thread could be created: after a failure AddWorker has counted
\* workers that never come (thread_manager.cc:296 before 305).
THEOREM LifeInvHolds ==
    ASSUME NEW m, ManagedBy(m)
    PROVE  Spec => [](AllStarted => LifeInv(m))
<1>1. Init => LifeInv(m)
  BY LifeInit
<1>2. Inv /\ Inv' /\ (AllStarted => LifeInv(m)) /\ [Next]_vars => (AllStarted => LifeInv(m))'
  BY LifeStep, StayStillborn DEF ManagedBy
<1>3. Spec => []Inv
  BY InvHolds DEF ManagedBy
<1> QED
  BY <1>1, <1>2, <1>3, PTL DEF Spec

\* worker_count_ counts the workers inside Run: it is incremented under mutex_
\* and decremented under worker_monitor_, and in a pool with one manager whose
\* threads could all be created the two never overlap, so no update is lost and
\* it never wraps.
THEOREM WorkerCountCorrect ==
    ASSUME NEW m, ManagedBy(m)
    PROVE  Spec => []WorkerCountExact
<1>1. (AllStarted => LifeInv(m)) => WorkerCountExact
  BY DEF LifeInv, CountExact, WorkerCountExact
<1> QED
  BY <1>1, LifeInvHolds, PTL

\* While tasks are pending and a worker sleeps, another is awake: Add's
\* notification, guarded by idle_count_, is enough in a pool with one manager
\* whose threads could all be created.
THEOREM NoWakeupLost ==
    ASSUME NEW m, ManagedBy(m)
    PROVE  Spec => [](AllStarted => NoLostWakeup)
<1>1. (AllStarted => LifeInv(m)) => (AllStarted => NoLostWakeup)
  BY DEF LifeInv
<1> QED
  BY <1>1, LifeInvHolds, PTL

\* The caller at the end of StopImpl finds the pool empty.
LEMMA StoppedPoolEmpty ==
    ASSUME Inv, NEW m, LifeInv(m), AllStarted, pc[m] = "stopped"
    PROVE  \A w \in Workers : pc[w] \in {"unborn", "dead"}
<1>1. Cardinality(Pool) = 0
  BY DEF LifeInv, Wanted, Draining
<1>2. Pool = {}
  BY <1>1, PoolFinite, FS_EmptySet
<1> QED
  BY <1>2 DEF Pool, ComingPcs, CountedPcs, LifeInv, Phases, TornPcs, AllStarted, Inv, TypeOK, PcOK,
              WorkerPcs, AddPcs

\* Only the end of StopImpl assigns STOPPED, and only the manager is there.
LEMMA StoppedByManager ==
    ASSUME NEW m, ManagedBy(m), LifeInv(m), [Next]_vars, state_ # "STOPPED", state_' = "STOPPED"
    PROVE  pc[m] = "stopped"
<1> USE DEF manager, pool, queue, frames
<1>1. \E c \in Clients : StopDone(c)
  <2>1. ASSUME NEW th \in Threads, AddStep(th) \/ AddCall(th) \/ AddTimedOut(th) \/ SpuriousWakeup(th)
        PROVE  FALSE
    BY <2>1 DEF AddStep, AddResume, AddSleepAgain, AddCall, AddContended, AddNotStarted, AddPush,
                AddSleep, AddTooMany, AddTimedOut, SpuriousWakeup
  <2>2. ASSUME NEW w \in Workers, WorkerStep(w)
        PROVE  FALSE
    BY <2>2 DEF WorkerStep, WorkerEnter, WorkerEntered, WorkerNotWanted, WorkerAnnounce, WorkerWait,
                WorkerRetire, WorkerTake, WorkerTakeNone, WorkerRan, WorkerExit, WorkerExited
  <2>3. ASSUME NEW c \in Clients, ClientStep(c)
        PROVE  StopDone(c)
    BY <2>3 DEF ClientStep, AddWorkerSpawn, AddWorkerMap, AddWorkerWait, RemoveWorkerLower,
                RemoveWorkerInvalid, RemoveWorkerWait, RemoveWorkerDone, StopRead
  <2>4. ASSUME NEW c \in Clients, ClientCall(c) \/ AddWorkerFails(c)
        PROVE  FALSE
    BY <2>4 DEF AddWorkerFails, ClientCall, RemoveNextPending, ExpiredTaskCount, SetThreadFactory,
                SetExpireCallback, Start, PendingTaskCountMax, AddWorker, RemoveWorker, StopImpl
  <2>5. ASSUME NEW t \in Tasks, Expire(t)
        PROVE  FALSE
    BY <2>5 DEF Expire
  <2>6. CASE UNCHANGED vars
    BY <2>6 DEF vars
  <2> QED
    BY <2>1, <2>2, <2>3, <2>4, <2>5, <2>6 DEF Next, Environment, ManagedBy
<1> QED
  BY <1>1 DEF StopDone, LifeInv, Phases, Unmanaging, AddPcs

\* Stop and Join block for the workers: when state_ becomes STOPPED, every
\* worker has left Run, in a pool whose threads could all be created.
THEOREM StopBlocksForWorkers ==
    ASSUME NEW m, ManagedBy(m)
    PROVE  Spec => StopsWhenGone
<1>1. Inv /\ (AllStarted => LifeInv(m)) /\ [Next]_vars =>
          [AllStarted /\ state_ # "STOPPED" /\ state_' = "STOPPED" =>
             \A w \in Workers : pc[w] \in {"unborn", "dead"}]_vars
  BY StoppedByManager, StoppedPoolEmpty
<1>2. Spec => []Inv
  BY InvHolds DEF ManagedBy
<1> QED
  BY <1>1, <1>2, LifeInvHolds, PTL DEF Spec, StopsWhenGone

-----------------------------------------------------------------------------
(* Join without a limit.                                                   *)

\* No worker leaves while tasks are pending, once Join has begun.
LEMMA JoinStep ==
    ASSUME Inv, Inv', NEW m, ManagedBy(m), LifeInv(m), Unlimited, JoinInv, [Next]_vars
    PROVE  JoinInv'
<1> USE DEF manager, pool, queue, frames
\* What is left to show when nobody gets into Add's wait.
<1>1. ASSUME pending_task_count_max_' = pending_task_count_max_,
             state_' # "STOPPING",
             state_' \in {"UNINITIALIZED", "STARTED"} => state_ \in {"UNINITIALIZED", "STARTED"},
             state_' = "JOINING" => state_ # "STOPPED",
             state_' = "JOINING" /\ tasks_' # << >> => tasks_ # << >>,
             \A y \in Threads : Bystander(y)
      PROVE  JoinInv'
  <2>1. \A th \in Threads : pc'[th] \notin AddPcs
    BY <1>1 DEF JoinInv, Bystander
  <2>2. \A w \in Workers : ~WorkerNotWanted(w)
    <3> SUFFICES ASSUME NEW w \in Workers, WorkerNotWanted(w)
                 PROVE  FALSE
      OBVIOUS
    <3>1. pc[w] \in ComingPcs /\ worker_count_ >= worker_max_count_
      BY DEF WorkerNotWanted, ComingPcs
    <3>2. worker_max_count_ = Cardinality(Pool)
      BY <3>1 DEF LifeInv, Phases, Wanted, Growing, Draining
    <3> QED
      BY <3>1, <3>2, ComingLeavesRoom, PoolFinite DEF LifeInv, CountExact
  <2>3. \A w \in Workers : pc[w] \in LeavingPcs => state_ \in {"JOINING", "STOPPING"}
    BY DEF LifeInv, Phases, Stopping
  <2>4. \A w \in Workers : pc'[w] = "dead" => pc[w] \in {"exitStoring", "dead"}
    BY <1>1 DEF Bystander, Threads
  <2>5. state_' \in {"UNINITIALIZED", "STARTED"} => \A w \in Workers : pc'[w] # "dead"
    BY <1>1, <2>3, <2>4 DEF JoinInv, LeavingPcs
  <2>6. \A w \in Workers : WorkerRetire(w) => ~(state_ = "JOINING" /\ tasks_ # << >>) /\ state_' = state_
    BY DEF WorkerRetire, IsActive
  <2>7. \A w \in Workers : pc'[w] \in GonePcs => pc[w] \in GonePcs \/ WorkerRetire(w)
    BY <1>1, <2>2 DEF Bystander, Threads
  <2>8. ASSUME state_' = "JOINING", tasks_' # << >>, NEW w \in Workers, pc'[w] \in GonePcs
        PROVE  FALSE
    <3>1. tasks_ # << >> /\ state_ \in {"UNINITIALIZED", "STARTED", "JOINING"}
      BY <1>1, <2>8 DEF JoinInv, Inv, TypeOK
    <3>2. pc[w] \in GonePcs
      BY <2>6, <2>7, <2>8, <3>1
    <3> QED
      BY <2>3, <3>1, <3>2 DEF JoinInv, GonePcs
  <2> QED
    BY <1>1, <2>1, <2>5, <2>8 DEF JoinInv, GonePcs
<1>2. ASSUME NEW th \in Threads, AddStep(th) \/ AddCall(th) \/ AddTimedOut(th) \/ SpuriousWakeup(th)
      PROVE  JoinInv'
  <2>1. pc[th] \notin AddPcs /\ ~Full(tasks_) /\ ~Full(LiveTasks) /\ pending_task_count_max_ = 0
    BY DEF JoinInv, Full
  <2>2. CASE SpuriousWakeup(th)
    <3>1. \A y \in Threads : Bystander(y)
      BY <2>1, <2>2 DEF SpuriousWakeup, SleepPcs, Wake, WakesTo, Bystander, AddPcs, GonePcs, LeavingPcs
    <3> QED
      BY <1>1, <2>2, <3>1 DEF SpuriousWakeup, JoinInv
  <2>3. ASSUME NEW t \in Tasks, AddContended(th, t) \/ AddNotStarted(th, t)
        PROVE  JoinInv'
    <3>1. \A y \in Threads : Bystander(y)
      BY <2>3 DEF AddContended, AddNotStarted, Bystander
    <3> QED
      BY <1>1, <2>3, <3>1 DEF AddContended, AddNotStarted, JoinInv
  <2>4. ASSUME NEW t \in Tasks, AddPush(th, t)
        PROVE  JoinInv'
    <3>1. PICK S \in WokenByPush : pc' = Wake([pc EXCEPT ![th] = Home(th)], S)
      BY <2>4 DEF AddPush, Push
    <3>2. pc[th] = Home(th) /\ pc[th] \notin SleepPcs
      BY <2>4 DEF AddPush, CallsAdd, Home, SleepPcs
    <3>3. S \in SUBSET Threads /\ \A y \in S : pc[y] = "waiting"
      BY NotifyChoosesSleepers DEF WokenByPush, SleepPcs
    <3>4. pc'[th] = pc[th] /\ \A y \in Threads \ {th} : Stirs(y)
      BY <3>1, <3>2, <3>3, WakeMoves DEF SleepPcs
    <3>5. \A y \in Threads : Bystander(y)
      BY <3>4 DEF Stirs, Bystander, JoinInv, AddPcs, GonePcs, LeavingPcs
    <3> QED
      BY <1>1, <2>4, <3>5 DEF AddPush, JoinInv
  <2> QED
    BY <1>2, <2>1, <2>2, <2>3, <2>4 DEF AddStep, AddResume, AddSleepAgain, AddTimedOut, AddCall,
                                        AddSleep, AddTooMany, AddPcs
<1>3. ASSUME NEW w \in Workers, WorkerStep(w)
      PROVE  JoinInv'
  <2>1. CASE WorkerTake(w) \/ WorkerTakeNone(w)
    <3>1. PICK label \in {"running", "loop"} : pc' = Wake([pc EXCEPT ![w] = label], {})
      <4>1. \A rest : WokenByPop(rest) = {{}}
        BY DEF JoinInv, WokenByPop
      <4> QED
        BY <2>1, <4>1 DEF WorkerTake, WorkerTakeNone
    <3>2. /\ pc'[w] \in {"running", "loop"} /\ pc[w] \in {"loop", "woken"}
          /\ \A y \in Threads \ {w} : pc'[y] = pc[y]
      BY <2>1, <3>1 DEF Wake, WorkerTake, WorkerTakeNone, AtQueue, Inv, TypeOK, PcOK, Threads
    <3>3. \A y \in Threads : Bystander(y)
      BY <3>2 DEF Bystander, AddPcs, GonePcs, LeavingPcs
    <3> QED
      BY <1>1, <2>1, <3>3 DEF WorkerTake, WorkerTakeNone, JoinInv
  <2>2. CASE ~WorkerTake(w) /\ ~WorkerTakeNone(w)
    BY <1>1, <1>3, <2>2, WorkersStandBy DEF JoinInv
  <2> QED
    BY <2>1, <2>2
<1>4. ASSUME NEW c \in Clients, ClientStep(c) \/ ClientCall(c) \/ AddWorkerFails(c)
      PROVE  JoinInv'
  <2>1. /\ pending_task_count_max_' = pending_task_count_max_ /\ state_' # "STOPPING"
        /\ state_' \in {"UNINITIALIZED", "STARTED"} => state_ \in {"UNINITIALIZED", "STARTED"}
        /\ state_' = "JOINING" => state_ # "STOPPED"
    BY <1>4 DEF Unlimited, Calls, JoinInv,
         ClientStep, AddWorkerSpawn, AddWorkerMap, AddWorkerWait, RemoveWorkerLower,
         RemoveWorkerInvalid, RemoveWorkerWait, RemoveWorkerDone, StopRead, StopDone,
         AddWorkerFails, ClientCall, RemoveNextPending, 
         ExpiredTaskCount, SetThreadFactory, SetExpireCallback, Start, PendingTaskCountMax,
         AddWorker, RemoveWorker, StopImpl
  <2>2. CASE RemoveNextPending(c)
    <3>1. \A y \in Threads : Bystander(y)
      BY <2>2 DEF RemoveNextPending, Bystander
    <3> QED
      BY <1>1, <2>1, <2>2, <3>1 DEF RemoveNextPending
  <2>3. CASE ~RemoveNextPending(c)
    BY <1>1, <1>4, <2>1, <2>3, ClientsStandBy
  <2> QED
    BY <2>2, <2>3
<1>5. ASSUME UNCHANGED <<pc, tasks_, state_, pending_task_count_max_>>
      PROVE  JoinInv'
  BY <1>5 DEF JoinInv
<1> QED
  BY <1>2, <1>3, <1>4, <1>5 DEF Next, Environment, Expire, vars, ManagedBy

\* Join lets the workers empty the queue: when state_ becomes STOPPED no
\* accepted task is left, unless the pool never had a worker or could not create
\* one.  Without a limit, for a caller blocked in Add may still push after Join (Add looks at
\* state_ before it waits and not after).
THEOREM JoinEmptiesQueue ==
    ASSUME NEW m, ManagedBy(m), Unlimited
    PROVE  Spec => JoinDrains
<1>1. Init => JoinInv
  BY ThreadsAssumption DEF Init, JoinInv, AddPcs, Threads
<1>2. Inv /\ Inv' /\ (AllStarted => LifeInv(m)) /\ (AllStarted => JoinInv) /\ [Next]_vars =>
          (AllStarted => JoinInv)'
  BY JoinStep, StayStillborn DEF ManagedBy
<1>3. Inv /\ (AllStarted => LifeInv(m)) /\ (AllStarted => JoinInv) /\ [Next]_vars =>
          [AllStarted /\ state_ # "STOPPED" /\ state_' = "STOPPED" =>
             tasks_ = << >> \/ \A w \in Workers : pc[w] = "unborn"]_vars
  <2> SUFFICES ASSUME Inv, LifeInv(m), AllStarted, JoinInv, [Next]_vars, state_ # "STOPPED",
                      state_' = "STOPPED", tasks_ # << >>
               PROVE  \A w \in Workers : pc[w] = "unborn"
    OBVIOUS
  <2>1. pc[m] = "stopped"
    BY StoppedByManager
  <2>2. state_ = "JOINING"
    BY <2>1 DEF LifeInv, Phases, Stopping, JoinInv
  <2> QED
    BY <2>1, <2>2, StoppedPoolEmpty DEF JoinInv
<1>4. Spec => []Inv
  BY InvHolds DEF ManagedBy
<1> QED
  BY <1>1, <1>2, <1>3, <1>4, LifeInvHolds, PTL DEF Spec, JoinDrains

-----------------------------------------------------------------------------
(* A queue with a limit.                                                   *)

\* Every step keeps it that somebody is bound to wake the callers of Add.
LEMMA LimitStep ==
    ASSUME Inv, Inv', SteadyLimit, LimitInv, SleepingAddHasCause, [Next]_vars
    PROVE  LimitInv' /\ SleepingAddHasCause'
<1> USE DEF manager, pool, queue, frames
<1>1. \A c \in Clients : ~RemoveNextPending(c)
  BY DEF SteadyLimit, RemoveNextPending, Calls
<1>2. /\ Clients \subseteq Threads /\ Workers \subseteq Threads
      /\ pc \in [Threads -> WorkerPcs \cup ClientPcs \cup AddPcs]
  BY DEF Threads, Inv, TypeOK, PcOK
<1>3. ASSUME tasks_' = tasks_, \A y \in Threads : Bystander(y),
             pending_task_count_max_' = pending_task_count_max_ \/ pending_task_count_max_' > 0
      PROVE  LimitInv' /\ SleepingAddHasCause'
  <2>1. LimitInv'
    BY <1>1, <1>2, <1>3 DEF LimitInv, Bystander
  <2>2. Asleep({"maxWaiting"})' = Asleep({"maxWaiting"}) /\ Asleep({"maxWoken"})' = Asleep({"maxWoken"})
    BY <1>3 DEF Asleep, Bystander, AddPcs
  <2> QED
    BY <1>3, <2>1, <2>2 DEF SleepingAddHasCause
<1>4. ASSUME NEW th \in Threads, NEW t, NEW q, NEW ts, pc[th] \in {Home(th), "maxWoken"},
             tasks_ \in Seq(Tasks), t \in Tasks, q \in Seq(Tasks),
             Push(th, t, q, ts), UNCHANGED manager
      PROVE  LimitInv' /\ SleepingAddHasCause'
  <2>1. PICK S \in WokenByPush : pc' = Wake([pc EXCEPT ![th] = Home(th)], S)
    BY <1>4 DEF Push
  <2>2. S \in SUBSET Threads /\ \A y \in S : pc[y] = "waiting"
    BY NotifyChoosesSleepers DEF WokenByPush, SleepPcs
  <2>3. pc'[th] = Home(th) /\ \A y \in Threads \ {th} : Stirs(y)
    BY <1>4, <2>1, <2>2, WakeMoves DEF SleepPcs, Home
  <2>4. tasks_' # << >>
    BY <1>4 DEF Push
  <2>5. LimitInv'
    BY <1>2, <1>4, <2>3 DEF LimitInv, Stirs, Home, AddPcs
  <2> QED
    BY <2>4, <2>5 DEF SleepingAddHasCause
<1>5. ASSUME NEW th \in Threads, AddStep(th) \/ AddCall(th) \/ AddTimedOut(th) \/ SpuriousWakeup(th)
      PROVE  LimitInv' /\ SleepingAddHasCause'
  <2>1. CASE SpuriousWakeup(th)
    <3>1. \A y \in Threads : Stirs(y)
      BY <2>1 DEF SpuriousWakeup, Wake, WakesTo, SleepPcs, Stirs
    <3>2. LimitInv'
      BY <1>2, <2>1, <3>1 DEF SpuriousWakeup, LimitInv, Stirs, AddPcs
    <3>3. /\ Asleep({"maxWaiting"})' \subseteq Asleep({"maxWaiting"})
          /\ Asleep({"maxWoken"}) \subseteq Asleep({"maxWoken"})'
      BY <3>1 DEF Asleep, Stirs
    <3> QED
      BY <2>1, <3>2, <3>3 DEF SpuriousWakeup, SleepingAddHasCause
  <2>2. CASE AddTimedOut(th)
    <3>1. /\ pc[th] = "maxWaiting" /\ pc'[th] = Home(th)
          /\ \A y \in Threads \ {th} : pc'[y] = pc[y]
      BY <1>2, <2>2 DEF AddTimedOut
    <3>2. LimitInv'
      BY <1>2, <2>2, <3>1 DEF AddTimedOut, LimitInv, AddPcs, Home
    <3>3. /\ Asleep({"maxWaiting"})' \subseteq Asleep({"maxWaiting"})
          /\ Asleep({"maxWoken"}) \subseteq Asleep({"maxWoken"})'
      BY <3>1 DEF Asleep
    <3> QED
      BY <2>2, <3>2, <3>3 DEF AddTimedOut, SleepingAddHasCause
  <2>3. CASE AddResume(th)
    BY <1>4, <2>3 DEF AddResume, Inv, TypeOK, TaskOwnership, AddersOwn, AddPcs
  <2>4. ASSUME NEW t \in Tasks, AddPush(th, t)
        PROVE  LimitInv' /\ SleepingAddHasCause'
    BY <1>4, <2>4, LiveTasksFacts DEF AddPush, CallsAdd, Inv, TypeOK
  <2>5. CASE AddSleepAgain(th)
    <3>1. pending_task_count_max_ > 0 /\ Len(tasks_) > 0 /\ tasks_' = tasks_
      BY <2>5 DEF AddSleepAgain, Full, Inv, TypeOK
    <3>2. LimitInv'
      BY <1>2, <2>5, <3>1 DEF AddSleepAgain, LimitInv
    <3> QED
      BY <3>1, <3>2 DEF SleepingAddHasCause, Inv, TypeOK
  <2>6. ASSUME NEW t \in Tasks, NEW timeout \in Timeouts, AddSleep(th, t, timeout) \/ AddTooMany(th, t, timeout)
        PROVE  LimitInv' /\ SleepingAddHasCause'
    <3>1. pending_task_count_max_ > 0 /\ Len(LiveTasks) > 0 /\ tasks_' = LiveTasks
      BY <2>6, LiveTasksFacts DEF AddSleep, AddTooMany, Full, Inv, TypeOK
    <3>2. LimitInv'
      BY <1>2, <2>6, <3>1 DEF AddSleep, AddTooMany, LimitInv
    <3> QED
      BY <3>1, <3>2, LiveTasksFacts DEF SleepingAddHasCause, Inv
  <2>7. ASSUME NEW t \in Tasks, AddContended(th, t) \/ AddNotStarted(th, t)
        PROVE  LimitInv' /\ SleepingAddHasCause'
    BY <1>3, <2>7 DEF AddContended, AddNotStarted, Bystander
  <2> QED
    BY <1>5, <2>1, <2>2, <2>3, <2>4, <2>5, <2>6, <2>7 DEF AddStep, AddCall
<1>6. ASSUME NEW w \in Workers, WorkerTake(w) \/ WorkerTakeNone(w)
      PROVE  LimitInv' /\ SleepingAddHasCause'
  <2>1. PICK label \in {"running", "loop"} : \E S \in WokenByPop(tasks_') : pc' = Wake([pc EXCEPT ![w] = label], S)
    BY <1>6 DEF WorkerTake, WorkerTakeNone
  <2>2. PICK S \in WokenByPop(tasks_') : pc' = Wake([pc EXCEPT ![w] = label], S)
    BY <2>1
  <2>3. S \in SUBSET Threads /\ \A y \in S : pc[y] = "maxWaiting"
    BY NotifyChoosesSleepers DEF WokenByPop, SleepPcs
  <2>4. pc[w] \in {"loop", "woken"} /\ pc[w] \notin SleepPcs
    BY <1>6 DEF WorkerTake, WorkerTakeNone, AtQueue, SleepPcs
  <2>5. pc'[w] = label /\ \A y \in Threads \ {w} : Stirs(y)
    BY <1>2, <2>2, <2>3, <2>4, WakeMoves DEF SleepPcs
  <2>6. LimitInv'
    BY <1>2, <1>6, <2>5, ThreadsAssumption DEF WorkerTake, WorkerTakeNone, LimitInv, Stirs, AddPcs
  <2>7. ASSUME NEW y \in Threads, pc'[y] = "maxWaiting", tasks_' = << >>
        PROVE  Asleep({"maxWoken"})' # {}
    <3>1. pc[y] = "maxWaiting"
      BY <2>5, <2>7 DEF Stirs
    <3>2. pending_task_count_max_ > 0
      BY <3>1 DEF LimitInv, AddPcs
    <3>3. S \in Notify(Asleep({"maxWaiting"}))
      BY <2>2, <2>7, <3>2 DEF WokenByPop, Inv, TypeOK
    <3>4. PICK x \in Threads : pc[x] = "maxWaiting" /\ S = {x}
      BY <3>1, <3>3 DEF Notify, Asleep
    <3>5. pc'[x] = "maxWoken"
      BY <1>2, <2>2, <2>4, <3>4 DEF Wake, WakesTo
    <3> QED
      BY <3>5 DEF Asleep
  <2> QED
    BY <2>6, <2>7 DEF SleepingAddHasCause, Asleep
<1>7. ASSUME NEW w \in Workers, WorkerStep(w)
      PROVE  LimitInv' /\ SleepingAddHasCause'
  BY <1>3, <1>6, <1>7, WorkersStandBy
<1>8. ASSUME NEW c \in Clients, ClientStep(c) \/ ClientCall(c) \/ AddWorkerFails(c)
      PROVE  LimitInv' /\ SleepingAddHasCause'
  <2>1. pending_task_count_max_' = pending_task_count_max_ \/ pending_task_count_max_' > 0
    BY <1>8, SizeAssumption DEF SteadyLimit,
         ClientStep, AddWorkerSpawn, AddWorkerMap, AddWorkerWait, RemoveWorkerLower,
         RemoveWorkerInvalid, RemoveWorkerWait, RemoveWorkerDone, StopRead, StopDone,
         AddWorkerFails, ClientCall, RemoveNextPending, 
         ExpiredTaskCount, SetThreadFactory, SetExpireCallback, Start, PendingTaskCountMax,
         AddWorker, RemoveWorker, StopImpl
  <2> QED
    BY <1>1, <1>3, <1>8, <2>1, ClientsStandBy
<1>9. ASSUME UNCHANGED <<pc, tasks_, pending_task_count_max_>>
      PROVE  LimitInv' /\ SleepingAddHasCause'
  BY <1>3, <1>9 DEF Bystander
<1> QED
  BY <1>5, <1>7, <1>8, <1>9 DEF Next, Environment, Expire, vars, SteadyLimit

\* A caller of Add never sleeps on max_monitor_ with nobody bound to wake it,
\* although Worker::Run notifies one caller for a pop that frees many places.
\* Limits stay positive and only workers pop: lifting a limit and
\* RemoveNextPending free places without a notification.
THEOREM SleepingAddIsWoken ==
    ASSUME SteadyLimit
    PROVE  Spec => []SleepingAddHasCause
<1>1. Init => LimitInv /\ SleepingAddHasCause
  BY ThreadsAssumption DEF Init, LimitInv, SleepingAddHasCause, Asleep, AddPcs, Threads
<1>2. Inv /\ Inv' /\ LimitInv /\ SleepingAddHasCause /\ [Next]_vars => LimitInv' /\ SleepingAddHasCause'
  BY LimitStep
<1>3. Spec => []Inv
  BY InvHolds DEF SteadyLimit
<1> QED
  BY <1>1, <1>2, <1>3, PTL DEF Spec

-----------------------------------------------------------------------------
(* Expiry, step by step.                                                   *)

\* RemoveExpiredTasks pops expired tasks only, and all of them up to the first
\* live one.
LEMMA PrefixIsExpired ==
    ASSUME Inv
    PROVE  /\ \A i \in 1 .. ExpiredPrefix : IsExpired(tasks_[i])
           /\ ExpiredPrefix < Len(tasks_) => ~IsExpired(tasks_[ExpiredPrefix + 1])
<1> DEFINE n == Len(tasks_)
           P == {i \in 1 .. n : \A j \in 1 .. i : IsExpired(tasks_[j])}
           k == ExpiredPrefix
<1>1. n \in Nat /\ k \in 0 .. n /\ k = Cardinality(P)
  BY PrefixBound DEF Inv, TypeOK, ExpiredPrefix
<1>2. ASSUME NEW j \in Nat
      PROVE  IsFiniteSet(1 .. j) /\ Cardinality(1 .. j) = j
  <2>1. 1 \in Int /\ j \in Int
    BY <1>2
  <2>2. IsFiniteSet(1 .. j) /\ Cardinality(1 .. j) = IF 1 > j THEN 0 ELSE j - 1 + 1
    BY <2>1, FS_Interval, Zenon
  <2> QED
    BY <1>2, <2>2
<1>3. IsFiniteSet(P)
  <2>1. IsFiniteSet(1 .. n) /\ P \in SUBSET (1 .. n)
    BY <1>1, <1>2
  <2> QED
    BY <2>1, FS_Subset
<1>4. ASSUME NEW i \in 1 .. k, i \notin P
      PROVE  FALSE
  <2>1. i - 1 \in Nat /\ k \in Nat
    BY <1>1
  <2>2. P \in SUBSET (1 .. (i - 1))
    BY <1>1, <1>4
  <2>3. Cardinality(P) <= i - 1
    BY <1>2, <2>1, <2>2, FS_Subset
  <2> QED
    BY <1>1, <2>1, <2>3
<1>5. 1 .. k \in SUBSET P
  BY <1>4
<1>6. \A i \in 1 .. k : IsExpired(tasks_[i])
  BY <1>1, <1>5
<1>7. P = 1 .. k
  <2>1. k \in Nat /\ Cardinality(1 .. k) = k
    BY <1>1, <1>2
  <2> QED
    BY <1>1, <1>3, <1>5, <2>1, FS_Subset
<1>8. ASSUME k < n, IsExpired(tasks_[k + 1])
      PROVE  FALSE
  <2>1. k + 1 \in 1 .. n /\ k + 1 \notin 1 .. k
    BY <1>1, <1>8
  <2>2. \A j \in 1 .. (k + 1) : IsExpired(tasks_[j])
    <3>1. \A j \in 1 .. (k + 1) : j \in 1 .. k \/ j = k + 1
      BY <1>1
    <3> QED
      BY <1>6, <1>8, <3>1
  <2>3. k + 1 \in P
    BY <2>1, <2>2
  <2> QED
    BY <1>7, <2>1, <2>3
<1> HIDE DEF n, P, k
<1> QED
  BY <1>6, <1>8 DEF n, k

\* What becomes of a waiting task in a step.
Expiry(t) ==
    taskState[t] = "WAITING" =>
        /\ taskState'[t] \in {"expired", "dropped"} => IsExpired(t)
        /\ taskState'[t] = "EXECUTING" => ~IsExpired(t)

\* RemoveExpiredTasks within Add and Worker::Run.
LEMMA AfterExpiryHonest ==
    ASSUME Inv, NEW t \in Tasks, taskState[t] = "WAITING"
    PROVE  AfterExpiry[t] = "WAITING" \/ (AfterExpiry[t] \in {"expired", "dropped"} /\ IsExpired(t))
<1>1. \A x \in Expired : IsExpired(x)
  BY PrefixIsExpired DEF Expired
<1> QED
  BY <1>1 DEF AfterExpiry

\* Every step respects the expiry, if nobody pops without the lock.
LEMMA ExpiryStep ==
    ASSUME Inv, LockedExpiry, [Next]_vars, NEW t \in Tasks
    PROVE  Expiry(t)
<1> USE DEF manager, pool, queue, frames
<1>1. taskState \in [Tasks -> TaskStates] /\ AfterExpiry \in [Tasks -> TaskStates]
  BY ExpiredFacts DEF Inv, TypeOK
<1>2. CASE taskState' = taskState
  BY <1>2 DEF Expiry
<1>3. ASSUME NEW x \in Tasks, NEW v \in {"WAITING", "adding", "rejected"},
             taskState' = [AfterExpiry EXCEPT ![x] = v] \/ taskState' = [taskState EXCEPT ![x] = v]
      PROVE  Expiry(t)
  BY <1>1, <1>3, AfterExpiryHonest DEF Expiry
<1>4. ASSUME NEW th \in Threads, AddStep(th) \/ AddCall(th) \/ AddTimedOut(th) \/ SpuriousWakeup(th)
      PROVE  Expiry(t)
  <2>1. pc[th] \in AddPcs => addTask[th] \in Tasks
    BY DEF Inv, TypeOK, TaskOwnership, AddersOwn
  <2>2. CASE AddResume(th) \/ AddTimedOut(th)
    BY <1>3, <2>1, <2>2 DEF AddResume, Push, AddTimedOut, AddPcs
  <2>3. CASE AddSleepAgain(th) \/ SpuriousWakeup(th)
    BY <1>2, <2>3 DEF AddSleepAgain, SpuriousWakeup
  <2>4. CASE AddCall(th)
    BY <1>3, <2>4 DEF AddCall, AddContended, AddNotStarted, AddPush, Push, AddSleep, AddTooMany
  <2> QED
    BY <1>4, <2>2, <2>3, <2>4 DEF AddStep
<1>5. ASSUME NEW w \in Workers, WorkerStep(w)
      PROVE  Expiry(t)
  <2>1. CASE WorkerTake(w)
    <3>1. /\ Len(LiveTasks) = Len(tasks_) - ExpiredPrefix /\ ExpiredPrefix \in 0 .. Len(tasks_)
          /\ LiveTasks \in Seq(Tasks) /\ LiveTasks # << >> /\ Len(tasks_) \in Nat
          /\ \A i \in 1 .. Len(LiveTasks) : LiveTasks[i] = tasks_[i + ExpiredPrefix]
      BY <2>1, PrefixBound, LiveTasksFacts DEF WorkerTake, Inv, TypeOK
    <3>2. Len(LiveTasks) > 0 /\ Head(LiveTasks) = LiveTasks[1] /\ Head(LiveTasks) \in Tasks
      BY <3>1
    <3>3. Head(LiveTasks) = tasks_[ExpiredPrefix + 1] /\ ExpiredPrefix < Len(tasks_)
      BY <3>1, <3>2
    <3>4. ~IsExpired(Head(LiveTasks))
      BY <3>3, PrefixIsExpired
    <3>5. taskState' = [AfterExpiry EXCEPT ![Head(LiveTasks)] = "EXECUTING"]
      BY <2>1 DEF WorkerTake
    <3> QED
      BY <1>1, <3>2, <3>4, <3>5, AfterExpiryHonest DEF Expiry
  <2>2. CASE WorkerTakeNone(w)
    BY <1>1, <2>2, AfterExpiryHonest DEF WorkerTakeNone, Expiry
  <2>3. ASSUME NEW outcome \in {"COMPLETE", "failed"}, WorkerRan(w, outcome)
        PROVE  Expiry(t)
    BY <1>1, <2>3 DEF WorkerRan, Expiry
  <2>4. CASE \/ WorkerEnter(w) \/ WorkerEntered(w) \/ WorkerNotWanted(w) \/ WorkerAnnounce(w)
             \/ WorkerWait(w) \/ WorkerRetire(w) \/ WorkerExit(w) \/ WorkerExited(w)
    BY <1>2, <2>4 DEF WorkerEnter, WorkerEntered, WorkerNotWanted, WorkerAnnounce, WorkerWait,
                      WorkerRetire, WorkerExit, WorkerExited
  <2> QED
    BY <1>5, <2>1, <2>2, <2>3, <2>4 DEF WorkerStep
<1>6. ASSUME NEW c \in Clients, ClientStep(c) \/ ClientCall(c) \/ AddWorkerFails(c)
      PROVE  Expiry(t)
  <2>1. CASE RemoveNextPending(c)
    BY <1>1, <2>1 DEF RemoveNextPending, Expiry
  <2>2. CASE ~RemoveNextPending(c)
    BY <1>2, <1>6, <2>2 DEF ClientStep, AddWorkerSpawn, AddWorkerMap, AddWorkerWait, RemoveWorkerLower,
         RemoveWorkerInvalid, RemoveWorkerWait, RemoveWorkerDone, StopRead, StopDone,
         AddWorkerFails, ClientCall, 
         ExpiredTaskCount, SetThreadFactory, SetExpireCallback, Start, PendingTaskCountMax,
         AddWorker, RemoveWorker, StopImpl
  <2> QED
    BY <2>1, <2>2
<1> QED
  BY <1>2, <1>4, <1>5, <1>6 DEF Next, Environment, Expire, vars

\* Only a task whose time has passed is dropped, and such a task is not run:
\* RemoveExpiredTasks stops at the first live task, and a worker pops that one.
\* For callers that leave RemoveExpiredTasks to the manager, since it looks at
\* the front of the queue and pops it without the lock.
THEOREM ExpiryIsRespected ==
    ASSUME LockedExpiry
    PROVE  Spec => ExpiryRespected
<1>1. Inv /\ [Next]_vars =>
          [\A t \in Tasks : taskState[t] = "WAITING" =>
             /\ taskState'[t] \in {"expired", "dropped"} => IsExpired(t)
             /\ taskState'[t] = "EXECUTING" => ~IsExpired(t)]_vars
  BY ExpiryStep DEF Expiry
<1> QED
  BY <1>1, InvHolds, PTL DEF Spec, ExpiryRespected

-----------------------------------------------------------------------------
(* The refinement of TaskService.                                          *)

\* What the refinement needs besides Inv: only a worker inside Task::Run has a
\* task, and the time of a task starts to run when it is pushed.
BusyPcs == {"running"} \cup AddPcs
OnlyBusyRun == \A w \in Workers : current[w] # NoTask => pc[w] \in BusyPcs
FreshHaveTime == \A t \in Tasks : taskState[t] \in {"new", "adding"} => deadline[t] = "never"
ServiceInv == OnlyBusyRun /\ FreshHaveTime

\* A thread in Add's wait or in Task::Run stays there, unless it ends its task.
LEMMA BusyStep ==
    ASSUME Inv, LockedExpiry, OnlyBusyRun, [Next]_vars
    PROVE  OnlyBusyRun'
<1> USE DEF manager, pool, queue, frames
<1>1. /\ Clients \subseteq Threads /\ Workers \subseteq Threads /\ Workers \cap Clients = {}
      /\ pc \in [Threads -> WorkerPcs \cup ClientPcs \cup AddPcs]
      /\ current \in [Workers -> Tasks \cup {NoTask}]
  BY ThreadsAssumption DEF Threads, Inv, TypeOK, PcOK
<1>2. CASE /\ current' = current
           /\ \A y \in Workers : pc[y] \in BusyPcs => pc'[y] \in BusyPcs
  BY <1>2 DEF OnlyBusyRun
<1>3. ASSUME NEW th \in Threads, AddStep(th) \/ AddCall(th) \/ AddTimedOut(th) \/ SpuriousWakeup(th)
      PROVE  OnlyBusyRun'
  <2>1. current' = current
    BY <1>3 DEF AddStep, AddResume, AddSleepAgain, AddCall, AddContended, AddNotStarted, AddPush,
                AddSleep, AddTooMany, AddTimedOut, SpuriousWakeup
  <2>2. ASSUME NEW label \in {Home(th), "maxWaiting"}, pc' = [pc EXCEPT ![th] = label]
        PROVE  OnlyBusyRun'
    BY <1>1, <1>2, <2>1, <2>2 DEF Home, BusyPcs, AddPcs
  <2>3. ASSUME NEW t, NEW q, NEW ts, Push(th, t, q, ts), pc[th] \notin SleepPcs
        PROVE  OnlyBusyRun'
    <3>1. PICK S \in WokenByPush : pc' = Wake([pc EXCEPT ![th] = Home(th)], S)
      BY <2>3 DEF Push
    <3>2. S \in SUBSET Threads /\ \A y \in S : pc[y] = "waiting"
      BY NotifyChoosesSleepers DEF WokenByPush, SleepPcs
    <3>3. pc'[th] = Home(th) /\ \A y \in Threads \ {th} : Stirs(y)
      BY <2>3, <3>1, <3>2, WakeMoves DEF SleepPcs
    <3> QED
      BY <1>1, <1>2, <2>1, <3>3 DEF Home, Stirs, BusyPcs, AddPcs
  <2>4. CASE pc' = pc
    BY <1>2, <2>1, <2>4
  <2>5. CASE SpuriousWakeup(th)
    BY <1>1, <1>2, <2>1, <2>5 DEF SpuriousWakeup, Wake, WakesTo, SleepPcs, BusyPcs, AddPcs
  <2>6. CASE AddResume(th)
    BY <2>3, <2>6 DEF AddResume, SleepPcs
  <2>7. CASE AddSleepAgain(th) \/ AddTimedOut(th)
    BY <2>2, <2>7 DEF AddSleepAgain, AddTimedOut
  <2>8. ASSUME NEW t \in Tasks, AddPush(th, t)
        PROVE  OnlyBusyRun'
    BY <2>3, <2>8 DEF AddPush, CallsAdd, Home, SleepPcs
  <2> QED
    BY <1>3, <2>2, <2>4, <2>5, <2>6, <2>7, <2>8
    DEF AddStep, AddCall, AddContended, AddNotStarted, AddSleep, AddTooMany
<1>4. ASSUME NEW w \in Workers, WorkerTake(w) \/ WorkerTakeNone(w)
      PROVE  OnlyBusyRun'
  <2>1. PICK label \in {"running", "loop"} :
            /\ \E S \in WokenByPop(tasks_') : pc' = Wake([pc EXCEPT ![w] = label], S)
            /\ label = "loop" => current' = current
            /\ \A y \in Workers \ {w} : current'[y] = current[y]
    BY <1>1, <1>4 DEF WorkerTake, WorkerTakeNone
  <2>2. PICK S \in WokenByPop(tasks_') : pc' = Wake([pc EXCEPT ![w] = label], S)
    BY <2>1
  <2>3. S \in SUBSET Threads /\ \A y \in S : pc[y] = "maxWaiting"
    BY NotifyChoosesSleepers DEF WokenByPop, SleepPcs
  <2>4. pc[w] \in {"loop", "woken"} /\ pc[w] \notin SleepPcs /\ pc[w] \notin BusyPcs
    BY <1>4 DEF WorkerTake, WorkerTakeNone, AtQueue, SleepPcs, BusyPcs, AddPcs
  <2>5. pc'[w] = label /\ \A y \in Threads \ {w} : Stirs(y)
    BY <1>1, <2>2, <2>3, <2>4, WakeMoves DEF SleepPcs
  <2>6. current[w] = NoTask
    BY <2>4 DEF OnlyBusyRun
  <2> QED
    BY <1>1, <2>1, <2>5, <2>6 DEF OnlyBusyRun, Stirs, BusyPcs, AddPcs
<1>5. ASSUME \A y \in Threads : Bystander(y), \A y \in Workers : current'[y] \in {current[y], NoTask}
      PROVE  OnlyBusyRun'
  BY <1>1, <1>5 DEF OnlyBusyRun, Bystander, BusyPcs, AddPcs
<1>6. ASSUME NEW w \in Workers, WorkerStep(w), ~WorkerTake(w), ~WorkerTakeNone(w)
      PROVE  OnlyBusyRun'
  <2>1. \A y \in Workers : current'[y] \in {current[y], NoTask}
    BY <1>1, <1>6 DEF WorkerStep, WorkerEnter, WorkerEntered, WorkerNotWanted, WorkerAnnounce,
                      WorkerWait, WorkerRetire, WorkerRan, WorkerExit, WorkerExited
  <2> QED
    BY <1>5, <1>6, <2>1, WorkersStandBy
<1>7. ASSUME NEW c \in Clients, ClientStep(c) \/ ClientCall(c) \/ AddWorkerFails(c)
      PROVE  OnlyBusyRun'
  <2>1. current' = current
    BY <1>7 DEF ClientStep, AddWorkerSpawn, AddWorkerMap, AddWorkerWait, RemoveWorkerLower,
         RemoveWorkerInvalid, RemoveWorkerWait, RemoveWorkerDone, StopRead, StopDone,
         AddWorkerFails, ClientCall, RemoveNextPending,
         ExpiredTaskCount, SetThreadFactory, SetExpireCallback, Start, PendingTaskCountMax,
         AddWorker, RemoveWorker, StopImpl
  <2>2. CASE RemoveNextPending(c)
    BY <1>2, <2>2 DEF RemoveNextPending
  <2> QED
    BY <1>5, <1>7, <2>1, <2>2, ClientsStandBy
<1> QED
  BY <1>2, <1>3, <1>4, <1>6, <1>7 DEF Next, Environment, Expire, WorkerStep, vars

\* No step makes a task new again, and only a push sets its time.
LEMMA FreshStep ==
    ASSUME Inv, LockedExpiry, FreshHaveTime, [Next]_vars
    PROVE  FreshHaveTime'
<1> USE DEF manager, pool, queue, frames
<1>1. /\ taskState \in [Tasks -> TaskStates] /\ AfterExpiry \in [Tasks -> TaskStates]
      /\ \A t \in Tasks : AfterExpiry[t] \in {"expired", "dropped"} \/ AfterExpiry[t] = taskState[t]
      /\ deadline \in [Tasks -> {"never", "future", "past"}]
  BY ExpiredFacts DEF Inv, TypeOK, AfterExpiry
<1>2. ASSUME NEW ts \in {taskState, AfterExpiry}, NEW t \in Tasks,
             NEW v \in TaskStates \ {"new"}, taskState' = [ts EXCEPT ![t] = v] \/ taskState' = ts,
             v = "adding" => taskState[t] = "new",
             deadline' = deadline
      PROVE  FreshHaveTime'
  BY <1>1, <1>2 DEF FreshHaveTime
<1>3. ASSUME NEW ts \in {taskState, AfterExpiry}, NEW t \in Tasks,
             NEW th, NEW q, Push(th, t, q, ts)
      PROVE  FreshHaveTime'
  BY <1>1, <1>3 DEF FreshHaveTime, Push
<1>4. CASE UNCHANGED <<taskState, deadline>>
  BY <1>4 DEF FreshHaveTime
<1>5. ASSUME NEW t \in Tasks, Expire(t)
      PROVE  FreshHaveTime'
  BY <1>1, <1>5 DEF Expire, FreshHaveTime
<1>6. ASSUME NEW th \in Threads, AddStep(th) \/ AddCall(th) \/ AddTimedOut(th) \/ SpuriousWakeup(th)
      PROVE  FreshHaveTime'
  <2>1. pc[th] \in AddPcs => addTask[th] \in Tasks
    BY DEF Inv, TypeOK, TaskOwnership, AddersOwn
  <2>2. CASE AddResume(th)
    BY <1>3, <2>1, <2>2 DEF AddResume, AddPcs
  <2>3. CASE AddTimedOut(th)
    BY <1>2, <2>1, <2>3 DEF AddTimedOut, AddPcs, TaskStates
  <2>4. CASE AddSleepAgain(th) \/ SpuriousWakeup(th)
    BY <1>4, <2>4 DEF AddSleepAgain, SpuriousWakeup
  <2>5. ASSUME NEW t \in Tasks, AddPush(th, t)
        PROVE  FreshHaveTime'
    BY <1>3, <2>5 DEF AddPush
  <2>6. ASSUME NEW t \in Tasks, AddContended(th, t) \/ AddNotStarted(th, t)
        PROVE  FreshHaveTime'
    BY <1>2, <2>6 DEF AddContended, AddNotStarted, TaskStates
  <2>7. ASSUME NEW t \in Tasks, NEW timeout \in Timeouts, AddSleep(th, t, timeout)
        PROVE  FreshHaveTime'
    BY <1>2, <2>7 DEF AddSleep, CallsAdd, TaskStates
  <2>8. ASSUME NEW t \in Tasks, NEW timeout \in Timeouts, AddTooMany(th, t, timeout)
        PROVE  FreshHaveTime'
    BY <1>2, <2>8 DEF AddTooMany, TaskStates
  <2> QED
    BY <1>6, <2>2, <2>3, <2>4, <2>5, <2>6, <2>7, <2>8 DEF AddStep, AddCall
<1>7. ASSUME NEW w \in Workers, WorkerStep(w)
      PROVE  FreshHaveTime'
  <2>1. CASE WorkerTake(w)
    <3>1. Head(LiveTasks) \in Tasks
      BY <2>1, LiveTasksFacts DEF WorkerTake, Inv
    <3> QED
      BY <1>2, <2>1, <3>1 DEF WorkerTake, TaskStates
  <2>2. CASE WorkerTakeNone(w)
    BY <1>1, <2>2 DEF WorkerTakeNone, FreshHaveTime
  <2>3. ASSUME NEW outcome \in {"COMPLETE", "failed"}, WorkerRan(w, outcome)
        PROVE  FreshHaveTime'
    <3>1. current[w] \in Tasks
      BY <2>3 DEF WorkerRan, Inv, TypeOK, TaskOwnership, RunnersOwn
    <3> QED
      BY <1>2, <2>3, <3>1 DEF WorkerRan, TaskStates
  <2> QED
    BY <1>4, <1>7, <2>1, <2>2, <2>3
    DEF WorkerStep, WorkerEnter, WorkerEntered, WorkerNotWanted, WorkerAnnounce, WorkerWait,
        WorkerRetire, WorkerExit, WorkerExited
<1>8. ASSUME NEW c \in Clients, ClientStep(c) \/ ClientCall(c) \/ AddWorkerFails(c)
      PROVE  FreshHaveTime'
  <2>1. CASE RemoveNextPending(c)
    <3>1. Head(tasks_) \in Tasks
      BY <2>1 DEF RemoveNextPending, Inv, TypeOK
    <3>2. taskState' = [taskState EXCEPT ![Head(tasks_)] = "removed"]
      BY <2>1 DEF RemoveNextPending
    <3> QED
      BY <1>2, <2>1, <3>1, <3>2 DEF RemoveNextPending, TaskStates
  <2>2. CASE ~RemoveNextPending(c)
    BY <1>4, <1>8, <2>2 DEF ClientStep, AddWorkerSpawn, AddWorkerMap, AddWorkerWait,
         RemoveWorkerLower, RemoveWorkerInvalid, RemoveWorkerWait, RemoveWorkerDone, StopRead,
         StopDone, AddWorkerFails, ClientCall, ExpiredTaskCount,
         SetThreadFactory, SetExpireCallback, Start, PendingTaskCountMax, AddWorker,
         RemoveWorker, StopImpl
  <2> QED
    BY <2>1, <2>2
<1> QED
  BY <1>4, <1>5, <1>6, <1>7, <1>8 DEF Next, Environment, vars

\* The statuses that TaskService sees.
Statuses(ts) == [t \in Tasks |-> StatusOf(ts[t])]

\* TaskService gives up n tasks where the manager goes on with q and ts.
Matches(n, q, ts) ==
    /\ n \in 0 .. Len(tasks_)
    /\ Service!Overdue(n)
    /\ Service!Rest(n) = q
    /\ Service!Without(n) = Statuses(ts)
    /\ q \in Seq(Tasks)
    /\ ts \in [Tasks -> TaskStates]

\* Nothing is given up.
LEMMA MatchesNone ==
    ASSUME Inv
    PROVE  Matches(0, tasks_, taskState)
<1>1. tasks_ \in Seq(Tasks) /\ Len(tasks_) \in Nat /\ taskState \in [Tasks -> TaskStates]
  BY DEF Inv, TypeOK
<1>2. Service!Overdue(0)
  BY <1>1 DEF Service!Overdue
<1>3. Service!Rest(0) = tasks_
  BY <1>1 DEF Service!Rest
<1>4. Service!Without(0) = Statuses(taskState)
  BY DEF Service!Without, Statuses
<1> QED
  BY <1>1, <1>2, <1>3, <1>4 DEF Matches

\* RemoveExpiredTasks gives up late tasks.
LEMMA MatchesExpired ==
    ASSUME Inv
    PROVE  Matches(ExpiredPrefix, LiveTasks, AfterExpiry)
<1>1. /\ tasks_ \in Seq(Tasks) /\ Len(tasks_) \in Nat /\ ExpiredPrefix \in 0 .. Len(tasks_)
      /\ LiveTasks \in Seq(Tasks) /\ AfterExpiry \in [Tasks -> TaskStates]
  BY PrefixBound, LiveTasksFacts, ExpiredFacts DEF Inv, TypeOK
<1>2. Service!Overdue(ExpiredPrefix)
  <2>1. \A i \in 1 .. ExpiredPrefix : tasks_[i] \in Tasks /\ IsExpired(tasks_[i])
    BY <1>1, PrefixIsExpired
  <2> QED
    BY <1>1, <2>1 DEF Service!Overdue
<1>3. Service!Rest(ExpiredPrefix) = LiveTasks
  BY DEF Service!Rest, LiveTasks
<1>4. ASSUME NEW t \in Tasks
      PROVE  Service!Without(ExpiredPrefix)[t] = StatusOf(AfterExpiry[t])
  <2>1. t \in Expired <=> \E i \in 1 .. ExpiredPrefix : tasks_[i] = t
    BY DEF Expired
  <2> QED
    BY <2>1 DEF Service!Without, AfterExpiry, StatusOf
<1>5. Service!Without(ExpiredPrefix) = Statuses(AfterExpiry)
  BY <1>4 DEF Service!Without, Statuses
<1> QED
  BY <1>1, <1>2, <1>3, <1>5 DEF Matches

\* Add pushes a task: TaskService accepts it.
LEMMA PushAccepts ==
    ASSUME Inv, FreshHaveTime, NEW n, NEW q, NEW ts, Matches(n, q, ts), NEW th,
           NEW t \in Tasks, taskState[t] \in {"new", "adding"}, Push(th, t, q, ts),
           current' = current
    PROVE  Service!Next
<1>1. tasks_' = Append(Service!Rest(n), t)
  BY DEF Push, Matches
<1>2. taskState' = [ts EXCEPT ![t] = "WAITING"] /\ ts \in [Tasks -> TaskStates]
  BY DEF Push, Matches
<1>3. Statuses(taskState') = [Service!Without(n) EXCEPT ![t] = "pending"]
  <2>1. StatusOf("WAITING") = "pending"
    BY DEF StatusOf
  <2>2. Statuses(taskState') = [Statuses(ts) EXCEPT ![t] = "pending"]
    BY <1>2, <2>1 DEF Statuses
  <2> QED
    BY <2>2 DEF Matches
<1>4. Statuses(taskState)[t] = "new"
  BY DEF Statuses, StatusOf
<1>5. {x \in Tasks : IsExpired(x)}' = {x \in Tasks : IsExpired(x)}
  <2>1. deadline[t] = "never" /\ deadline \in [Tasks -> {"never", "future", "past"}]
    BY DEF FreshHaveTime, Inv, TypeOK
  <2>2. \A x \in Tasks : deadline'[x] = "past" <=> deadline[x] = "past"
    BY <2>1 DEF Push
  <2> QED
    BY <2>2 DEF IsExpired
<1>6. Service!Accept(t, n)
  BY <1>1, <1>3, <1>4, <1>5 DEF Service!Accept, Matches, Statuses
<1> QED
  BY <1>6 DEF Service!Next, Matches

\* Add throws: TaskService refuses the task.
LEMMA ThrowRefuses ==
    ASSUME Inv, NEW n, NEW q, NEW ts, Matches(n, q, ts),
           NEW t \in Tasks, taskState[t] \in {"new", "adding"},
           tasks_' = q, taskState' = [ts EXCEPT ![t] = "rejected"],
           UNCHANGED <<deadline, current>>
    PROVE  Service!Next
<1>1. tasks_' = Service!Rest(n) /\ ts \in [Tasks -> TaskStates]
  BY DEF Matches
<1>2. Statuses(taskState') = [Service!Without(n) EXCEPT ![t] = "refused"]
  <2>1. StatusOf("rejected") = "refused"
    BY DEF StatusOf
  <2>2. Statuses(taskState') = [Statuses(ts) EXCEPT ![t] = "refused"]
    BY <1>1, <2>1 DEF Statuses
  <2> QED
    BY <2>2 DEF Matches
<1>3. Statuses(taskState)[t] = "new"
  BY DEF Statuses, StatusOf
<1>4. Service!Refuse(t, n)
  BY <1>1, <1>2, <1>3 DEF Service!Refuse, Matches, Statuses, IsExpired
<1> QED
  BY <1>4 DEF Service!Next, Matches

\* RemoveExpiredTasks alone: TaskService discards late tasks.
LEMMA DropDiscards ==
    ASSUME NEW n, NEW q, NEW ts, Matches(n, q, ts), tasks_' = q,
           Statuses(taskState') = Statuses(ts), UNCHANGED <<deadline, current>>
    PROVE  Service!Next
<1>1. Service!GiveUp(n)
  BY DEF Service!GiveUp, Matches, Statuses, IsExpired
<1>2. Service!Discard(n)
  BY <1>1 DEF Service!Discard, Matches
<1> QED
  BY <1>2 DEF Service!Next, Matches

\* The front is popped without regard to its time: TaskService lets a user
\* withdraw it.
LEMMA PopWithdraws ==
    ASSUME Inv, tasks_ # << >>, tasks_' = Tail(tasks_),
           taskState' = [taskState EXCEPT ![Head(tasks_)] = "removed"], UNCHANGED <<deadline, current>>
    PROVE  Service!Next
<1>1. /\ tasks_ \in Seq(Tasks) /\ Len(tasks_) \in Nat /\ Len(tasks_) > 0
      /\ Head(tasks_) = tasks_[1] /\ tasks_[1] \in Tasks
      /\ taskState \in [Tasks -> TaskStates]
  BY DEF Inv, TypeOK
<1>2. tasks_' = Service!Rest(1)
  BY <1>1 DEF Service!Rest
<1>3. ASSUME NEW t \in Tasks
      PROVE  Service!Without(1)[t] = StatusOf(taskState'[t])
  <2>1. (\E i \in 1 .. 1 : tasks_[i] = t) <=> t = Head(tasks_)
    BY <1>1
  <2>2. StatusOf("removed") = "discarded"
    BY DEF StatusOf
  <2> QED
    BY <1>1, <2>1, <2>2 DEF Service!Without
<1>4. Service!Without(1) = Statuses(taskState')
  BY <1>3 DEF Service!Without, Statuses
<1>5. Service!Withdraw
  BY <1>2, <1>4 DEF Service!Withdraw, Service!GiveUp, Statuses, IsExpired
<1> QED
  BY <1>5 DEF Service!Next

\* A worker takes the first live task: TaskService begins it.
LEMMA TakeBegins ==
    ASSUME Inv, OnlyBusyRun, NEW w \in Workers, WorkerTake(w)
    PROVE  Service!Next
<1> DEFINE n == ExpiredPrefix
           t == Head(LiveTasks)
<1>1. Matches(n, LiveTasks, AfterExpiry)
  BY MatchesExpired
<1>2. /\ tasks_ \in Seq(Tasks) /\ Len(tasks_) \in Nat /\ n \in 0 .. Len(tasks_)
      /\ LiveTasks \in Seq(Tasks) /\ LiveTasks # << >> /\ Len(LiveTasks) = Len(tasks_) - n
      /\ \A i \in 1 .. Len(LiveTasks) : LiveTasks[i] = tasks_[i + n]
  BY PrefixBound, LiveTasksFacts DEF WorkerTake, Inv, TypeOK
<1>3. n < Len(tasks_) /\ t = tasks_[n + 1] /\ t \in Tasks
  BY <1>2
<1>4. ~IsExpired(tasks_[n + 1])
  BY <1>3, PrefixIsExpired
<1>5. current[w] = NoTask
  BY DEF OnlyBusyRun, WorkerTake, AtQueue, BusyPcs, AddPcs
<1>6. tasks_' = Service!Rest(n + 1)
  <2>1. tasks_' = Tail(LiveTasks)
    BY DEF WorkerTake
  <2>2. Tail(LiveTasks) = SubSeq(tasks_, (n + 1) + 1, Len(tasks_))
    BY <1>2 DEF LiveTasks
  <2> QED
    BY <2>1, <2>2 DEF Service!Rest
<1>7. Statuses(taskState') = [Service!Without(n) EXCEPT ![t] = "running"]
  <2>1. taskState' = [AfterExpiry EXCEPT ![t] = "EXECUTING"]
    BY DEF WorkerTake
  <2>2. StatusOf("EXECUTING") = "running" /\ AfterExpiry \in [Tasks -> TaskStates]
    BY <1>1 DEF StatusOf, Matches
  <2> HIDE DEF t
  <2>3. Statuses(taskState') = [Statuses(AfterExpiry) EXCEPT ![t] = "running"]
    BY <1>3, <2>1, <2>2 DEF Statuses
  <2> QED
    BY <1>1, <2>3 DEF Matches
<1>8. current' = [current EXCEPT ![w] = t] /\ deadline' = deadline
  BY DEF WorkerTake
<1> HIDE DEF t
<1>9. Service!Begin(w, n)
  BY <1>1, <1>3, <1>4, <1>5, <1>6, <1>7, <1>8 DEF Service!Begin, Matches, Statuses, IsExpired
<1> QED
  BY <1>1, <1>9 DEF Service!Next, Matches

\* Every step of the manager is a step of TaskService, or changes nothing that
\* TaskService sees.
LEMMA StepService ==
    ASSUME Inv, LockedExpiry, ServiceInv, [Next]_vars
    PROVE  [Service!Next]_(Service!vars)
<1> USE DEF manager, pool, queue, frames
<1>1. CASE UNCHANGED <<tasks_, taskState, deadline, current>>
  BY <1>1 DEF Service!vars, IsExpired
<1>2. /\ OnlyBusyRun /\ FreshHaveTime
      /\ Matches(0, tasks_, taskState) /\ Matches(ExpiredPrefix, LiveTasks, AfterExpiry)
  BY MatchesNone, MatchesExpired DEF ServiceInv
<1>3. ASSUME NEW th \in Threads, AddStep(th) \/ AddCall(th) \/ AddTimedOut(th) \/ SpuriousWakeup(th)
      PROVE  [Service!Next]_(Service!vars)
  <2>1. pc[th] \in AddPcs => addTask[th] \in Tasks /\ taskState[addTask[th]] = "adding"
    BY DEF Inv, TypeOK, TaskOwnership, AddersOwn
  <2>2. CASE AddResume(th)
    <3>1. /\ addTask[th] \in Tasks /\ taskState[addTask[th]] \in {"new", "adding"}
          /\ Push(th, addTask[th], tasks_, taskState) /\ current' = current
      BY <2>1, <2>2 DEF AddResume, AddPcs
    <3> QED
      BY <1>2, <3>1, PushAccepts
  <2>3. CASE AddTimedOut(th)
    <3>1. addTask[th] \in Tasks /\ taskState[addTask[th]] \in {"new", "adding"}
      BY <2>1, <2>3 DEF AddTimedOut, AddPcs
    <3>2. /\ taskState' = [taskState EXCEPT ![addTask[th]] = "rejected"]
          /\ UNCHANGED <<tasks_, deadline, current>>
      BY <2>3 DEF AddTimedOut
    <3> QED
      BY <1>2, <3>1, <3>2, ThrowRefuses
  <2>4. CASE AddSleepAgain(th) \/ SpuriousWakeup(th)
    BY <1>1, <2>4 DEF AddSleepAgain, SpuriousWakeup
  <2>5. ASSUME NEW t \in Tasks, AddPush(th, t)
        PROVE  Service!Next
    <3>1. /\ taskState[t] \in {"new", "adding"} /\ Push(th, t, LiveTasks, AfterExpiry)
          /\ current' = current
      BY <2>5 DEF AddPush, CallsAdd
    <3> QED
      BY <1>2, <3>1, PushAccepts
  <2>6. ASSUME NEW t \in Tasks, AddContended(th, t) \/ AddNotStarted(th, t)
        PROVE  Service!Next
    <3>1. /\ taskState[t] \in {"new", "adding"}
          /\ taskState' = [taskState EXCEPT ![t] = "rejected"]
          /\ UNCHANGED <<tasks_, deadline, current>>
      BY <2>6 DEF AddContended, AddNotStarted, CallsAdd
    <3> QED
      BY <1>2, <3>1, ThrowRefuses
  <2>7. ASSUME NEW t \in Tasks, NEW timeout \in Timeouts, AddSleep(th, t, timeout)
        PROVE  Service!Next
    <3>1. /\ taskState[t] = "new" /\ tasks_' = LiveTasks
          /\ taskState' = [AfterExpiry EXCEPT ![t] = "adding"]
          /\ UNCHANGED <<deadline, current>>
      BY <2>7 DEF AddSleep, CallsAdd
    <3>2. AfterExpiry[t] = "new" /\ AfterExpiry \in [Tasks -> TaskStates]
      BY <1>2, <3>1, ExpiryOwned DEF Matches
    <3>3. StatusOf("adding") = StatusOf("new")
      BY DEF StatusOf
    <3>4. ASSUME NEW x \in Tasks
          PROVE  StatusOf(taskState'[x]) = StatusOf(AfterExpiry[x])
      BY <3>1, <3>2, <3>3
    <3>5. Statuses(taskState') = Statuses(AfterExpiry)
      BY <3>4 DEF Statuses
    <3> QED
      BY <1>2, <3>1, <3>5, DropDiscards
  <2>8. ASSUME NEW t \in Tasks, NEW timeout \in Timeouts, AddTooMany(th, t, timeout)
        PROVE  Service!Next
    <3>1. /\ taskState[t] \in {"new", "adding"} /\ tasks_' = LiveTasks
          /\ taskState' = [AfterExpiry EXCEPT ![t] = "rejected"]
          /\ UNCHANGED <<deadline, current>>
      BY <2>8 DEF AddTooMany, CallsAdd
    <3> QED
      BY <1>2, <3>1, ThrowRefuses
  <2> QED
    BY <1>3, <2>2, <2>3, <2>4, <2>5, <2>6, <2>7, <2>8 DEF AddStep, AddCall
<1>4. ASSUME NEW w \in Workers, WorkerStep(w)
      PROVE  [Service!Next]_(Service!vars)
  <2>1. CASE WorkerTake(w)
    BY <1>2, <2>1, TakeBegins
  <2>2. CASE WorkerTakeNone(w)
    BY <1>2, <2>2, DropDiscards DEF WorkerTakeNone
  <2>3. ASSUME NEW outcome \in {"COMPLETE", "failed"}, WorkerRan(w, outcome)
        PROVE  Service!Next
    <3> DEFINE t == current[w]
    <3>1. t \in Tasks /\ t # NoTask /\ taskState \in [Tasks -> TaskStates]
      BY <2>3, TasksAssumption DEF WorkerRan, Inv, TypeOK, TaskOwnership, RunnersOwn
    <3>2. /\ taskState' = [taskState EXCEPT ![t] = outcome]
          /\ current' = [current EXCEPT ![w] = NoTask] /\ UNCHANGED <<tasks_, deadline>>
      BY <2>3 DEF WorkerRan
    <3>3. Statuses(taskState') = [Statuses(taskState) EXCEPT ![t] = "done"]
      <4>1. StatusOf(outcome) = "done"
        BY DEF StatusOf
      <4> HIDE DEF t
      <4> QED
        BY <3>1, <3>2, <4>1 DEF Statuses
    <3>4. Service!Finish(w)
      BY <3>1, <3>2, <3>3 DEF Service!Finish, Statuses, IsExpired
    <3> QED
      BY <3>4 DEF Service!Next
  <2> QED
    BY <1>1, <1>4, <2>1, <2>2, <2>3
    DEF WorkerStep, WorkerEnter, WorkerEntered, WorkerNotWanted, WorkerAnnounce, WorkerWait,
        WorkerRetire, WorkerExit, WorkerExited
<1>5. ASSUME NEW c \in Clients, ClientStep(c) \/ ClientCall(c) \/ AddWorkerFails(c)
      PROVE  [Service!Next]_(Service!vars)
  <2>1. CASE RemoveNextPending(c)
    <3>1. taskState' = [taskState EXCEPT ![Head(tasks_)] = "removed"]
      BY <2>1 DEF RemoveNextPending
    <3>2. tasks_ # << >> /\ tasks_' = Tail(tasks_) /\ UNCHANGED <<deadline, current>>
      BY <2>1 DEF RemoveNextPending
    <3> QED
      BY <3>1, <3>2, PopWithdraws
  <2>2. CASE ~RemoveNextPending(c)
    BY <1>1, <1>5, <2>2 DEF ClientStep, AddWorkerSpawn, AddWorkerMap, AddWorkerWait,
         RemoveWorkerLower, RemoveWorkerInvalid, RemoveWorkerWait, RemoveWorkerDone, StopRead,
         StopDone, AddWorkerFails, ClientCall, ExpiredTaskCount,
         SetThreadFactory, SetExpireCallback, Start, PendingTaskCountMax, AddWorker,
         RemoveWorker, StopImpl
  <2> QED
    BY <2>1, <2>2
<1>6. ASSUME NEW t \in Tasks, Expire(t)
      PROVE  Service!Next
  <2>1. {x \in Tasks : IsExpired(x)}' = {x \in Tasks : IsExpired(x)} \cup {t}
    BY <1>6 DEF Expire, IsExpired, Inv, TypeOK
  <2>2. Statuses(taskState)[t] = "pending"
    BY <1>6 DEF Expire, Statuses, StatusOf
  <2>3. Service!Lapse(t)
    BY <1>6, <2>1, <2>2 DEF Expire, Service!Lapse, Statuses
  <2> QED
    BY <2>3 DEF Service!Next
<1> QED
  BY <1>1, <1>3, <1>4, <1>5, <1>6 DEF Next, Environment, vars

\* The manager implements TaskService, for callers that leave RemoveExpiredTasks
\* to it and otherwise call what they like: tasks are accepted once, begun in
\* the order of acceptance, each by one worker, given up only from the front,
\* and not begun after their time.  A worker that takes a task drops the late
\* ones before it in the same step; only RemoveNextPending takes back a task
\* that is not late.
THEOREM ManagerImplementsService ==
    ASSUME LockedExpiry
    PROVE  Spec => ImplementsService
<1>1. Init => Service!Init
  BY DEF Init, Service!Init, StatusOf, IsExpired
<1>2. Init => ServiceInv
  BY DEF Init, ServiceInv, OnlyBusyRun, FreshHaveTime
<1>3. Inv /\ ServiceInv /\ [Next]_vars => ServiceInv'
  BY BusyStep, FreshStep DEF ServiceInv
<1>4. Inv /\ ServiceInv /\ [Next]_vars => [Service!Next]_(Service!vars)
  BY StepService
<1> QED
  BY <1>1, <1>2, <1>3, <1>4, InvHolds, PTL DEF Spec, ImplementsService, Service!Spec
=============================================================================
