-------------------------- MODULE MCThreadManager --------------------------
(* Instances of ThreadManager for TLC.                                     *)
EXTENDS ThreadManager, TLC

CONSTANTS boss, adder, adder2, w1, w2, t1, t2, t3

Setup == {"SetThreadFactory", "Start", "AddWorker"}

\* One thread manages the pool and another adds tasks.
OneManager ==
    boss :> Setup \cup {"PendingTaskCountMax", "Stop", "Join"}
    @@ adder :> {"Add", "RemoveNextPending"}
OneJoiner == boss :> Setup \cup {"Join"} @@ adder :> {"Add"}

\* The pool is never stopped; two threads compete for places in the queue.
TwoAdders ==
    boss :> Setup \cup {"PendingTaskCountMax"} @@ adder :> {"Add"} @@ adder2 :> {"Add"}

\* The pool shrinks while it runs.
Resizer == boss :> Setup \cup {"RemoveWorker"}

\* Every operation of the interface; two threads manage the pool.
AnyCalls ==
    boss :> Setup \cup {"PendingTaskCountMax", "SetExpireCallback", "Join"}
    @@ adder :> {"Add"}
    @@ adder2 :> {"RemoveNextPending", "RemoveExpiredTasks", "ExpiredTaskCount",
                  "RemoveWorker", "Stop"}

Interchangeable == Permutations(Workers)
=============================================================================
