------------------------------ MODULE OnceInit ------------------------------
(* base/once and base/singleton: threads that call Singleton::GetInstance,    *)
(* each step one access to once_ or instance_, and ShutDown.                  *)
EXTENDS Integers

CONSTANTS
    Callers,
    MaxShutDowns    \* bound on the calls of ShutDown

VARIABLES
    once,       \* once_
    instance,   \* instance_: 0 is nullptr, otherwise the number of the object
    built,      \* how many objects Init has made
    gone,       \* calls of ShutDown
    step,       \* step[c]: what caller c does next
    got         \* got[c]: what its last GetInstance returned
oncevars == <<once, instance, built, gone, step, got>>

OnceStart ==
    /\ once = "UNINITIALIZED" /\ instance = 0 /\ built = 0 /\ gone = 0
    /\ step = [c \in Callers |-> "idle"] /\ got = [c \in Callers |-> 0]

From(c, here, there) == step[c] = here /\ step' = [step EXCEPT ![c] = there]

\* OnceInit: the first load; most calls end here.
GetInstance(c) ==
    /\ From(c, "idle", IF once = "DONE" THEN "return" ELSE "load")
    /\ UNCHANGED <<once, instance, built, gone, got>>
\* OnceInitImpl loads again.
Load(c) ==
    /\ From(c, "load", IF once = "DONE" THEN "return" ELSE "swap")
    /\ UNCHANGED <<once, instance, built, gone, got>>

\* Faulty variant: the closure runs in every thread that finds the state not DONE.
CompareAndSwapLost(c) ==
    /\ From(c, "swap", "closure")
    /\ once' = "EXECUTING_CLOSURE"
    /\ UNCHANGED <<instance, built, gone, got>>

\* Acquire_CompareAndSwap: the one that succeeds runs the closure.
CompareAndSwap(c) ==
    /\ From(c, "swap", CASE once = "UNINITIALIZED" -> "closure"
                         [] once = "EXECUTING_CLOSURE" -> "spin"
                         [] OTHER -> "return")
    /\ once' = IF once = "UNINITIALIZED" THEN "EXECUTING_CLOSURE" ELSE once
    /\ UNCHANGED <<instance, built, gone, got>>
\* Singleton::Init.
Closure(c) ==
    /\ From(c, "closure", "store")
    /\ built' = built + 1 /\ instance' = built'
    /\ UNCHANGED <<once, gone, got>>

Store(c) ==
    /\ From(c, "store", "return")
    /\ once' = "DONE"
    /\ UNCHANGED <<instance, built, gone, got>>

\* Faulty variant: the loop does not load the state again.
SpinStale(c) ==
    /\ From(c, "spin", "spin")
    /\ UNCHANGED <<once, instance, built, gone, got>>

\* SchedYield, then the state is loaded again.
Spin(c) ==
    /\ From(c, "spin", IF once = "EXECUTING_CLOSURE" THEN "spin" ELSE "return")
    /\ UNCHANGED <<once, instance, built, gone, got>>
Return(c) ==
    /\ From(c, "return", "idle")
    /\ got' = [got EXCEPT ![c] = instance]
    /\ UNCHANGED <<once, instance, built, gone>>

\* ShutDown deletes the instance; once_ stays as it is.
ShutDown(c) ==
    /\ step[c] = "idle" /\ gone < MaxShutDowns
    /\ instance' = 0 /\ gone' = gone + 1
    /\ UNCHANGED <<once, built, step, got>>

OnceContinue(c) ==
    Load(c) \/ CompareAndSwap(c) \/ Closure(c) \/ Store(c) \/ Spin(c) \/ Return(c)
OnceNext == \E c \in Callers : OnceContinue(c) \/ GetInstance(c) \/ ShutDown(c)

\* The instance is made at most once, whoever calls, and a caller goes on only when it is
\* there; null is what callers get after a ShutDown and at no other time.
MadeOnce ==
    /\ built <= 1
    /\ \A c \in Callers : step[c] = "return" => built = 1
    /\ gone = 0 => \A c \in Callers : step[c] = "return" => instance = 1
=============================================================================
