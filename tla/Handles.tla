------------------------------ MODULE Handles ------------------------------
(* The handles that own something and give it back when they go: Guard and    *)
(* RWGuard (threading/mutex.h), scoped_ref_ptr (base/ref_counted.h),          *)
(* ScopedGeneric (base/scoped_generic.h) and ThreadLocal                      *)
(* (threading/thread_local.h).  A behaviour exercises one kind of handle.     *)
EXTENDS Integers, FiniteSets

CONSTANTS
    Users,      \* the threads that own handles
    Slots,      \* the handles each of them has
    Things,     \* what is owned: mutexes, objects, file descriptors
    Recursive,  \* the mutexes made with RECURSIVE_INITIALIZER
    Nil         \* nullptr, or the invalid value of the traits

ASSUME HandlesAssumption ==
    IsFiniteSet(Users) /\ IsFiniteSet(Slots) /\ Slots # {} /\ Nil \notin Things

VARIABLES
    kind,       \* the kind of handle
    slot,       \* slot[t][s]: the pointer a handle of thread t has
    holds,      \* holds[x][t]: how often thread t has locked x
    exclusive,  \* exclusive[x]: a read-write mutex is locked for writing
    count,      \* count[x]: ref_count_
    freed,      \* freed[x]: how often x was deleted or freed
    old,        \* old[t]: the old_ptr of an assignment that t has not released yet
    aborted,    \* a CHECK or abort() ended the process
    setFailed   \* history: a pthread_setspecific has failed
hvars == <<kind, slot, holds, exclusive, count, freed, old, aborted, setFailed>>

ThreadLocals == {"default", "destroyonly", "noop"}
Kinds == {"guard", "rwguard", "ref", "generic"} \cup ThreadLocals

HandlesInit ==
    /\ kind \in Kinds
    /\ slot = [t \in Users |-> [s \in Slots |-> Nil]]
    /\ holds = [x \in Things |-> [t \in Users |-> 0]]
    /\ exclusive = [x \in Things |-> FALSE]
    /\ count = [x \in Things |-> 0] /\ freed = [x \in Things |-> 0]
    /\ old = [t \in Users |-> Nil]
    /\ aborted = FALSE /\ setFailed = FALSE

Owners(x) == {h \in Users \X Slots : slot[h[1]][h[2]] = x}
\* Made by new or by the system and not handed to a handle, or handed back by release().
Fresh(x) == Owners(x) = {} /\ freed[x] = 0 /\ count[x] = 0
Put(t, s, x) == slot' = [slot EXCEPT ![t][s] = x]
\* s takes what r has, r is left empty.
Take(t, s, r) == slot' = [slot EXCEPT ![t] = [@ EXCEPT ![r] = Nil, ![s] = slot[t][r]]]
\* delete and Free do nothing to a null pointer or an invalid value.
Free(x) == freed' = [y \in Things |-> IF y = x THEN freed[y] + 1 ELSE freed[y]]
Abort == aborted' = TRUE /\ UNCHANGED slot

(* ------------------------------ Mutex, Guard ------------------------------ *)

CanLock(x, t) == \A u \in Users : holds[x][u] = 0 \/ (x \in Recursive /\ u = t)
LockBy(x, t) == holds' = [holds EXCEPT ![x][t] = @ + 1]
\* What a guard that holds h is left with after release(); 0 when it has nothing.
Unlocked(h, t) == [x \in Things |-> [u \in Users |->
    IF x = h /\ u = t /\ holds[x][u] > 0 THEN holds[x][u] - 1 ELSE holds[x][u]]]
Restless == exclusive' = [x \in Things |-> exclusive[x] /\ \E u \in Users : holds'[x][u] > 0]

\* Guard(value, timeout): Lock waits; TryLock (timeout < 0) and TimedLock (> 0) give up.
NewGuard(t, s, x, timeout) ==
    /\ kind = "guard" /\ slot[t][s] = Nil
    /\ \/ CanLock(x, t) /\ LockBy(x, t) /\ Put(t, s, x)
       \/ ~CanLock(x, t) /\ timeout # 0 /\ UNCHANGED <<holds, slot>>
    /\ UNCHANGED <<kind, exclusive, count, freed, old, aborted, setFailed>>

CanLockRW(x, write) == ~exclusive[x] /\ (write => \A u \in Users : holds[x][u] = 0)

\* RWGuard(value, write, timeout): pthread_rwlock refuses a thread that has it for writing
\* (EDEADLK), which the calls without timeout take for a reason to abort.
NewRWGuard(t, s, x, write, timeout) ==
    LET can == CanLockRW(x, write)
        mine == exclusive[x] /\ holds[x][t] > 0
    IN /\ kind = "rwguard" /\ slot[t][s] = Nil
       /\ \/ /\ can
             /\ Put(t, s, x) /\ LockBy(x, t)
             /\ exclusive' = [exclusive EXCEPT ![x] = write]
             /\ UNCHANGED aborted
          \/ /\ ~can /\ timeout # 0
             /\ UNCHANGED <<slot, holds, exclusive, aborted>>
          \/ mine /\ timeout = 0 /\ Abort /\ UNCHANGED <<holds, exclusive>>
       /\ UNCHANGED <<kind, count, freed, old, setFailed>>

\* release() and the destructors.
ReleaseGuard(t, s) ==
    /\ kind \in {"guard", "rwguard"} /\ slot[t][s] # Nil
    /\ holds' = Unlocked(slot[t][s], t)
    /\ Restless
    /\ Put(t, s, Nil)
    /\ UNCHANGED <<kind, count, freed, old, aborted, setFailed>>

\* operator=(Guard&&): not for the guard itself; what it had is released first.
MoveGuard(t, s, r) ==
    /\ kind \in {"guard", "rwguard"} /\ s # r
    /\ holds' = Unlocked(slot[t][s], t)
    /\ Restless
    /\ Take(t, s, r)
    /\ UNCHANGED <<kind, count, freed, old, aborted, setFailed>>

(* ----------------------------- scoped_ref_ptr ----------------------------- *)

AddRef(n, x) == [y \in Things |-> IF y = x THEN n[y] + 1 ELSE n[y]]
\* Release: the one that brings the count to 0 deletes the object.
DropRef(n, x) == [y \in Things |-> IF y = x THEN n[y] - 1 ELSE n[y]]
FreeAtZero(x) == Free(IF x # Nil /\ count'[x] = 0 THEN x ELSE Nil)

\* scoped_ref_ptr(T* p), and make_scoped_ref_ptr.
NewRef(t, s, x) ==
    /\ kind = "ref" /\ slot[t][s] = Nil /\ Fresh(x)
    /\ Put(t, s, x)
    /\ count' = AddRef(count, x)
    /\ UNCHANGED <<kind, holds, exclusive, freed, old, aborted, setFailed>>

\* The copy constructor; the new pointer may be handed to another thread.
CopyRef(t, s, u, r) ==
    /\ kind = "ref" /\ old[t] = Nil /\ slot[t][s] # Nil /\ slot[u][r] = Nil
    /\ Put(u, r, slot[t][s])
    /\ count' = AddRef(count, slot[t][s])
    /\ UNCHANGED <<kind, holds, exclusive, freed, old, aborted, setFailed>>

\* Faulty variant: the old object is released before the new one is referenced.
AssignRefReleaseFirst(t, s, r) ==
    LET o == slot[t][s]
        released == DropRef(count, o)
    IN /\ kind = "ref" /\ old[t] = Nil
       /\ Free(IF o # Nil /\ released[o] = 0 THEN o ELSE Nil)
       /\ count' = AddRef(released, slot[t][r])
       /\ Put(t, s, slot[t][r])
       /\ UNCHANGED <<kind, holds, exclusive, old, aborted, setFailed>>

\* operator=(T*) and operator=(const scoped_ref_ptr&): the new object is referenced, the
\* pointer is set, and then (FinishAssign) the old object is released.
AssignRef(t, s, r) ==
    /\ kind = "ref" /\ old[t] = Nil
    /\ count' = AddRef(count, slot[t][r])
    /\ Put(t, s, slot[t][r]) /\ old' = [old EXCEPT ![t] = slot[t][s]]
    /\ UNCHANGED <<kind, holds, exclusive, freed, aborted, setFailed>>
FinishAssign(t) ==
    /\ old[t] # Nil
    /\ count' = DropRef(count, old[t])
    /\ FreeAtZero(old[t])
    /\ old' = [old EXCEPT ![t] = Nil]
    /\ UNCHANGED <<kind, slot, holds, exclusive, aborted, setFailed>>

\* operator=(scoped_ref_ptr&&): a temporary takes r's pointer, swaps with s and goes.
MoveRef(t, s, r) ==
    /\ kind = "ref" /\ old[t] = Nil
    /\ Take(t, s, r)
    /\ old' = [old EXCEPT ![t] = IF s = r THEN Nil ELSE slot[t][s]]
    /\ UNCHANGED <<kind, holds, exclusive, count, freed, aborted, setFailed>>

DropRefPtr(t, s) ==
    /\ kind = "ref" /\ old[t] = Nil /\ slot[t][s] # Nil
    /\ count' = DropRef(count, slot[t][s])
    /\ FreeAtZero(slot[t][s])
    /\ Put(t, s, Nil)
    /\ UNCHANGED <<kind, holds, exclusive, old, aborted, setFailed>>

(* ------------------------------ ScopedGeneric ----------------------------- *)

\* reset(value), the constructors (on an empty handle) and the destructor (value invalid):
\* resetting to the value it has aborts.
ResetGeneric(t, s, x) ==
    /\ kind = "generic"
    /\ x = Nil \/ Fresh(x) \/ x = slot[t][s]
    /\ \/ slot[t][s] # Nil /\ slot[t][s] = x /\ Abort /\ UNCHANGED freed
       \/ /\ slot[t][s] = Nil \/ slot[t][s] # x
          /\ Free(slot[t][s]) /\ Put(t, s, x) /\ UNCHANGED aborted
    /\ UNCHANGED <<kind, holds, exclusive, count, old, setFailed>>
\* operator=(ScopedGeneric&&): release() on r, then reset; harmless on itself.
MoveGeneric(t, s, r) ==
    /\ kind = "generic"
    /\ Take(t, s, r)
    /\ Free(IF s = r THEN Nil ELSE slot[t][s])
    /\ UNCHANGED <<kind, holds, exclusive, count, old, aborted, setFailed>>
SwapGeneric(t, s, r) ==
    /\ kind = "generic"
    /\ slot' = [slot EXCEPT ![t] = [@ EXCEPT ![r] = slot[t][s], ![s] = slot[t][r]]]
    /\ UNCHANGED <<kind, holds, exclusive, count, freed, old, aborted, setFailed>>
ReleaseGeneric(t, s) ==
    /\ kind = "generic"
    /\ Put(t, s, Nil)
    /\ UNCHANGED <<kind, holds, exclusive, count, freed, old, aborted, setFailed>>

(* ------------------------------- ThreadLocal ------------------------------ *)

Key == CHOOSE s \in Slots : TRUE
Destroy(x) == Free(IF kind = "noop" THEN Nil ELSE x)
TLUnchanged == UNCHANGED <<kind, holds, exclusive, count, old, aborted>>

\* setImpl: an error of pthread_setspecific, as for a key that was never created, is ignored.
SetImpl(t, x) ==
    \/ Put(t, Key, x) /\ UNCHANGED setFailed
    \/ setFailed' = TRUE /\ UNCHANGED slot

\* get, operator-> and operator*: only the default manager allocates.  What is not stored
\* is the caller's, who does not know of it.
Get(t) ==
    /\ kind = "default" /\ slot[t][Key] = Nil
    /\ \E x \in Things : Fresh(x) /\ SetImpl(t, x)
    /\ UNCHANGED freed /\ TLUnchanged
\* set(obj): the manager replaces, that is, deletes the old object if it is another one,
\* also when the new one is then not stored.
Set(t, x) ==
    /\ kind \in ThreadLocals
    /\ x = Nil \/ Fresh(x) \/ x = slot[t][Key]
    /\ Destroy(IF slot[t][Key] = x THEN Nil ELSE slot[t][Key])
    /\ SetImpl(t, x) /\ TLUnchanged
Clear(t) ==
    /\ kind \in ThreadLocals /\ slot[t][Key] # Nil
    /\ Destroy(slot[t][Key])
    /\ SetImpl(t, Nil) /\ TLUnchanged
\* onThreadExit, for which the system has set the value to null.
ThreadExit(t) ==
    /\ kind \in ThreadLocals /\ slot[t][Key] # Nil
    /\ Destroy(slot[t][Key])
    /\ Put(t, Key, Nil) /\ UNCHANGED setFailed /\ TLUnchanged
\* ~ThreadLocal deletes the key and leaves the objects of all threads.
DeleteKey ==
    /\ kind \in ThreadLocals
    /\ kind' = "deleted"
    /\ UNCHANGED <<slot, holds, exclusive, count, freed, old, aborted, setFailed>>

HandlesStep(t) ==
    \/ \E s \in Slots, x \in Things, timeout \in -1..1 : NewGuard(t, s, x, timeout)
    \/ \E s \in Slots, x \in Things, write \in BOOLEAN, timeout \in -1..1 : NewRWGuard(t, s, x, write, timeout)
    \/ \E s \in Slots : ReleaseGuard(t, s)
    \/ \E s, r \in Slots : MoveGuard(t, s, r)
    \/ \E s \in Slots, x \in Things : NewRef(t, s, x)
    \/ \E u \in Users, s, r \in Slots : CopyRef(t, s, u, r)
    \/ \E s, r \in Slots : AssignRef(t, s, r)
    \/ FinishAssign(t)
    \/ \E s, r \in Slots : MoveRef(t, s, r)
    \/ \E s \in Slots : DropRefPtr(t, s)
    \/ \E s \in Slots, x \in Things \cup {Nil} : ResetGeneric(t, s, x)
    \/ \E s, r \in Slots : MoveGeneric(t, s, r)
    \/ \E s, r \in Slots : SwapGeneric(t, s, r)
    \/ \E s \in Slots : ReleaseGeneric(t, s)
    \/ Get(t)
    \/ \E x \in Things \cup {Nil} : Set(t, x)
    \/ Clear(t)
    \/ ThreadExit(t)
\* What follows a second delete is undefined, and not followed.
HandlesNext ==
    /\ ~aborted /\ \A x \in Things : freed[x] <= 1
    /\ DeleteKey \/ \E t \in Users : HandlesStep(t)

(* ------------------------------- properties ------------------------------- *)

Pending(x) == Cardinality({t \in Users : old[t] = x})

\* What a handle points at was not given back, and nothing is given back twice: a thread has
\* a mutex as often as it has guards for it, a writer has it alone; an object has as many
\* references as there are pointers to it and releases to come, and is deleted with the last
\* of them; a descriptor and a thread's own object have one owner.  A thread-local keeps this
\* only while pthread_setspecific succeeds: set() and clear() have deleted the object before
\* setImpl ignores the failure, so the thread keeps the pointer and deletes it once more.
HandlesExact ==
    \A x \in Things :
        /\ ~setFailed => freed[x] <= 1 /\ (freed[x] = 1 => Owners(x) = {})
        /\ kind \in {"guard", "rwguard"} =>
             \A t \in Users : holds[x][t] = Cardinality({s \in Slots : slot[t][s] = x})
        /\ kind = "guard" \/ exclusive[x] => Cardinality({t \in Users : holds[x][t] > 0}) <= 1
        /\ kind = "guard" /\ x \notin Recursive => Cardinality(Owners(x)) <= 1
        /\ kind = "ref" => count[x] = Cardinality(Owners(x)) + Pending(x)
        /\ kind = "ref" /\ freed[x] = 1 => count[x] = 0
        /\ kind = "generic" \/ (kind \in ThreadLocals /\ ~setFailed) => Cardinality(Owners(x)) <= 1
=============================================================================
