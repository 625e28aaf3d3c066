-------------------------- MODULE ConnectionManager --------------------------
(***************************************************************************)
(* db/common/connection_manager.cc: the process-wide map from connection   *)
(* strings to pools.  A pool lives as long as somebody refers to it: the   *)
(* map, a pooled connection that is in use, a call that is under way, or a *)
(* vector of GC.  What a pool does inside is ConnectionPool's subject.     *)
(*                                                                         *)
(* A connection string is modelled by its rank in the order of the map.    *)
(* Strings without a pool (@pool_size absent or 0) go past the map to the  *)
(* driver and are left out.                                                *)
(***************************************************************************)
EXTENDS Naturals, FiniteSets

CONSTANTS
    Strings,   \* the ranks of the strings that ask for a pool (@pool_size > 0)
    Pools,     \* ConnectionPool objects that can exist at the same time
    Threads,   \* each has one Session
    Null

ASSUME StringsAssumption == Strings \subseteq Nat /\ IsFiniteSet(Strings) /\ Strings # {}
ASSUME NullAssumption == Null \notin Pools /\ Null \notin Strings

VARIABLES
    connections_,  \* the map; Null where there is no entry
    info,          \* ConnectionPool::connection_info_
    home,          \* the pool of the connection that a thread's session holds
    pool,          \* the reference on a thread's stack
    pools,         \* GC's vector: the copies, later the pools that the sweep erased
    it,            \* the iterator of GC's sweep; Null is end()
    str,           \* the argument of Open
    pc

vars == <<connections_, info, home, pool, pools, it, str, pc>>

\* The map, the pools and the threads' frames.
TypeOK ==
    /\ connections_ \in [Strings -> Pools \cup {Null}]
    /\ info \in [Pools -> Strings]
    /\ home \in [Threads -> Pools \cup {Null}]
    /\ pool \in [Threads -> Pools \cup {Null}]
    /\ pools \in [Threads -> SUBSET Pools]
    /\ it \in [Threads -> Strings \cup {Null}]
    /\ str \in [Threads -> Strings]
    /\ pc \in [Threads -> {"idle", "openInfo", "poolOpen", "disposing", "gcPools", "gcSweep",
                           "sweeping", "stuck", "gcClear", "aborted"}]
    /\ \A t \in Threads : pc[t] \in {"poolOpen", "disposing"} <=> pool[t] # Null

Init ==
    /\ connections_ = [k \in Strings |-> Null]
    /\ info = [p \in Pools |-> CHOOSE k \in Strings : TRUE]
    /\ home = [t \in Threads |-> Null]
    /\ pool = [t \in Threads |-> Null]
    /\ pools = [t \in Threads |-> {}]
    /\ it = [t \in Threads |-> Null]
    /\ str = [t \in Threads |-> CHOOSE k \in Strings : TRUE]
    /\ pc = [t \in Threads |-> "idle"]

\* lock_ is held between steps only by a sweep.
LockFree == \A t \in Threads : pc[t] \notin {"sweeping", "stuck"}

\* Thread t stands at label; an assertion that fails ends all of them.
At(t, label) == pc[t] = label /\ \A u \in Threads : pc[u] # "aborted"

\* The threads' references to p, and whether p exists.
UsedBy(p) == {t \in Threads : home[t] = p \/ pool[t] = p \/ p \in pools[t]}
InMap(p) == \E k \in Strings : connections_[k] = p
Live(p) == InMap(p) \/ UsedBy(p) # {}

\* Faulty variant: a reference from a connection in use is not counted.
HasNoCaller(p) == \A t \in Threads : pool[t] # p /\ p \notin pools[t]

\* HasOneRef() of a pool that is in the map.
HasOneRef(p) == UsedBy(p) = {}

-----------------------------------------------------------------------------
Found(k) == connections_[k] # Null

\* Open(str): the pool is looked up under lock_.
Open(t, k) ==
    /\ At(t, "idle")
    /\ LockFree
    /\ pool' = [pool EXCEPT ![t] = connections_[k]]
    /\ str' = [str EXCEPT ![t] = k]
    /\ pc' = [pc EXCEPT ![t] = IF Found(k) THEN "poolOpen" ELSE "openInfo"]
    /\ UNCHANGED <<connections_, info, home, pools, it>>

\* Open(info) called by a user, who has parsed the string before.
OpenInfo(t, k) ==
    /\ At(t, "idle")
    /\ str' = [str EXCEPT ![t] = k]
    /\ pc' = [pc EXCEPT ![t] = "openInfo"]
    /\ UNCHANGED <<connections_, info, home, pool, pools, it>>

\* Open(info) makes the pool of a string that has none ...
OpenInfoNew(t, p) ==
    /\ At(t, "openInfo")
    /\ LockFree
    /\ connections_[str[t]] = Null
    /\ ~Live(p)
    /\ info' = [info EXCEPT ![p] = str[t]]
    /\ connections_' = [connections_ EXCEPT ![str[t]] = p]
    /\ pool' = [pool EXCEPT ![t] = p]
    /\ pc' = [pc EXCEPT ![t] = "poolOpen"]
    /\ UNCHANGED <<home, pools, it, str>>

\* ... and leaves its local pool null if there is one: pool->Open() fails the
\* assertion of scoped_ref_ptr::operator->, which ends the process.
OpenInfoExisting(t) ==
    /\ At(t, "openInfo")
    /\ LockFree
    /\ connections_[str[t]] # Null
    /\ pc' = [pc EXCEPT ![t] = "aborted"]
    /\ UNCHANGED <<connections_, info, home, pool, pools, it, str>>

\* pool->Open(): the new connection refers to the pool.  The one that the
\* session held is disposed of, by a call that holds a reference to its pool.
PoolOpen(t) ==
    /\ At(t, "poolOpen")
    /\ home' = [home EXCEPT ![t] = pool[t]]
    /\ pool' = [pool EXCEPT ![t] = home[t]]
    /\ pc' = [pc EXCEPT ![t] = IF home[t] = Null THEN "idle" ELSE "disposing"]
    /\ UNCHANGED <<connections_, info, pools, it, str>>

Close(t) ==
    /\ At(t, "idle")
    /\ home[t] # Null
    /\ home' = [home EXCEPT ![t] = Null]
    /\ pool' = [pool EXCEPT ![t] = home[t]]
    /\ pc' = [pc EXCEPT ![t] = "disposing"]
    /\ UNCHANGED <<connections_, info, pools, it, str>>

\* Dispose returns and drops its reference; a pool without any is deleted.
Disposed(t) ==
    /\ At(t, "disposing")
    /\ pool' = [pool EXCEPT ![t] = Null]
    /\ pc' = [pc EXCEPT ![t] = "idle"]
    /\ UNCHANGED <<connections_, info, home, pools, it, str>>

\* GC copies the pools ...
GC(t) ==
    /\ At(t, "idle")
    /\ LockFree
    /\ pools' = [pools EXCEPT ![t] = {p \in Pools : InMap(p)}]
    /\ pc' = [pc EXCEPT ![t] = "gcPools"]
    /\ UNCHANGED <<connections_, info, home, pool, it, str>>

\* ... calls their GC() without the lock and drops the copies ...
GCPools(t) ==
    /\ At(t, "gcPools")
    /\ pools' = [pools EXCEPT ![t] = {}]
    /\ pc' = [pc EXCEPT ![t] = "gcSweep"]
    /\ UNCHANGED <<connections_, info, home, pool, it, str>>

Entries(map) == {k \in Strings : map[k] # Null}

\* begin() of a part of the map.
First(part) == IF part = {} THEN Null ELSE CHOOSE k \in part : \A j \in part : k <= j

\* ++ of an iterator that stands at entry k.
After(k) == First({j \in Entries(connections_) : j > k})

\* ... takes lock_ and starts the sweep at begin().
GCSweep(t) ==
    /\ At(t, "gcSweep")
    /\ LockFree
    /\ it' = [it EXCEPT ![t] = First(Entries(connections_))]
    /\ pc' = [pc EXCEPT ![t] = "sweeping"]
    /\ UNCHANGED <<connections_, info, home, pool, pools, str>>

\* What the map has after the sweep has examined entry k.
Swept(k) == IF HasOneRef(connections_[k]) THEN [connections_ EXCEPT ![k] = Null]
            ELSE connections_

\* Undefined behaviour: ++ of end().  It leads from the header of the tree to an
\* entry, which depends on the tree's shape; in an empty tree it does not return.
PastEnd(t, entries) ==
    IF entries = {} THEN /\ it' = [it EXCEPT ![t] = Null]
                         /\ pc' = [pc EXCEPT ![t] = "stuck"]
    ELSE /\ \E k \in entries : it' = [it EXCEPT ![t] = k]
         /\ UNCHANGED pc

\* The body erases the entry if nobody else refers to its pool (the vector then
\* does), and increments the iterator; so does the for statement.
GCExamine(t) ==
    /\ At(t, "sweeping")
    /\ it[t] # Null
    /\ connections_' = Swept(it[t])
    /\ pools' = [pools EXCEPT ![t] = @ \cup IF HasOneRef(connections_[it[t]])
                                             THEN {connections_[it[t]]} ELSE {}]
    /\ IF After(it[t]) # Null
       THEN it' = [it EXCEPT ![t] = After(After(it[t]))] /\ UNCHANGED pc
       ELSE PastEnd(t, Entries(Swept(it[t])))
    /\ UNCHANGED <<info, home, pool, str>>

\* The iterator has arrived at end(): the guard of lock_ goes out of scope ...
GCUnlock(t) ==
    /\ At(t, "sweeping")
    /\ it[t] = Null
    /\ pc' = [pc EXCEPT ![t] = "gcClear"]
    /\ UNCHANGED <<connections_, info, home, pool, pools, it, str>>

\* ... and the pools that were erased are deleted.
GCClear(t) ==
    /\ At(t, "gcClear")
    /\ pools' = [pools EXCEPT ![t] = {}]
    /\ pc' = [pc EXCEPT ![t] = "idle"]
    /\ UNCHANGED <<connections_, info, home, pool, it, str>>

Next ==
    \E t \in Threads :
        \/ \E k \in Strings : Open(t, k) \/ OpenInfo(t, k)
        \/ \E p \in Pools : OpenInfoNew(t, p)
        \/ OpenInfoExisting(t) \/ PoolOpen(t) \/ Close(t) \/ Disposed(t)
        \/ GC(t) \/ GCPools(t) \/ GCSweep(t) \/ GCExamine(t) \/ GCUnlock(t) \/ GCClear(t)

Spec == Init /\ [][Next]_vars

-----------------------------------------------------------------------------
(* Properties.                                                             *)

\* p is of use to somebody: a session, a call under way, or a GC that has copied
\* the map.  (A sweep's vector keeps the pools that it erased only to delete them.)
InUse(p) == \E t \in Threads : \/ home[t] = p
                                \/ pool[t] = p
                                \/ (pc[t] = "gcPools" /\ p \in pools[t])

\* A string has at most one pool that is in use, the one that the map has for it,
\* however Open, Close and GC interleave: GC never takes a pool out of the map
\* that somebody still uses, so @pool_size bounds the idle connections of a
\* string.  It also holds of a sweep that runs past the end of the map.  Until
\* pools.clear() the erased pool still exists beside its successor, unused.
OnePoolPerString == \A p \in Pools : InUse(p) => connections_[info[p]] = p
=============================================================================
