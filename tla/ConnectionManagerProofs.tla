----------------------- MODULE ConnectionManagerProofs -----------------------
(***************************************************************************)
(* OnePoolPerString of ConnectionManager, for any strings, any number of   *)
(* pools and any number of threads.                                        *)
(*                                                                         *)
(* The property is not inductive: Open hands out, and GC copies, what the  *)
(* map has, and if a pool stood under a string it was not made for, that   *)
(* would not be the entry that the property speaks of.  Keyed excludes     *)
(* this: an entry's pool was made for the entry's string.  That a sweep    *)
(* erases entries only, and no other's, needs Iterator, and that one GC    *)
(* sweeps at a time, Lock.                                                 *)
(***************************************************************************)
EXTENDS ConnectionManager, WellFoundedInduction, TLAPS

Keyed == \A k \in Strings : connections_[k] # Null => info[connections_[k]] = k

Sweeping(t) == pc[t] \in {"sweeping", "stuck"}

Lock == \A t, u \in Threads : Sweeping(t) /\ Sweeping(u) => t = u

Iterator == \A t \in Threads : pc[t] = "sweeping" /\ it[t] # Null => connections_[it[t]] # Null

Inv == TypeOK /\ Lock /\ Iterator /\ Keyed /\ OnePoolPerString

\* ConnectionManager's constructor: an empty map, and no pool that is alive.
LEMMA InitInv == Init => Inv
<1> SUFFICES ASSUME Init PROVE Inv
  OBVIOUS
<1>1. (CHOOSE k \in Strings : TRUE) \in Strings
  BY StringsAssumption
<1>2. TypeOK
  BY <1>1 DEF Init, TypeOK
<1>3. Keyed
  BY DEF Init, Keyed
<1>4. \A p \in Pools : ~InUse(p)
  BY NullAssumption DEF Init, InUse
<1> QED
  BY <1>2, <1>3, <1>4 DEF Inv, OnePoolPerString, Init, Lock, Iterator, Sweeping

\* begin() and ++ lead to an entry or to end().
LEMMA FirstType ==
    ASSUME NEW part, part \subseteq Strings
    PROVE  /\ First(part) \in Strings \cup {Null}
           /\ part # {} => First(part) \in part
<1>1. CASE part = {}
  BY <1>1 DEF First
<1>2. CASE part # {}
  <2>1. part \subseteq Nat
    BY StringsAssumption
  <2>2. \E x \in part : \A y \in part : ~ (<<y, x>> \in OpToRel(<, Nat))
    BY <1>2, <2>1, NatLessThanWellFounded, WFMin
  <2>3. PICK k \in part : \A j \in part : ~ (<<j, k>> \in OpToRel(<, Nat))
    BY <2>2
  <2>4. \A j \in part : ~ (j < k)
    BY <2>1, <2>3 DEF OpToRel
  <2>5. \A j \in part : k <= j
    BY <2>1, <2>4
  <2> QED
    BY <1>2, <2>5 DEF First
<1> QED
  BY <1>1, <1>2

\* A step that leaves the map and the pools' strings alone, and makes no pool in use that
\* was not in use and not in the map before, preserves the invariant's two parts about pools.
LEMMA MapUntouched ==
    ASSUME Inv, UNCHANGED <<connections_, info>>,
           \A p \in Pools : InUse(p)' => (InUse(p) \/ InMap(p))
    PROVE  Keyed' /\ OnePoolPerString'
<1>1. Keyed'
  BY DEF Inv, Keyed
<1>2. \A p \in Pools : InMap(p) => connections_[info[p]] = p
  BY NullAssumption DEF Inv, Keyed, InMap
<1>3. OnePoolPerString'
  BY <1>2 DEF Inv, OnePoolPerString
<1> QED
  BY <1>1, <1>3

\* Open(str) and Open(info) up to the pool: only OpenInfoNew changes the map, and the pool
\* it puts there is new.
LEMMA OpenInv ==
    ASSUME Inv, NEW t \in Threads,
           \/ \E k \in Strings : Open(t, k) \/ OpenInfo(t, k)
           \/ \E p \in Pools : OpenInfoNew(t, p)
           \/ OpenInfoExisting(t)
    PROVE  Inv'
<1> USE NullAssumption
<1>1. ASSUME NEW k \in Strings, Open(t, k) PROVE Inv'
  <2>1. TypeOK'
    BY <1>1 DEF Inv, TypeOK, Open, At, Found
  <2>3. Lock' /\ Iterator'
    BY <1>1 DEF Inv, TypeOK, Lock, Iterator, Sweeping, Open
  <2>2. \A p \in Pools : InUse(p)' => (InUse(p) \/ InMap(p))
    BY <1>1 DEF Inv, TypeOK, Open, InUse, InMap
  <2> QED
    BY <1>1, <2>1, <2>2, <2>3, MapUntouched DEF Open, Inv
<1>2. ASSUME NEW k \in Strings, OpenInfo(t, k) PROVE Inv'
  <2>1. TypeOK'
    BY <1>2 DEF Inv, TypeOK, OpenInfo, At
  <2>3. Lock' /\ Iterator'
    BY <1>2 DEF Inv, TypeOK, Lock, Iterator, Sweeping, OpenInfo
  <2>2. \A p \in Pools : InUse(p)' => (InUse(p) \/ InMap(p))
    BY <1>2 DEF Inv, TypeOK, OpenInfo, InUse
  <2> QED
    BY <1>2, <2>1, <2>2, <2>3, MapUntouched DEF OpenInfo, Inv
<1>3. ASSUME NEW p \in Pools, OpenInfoNew(t, p) PROVE Inv'
  <2> USE <1>3 DEF OpenInfoNew
  <2>1. TypeOK'
    BY DEF Inv, TypeOK, At
  <2>2. \A k \in Strings : connections_[k] # p
    BY DEF Live, InMap
  <2>3. Keyed'
    BY <2>2 DEF Inv, TypeOK, Keyed
  <2>4. ASSUME NEW q \in Pools, InUse(q)', q # p PROVE InUse(q)
    BY <2>4 DEF Inv, TypeOK, InUse
  <2>5. OnePoolPerString'
    BY <2>2, <2>4 DEF Inv, TypeOK, OnePoolPerString
  <2>6. Lock' /\ Iterator'
    BY DEF Inv, TypeOK, Lock, Iterator, Sweeping, LockFree
  <2> QED
    BY <2>1, <2>3, <2>5, <2>6 DEF Inv
<1>4. ASSUME OpenInfoExisting(t) PROVE Inv'
  <2>1. TypeOK'
    BY <1>4 DEF Inv, TypeOK, OpenInfoExisting, At
  <2>3. Lock' /\ Iterator'
    BY <1>4 DEF Inv, TypeOK, Lock, Iterator, Sweeping, OpenInfoExisting
  <2>2. \A p \in Pools : InUse(p)' => (InUse(p) \/ InMap(p))
    BY <1>4 DEF Inv, TypeOK, OpenInfoExisting, InUse
  <2> QED
    BY <1>4, <2>1, <2>2, <2>3, MapUntouched DEF OpenInfoExisting, Inv
<1> QED
  BY <1>1, <1>2, <1>3, <1>4

\* pool->Open(), Session::Close and the end of Dispose hand references around.
LEMMA SessionInv ==
    ASSUME Inv, NEW t \in Threads, PoolOpen(t) \/ Close(t) \/ Disposed(t)
    PROVE  Inv'
<1> USE NullAssumption
<1>1. TypeOK'
  BY DEF Inv, TypeOK, PoolOpen, Close, Disposed, At
<1>2. \A p \in Pools : InUse(p)' => (InUse(p) \/ InMap(p))
  BY DEF Inv, TypeOK, PoolOpen, Close, Disposed, InUse
<1>3. Lock' /\ Iterator'
  BY DEF Inv, TypeOK, PoolOpen, Close, Disposed, Lock, Iterator, Sweeping
<1> QED
  BY <1>1, <1>2, <1>3, MapUntouched DEF PoolOpen, Close, Disposed, Inv

\* GC's steps but the examination of an entry: the copies it takes are of pools in the map,
\* and the pools it drops are no longer in use.
LEMMA GCInv ==
    ASSUME Inv, NEW t \in Threads,
           GC(t) \/ GCPools(t) \/ GCSweep(t) \/ GCUnlock(t) \/ GCClear(t)
    PROVE  Inv'
<1> USE NullAssumption
<1>1. TypeOK'
  <2>1. CASE GCSweep(t)
    <3>1. First(Entries(connections_)) \in Strings \cup {Null}
      BY FirstType DEF Entries
    <3> HIDE DEF First
    <3> QED
      BY <2>1, <3>1 DEF Inv, TypeOK, GCSweep, At
  <2>2. CASE GC(t) \/ GCPools(t) \/ GCUnlock(t) \/ GCClear(t)
    BY <2>2 DEF Inv, TypeOK, GC, GCPools, GCUnlock, GCClear, At
  <2> QED
    BY <2>1, <2>2
<1>2. \A p \in Pools : InUse(p)' => (InUse(p) \/ InMap(p))
  BY DEF Inv, TypeOK, GC, GCPools, GCSweep, GCUnlock, GCClear, InUse, At
<1>3. Lock' /\ Iterator'
  <2>1. CASE GCSweep(t)
    <3>1. First(Entries(connections_)) \in Entries(connections_) \cup {Null}
      BY FirstType DEF Entries, First
    <3>2. connections_[it'[t]] # Null \/ it'[t] = Null
      BY <2>1, <3>1 DEF Inv, TypeOK, GCSweep, Entries
    <3> QED
      BY <2>1, <3>2 DEF Inv, TypeOK, GCSweep, Lock, Iterator, Sweeping, LockFree
  <2>2. CASE GC(t) \/ GCPools(t) \/ GCUnlock(t) \/ GCClear(t)
    BY <2>2 DEF Inv, TypeOK, GC, GCPools, GCUnlock, GCClear, Lock, Iterator, Sweeping
  <2> QED
    BY <2>1, <2>2
<1> QED
  BY <1>1, <1>2, <1>3, MapUntouched DEF GC, GCPools, GCSweep, GCUnlock, GCClear, Inv

\* The examination of an entry takes it out of the map only if nobody refers to its pool.
LEMMA ExamineInv ==
    ASSUME Inv, NEW t \in Threads, GCExamine(t)
    PROVE  Inv'
<1> USE NullAssumption
<1> DEFINE k == it[t]
           p == connections_[k]
<1>1. /\ k \in Strings
      /\ pc[t] = "sweeping"
      /\ connections_' = Swept(k)
      /\ UNCHANGED <<info, home, pool, str>>
  BY DEF GCExamine, At, Inv, TypeOK
<1>2. p \in Pools
  BY <1>1 DEF GCExamine, Inv, TypeOK, Iterator
<1>3. /\ connections_' \in [Strings -> Pools \cup {Null}]
      /\ \A j \in Strings : connections_'[j] # Null => connections_'[j] = connections_[j]
      /\ \A j \in Strings : j # k => connections_'[j] = connections_[j]
      /\ connections_'[k] # p => ~InUse(p)
  BY <1>1, <1>2 DEF Swept, Inv, TypeOK, HasOneRef, UsedBy, InUse
<1>4. pools' \in [Threads -> SUBSET Pools] /\ \A u \in Threads : u # t => pools'[u] = pools[u]
  BY <1>2 DEF GCExamine, Inv, TypeOK
<1>5. ASSUME NEW j \in Strings
      PROVE  /\ After(j) \in Strings \cup {Null}
             /\ After(j) # Null => (connections_[After(j)] # Null /\ After(j) > j)
  <2> DEFINE part == {i \in Entries(connections_) : i > j}
  <2>1. part \subseteq Strings
    BY DEF Entries
  <2>2. First(part) \in Strings \cup {Null} /\ (part # {} => First(part) \in part)
    BY <2>1, FirstType
  <2>3. part = {} => First(part) = Null
    BY DEF First
  <2> QED
    BY <2>2, <2>3 DEF After, Entries
<1>6. /\ it' \in [Threads -> Strings \cup {Null}]
      /\ \A u \in Threads : u # t => it'[u] = it[u]
      /\ it'[t] # Null => connections_'[it'[t]] # Null
      /\ pc' = pc \/ pc' = [pc EXCEPT ![t] = "stuck"]
  <2>1. CASE After(k) # Null
    <3> DEFINE next == After(After(k))
    <3>1. it' = [it EXCEPT ![t] = next] /\ pc' = pc
      BY <2>1 DEF GCExamine
    <3>2. After(k) \in Strings /\ After(k) > k
      BY <1>1, <1>5, <2>1
    <3>3. next \in Strings \cup {Null} /\ (next # Null => (connections_[next] # Null /\ next > After(k)))
      BY <1>5, <3>2
    <3> HIDE DEF next, k
    <3>4. next # Null => next # k
      <4>1. SUFFICES ASSUME next \in Strings, next # Null PROVE next # k
        BY <3>3
      <4>2. next \in Nat /\ After(k) \in Nat /\ k \in Nat
        BY <1>1, <3>2, <4>1, StringsAssumption
      <4>3. next > After(k) /\ After(k) > k
        BY <3>2, <3>3, <4>1
      <4> HIDE DEF After
      <4> QED
        BY <4>2, <4>3
    <3> QED
      BY <1>3, <3>1, <3>3, <3>4 DEF Inv, TypeOK
  <2>2. CASE After(k) = Null
    <3>1. PastEnd(t, Entries(connections_'))
      BY <1>1, <2>2 DEF GCExamine
    <3> QED
      BY <3>1 DEF PastEnd, Entries, Inv, TypeOK
  <2> QED
    BY <2>1, <2>2
<1> HIDE DEF p, k
<1>7. TypeOK'
  BY <1>1, <1>3, <1>4, <1>6 DEF Inv, TypeOK
<1>8. Lock' /\ Iterator'
  <2>1. \A u \in Threads : u # t => ~Sweeping(u)
    BY <1>1 DEF Inv, Lock, Sweeping
  <2> QED
    BY <1>1, <1>6, <2>1 DEF Inv, TypeOK, Lock, Iterator, Sweeping
<1>9. Keyed'
  BY <1>1, <1>3 DEF Inv, Keyed
<1>10. \A q \in Pools : InUse(q)' => InUse(q)
  BY <1>1, <1>4, <1>6 DEF InUse, Inv, TypeOK
<1>11. OnePoolPerString'
  <2> SUFFICES ASSUME NEW q \in Pools, InUse(q)' PROVE connections_'[info[q]] = q
    BY <1>1 DEF OnePoolPerString
  <2>1. InUse(q) /\ connections_[info[q]] = q /\ info[q] \in Strings
    BY <1>10 DEF Inv, OnePoolPerString, TypeOK
  <2>2. CASE info[q] = k
    <3>1. q = p
      BY <2>1, <2>2 DEF p
    <3> QED
      BY <1>3, <2>1, <2>2, <3>1
  <2> QED
    BY <1>3, <2>1, <2>2
<1> QED
  BY <1>7, <1>8, <1>9, <1>11 DEF Inv

\* Every step preserves the invariant.
LEMMA NextInv == Inv /\ [Next]_vars => Inv'
<1> SUFFICES ASSUME Inv, [Next]_vars PROVE Inv'
  OBVIOUS
<1>1. CASE Next
  BY <1>1, OpenInv, SessionInv, GCInv, ExamineInv DEF Next
<1>2. CASE UNCHANGED vars
  BY <1>2 DEF vars, Inv, TypeOK, Lock, Sweeping, Iterator, Keyed, OnePoolPerString, InUse
<1> QED
  BY <1>1, <1>2

\* The frames of the threads are well formed: a thread holds a reference on its stack exactly
\* while it is between the look-up and pool->Open(), or inside Dispose.
THEOREM TypeCorrect == Spec => []TypeOK
<1>1. Inv => TypeOK
  BY DEF Inv
<1> QED
  BY <1>1, InitInv, NextInv, PTL DEF Spec

\* However Open, Close and GC interleave, a string has at most one pool that a session, a
\* call or a copy of the map refers to, the one the map has for it.
THEOREM OnePoolPerStringHolds == Spec => []OnePoolPerString
<1>1. Inv => OnePoolPerString
  BY DEF Inv
<1> QED
  BY <1>1, InitInv, NextInv, PTL DEF Spec
=============================================================================
