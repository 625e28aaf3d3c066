-------------------------- MODULE PrimitivesProofs --------------------------
(***************************************************************************)
(* MadeOnce, HandlesExact and ThreadsReaped of Primitives, for any number  *)
(* of threads, handles, things, thread objects and ids.  Each is an        *)
(* invariant of one of the three scenes; the other two leave its variables *)
(* alone.                                                                  *)
(***************************************************************************)
EXTENDS Primitives, FiniteSetTheorems, TLAPS

-----------------------------------------------------------------------------
(* Once and Singleton.                                                       *)

\* One caller at a time is between its successful compare-and-swap and its store, the
\* object is made in between, and nobody gets past the others before the store.
OnceInv ==
    /\ once \in {"UNINITIALIZED", "EXECUTING_CLOSURE", "DONE"}
    /\ instance \in Nat /\ built \in 0..1 /\ gone \in Nat
    /\ step \in [Callers -> {"idle", "load", "swap", "closure", "store", "spin", "return"}]
    /\ \A c, d \in Callers :
         step[c] \in {"closure", "store"} /\ step[d] \in {"closure", "store"} => c = d
    /\ \A c \in Callers :
         /\ step[c] \in {"closure", "store"} => once = "EXECUTING_CLOSURE"
         /\ step[c] = "closure" => built = 0
         /\ step[c] = "store" => built = 1
         /\ step[c] = "return" => once = "DONE"
         /\ step[c] = "spin" => once # "UNINITIALIZED"
    /\ once = "UNINITIALIZED" => built = 0
    /\ once = "DONE" => built = 1
    /\ gone = 0 /\ built = 1 => instance = 1

\* Every access to once_ and instance_ keeps it.
LEMMA OnceStep ==
    ASSUME OnceInv, [OnceNext]_oncevars
    PROVE  OnceInv'
<1> USE DEF OnceInv
<1>1. ASSUME NEW c \in Callers, GetInstance(c) \/ Load(c) \/ Spin(c)
      PROVE  OnceInv'
  BY <1>1 DEF GetInstance, Load, Spin, From
<1>2. ASSUME NEW c \in Callers, CompareAndSwap(c)
      PROVE  OnceInv'
  BY <1>2 DEF CompareAndSwap, From
<1>3. ASSUME NEW c \in Callers, Closure(c)
      PROVE  OnceInv'
  BY <1>3 DEF Closure, From
<1>4. ASSUME NEW c \in Callers, Store(c)
      PROVE  OnceInv'
  BY <1>4 DEF Store, From
<1>5. ASSUME NEW c \in Callers, Return(c)
      PROVE  OnceInv'
  BY <1>5 DEF Return, From
<1>6. ASSUME NEW c \in Callers, ShutDown(c)
      PROVE  OnceInv'
  BY <1>6 DEF ShutDown
<1>7. CASE UNCHANGED oncevars
  BY <1>7 DEF oncevars
<1> QED
  BY <1>1, <1>2, <1>3, <1>4, <1>5, <1>6, <1>7 DEF OnceNext, OnceContinue

\* OnceInit runs the closure in one thread and the others wait for it, so
\* Singleton::GetInstance makes one object however many threads call it first.
THEOREM SingletonMadeOnce == Spec => []MadeOnce
<1>1. Init => OnceInv
  BY DEF Init, OnceStart, OnceInv
<1>2. OnceInv /\ [Next]_vars => OnceInv'
  BY OnceStep DEF Next, vars
<1>3. OnceInv => MadeOnce
  BY DEF OnceInv, MadeOnce
<1> QED
  BY <1>1, <1>2, <1>3, PTL DEF Spec

-----------------------------------------------------------------------------
(* Counting.                                                                 *)

\* How many handles h of D point at x.
CountOf(h, D, x) == Cardinality({d \in D : h[d] = x})

\* Some, none, at most one.
LEMMA CountFacts ==
    ASSUME NEW D, IsFiniteSet(D), NEW h, NEW x
    PROVE  /\ CountOf(h, D, x) \in Nat
           /\ CountOf(h, D, x) = 0 <=> \A d \in D : h[d] # x
<1> DEFINE S == {d \in D : h[d] = x}
<1>1. IsFiniteSet(S)
  BY FS_Subset
<1> QED
  BY <1>1, FS_CardinalityType, FS_EmptySet DEF CountOf

\* A set whose members are all the same has at most one.
LEMMA AtMostOne ==
    ASSUME NEW S, \A a, b \in S : a = b
    PROVE  Cardinality(S) <= 1
<1>1. CASE S = {}
  BY <1>1, FS_EmptySet
<1>2. ASSUME NEW a \in S PROVE Cardinality(S) <= 1
  <2>1. S = {a}
    BY <1>2
  <2> QED
    BY <2>1, FS_Singleton
<1> QED
  BY <1>1, <1>2

\* The handles g are the handles h, but for d.
SameBut(g, h, D, d) == \A e \in D : e # d => g[e] = h[e]

\* What setting one handle, d, does to the counts: h before, g after it.
LEMMA CountUpdate ==
    ASSUME NEW D, IsFiniteSet(D), NEW h, NEW g, NEW d \in D, NEW x,
           SameBut(g, h, D, d)
    PROVE  CountOf(g, D, x) =
             CountOf(h, D, x) + (IF g[d] = x THEN 1 ELSE 0) - (IF h[d] = x THEN 1 ELSE 0)
<1> DEFINE S == {e \in D : h[e] = x}
           R == {e \in D : g[e] = x}
<1>1. IsFiniteSet(S) /\ IsFiniteSet(R) /\ Cardinality(S) \in Nat /\ Cardinality(R) \in Nat
  BY FS_Subset, FS_CardinalityType
<1>5. CountOf(h, D, x) = Cardinality(S) /\ CountOf(g, D, x) = Cardinality(R)
  BY DEF CountOf
<1>2. CASE g[d] = x /\ h[d] # x
  <2>1. R = S \cup {d} /\ d \notin S
    BY <1>2 DEF SameBut
  <2> HIDE DEF S, R
  <2> QED
    BY <1>1, <1>2, <1>5, <2>1, FS_AddElement
<1>3. CASE g[d] # x /\ h[d] = x
  <2>1. R = S \ {d} /\ d \in S
    BY <1>3 DEF SameBut
  <2> HIDE DEF S, R
  <2>2. Cardinality(R) = Cardinality(S) - 1
    BY <1>1, <2>1, FS_RemoveElement
  <2> QED
    BY <1>1, <1>3, <1>5, <2>2
<1>4. CASE (g[d] = x /\ h[d] = x) \/ (g[d] # x /\ h[d] # x)
  <2>1. R = S
    BY <1>4 DEF SameBut
  <2> HIDE DEF S, R
  <2> QED
    BY <1>1, <1>4, <1>5, <2>1
<1> QED
  BY <1>2, <1>3, <1>4

\* What a move does to them: d gets what e has, and e is left with something else.
LEMMA CountTake ==
    ASSUME NEW D, IsFiniteSet(D), NEW h, NEW g, NEW d \in D, NEW e \in D, d # e, NEW x,
           g[d] = h[e], g[e] # x, \A a \in D : a # d /\ a # e => g[a] = h[a]
    PROVE  CountOf(g, D, x) = CountOf(h, D, x) - (IF h[d] = x THEN 1 ELSE 0)
<1>1. PICK m : m[e] = g[e] /\ m[d] = h[d] /\ SameBut(m, h, D, e) /\ SameBut(g, m, D, d)
  <2> DEFINE m == [a \in D |-> IF a = e THEN g[e] ELSE h[a]]
  <2>1. m[e] = g[e] /\ m[d] = h[d] /\ SameBut(m, h, D, e) /\ SameBut(g, m, D, d)
    BY DEF SameBut
  <2> QED
    BY <2>1
<1>2. CountOf(m, D, x) =
        CountOf(h, D, x) + (IF m[e] = x THEN 1 ELSE 0) - (IF h[e] = x THEN 1 ELSE 0)
  BY <1>1, CountUpdate
<1>3. CountOf(g, D, x) =
        CountOf(m, D, x) + (IF g[d] = x THEN 1 ELSE 0) - (IF m[d] = x THEN 1 ELSE 0)
  BY <1>1, CountUpdate
<1>4. CountOf(h, D, x) \in Nat /\ CountOf(m, D, x) \in Nat /\ CountOf(g, D, x) \in Nat
  BY CountFacts
<1> QED
  BY <1>1, <1>2, <1>3, <1>4

-----------------------------------------------------------------------------
(* Handles.                                                                  *)

HandleTypes ==
    /\ kind \in Kinds \cup {"deleted"}
    /\ slot \in [Users -> [Slots -> Things \cup {Nil}]]
    /\ holds \in [Things -> [Users -> Nat]]
    /\ exclusive \in [Things -> BOOLEAN]
    /\ count \in [Things -> Int] /\ freed \in [Things -> Nat]
    /\ old \in [Users -> Things \cup {Nil}]

\* The pointers of a thread, and the handles of all threads as one function.
Held(t, x) == CountOf(slot[t], Slots, x)
Flat == [h \in Users \X Slots |-> slot[h[1]][h[2]]]
Own(x) == CountOf(Flat, Users \X Slots, x)

\* The counts of the properties, in these terms.
LEMMA CountsAre ==
    ASSUME NEW x
    PROVE  /\ Cardinality(Owners(x)) = Own(x)
           /\ Pending(x) = CountOf(old, Users, x)
           /\ \A t : Cardinality({s \in Slots : slot[t][s] = x}) = Held(t, x)
<1>1. Owners(x) = {h \in Users \X Slots : Flat[h] = x}
  BY DEF Owners, Flat
<1> QED
  BY <1>1 DEF CountOf, Pending, Held, Own

\* Slots, threads and the handles of all threads are finite.
LEMMA FiniteHandles ==
    IsFiniteSet(Slots) /\ IsFiniteSet(Users) /\ IsFiniteSet(Users \X Slots)
  BY HandlesAssumption, FS_Product

\* Setting a handle changes it and no other.
LEMMA PutFacts ==
    ASSUME HandleTypes, NEW t \in Users, NEW s \in Slots, NEW v \in Things \cup {Nil}, Put(t, s, v)
    PROVE  /\ slot' \in [Users -> [Slots -> Things \cup {Nil}]]
           /\ slot'[t][s] = v
           /\ \A u \in Users, r \in Slots : u # t \/ r # s => slot'[u][r] = slot[u][r]
  BY DEF HandleTypes, Put

\* What it points at then has one handle more, what it pointed at before one less.
LEMMA PutCounts ==
    ASSUME HandleTypes, NEW t \in Users, NEW s \in Slots, NEW v \in Things \cup {Nil}, Put(t, s, v),
           NEW x
    PROVE  /\ Own(x)' = Own(x) + (IF v = x THEN 1 ELSE 0) - (IF slot[t][s] = x THEN 1 ELSE 0)
           /\ CountOf(slot'[t], Slots, x) =
                Held(t, x) + (IF v = x THEN 1 ELSE 0) - (IF slot[t][s] = x THEN 1 ELSE 0)
           /\ \A u \in Users : u # t => CountOf(slot'[u], Slots, x) = Held(u, x)
<1>1. /\ slot'[t][s] = v
      /\ \A u \in Users, r \in Slots : u # t \/ r # s => slot'[u][r] = slot[u][r]
  BY PutFacts
<1>2. CountOf(Flat', Users \X Slots, x) =
        CountOf(Flat, Users \X Slots, x) + (IF v = x THEN 1 ELSE 0)
                                         - (IF slot[t][s] = x THEN 1 ELSE 0)
  <2>1. /\ <<t, s>> \in Users \X Slots /\ Flat[<<t, s>>] = slot[t][s] /\ Flat'[<<t, s>>] = v
        /\ \A e \in Users \X Slots : e # <<t, s>> => Flat'[e] = Flat[e]
    BY <1>1 DEF Flat
  <2>2. CountOf(Flat', Users \X Slots, x) =
          CountOf(Flat, Users \X Slots, x) + (IF Flat'[<<t, s>>] = x THEN 1 ELSE 0)
                                           - (IF Flat[<<t, s>>] = x THEN 1 ELSE 0)
    <3>1. PICK D, h, g, d : D = Users \X Slots /\ h = Flat /\ g = Flat' /\ d = <<t, s>>
      OBVIOUS
    <3>2. d \in D /\ IsFiniteSet(D) /\ SameBut(g, h, D, d)
      BY <2>1, <3>1, FiniteHandles DEF SameBut
    <3>3. CountOf(g, D, x) =
            CountOf(h, D, x) + (IF g[d] = x THEN 1 ELSE 0) - (IF h[d] = x THEN 1 ELSE 0)
      BY ONLY <3>2, CountUpdate
    <3> QED
      BY <3>1, <3>3
  <2> QED
    BY <2>1, <2>2
<1>3. CountOf(slot'[t], Slots, x) =
        Held(t, x) + (IF v = x THEN 1 ELSE 0) - (IF slot[t][s] = x THEN 1 ELSE 0)
  <2>1. \A e \in Slots : e # s => slot'[t][e] = slot[t][e]
    BY <1>1
  <2>2. PICK h, g : h = slot[t] /\ g = slot'[t]
    OBVIOUS
  <2>3. IsFiniteSet(Slots) /\ SameBut(g, h, Slots, s)
    BY <2>1, <2>2, FiniteHandles DEF SameBut
  <2>4. CountOf(g, Slots, x) =
          CountOf(h, Slots, x) + (IF g[s] = x THEN 1 ELSE 0) - (IF h[s] = x THEN 1 ELSE 0)
    BY ONLY s \in Slots, <2>3, CountUpdate
  <2> QED
    BY <1>1, <2>2, <2>4 DEF Held
<1>4. ASSUME NEW u \in Users, u # t
      PROVE  CountOf(slot'[u], Slots, x) = Held(u, x)
  <2>1. {r \in Slots : slot'[u][r] = x} = {r \in Slots : slot[u][r] = x}
    BY <1>1, <1>4
  <2> QED
    BY <2>1 DEF CountOf, Held
<1> QED
  BY <1>2, <1>3, <1>4 DEF Own

\* A move takes what r has to s.
LEMMA TakeFacts ==
    ASSUME HandleTypes, NEW t \in Users, NEW s \in Slots, NEW r \in Slots, Take(t, s, r)
    PROVE  /\ slot' \in [Users -> [Slots -> Things \cup {Nil}]]
           /\ slot'[t][s] = slot[t][r] /\ (s # r => slot'[t][r] = Nil)
           /\ \A u \in Users, q \in Slots : u # t \/ (q # s /\ q # r) => slot'[u][q] = slot[u][q]
  BY DEF HandleTypes, Take

\* After a move only what s pointed at before has one handle less.
LEMMA TakeCounts ==
    ASSUME HandleTypes, NEW t \in Users, NEW s \in Slots, NEW r \in Slots, s # r, Take(t, s, r),
           NEW x \in Things
    PROVE  /\ Own(x)' = Own(x) - (IF slot[t][s] = x THEN 1 ELSE 0)
           /\ \A u \in Users : CountOf(slot'[u], Slots, x) =
                Held(u, x) - (IF u = t /\ slot[t][s] = x THEN 1 ELSE 0)
<1>1. /\ slot'[t][s] = slot[t][r] /\ slot'[t][r] = Nil /\ Nil # x
      /\ \A u \in Users, q \in Slots : u # t \/ (q # s /\ q # r) => slot'[u][q] = slot[u][q]
  BY TakeFacts, HandlesAssumption
<1>2. CountOf(Flat', Users \X Slots, x) =
        CountOf(Flat, Users \X Slots, x) - (IF slot[t][s] = x THEN 1 ELSE 0)
  <2>1. /\ <<t, s>> \in Users \X Slots /\ <<t, r>> \in Users \X Slots /\ <<t, s>> # <<t, r>>
        /\ Flat[<<t, s>>] = slot[t][s]
        /\ Flat'[<<t, s>>] = Flat[<<t, r>>] /\ Flat'[<<t, r>>] # x
        /\ \A a \in Users \X Slots : a # <<t, s>> /\ a # <<t, r>> => Flat'[a] = Flat[a]
    BY <1>1 DEF Flat
  <2>2. CountOf(Flat', Users \X Slots, x) =
          CountOf(Flat, Users \X Slots, x) - (IF Flat[<<t, s>>] = x THEN 1 ELSE 0)
    <3>1. PICK D, h, g, d, e : /\ D = Users \X Slots /\ h = Flat /\ g = Flat'
                               /\ d = <<t, s>> /\ e = <<t, r>>
      OBVIOUS
    <3>2. /\ d \in D /\ e \in D /\ d # e /\ IsFiniteSet(D) /\ g[d] = h[e] /\ g[e] # x
          /\ \A a \in D : a # d /\ a # e => g[a] = h[a]
      BY <2>1, <3>1, FiniteHandles
    <3>3. CountOf(g, D, x) = CountOf(h, D, x) - (IF h[d] = x THEN 1 ELSE 0)
      BY ONLY <3>2, CountTake
    <3> QED
      BY <3>1, <3>3
  <2> QED
    BY <2>1, <2>2
<1>3. ASSUME NEW u \in Users
      PROVE  CountOf(slot'[u], Slots, x) =
                Held(u, x) - (IF u = t /\ slot[t][s] = x THEN 1 ELSE 0)
  <2>1. CASE u = t
    <3>1. /\ slot'[t][s] = slot[t][r] /\ slot'[t][r] # x
          /\ \A a \in Slots : a # s /\ a # r => slot'[t][a] = slot[t][a]
      BY <1>1
    <3>2. CountOf(slot'[t], Slots, x) =
            CountOf(slot[t], Slots, x) - (IF slot[t][s] = x THEN 1 ELSE 0)
      <4>1. PICK h, g : h = slot[t] /\ g = slot'[t]
        OBVIOUS
      <4>2. /\ IsFiniteSet(Slots) /\ g[s] = h[r] /\ g[r] # x
            /\ \A a \in Slots : a # s /\ a # r => g[a] = h[a]
        BY <3>1, <4>1, FiniteHandles
      <4>3. CountOf(g, Slots, x) = CountOf(h, Slots, x) - (IF h[s] = x THEN 1 ELSE 0)
        BY ONLY s \in Slots, r \in Slots, s # r, <4>2, CountTake
      <4> QED
        BY <4>1, <4>3
    <3> QED
      BY <2>1, <3>2 DEF Held
  <2>2. CASE u # t
    <3>1. {q \in Slots : slot'[u][q] = x} = {q \in Slots : slot[u][q] = x}
      BY <1>1, <2>2
    <3>2. CountOf(slot'[u], Slots, x) = Held(u, x)
      BY <3>1 DEF CountOf, Held
    <3>3. Held(u, x) \in Nat
      BY CountFacts, FiniteHandles DEF Held
    <3> QED
      BY <2>2, <3>2, <3>3
  <2> QED
    BY <2>1, <2>2
<1> QED
  BY <1>2, <1>3 DEF Own

-----------------------------------------------------------------------------
(* The invariant of the handles.                                             *)

\* A thread has locked a mutex once for each of its guards.
GuardsHold ==
    kind \in {"guard", "rwguard"} =>
        \A x \in Things : freed[x] = 0 /\ \A t \in Users : holds[x][t] = Held(t, x)
\* Who has a mutex, or has a read-write mutex for writing, has it alone.
HoldsAlone ==
    \A x \in Things : kind = "guard" \/ exclusive[x] =>
        \A t, u \in Users : holds[x][t] > 0 /\ holds[x][u] > 0 => t = u
\* Two handles never have the same thing, where it is not meant to be shared.
SoleOwner ==
    \A x \in Things : (kind = "guard" /\ x \notin Recursive) \/ kind \in {"generic"} \cup ThreadLocals =>
        \A t, u \in Users, s, r \in Slots : slot[t][s] = x /\ slot[u][r] = x => t = u /\ s = r
\* ref_count_ counts the pointers and the releases to come.
RefsCounted ==
    kind = "ref" =>
        \A x \in Things : /\ count[x] = Own(x) + CountOf(old, Users, x)
                          /\ freed[x] = 1 => count[x] = 0
\* What was given back was so once, and no handle has it.
FreedOnce ==
    \A x \in Things : /\ freed[x] <= 1
                      /\ freed[x] = 1 => \A t \in Users, s \in Slots : slot[t][s] # x
\* Only the assignments of scoped_ref_ptr have something left to release.
OldOfRefs == kind # "ref" => \A t \in Users : old[t] = Nil

HandleInv == HandleTypes /\ GuardsHold /\ HoldsAlone /\ SoleOwner /\ RefsCounted /\ FreedOnce /\ OldOfRefs

\* Held is a number, positive when there is a handle.
LEMMA HeldFacts ==
    ASSUME NEW t, NEW x
    PROVE  Held(t, x) \in Nat /\ (Held(t, x) = 0 <=> \A s \in Slots : slot[t][s] # x)
  BY FiniteHandles, CountFacts DEF Held

\* A lock taken for a new guard.
LEMMA LockStep ==
    ASSUME HandleInv, NEW t \in Users, NEW s \in Slots, NEW x \in Things, slot[t][s] = Nil,
           kind \in {"guard", "rwguard"},
           Put(t, s, x), LockBy(x, t), UNCHANGED <<kind, freed, count, old>>,
           exclusive' \in [Things -> BOOLEAN],
           kind = "guard" => CanLock(x, t) /\ UNCHANGED exclusive,
           kind = "rwguard" =>
             /\ ~exclusive[x] /\ (exclusive'[x] => \A u \in Users : holds[x][u] = 0)
             /\ \A y \in Things : y # x => exclusive'[y] = exclusive[y]
    PROVE  HandleInv'
<1>1. /\ HandleTypes /\ Nil \notin Things
      /\ \A y \in Things : freed[y] = 0 /\ \A u \in Users : holds[y][u] = Held(u, y)
  BY HandlesAssumption DEF HandleInv, GuardsHold
<1>2. /\ slot' \in [Users -> [Slots -> Things \cup {Nil}]] /\ slot'[t][s] = x
      /\ \A u \in Users, r \in Slots : u # t \/ r # s => slot'[u][r] = slot[u][r]
  BY <1>1, PutFacts
<1>3. /\ holds' \in [Things -> [Users -> Nat]]
      /\ \A y \in Things, u \in Users :
           holds'[y][u] = holds[y][u] + (IF y = x /\ u = t THEN 1 ELSE 0)
  BY <1>1 DEF LockBy, HandleTypes
<1>4. HandleTypes'
  BY <1>1, <1>2, <1>3 DEF HandleTypes
<1>5. GuardsHold'
  <2>1. ASSUME NEW y \in Things, NEW u \in Users
        PROVE  CountOf(slot'[u], Slots, y) = holds'[y][u]
    <3>1. CountOf(slot'[u], Slots, y) = Held(u, y) + (IF u = t /\ x = y THEN 1 ELSE 0)
                                                   - (IF u = t /\ slot[t][s] = y THEN 1 ELSE 0)
      <4>1. x \in Things \cup {Nil} /\ Held(u, y) \in Nat
        BY HeldFacts
      <4>2. CASE u = t
        BY <1>1, <4>1, <4>2, PutCounts
      <4>3. CASE u # t
        <5>1. CountOf(slot'[u], Slots, y) = Held(u, y)
          BY <1>1, <4>1, <4>3, PutCounts
        <5> QED
          BY <4>1, <4>3, <5>1
      <4> QED
        BY <4>2, <4>3
    <3>2. Held(u, y) = holds[y][u] /\ holds[y][u] \in Nat
      BY <1>1 DEF HandleTypes
    <3> QED
      BY <1>1, <1>3, <3>1, <3>2
  <2> QED
    BY <1>1, <2>1 DEF GuardsHold, Held
<1>6. HoldsAlone'
  <2>1. ASSUME NEW y \in Things, kind = "guard" \/ exclusive'[y], NEW a \in Users, NEW b \in Users,
               holds'[y][a] > 0, holds'[y][b] > 0
        PROVE  a = b
    <3>1. CASE y # x
      BY <1>3, <2>1, <3>1 DEF HandleInv, HoldsAlone, HandleTypes
    <3>2. CASE y = x
      <4>1. \A u \in Users : u # t => holds[x][u] = 0
        BY <2>1, <3>2 DEF CanLock
      <4> QED
        BY <1>3, <2>1, <3>2, <4>1
    <3> QED
      BY <3>1, <3>2
  <2> QED
    BY <2>1 DEF HoldsAlone
<1>7. SoleOwner'
  <2>1. ASSUME NEW y \in Things, kind = "guard", y \notin Recursive
        PROVE  \A a, b \in Users, p, q \in Slots : slot'[a][p] = y /\ slot'[b][q] = y => a = b /\ p = q
    <3>1. CASE y # x
      BY <1>2, <2>1, <3>1 DEF HandleInv, SoleOwner
    <3>2. CASE y = x
      <4>1. \A u \in Users : Held(u, x) = 0
        BY <1>1, <2>1, <3>2 DEF CanLock
      <4>2. \A u \in Users, r \in Slots : slot[u][r] # x
        BY <4>1, HeldFacts
      <4> QED
        BY <1>2, <3>2, <4>2
    <3> QED
      BY <3>1, <3>2
  <2>2. kind \notin {"generic"} \cup ThreadLocals
    BY DEF ThreadLocals
  <2> QED
    BY <2>1, <2>2 DEF SoleOwner
<1>8. RefsCounted' /\ FreedOnce' /\ OldOfRefs'
  BY <1>1 DEF RefsCounted, FreedOnce, HandleInv, OldOfRefs
<1> QED
  BY <1>4, <1>5, <1>6, <1>7, <1>8 DEF HandleInv

\* A guard gives its lock back, by going or because another one is moved to it.
LEMMA UnlockStep ==
    ASSUME HandleInv, NEW t \in Users, NEW s \in Slots, kind \in {"guard", "rwguard"},
           holds' = Unlocked(slot[t][s], t), Restless, UNCHANGED <<kind, freed, count, old>>,
           Put(t, s, Nil) \/ \E r \in Slots : s # r /\ Take(t, s, r)
    PROVE  HandleInv'
<1>1. /\ HandleTypes /\ Nil \notin Things
      /\ \A y \in Things : freed[y] = 0 /\ \A u \in Users : holds[y][u] = Held(u, y)
  BY HandlesAssumption DEF HandleInv, GuardsHold
<1>2. /\ slot' \in [Users -> [Slots -> Things \cup {Nil}]]
      /\ \A y \in Things, u \in Users : CountOf(slot'[u], Slots, y) =
           Held(u, y) - (IF u = t /\ slot[t][s] = y THEN 1 ELSE 0)
      /\ SoleOwner'
  <2>1. CASE Put(t, s, Nil)
    <3>1. /\ slot' \in [Users -> [Slots -> Things \cup {Nil}]] /\ slot'[t][s] = Nil
          /\ \A u \in Users, r \in Slots : u # t \/ r # s => slot'[u][r] = slot[u][r]
      BY <1>1, <2>1, PutFacts
    <3>2. ASSUME NEW y \in Things, NEW u \in Users
          PROVE  CountOf(slot'[u], Slots, y) = Held(u, y) - (IF u = t /\ slot[t][s] = y THEN 1 ELSE 0)
      <4>1. CountOf(slot'[u], Slots, y) = Held(u, y) + (IF u = t /\ Nil = y THEN 1 ELSE 0)
                                                     - (IF u = t /\ slot[t][s] = y THEN 1 ELSE 0)
        <5>1. Held(u, y) \in Nat
          BY HeldFacts
        <5>2. CASE u = t
          BY <1>1, <2>1, <5>1, <5>2, PutCounts
        <5>3. CASE u # t
          <6>1. CountOf(slot'[u], Slots, y) = Held(u, y)
            BY <1>1, <2>1, <5>3, PutCounts
          <6> QED
            BY <5>1, <5>3, <6>1
        <5> QED
          BY <5>2, <5>3
      <4> QED
        BY <1>1, <4>1, HeldFacts
    <3>3. SoleOwner'
      BY <1>1, <3>1 DEF HandleInv, SoleOwner
    <3> QED
      BY <3>1, <3>2, <3>3
  <2>2. ASSUME NEW r \in Slots, s # r, Take(t, s, r)
        PROVE  /\ slot' \in [Users -> [Slots -> Things \cup {Nil}]]
               /\ \A y \in Things, u \in Users : CountOf(slot'[u], Slots, y) =
                    Held(u, y) - (IF u = t /\ slot[t][s] = y THEN 1 ELSE 0)
               /\ SoleOwner'
    <3>1. /\ slot' \in [Users -> [Slots -> Things \cup {Nil}]]
          /\ slot'[t][s] = slot[t][r] /\ slot'[t][r] = Nil
          /\ \A u \in Users, q \in Slots : u # t \/ (q # s /\ q # r) => slot'[u][q] = slot[u][q]
      BY <1>1, <2>2, TakeFacts
    <3>2. \A y \in Things, u \in Users : CountOf(slot'[u], Slots, y) =
            Held(u, y) - (IF u = t /\ slot[t][s] = y THEN 1 ELSE 0)
      BY <1>1, <2>2, TakeCounts
    <3>3. SoleOwner'
      BY <1>1, <3>1 DEF HandleInv, SoleOwner
    <3> QED
      BY <3>1, <3>2, <3>3
  <2> QED
    BY <2>1, <2>2
<1>3. /\ holds' \in [Things -> [Users -> Nat]]
      /\ \A y \in Things, u \in Users :
           holds'[y][u] = IF y = slot[t][s] /\ u = t /\ holds[y][u] > 0 THEN holds[y][u] - 1 ELSE holds[y][u]
  BY <1>1 DEF Unlocked, HandleTypes
<1>4. /\ exclusive' \in [Things -> BOOLEAN] /\ \A y \in Things : exclusive'[y] => exclusive[y]
  BY <1>1 DEF Restless, HandleTypes
<1>5. HandleTypes'
  BY <1>1, <1>2, <1>3, <1>4 DEF HandleTypes
<1>6. GuardsHold'
  <2>1. ASSUME NEW y \in Things, NEW u \in Users
        PROVE  CountOf(slot'[u], Slots, y) = holds'[y][u]
    <3>1. holds[y][u] = Held(u, y) /\ holds[y][u] \in Nat
      BY <1>1 DEF HandleTypes
    <3>2. u = t /\ slot[t][s] = y => Held(u, y) # 0
      BY HeldFacts
    <3> QED
      BY <1>2, <1>3, <3>1, <3>2
  <2> QED
    BY <1>1, <2>1 DEF GuardsHold, Held
<1>7. HoldsAlone'
  BY <1>1, <1>3, <1>4 DEF HandleInv, HoldsAlone, HandleTypes
<1>8. RefsCounted' /\ FreedOnce' /\ OldOfRefs'
  BY <1>1 DEF RefsCounted, FreedOnce, HandleInv, OldOfRefs
<1> QED
  BY <1>2, <1>5, <1>6, <1>7, <1>8 DEF HandleInv

-----------------------------------------------------------------------------
(* scoped_ref_ptr.                                                           *)

SetOld(t, w) == old' = [old EXCEPT ![t] = w]

\* Setting what a thread still has to release.
LEMMA OldCounts ==
    ASSUME HandleTypes, NEW t \in Users, NEW w \in Things \cup {Nil}, SetOld(t, w), NEW x
    PROVE  /\ old' \in [Users -> Things \cup {Nil}]
           /\ CountOf(old', Users, x) =
                CountOf(old, Users, x) + (IF w = x THEN 1 ELSE 0) - (IF old[t] = x THEN 1 ELSE 0)
<1>1. old' \in [Users -> Things \cup {Nil}] /\ old'[t] = w
  BY DEF HandleTypes, SetOld
<1>2. PICK g, h : g = old' /\ h = old
  OBVIOUS
<1>3. IsFiniteSet(Users) /\ SameBut(g, h, Users, t)
  BY <1>2, FiniteHandles DEF SameBut, HandleTypes, SetOld
<1>4. CountOf(g, Users, x) =
        CountOf(h, Users, x) + (IF g[t] = x THEN 1 ELSE 0) - (IF h[t] = x THEN 1 ELSE 0)
  BY ONLY t \in Users, <1>3, CountUpdate
<1> QED
  BY <1>1, <1>2, <1>4

\* The count of all pointers is a number, positive when there is one: of f, or of slot.
LEMMA FlatFacts ==
    ASSUME NEW f, NEW F, F = [h \in Users \X Slots |-> f[h[1]][h[2]]], NEW x
    PROVE  /\ CountOf(F, Users \X Slots, x) \in Nat
           /\ CountOf(F, Users \X Slots, x) = 0 <=> \A t \in Users, s \in Slots : f[t][s] # x
<1>1. /\ CountOf(F, Users \X Slots, x) \in Nat
      /\ CountOf(F, Users \X Slots, x) = 0 <=> \A h \in Users \X Slots : F[h] # x
  BY FiniteHandles, CountFacts
<1>2. ASSUME \A h \in Users \X Slots : F[h] # x, NEW t \in Users, NEW s \in Slots
      PROVE  f[t][s] # x
  <2>1. <<t, s>> \in Users \X Slots /\ F[<<t, s>>] = f[t][s]
    OBVIOUS
  <2> QED
    BY <1>2, <2>1
<1>3. ASSUME \A t \in Users, s \in Slots : f[t][s] # x, NEW h \in Users \X Slots
      PROVE  F[h] # x
  <2>1. F[h] = f[h[1]][h[2]] /\ h[1] \in Users /\ h[2] \in Slots
    OBVIOUS
  <2> QED
    BY <1>3, <2>1
<1> QED
  BY <1>1, <1>2, <1>3

\* Pointers and releases to come are numbers, zero when there is none.
LEMMA RefFacts ==
    ASSUME NEW x
    PROVE  /\ Own(x) \in Nat
           /\ Own(x) = 0 <=> \A t \in Users, s \in Slots : slot[t][s] # x
           /\ CountOf(old, Users, x) \in Nat
           /\ CountOf(old, Users, x) = 0 <=> \A t \in Users : old[t] # x
<1>1. Flat = [h \in Users \X Slots |-> slot[h[1]][h[2]]]
  BY DEF Flat
<1>2. /\ Own(x) \in Nat
      /\ Own(x) = 0 <=> \A t \in Users, s \in Slots : slot[t][s] # x
  BY ONLY <1>1, FlatFacts DEF Own
<1>3. CountOf(old, Users, x) \in Nat /\ (CountOf(old, Users, x) = 0 <=> \A t \in Users : old[t] # x)
  BY FiniteHandles, CountFacts
<1> QED
  BY <1>2, <1>3

\* It is enough to count.
LEMMA RefKeeps ==
    ASSUME HandleInv, kind = "ref", HandleTypes', UNCHANGED <<kind, holds, exclusive>>, RefsCounted',
           \A x \in Things : freed'[x] <= 1
    PROVE  HandleInv'
<1>1. GuardsHold' /\ SoleOwner' /\ OldOfRefs'
  BY DEF GuardsHold, SoleOwner, OldOfRefs, ThreadLocals
<1>2. HoldsAlone'
  BY DEF HandleInv, HoldsAlone
<1>3. ASSUME NEW x \in Things, freed'[x] = 1, NEW t \in Users, NEW s \in Slots
      PROVE  slot'[t][s] # x
  <2>1. /\ Own(x)' \in Nat /\ CountOf(old', Users, x) \in Nat
        /\ Own(x)' = 0 => slot'[t][s] # x
    <3>1. Flat' = [h \in Users \X Slots |-> slot'[h[1]][h[2]]]
      BY DEF Flat
    <3> QED
      BY <3>1, FiniteHandles, CountFacts, FlatFacts DEF Own
  <2>2. Own(x)' + CountOf(old', Users, x) = 0
    BY <1>3 DEF RefsCounted
  <2> QED
    BY <2>1, <2>2
<1> QED
  BY <1>1, <1>2, <1>3 DEF HandleInv, FreedOnce

\* Release deletes the object with its last reference, and not before.
LEMMA ReleaseFacts ==
    ASSUME HandleInv, kind = "ref", NEW o \in Things, count' = DropRef(count, o), FreeAtZero(o),
           count[o] > 0
    PROVE  /\ count' \in [Things -> Int] /\ freed' \in [Things -> Nat]
           /\ \A x \in Things : count'[x] = count[x] - (IF o = x THEN 1 ELSE 0)
           /\ \A x \in Things : freed'[x] <= 1 /\ (freed'[x] = 1 => count'[x] = 0)
<1>1. /\ o # Nil /\ count \in [Things -> Int] /\ freed \in [Things -> Nat]
      /\ \A x \in Things : freed[x] <= 1 /\ (freed[x] = 1 => count[x] = 0)
  BY HandlesAssumption DEF HandleInv, HandleTypes, FreedOnce, RefsCounted
<1>2. /\ count' \in [Things -> Int]
      /\ \A x \in Things : count'[x] = count[x] - (IF o = x THEN 1 ELSE 0)
  BY <1>1 DEF DropRef
<1>3. CASE count'[o] = 0
  <2>1. \A x \in Things : freed'[x] = IF x = o THEN freed[x] + 1 ELSE freed[x]
    BY <1>1, <1>3 DEF FreeAtZero, Free
  <2>2. freed' \in [Things -> Nat]
    BY <1>1, <1>3 DEF FreeAtZero, Free
  <2>3. freed[o] = 0
    BY <1>1
  <2>4. ASSUME NEW x \in Things
        PROVE  freed'[x] <= 1 /\ (freed'[x] = 1 => count'[x] = 0)
    <3>1. CASE x = o
      BY <1>3, <2>1, <2>3, <3>1
    <3>2. CASE x # o
      <4>1. freed'[x] = freed[x] /\ count'[x] = count[x]
        BY <1>1, <1>2, <2>1, <3>2
      <4> QED
        BY <1>1, <4>1
    <3> QED
      BY <3>1, <3>2
  <2> QED
    BY <1>2, <2>2, <2>4
<1>4. CASE count'[o] # 0
  <2>1. freed' \in [Things -> Nat] /\ \A x \in Things : freed'[x] = freed[x]
    BY <1>1, <1>4, HandlesAssumption DEF FreeAtZero, Free
  <2> QED
    BY <1>1, <1>2, <2>1
<1> QED
  BY <1>3, <1>4

\* Every use of a scoped_ref_ptr keeps the count.
LEMMA RefStep ==
    ASSUME HandleInv, NEW t \in Users,
           \/ \E s \in Slots, x \in Things : NewRef(t, s, x)
           \/ \E u \in Users, s, r \in Slots : CopyRef(t, s, u, r)
           \/ \E s, r \in Slots : AssignRef(t, s, r)
           \/ FinishAssign(t)
           \/ \E s, r \in Slots : MoveRef(t, s, r)
           \/ \E s \in Slots : DropRefPtr(t, s)
    PROVE  HandleInv'
<1> DEFINE due(x) == CountOf(old, Users, x)
<1>1. /\ HandleTypes /\ Nil \notin Things
      /\ slot \in [Users -> [Slots -> Things \cup {Nil}]] /\ old \in [Users -> Things \cup {Nil}]
      /\ count \in [Things -> Int] /\ freed \in [Things -> Nat]
  BY HandlesAssumption DEF HandleInv, HandleTypes
<1>2. \A x \in Things : Own(x) \in Nat /\ due(x) \in Nat
  BY RefFacts
<1> HIDE DEF due
<1>3. kind = "ref" => \A x \in Things :
        /\ count[x] = Own(x) + due(x) /\ (freed[x] = 1 => count[x] = 0) /\ freed[x] <= 1
        /\ freed[x] = 1 => \A u \in Users, s \in Slots : slot[u][s] # x
  BY DEF HandleInv, RefsCounted, FreedOnce, due
\* The counts fit and nothing with a count was deleted.
<1>4. ASSUME kind = "ref", UNCHANGED <<kind, holds, exclusive>>,
             slot' \in [Users -> [Slots -> Things \cup {Nil}]], old' \in [Users -> Things \cup {Nil}],
             count' \in [Things -> Int], freed' \in [Things -> Nat],
             \A x \in Things : /\ count'[x] = Own(x)' + due(x)'
                               /\ freed'[x] <= 1 /\ (freed'[x] = 1 => count'[x] = 0)
      PROVE  HandleInv'
  <2>1. HandleTypes'
    BY <1>1, <1>4 DEF HandleTypes
  <2>2. RefsCounted'
    BY <1>4 DEF RefsCounted, due
  <2> QED
    BY <1>4, <2>1, <2>2, RefKeeps
\* A pointer is made of a new object or copied.
<1>5. ASSUME kind = "ref", NEW u \in Users, NEW s \in Slots, NEW v \in Things, slot[u][s] = Nil,
             Put(u, s, v), count' = AddRef(count, v), freed[v] # 1,
             UNCHANGED <<kind, holds, exclusive, freed, old>>
      PROVE  HandleInv'
  <2>1. slot' \in [Users -> [Slots -> Things \cup {Nil}]]
    BY <1>1, <1>5, PutFacts
  <2>2. ASSUME NEW x \in Things
        PROVE  Own(x)' = Own(x) + (IF v = x THEN 1 ELSE 0) /\ due(x)' = due(x)
    <3>1. Own(x)' = Own(x) + (IF v = x THEN 1 ELSE 0) - (IF slot[u][s] = x THEN 1 ELSE 0)
      <4>1. HandleTypes /\ v \in Things \cup {Nil} /\ Put(u, s, v)
        BY <1>1, <1>5
      <4> QED
        BY ONLY u \in Users, s \in Slots, <4>1, PutCounts
    <3> QED
      BY <1>1, <1>2, <1>5, <3>1 DEF due
  <2>3. /\ count' \in [Things -> Int]
        /\ \A x \in Things : count'[x] = count[x] + (IF v = x THEN 1 ELSE 0)
    BY <1>1, <1>5 DEF AddRef
  <2> QED
    BY <1>1, <1>2, <1>3, <1>4, <1>5, <2>1, <2>2, <2>3
<1>6. ASSUME NEW s \in Slots, NEW x \in Things, NewRef(t, s, x)
      PROVE  HandleInv'
  BY <1>5, <1>6 DEF NewRef, Fresh
<1>7. ASSUME NEW u \in Users, NEW s \in Slots, NEW r \in Slots, CopyRef(t, s, u, r)
      PROVE  HandleInv'
  <2>1. slot[t][s] \in Things /\ kind = "ref"
    BY <1>1, <1>7 DEF CopyRef
  <2>2. freed[slot[t][s]] # 1
    BY <1>3, <2>1
  <2> QED
    BY <1>5, <1>7, <2>1, <2>2 DEF CopyRef
<1>8. ASSUME NEW s \in Slots, NEW r \in Slots, AssignRef(t, s, r)
      PROVE  HandleInv'
  <2> DEFINE v == slot[t][r]
             o == slot[t][s]
  <2>1. /\ kind = "ref" /\ old[t] = Nil /\ count' = AddRef(count, v) /\ Put(t, s, v)
        /\ SetOld(t, o) /\ UNCHANGED <<kind, holds, exclusive, freed>>
        /\ v \in Things \cup {Nil} /\ o \in Things \cup {Nil}
    BY <1>1, <1>8 DEF AssignRef, SetOld
  <2>2. \A x \in Things : freed[x] = 1 => v # x
    BY <1>3, <2>1
  <2> HIDE DEF v
  <2>3. slot' \in [Users -> [Slots -> Things \cup {Nil}]] /\ old' \in [Users -> Things \cup {Nil}]
    BY <1>1, <2>1, PutFacts, OldCounts
  <2>4. ASSUME NEW x \in Things
        PROVE  /\ Own(x)' = Own(x) + (IF v = x THEN 1 ELSE 0) - (IF o = x THEN 1 ELSE 0)
               /\ due(x)' = due(x) + (IF o = x THEN 1 ELSE 0)
    <3>1. Own(x)' = Own(x) + (IF v = x THEN 1 ELSE 0) - (IF o = x THEN 1 ELSE 0)
      BY ONLY t \in Users, s \in Slots, <1>1, <2>1, PutCounts
    <3>2. due(x)' = due(x) + (IF o = x THEN 1 ELSE 0) - (IF old[t] = x THEN 1 ELSE 0)
      BY ONLY t \in Users, <1>1, <2>1, OldCounts DEF due
    <3> QED
      BY <1>1, <1>2, <2>1, <3>1, <3>2
  <2>5. /\ count' \in [Things -> Int]
        /\ \A x \in Things : count'[x] = count[x] + (IF v = x THEN 1 ELSE 0)
    BY <1>1, <2>1 DEF AddRef
  <2> HIDE DEF o
  <2>6. ASSUME NEW x \in Things
        PROVE  /\ count'[x] = Own(x)' + due(x)'
               /\ freed'[x] <= 1 /\ (freed'[x] = 1 => count'[x] = 0)
    <3>1. count[x] = Own(x) + due(x) /\ count'[x] = count[x] + (IF v = x THEN 1 ELSE 0)
      BY <1>3, <2>1, <2>5
    <3>2. count'[x] = Own(x)' + due(x)'
      BY <1>2, <2>4, <3>1
    <3> QED
      BY <1>2, <1>3, <2>1, <2>2, <3>1, <3>2
  <2> QED
    BY <1>1, <1>4, <2>1, <2>3, <2>5, <2>6
<1>9. CASE FinishAssign(t)
  <2> DEFINE o == old[t]
  <2>1. /\ o \in Things /\ kind = "ref" /\ count' = DropRef(count, o) /\ FreeAtZero(o)
        /\ SetOld(t, Nil) /\ UNCHANGED <<kind, slot, holds, exclusive>>
    BY <1>1, <1>9 DEF FinishAssign, HandleInv, OldOfRefs, SetOld
  <2>2. count[o] > 0
    <3>1. due(o) # 0
      BY RefFacts DEF due
    <3> QED
      BY <1>2, <1>3, <2>1, <3>1
  <2>3. /\ count' \in [Things -> Int] /\ freed' \in [Things -> Nat]
        /\ \A x \in Things : count'[x] = count[x] - (IF o = x THEN 1 ELSE 0)
        /\ \A x \in Things : freed'[x] <= 1 /\ (freed'[x] = 1 => count'[x] = 0)
    BY <2>1, <2>2, ReleaseFacts
  <2>4. old' \in [Users -> Things \cup {Nil}]
    BY <1>1, <2>1, OldCounts
  <2>5. ASSUME NEW x \in Things
        PROVE  Own(x)' = Own(x) /\ due(x)' = due(x) - (IF o = x THEN 1 ELSE 0)
    <3>1. Own(x)' = Own(x)
      BY <2>1 DEF Own, Flat
    <3>2. due(x)' = due(x) + (IF Nil = x THEN 1 ELSE 0) - (IF o = x THEN 1 ELSE 0)
      BY ONLY t \in Users, <1>1, <2>1, OldCounts DEF due
    <3> QED
      BY <1>1, <1>2, <3>1, <3>2
  <2> HIDE DEF o
  <2>6. ASSUME NEW x \in Things
        PROVE  count'[x] = Own(x)' + due(x)'
    <3>1. count[x] = Own(x) + due(x) /\ count'[x] = count[x] - (IF o = x THEN 1 ELSE 0)
      BY <1>3, <2>1, <2>3
    <3> QED
      BY <1>2, <2>5, <3>1
  <2> QED
    BY <1>1, <1>4, <2>1, <2>3, <2>4, <2>6
<1>10. ASSUME NEW s \in Slots, NEW r \in Slots, MoveRef(t, s, r)
       PROVE  HandleInv'
  <2>1. /\ kind = "ref" /\ old[t] = Nil /\ Take(t, s, r)
        /\ UNCHANGED <<kind, holds, exclusive, count, freed>>
    BY <1>10 DEF MoveRef
  <2>2. slot' \in [Users -> [Slots -> Things \cup {Nil}]]
    BY <1>1, <2>1, TakeFacts
  <2>3. CASE s = r
    <3>1. slot' = slot /\ old' = old
      BY <1>1, <1>10, <2>1, <2>3 DEF MoveRef, Take
    <3>2. \A x \in Things : Own(x)' = Own(x) /\ due(x)' = due(x)
      BY <3>1 DEF Own, due, Flat
    <3> QED
      BY <1>1, <1>3, <1>4, <2>1, <3>1, <3>2
  <2>4. CASE s # r
    <3> DEFINE o == slot[t][s]
    <3>1. o \in Things \cup {Nil} /\ SetOld(t, o)
      BY <1>1, <1>10, <2>4 DEF MoveRef, SetOld
    <3>2. old' \in [Users -> Things \cup {Nil}]
      BY <1>1, <3>1, OldCounts
    <3>3. ASSUME NEW x \in Things
          PROVE  /\ Own(x)' = Own(x) - (IF o = x THEN 1 ELSE 0)
                 /\ due(x)' = due(x) + (IF o = x THEN 1 ELSE 0)
      <4>1. Own(x)' = Own(x) - (IF o = x THEN 1 ELSE 0)
        BY ONLY t \in Users, s \in Slots, r \in Slots, x \in Things, <1>1, <2>1, <2>4, TakeCounts
      <4>2. due(x)' = due(x) + (IF o = x THEN 1 ELSE 0) - (IF old[t] = x THEN 1 ELSE 0)
        BY ONLY t \in Users, <1>1, <3>1, OldCounts DEF due
      <4> QED
        BY <1>1, <1>2, <2>1, <4>1, <4>2
    <3> HIDE DEF o
    <3> QED
      BY <1>1, <1>2, <1>3, <1>4, <2>1, <2>2, <3>2, <3>3
  <2> QED
    BY <2>3, <2>4
<1>11. ASSUME NEW s \in Slots, DropRefPtr(t, s)
       PROVE  HandleInv'
  <2> DEFINE o == slot[t][s]
  <2>1. /\ o \in Things /\ kind = "ref" /\ count' = DropRef(count, o) /\ FreeAtZero(o)
        /\ Put(t, s, Nil) /\ UNCHANGED <<kind, holds, exclusive, old>>
    BY <1>1, <1>11 DEF DropRefPtr
  <2>2. count[o] > 0
    <3>1. Own(o) # 0
      BY RefFacts
    <3> QED
      BY <1>2, <1>3, <2>1, <3>1
  <2>3. /\ count' \in [Things -> Int] /\ freed' \in [Things -> Nat]
        /\ \A x \in Things : count'[x] = count[x] - (IF o = x THEN 1 ELSE 0)
        /\ \A x \in Things : freed'[x] <= 1 /\ (freed'[x] = 1 => count'[x] = 0)
    BY <2>1, <2>2, ReleaseFacts
  <2>4. slot' \in [Users -> [Slots -> Things \cup {Nil}]]
    BY <1>1, <2>1, PutFacts
  <2>5. ASSUME NEW x \in Things
        PROVE  Own(x)' = Own(x) - (IF o = x THEN 1 ELSE 0) /\ due(x)' = due(x)
    <3>1. Own(x)' = Own(x) + (IF Nil = x THEN 1 ELSE 0) - (IF o = x THEN 1 ELSE 0)
      BY ONLY t \in Users, s \in Slots, <1>1, <2>1, PutCounts
    <3>2. due(x)' = due(x)
      BY <2>1 DEF due
    <3> QED
      BY <1>1, <1>2, <3>1, <3>2
  <2> HIDE DEF o
  <2>6. ASSUME NEW x \in Things
        PROVE  count'[x] = Own(x)' + due(x)'
    <3>1. count[x] = Own(x) + due(x) /\ count'[x] = count[x] - (IF o = x THEN 1 ELSE 0)
      BY <1>3, <2>1, <2>3
    <3> QED
      BY <1>2, <2>5, <3>1
  <2> QED
    BY <1>1, <1>4, <2>1, <2>3, <2>4, <2>6
<1> QED
  BY <1>6, <1>7, <1>8, <1>9, <1>10, <1>11

-----------------------------------------------------------------------------
(* ScopedGeneric and ThreadLocal.                                            *)

Alone == {"generic"} \cup ThreadLocals

\* It is enough to look at the handles and at what was freed.
LEMMA AloneKeeps ==
    ASSUME HandleInv, kind \in Alone, kind' \in {kind, "deleted"},
           UNCHANGED <<holds, exclusive, count, old>>,
           slot' \in [Users -> [Slots -> Things \cup {Nil}]], freed' \in [Things -> Nat],
           SoleOwner', FreedOnce'
    PROVE  HandleInv'
<1>1. kind' \notin {"guard", "rwguard", "ref"} /\ kind # "guard" /\ kind' \in Kinds \cup {"deleted"}
      /\ kind # "ref"
  BY DEF HandleInv, HandleTypes, Alone, Kinds, ThreadLocals
<1>2. HandleTypes'
  BY <1>1 DEF HandleInv, HandleTypes
<1>3. GuardsHold' /\ HoldsAlone' /\ RefsCounted' /\ OldOfRefs'
  BY <1>1 DEF HandleInv, GuardsHold, HoldsAlone, RefsCounted, OldOfRefs
<1> QED
  BY <1>2, <1>3 DEF HandleInv

\* A handle gets what no other one has, and what it had is freed or handed back.
LEMMA AlonePut ==
    ASSUME HandleInv, kind \in Alone, NEW t \in Users, NEW s \in Slots, NEW x \in Things \cup {Nil},
           x = Nil \/ Fresh(x) \/ x = slot[t][s], Put(t, s, x),
           UNCHANGED <<kind, holds, exclusive, count, old>>,
           NEW v \in {Nil, slot[t][s]}, v # Nil => x # v,
           freed' = [y \in Things |-> IF y = v THEN freed[y] + 1 ELSE freed[y]]
    PROVE  HandleInv'
<1>1. /\ HandleTypes /\ Nil \notin Things /\ freed \in [Things -> Nat]
      /\ slot \in [Users -> [Slots -> Things \cup {Nil}]]
  BY HandlesAssumption DEF HandleInv, HandleTypes
<1>2. /\ \A y \in Things, a, b \in Users, p, q \in Slots :
           slot[a][p] = y /\ slot[b][q] = y => a = b /\ p = q
      /\ \A y \in Things : freed[y] <= 1 /\ (freed[y] = 1 => \A u \in Users, r \in Slots : slot[u][r] # y)
  BY DEF HandleInv, SoleOwner, FreedOnce, Alone
<1>3. /\ slot' \in [Users -> [Slots -> Things \cup {Nil}]] /\ slot'[t][s] = x
      /\ \A u \in Users, r \in Slots : u # t \/ r # s => slot'[u][r] = slot[u][r]
  BY <1>1, PutFacts
<1>4. /\ freed' \in [Things -> Nat]
      /\ \A y \in Things : freed'[y] = IF y = v THEN freed[y] + 1 ELSE freed[y]
  BY <1>1
\* The new thing is nowhere else.
<1>5. x # Nil => freed[x] # 1 /\ \A u \in Users, r \in Slots : slot[u][r] = x => u = t /\ r = s
  <2>1. CASE Fresh(x)
    <3>1. freed[x] = 0 /\ Owners(x) = {}
      BY <2>1 DEF Fresh
    <3>2. ASSUME NEW u \in Users, NEW r \in Slots, slot[u][r] = x
          PROVE  FALSE
      <4>1. <<u, r>> \in Owners(x)
        BY <3>2 DEF Owners
      <4> QED
        BY <3>1, <4>1
    <3> QED
      BY <3>1, <3>2
  <2>2. CASE x = slot[t][s]
    BY <1>2, <2>2
  <2> QED
    BY <2>1, <2>2
<1>6. SoleOwner'
  <2>1. ASSUME NEW y \in Things, NEW a \in Users, NEW b \in Users, NEW p \in Slots, NEW q \in Slots,
               slot'[a][p] = y, slot'[b][q] = y
        PROVE  a = b /\ p = q
    <3>1. CASE y = x
      BY <1>1, <1>3, <1>5, <2>1, <3>1
    <3>2. CASE y # x
      BY <1>2, <1>3, <2>1, <3>2
    <3> QED
      BY <3>1, <3>2
  <2> QED
    BY <2>1 DEF SoleOwner
<1>7. FreedOnce'
  <2>1. ASSUME NEW y \in Things
        PROVE  freed'[y] <= 1 /\ (freed'[y] = 1 => \A u \in Users, r \in Slots : slot'[u][r] # y)
    <3>1. CASE y = v
      <4>1. y = slot[t][s] /\ y # x /\ freed[y] # 1 /\ freed[y] \in Nat
        BY <1>1, <1>2, <3>1
      <4>2. freed'[y] = 1
        BY <1>2, <1>4, <3>1, <4>1
      <4> QED
        BY <1>2, <1>3, <4>1, <4>2
    <3>2. CASE y # v
      <4>1. freed'[y] = freed[y]
        BY <1>4, <3>2
      <4> QED
        BY <1>1, <1>2, <1>3, <1>5, <4>1
    <3> QED
      BY <3>1, <3>2
  <2> QED
    BY <2>1 DEF FreedOnce
<1> QED
  BY <1>3, <1>4, <1>6, <1>7, AloneKeeps

\* Every use of a ScopedGeneric.
LEMMA GenericStep ==
    ASSUME HandleInv, NEW t \in Users,
           \/ \E s \in Slots, x \in Things \cup {Nil} : ResetGeneric(t, s, x)
           \/ \E s, r \in Slots : MoveGeneric(t, s, r)
           \/ \E s, r \in Slots : SwapGeneric(t, s, r)
           \/ \E s \in Slots : ReleaseGeneric(t, s)
    PROVE  HandleInv'
<1>1. /\ HandleTypes /\ Nil \notin Things /\ freed \in [Things -> Nat]
      /\ slot \in [Users -> [Slots -> Things \cup {Nil}]]
  BY HandlesAssumption DEF HandleInv, HandleTypes
<1>2. kind = "generic" /\ kind \in Alone
  BY DEF Alone, ResetGeneric, MoveGeneric, SwapGeneric, ReleaseGeneric
<1>3. /\ \A y \in Things, a, b \in Users, p, q \in Slots :
           slot[a][p] = y /\ slot[b][q] = y => a = b /\ p = q
      /\ \A y \in Things : freed[y] <= 1 /\ (freed[y] = 1 => \A u \in Users, r \in Slots : slot[u][r] # y)
  BY <1>2 DEF HandleInv, SoleOwner, FreedOnce, Alone
<1>4. freed = [y \in Things |-> IF y = Nil THEN freed[y] + 1 ELSE freed[y]]
  BY <1>1
<1>5. ASSUME NEW s \in Slots, NEW x \in Things \cup {Nil}, ResetGeneric(t, s, x)
      PROVE  HandleInv'
  <2>1. CASE UNCHANGED slot /\ UNCHANGED freed
    BY <1>1, <1>2, <1>5, <2>1, AloneKeeps DEF ResetGeneric, HandleInv, SoleOwner, FreedOnce
  <2>2. CASE (slot[t][s] = Nil \/ slot[t][s] # x) /\ Free(slot[t][s]) /\ Put(t, s, x)
    <3>1. /\ x = Nil \/ Fresh(x) \/ x = slot[t][s]
          /\ UNCHANGED <<kind, holds, exclusive, count, old>>
          /\ freed' = [y \in Things |-> IF y = slot[t][s] THEN freed[y] + 1 ELSE freed[y]]
      BY <1>5, <2>2 DEF ResetGeneric, Free
    <3>2. PICK v : v = slot[t][s]
      OBVIOUS
    <3>3. /\ v \in {Nil, slot[t][s]} /\ (v # Nil => x # v) /\ Put(t, s, x)
          /\ freed' = [y \in Things |-> IF y = v THEN freed[y] + 1 ELSE freed[y]]
      BY <2>2, <3>1, <3>2
    <3> QED
      BY <1>2, <3>1, <3>3, AlonePut
  <2> QED
    BY <1>5, <2>1, <2>2 DEF ResetGeneric, Abort
<1>6. ASSUME NEW s \in Slots, ReleaseGeneric(t, s)
      PROVE  HandleInv'
  <2>1. Put(t, s, Nil) /\ UNCHANGED <<kind, holds, exclusive, count, freed, old>>
    BY <1>6 DEF ReleaseGeneric
  <2>2. freed' = [y \in Things |-> IF y = Nil THEN freed[y] + 1 ELSE freed[y]]
    BY <1>4, <2>1
  <2> QED
    BY <1>2, <2>1, <2>2, AlonePut
\* The handles of t exchange what they have, and what was overwritten is freed.
<1>7. ASSUME NEW s \in Slots, NEW r \in Slots,
             MoveGeneric(t, s, r) \/ SwapGeneric(t, s, r)
      PROVE  HandleInv'
  <2>1. PICK w \in Things \cup {Nil}, v \in Things \cup {Nil} :
          /\ slot' = [slot EXCEPT ![t] = [@ EXCEPT ![r] = w, ![s] = slot[t][r]]]
          /\ UNCHANGED <<kind, holds, exclusive, count, old>>
          /\ \/ w = Nil /\ v = slot[t][s] /\ s # r
             \/ w = Nil /\ v = Nil /\ s = r
             \/ w = slot[t][s] /\ v = Nil
          /\ freed' = [y \in Things |-> IF y = v THEN freed[y] + 1 ELSE freed[y]]
    <3>1. CASE MoveGeneric(t, s, r)
      <4>1. /\ slot' = [slot EXCEPT ![t] = [@ EXCEPT ![r] = Nil, ![s] = slot[t][r]]]
            /\ UNCHANGED <<kind, holds, exclusive, count, old>>
            /\ freed' = [y \in Things |-> IF y = (IF s = r THEN Nil ELSE slot[t][s])
                                          THEN freed[y] + 1 ELSE freed[y]]
        BY <3>1 DEF MoveGeneric, Take, Free
      <4>2. slot[t][s] \in Things \cup {Nil}
        BY <1>1
      <4> QED
        BY <4>1, <4>2
    <3>2. CASE SwapGeneric(t, s, r)
      <4>1. /\ slot' = [slot EXCEPT ![t] = [@ EXCEPT ![r] = slot[t][s], ![s] = slot[t][r]]]
            /\ UNCHANGED <<kind, holds, exclusive, count, freed, old>>
        BY <3>2 DEF SwapGeneric
      <4>2. slot[t][s] \in Things \cup {Nil}
        BY <1>1
      <4> QED
        BY <1>4, <4>1, <4>2
    <3> QED
      BY <1>7, <3>1, <3>2
  <2>2. /\ slot' \in [Users -> [Slots -> Things \cup {Nil}]]
        /\ slot'[t][s] = slot[t][r] /\ (s # r => slot'[t][r] = w)
        /\ \A u \in Users, q \in Slots : u # t \/ (q # s /\ q # r) => slot'[u][q] = slot[u][q]
    BY <1>1, <2>1
  <2>3. /\ freed' \in [Things -> Nat]
        /\ \A y \in Things : freed'[y] = IF y = v THEN freed[y] + 1 ELSE freed[y]
    BY <1>1, <2>1
  <2>4. SoleOwner'
    <3>1. ASSUME NEW y \in Things, NEW a \in Users, NEW b \in Users, NEW p \in Slots, NEW q \in Slots,
                 slot'[a][p] = y, slot'[b][q] = y
          PROVE  a = b /\ p = q
      BY <1>1, <1>3, <2>1, <2>2, <3>1
    <3> QED
      BY <3>1 DEF SoleOwner
  <2>5. FreedOnce'
    <3>1. ASSUME NEW y \in Things
          PROVE  freed'[y] <= 1 /\ (freed'[y] = 1 => \A u \in Users, q \in Slots : slot'[u][q] # y)
      <4>1. CASE y = v
        <5>1. y = slot[t][s] /\ s # r /\ w = Nil /\ freed[y] # 1 /\ freed[y] \in Nat
          BY <1>1, <1>3, <2>1, <4>1
        <5>2. freed'[y] = 1
          BY <1>3, <2>3, <4>1, <5>1
        <5> QED
          BY <1>1, <1>3, <2>2, <5>1, <5>2
      <4>2. CASE y # v
        <5>1. freed'[y] = freed[y]
          BY <2>3, <4>2
        <5> QED
          BY <1>1, <1>3, <2>1, <2>2, <5>1
      <4> QED
        BY <4>1, <4>2
    <3> QED
      BY <3>1 DEF FreedOnce
  <2> QED
    BY <1>2, <2>1, <2>2, <2>3, <2>4, <2>5, AloneKeeps
<1> QED
  BY <1>5, <1>6, <1>7

\* Every use of a ThreadLocal, as long as pthread_setspecific succeeds.
LEMMA ThreadLocalStep ==
    ASSUME HandleInv, ~setFailed',
           \/ DeleteKey
           \/ \E t \in Users : Get(t) \/ Clear(t) \/ ThreadExit(t) \/ \E x \in Things \cup {Nil} : Set(t, x)
    PROVE  HandleInv'
<1>1. /\ HandleTypes /\ Nil \notin Things /\ freed \in [Things -> Nat]
      /\ slot \in [Users -> [Slots -> Things \cup {Nil}]] /\ Key \in Slots
  BY HandlesAssumption DEF HandleInv, HandleTypes, Key
<1>2. kind \in Alone
  BY DEF Alone, ThreadLocals, DeleteKey, Get, Clear, ThreadExit, Set
<1>3. freed = [y \in Things |-> IF y = Nil THEN freed[y] + 1 ELSE freed[y]]
  BY <1>1
<1>4. CASE DeleteKey
  <2>1. kind' \notin Alone /\ kind' # "guard"
    BY <1>4 DEF DeleteKey, Alone, ThreadLocals
  <2>2. SoleOwner' /\ FreedOnce'
    BY <1>4, <2>1 DEF DeleteKey, SoleOwner, Alone, HandleInv, FreedOnce
  <2> QED
    BY <1>1, <1>2, <1>4, <2>2, AloneKeeps DEF DeleteKey
<1>5. ASSUME NEW t \in Users, Get(t)
      PROVE  HandleInv'
  <2>1. PICK x \in Things : Fresh(x) /\ Put(t, Key, x)
    BY <1>5 DEF Get, SetImpl
  <2>2. UNCHANGED <<kind, holds, exclusive, count, old>>
    BY <1>5 DEF Get, TLUnchanged
  <2>3. freed' = [y \in Things |-> IF y = Nil THEN freed[y] + 1 ELSE freed[y]]
    BY <1>3, <1>5 DEF Get
  <2> QED
    BY <1>1, <1>2, <2>1, <2>2, <2>3, AlonePut
<1>6. ASSUME NEW t \in Users, NEW x \in Things \cup {Nil}, Set(t, x)
      PROVE  HandleInv'
  <2>1. PICK v : v = IF kind = "noop" \/ slot[t][Key] = x THEN Nil ELSE slot[t][Key]
    OBVIOUS
  <2>2. /\ x = Nil \/ Fresh(x) \/ x = slot[t][Key]
        /\ Put(t, Key, x) /\ UNCHANGED <<kind, holds, exclusive, count, old>>
    BY <1>6 DEF Set, SetImpl, TLUnchanged
  <2>3. freed' = [y \in Things |-> IF y = v THEN freed[y] + 1 ELSE freed[y]]
    BY <1>6, <2>1 DEF Set, Destroy, Free
  <2>4. v \in {Nil, slot[t][Key]} /\ (v # Nil => x # v)
    BY <2>1
  <2> QED
    BY <1>1, <1>2, <2>2, <2>3, <2>4, AlonePut
<1>7. ASSUME NEW t \in Users, Clear(t) \/ ThreadExit(t)
      PROVE  HandleInv'
  <2>1. PICK v : v = IF kind = "noop" THEN Nil ELSE slot[t][Key]
    OBVIOUS
  <2>2. Put(t, Key, Nil) /\ UNCHANGED <<kind, holds, exclusive, count, old>>
    BY <1>7 DEF Clear, ThreadExit, SetImpl, TLUnchanged
  <2>3. freed' = [y \in Things |-> IF y = v THEN freed[y] + 1 ELSE freed[y]]
    BY <1>7, <2>1 DEF Clear, ThreadExit, Destroy, Free
  <2>4. v \in {Nil, slot[t][Key]} /\ (v # Nil => Nil # v)
    BY <2>1
  <2> QED
    BY <1>1, <1>2, <2>2, <2>3, <2>4, AlonePut
<1> QED
  BY <1>4, <1>5, <1>6, <1>7

-----------------------------------------------------------------------------
(* All handles.                                                              *)

\* Every use of a handle keeps the invariant, as long as pthread_setspecific succeeds.
LEMMA HandleStep ==
    ASSUME HandleInv, [HandlesNext]_hvars, ~setFailed'
    PROVE  HandleInv'
<1>1. /\ HandleTypes /\ kind \in Kinds \cup {"deleted"} /\ exclusive \in [Things -> BOOLEAN]
      /\ \A x \in Things, u \in Users : holds[x][u] \in Nat
  BY DEF HandleInv, HandleTypes
<1>2. ASSUME UNCHANGED <<kind, slot, holds, exclusive, count, freed, old>>
      PROVE  HandleInv'
  <2>1. HandleTypes'
    BY <1>1, <1>2 DEF HandleTypes
  <2>2. GuardsHold'
    BY <1>2 DEF HandleInv, GuardsHold, Held
  <2>3. HoldsAlone' /\ SoleOwner' /\ FreedOnce' /\ OldOfRefs'
    BY <1>2 DEF HandleInv, HoldsAlone, SoleOwner, FreedOnce, OldOfRefs
  <2>4. \A x \in Things : Own(x)' = Own(x)
    BY <1>2 DEF Own, Flat
  <2>5. RefsCounted'
    BY <1>2, <2>4 DEF HandleInv, RefsCounted
  <2> QED
    BY <2>1, <2>2, <2>3, <2>5 DEF HandleInv
<1>3. ASSUME NEW t \in Users, NEW s \in Slots, NEW x \in Things, NEW timeout \in -1..1,
             NewGuard(t, s, x, timeout)
      PROVE  HandleInv'
  <2>1. CASE CanLock(x, t) /\ LockBy(x, t) /\ Put(t, s, x)
    <3>1. /\ kind = "guard" /\ slot[t][s] = Nil /\ UNCHANGED <<kind, exclusive, freed, count, old>>
          /\ exclusive' \in [Things -> BOOLEAN]
      BY <1>1, <1>3 DEF NewGuard
    <3> QED
      BY <2>1, <3>1, LockStep
  <2>2. CASE UNCHANGED <<holds, slot>>
    BY <1>2, <1>3, <2>2 DEF NewGuard
  <2> QED
    BY <1>3, <2>1, <2>2 DEF NewGuard
<1>4. ASSUME NEW t \in Users, NEW s \in Slots, NEW x \in Things, NEW write \in BOOLEAN,
             NEW timeout \in -1..1, NewRWGuard(t, s, x, write, timeout)
      PROVE  HandleInv'
  <2>1. CASE /\ CanLockRW(x, write) /\ Put(t, s, x) /\ LockBy(x, t)
             /\ exclusive' = [exclusive EXCEPT ![x] = write]
    <3>1. /\ kind = "rwguard" /\ slot[t][s] = Nil /\ UNCHANGED <<kind, freed, count, old>>
          /\ kind \in {"guard", "rwguard"} /\ kind # "guard"
      BY <1>4 DEF NewRWGuard
    <3>2. /\ exclusive' \in [Things -> BOOLEAN] /\ exclusive'[x] = write
          /\ \A y \in Things : y # x => exclusive'[y] = exclusive[y]
      BY <1>1, <2>1
    <3>3. ~exclusive[x] /\ (exclusive'[x] => \A u \in Users : holds[x][u] = 0)
      BY <2>1, <3>2 DEF CanLockRW
    <3> QED
      BY <2>1, <3>1, <3>2, <3>3, LockStep
  <2>2. CASE UNCHANGED <<slot, holds, exclusive>>
    BY <1>2, <1>4, <2>2 DEF NewRWGuard
  <2> QED
    BY <1>4, <2>1, <2>2 DEF NewRWGuard, Abort
<1>5. ASSUME NEW t \in Users, NEW s \in Slots, ReleaseGuard(t, s)
      PROVE  HandleInv'
  BY <1>5, UnlockStep DEF ReleaseGuard
<1>6. ASSUME NEW t \in Users, NEW s \in Slots, NEW r \in Slots, MoveGuard(t, s, r)
      PROVE  HandleInv'
  BY <1>6, UnlockStep DEF MoveGuard
<1>7. CASE UNCHANGED hvars
  BY <1>2, <1>7 DEF hvars
<1>8. ASSUME NEW t \in Users, HandlesStep(t)
      PROVE  HandleInv'
  BY <1>3, <1>4, <1>5, <1>6, <1>8, RefStep, GenericStep, ThreadLocalStep DEF HandlesStep
<1> QED
  BY <1>7, <1>8, ThreadLocalStep DEF HandlesNext

\* What is left of the invariant when a thread-local could not be set: that the other handles
\* are not concerned.
KeyInv ==
    /\ HandleTypes /\ HoldsAlone /\ OldOfRefs /\ setFailed \in BOOLEAN
    /\ setFailed => kind \in ThreadLocals \cup {"deleted"}
    /\ ~setFailed => HandleInv

\* Every use of a handle, also those of a thread-local whose value could not be set.
LEMMA KeyStep ==
    ASSUME KeyInv, [HandlesNext]_hvars
    PROVE  KeyInv'
<1> DEFINE Local == \/ DeleteKey
                    \/ \E t \in Users : \/ Get(t) \/ Clear(t) \/ ThreadExit(t)
                                        \/ \E x \in Things \cup {Nil} : Set(t, x)
<1>1. Local \/ UNCHANGED setFailed
  <2>1. ASSUME NEW t \in Users, HandlesStep(t)
        PROVE  Local \/ UNCHANGED setFailed
    BY <2>1 DEF HandlesStep, NewGuard, NewRWGuard, ReleaseGuard, MoveGuard, NewRef, CopyRef,
       AssignRef, FinishAssign, MoveRef, DropRefPtr, ResetGeneric, MoveGeneric, SwapGeneric,
       ReleaseGeneric
  <2> QED
    BY <2>1 DEF HandlesNext, hvars
<1>2. Local => setFailed' \in {setFailed, TRUE}
  BY DEF DeleteKey, Get, Clear, ThreadExit, Set, SetImpl
<1>3. setFailed' \in BOOLEAN
  BY <1>1, <1>2 DEF KeyInv
<1>4. CASE ~setFailed'
  <2>1. ~setFailed
    BY <1>1, <1>2, <1>4 DEF KeyInv
  <2>2. HandleInv'
    <3>1. HandleInv
      BY <2>1 DEF KeyInv
    <3> QED
      BY <1>4, <3>1, HandleStep
  <2>3. HandleTypes' /\ HoldsAlone' /\ OldOfRefs'
    BY <2>2 DEF HandleInv
  <2> QED
    BY <1>3, <1>4, <2>2, <2>3 DEF KeyInv
<1>5. CASE setFailed'
  <2>1. Local \/ UNCHANGED hvars
    <3>1. CASE Local
      BY <3>1
    <3>2. CASE UNCHANGED setFailed
      <4>1. kind \in ThreadLocals \cup {"deleted"} /\ \A t \in Users : old[t] = Nil
        BY <1>5, <3>2 DEF KeyInv, OldOfRefs, ThreadLocals
      <4>2. kind \notin {"guard", "rwguard", "ref", "generic"}
        BY <4>1 DEF ThreadLocals
      <4>3. ASSUME NEW t \in Users, HandlesStep(t)
            PROVE  Local
        BY <4>1, <4>2, <4>3 DEF HandlesStep, NewGuard, NewRWGuard, ReleaseGuard, MoveGuard, NewRef,
           CopyRef, AssignRef, FinishAssign, MoveRef, DropRefPtr, ResetGeneric, MoveGeneric,
           SwapGeneric, ReleaseGeneric
      <4>4. HandlesNext => Local
        BY <4>3 DEF HandlesNext
      <4> HIDE DEF Local
      <4> QED
        BY <4>4
    <3> QED
      BY <1>1, <3>1, <3>2
  <2>2. CASE Local
    <3>1. /\ kind \in ThreadLocals /\ kind' \in ThreadLocals \cup {"deleted"}
          /\ UNCHANGED <<holds, exclusive, count, old>>
      BY <2>2 DEF DeleteKey, Get, Clear, ThreadExit, Set, TLUnchanged, ThreadLocals
    <3>2. kind # "guard" /\ kind' \notin {"guard", "ref"} /\ kind # "ref"
          /\ kind' \in Kinds \cup {"deleted"}
      BY <3>1 DEF ThreadLocals, Kinds
    <3>3. freed' \in [Things -> Nat] /\ slot' \in [Users -> [Slots -> Things \cup {Nil}]]
      <4>1. /\ freed \in [Things -> Nat] /\ slot \in [Users -> [Slots -> Things \cup {Nil}]]
            /\ Key \in Slots
        BY HandlesAssumption DEF KeyInv, HandleTypes, Key
      <4>2. ASSUME NEW t \in Users, NEW x \in Things \cup {Nil}, Put(t, Key, x)
            PROVE  slot' \in [Users -> [Slots -> Things \cup {Nil}]]
        BY <4>1, <4>2 DEF Put
      <4> QED
        BY <2>2, <4>1, <4>2
           DEF DeleteKey, Get, Clear, ThreadExit, Set, SetImpl, Destroy, Free
    <3>4. HandleTypes'
      BY <3>1, <3>2, <3>3 DEF KeyInv, HandleTypes
    <3>5. HoldsAlone' /\ OldOfRefs'
      BY <3>1, <3>2 DEF KeyInv, HoldsAlone, OldOfRefs
    <3> QED
      BY <1>3, <1>5, <3>1, <3>4, <3>5 DEF KeyInv
  <2>3. CASE UNCHANGED hvars
    <3>1. HandleTypes' /\ HoldsAlone' /\ OldOfRefs'
      BY <2>3 DEF KeyInv, HandleTypes, HoldsAlone, OldOfRefs, hvars
    <3> QED
      BY <1>3, <1>5, <2>3, <3>1 DEF KeyInv, hvars
  <2> QED
    BY <2>1, <2>2, <2>3
<1> QED
  BY <1>4, <1>5

\* The invariant says what HandlesExact says.
LEMMA HandleInvExact == KeyInv => HandlesExact
<1> SUFFICES ASSUME KeyInv, NEW x \in Things
             PROVE  /\ ~setFailed => freed[x] <= 1 /\ (freed[x] = 1 => Owners(x) = {})
                    /\ kind \in {"guard", "rwguard"} =>
                         \A t \in Users : holds[x][t] = Cardinality({s \in Slots : slot[t][s] = x})
                    /\ kind = "guard" \/ exclusive[x] => Cardinality({t \in Users : holds[x][t] > 0}) <= 1
                    /\ kind = "guard" /\ x \notin Recursive => Cardinality(Owners(x)) <= 1
                    /\ kind = "ref" => count[x] = Cardinality(Owners(x)) + Pending(x)
                    /\ kind = "ref" /\ freed[x] = 1 => count[x] = 0
                    /\ kind = "generic" \/ (kind \in ThreadLocals /\ ~setFailed) =>
                         Cardinality(Owners(x)) <= 1
  BY DEF HandlesExact
<1>1. ~setFailed => freed[x] <= 1 /\ (freed[x] = 1 => Owners(x) = {})
  BY DEF KeyInv, HandleInv, FreedOnce, Owners
<1>2. kind \in {"guard", "rwguard"} =>
        \A t \in Users : holds[x][t] = Cardinality({s \in Slots : slot[t][s] = x})
  BY CountsAre DEF KeyInv, HandleInv, GuardsHold, ThreadLocals
<1>3. ASSUME kind = "guard" \/ exclusive[x]
      PROVE  Cardinality({t \in Users : holds[x][t] > 0}) <= 1
  <2>1. \A a, b \in {t \in Users : holds[x][t] > 0} : a = b
    BY <1>3 DEF KeyInv, HoldsAlone
  <2> QED
    BY <2>1, AtMostOne
<1>4. ASSUME \/ kind = "guard" /\ x \notin Recursive
             \/ kind = "generic" \/ (kind \in ThreadLocals /\ ~setFailed)
      PROVE  Cardinality(Owners(x)) <= 1
  <2>1. \A t, u \in Users, s, r \in Slots : slot[t][s] = x /\ slot[u][r] = x => t = u /\ s = r
    <3>1. HandleInv
      BY <1>4 DEF KeyInv, ThreadLocals
    <3> QED
      BY <1>4, <3>1 DEF HandleInv, SoleOwner
  <2>2. \A a, b \in Owners(x) : a = b
    BY <2>1 DEF Owners
  <2> QED
    BY <2>2, AtMostOne
<1>5. kind = "ref" => /\ count[x] = Cardinality(Owners(x)) + Pending(x)
                      /\ freed[x] = 1 => count[x] = 0
  BY CountsAre DEF KeyInv, HandleInv, RefsCounted, ThreadLocals
<1> QED
  BY <1>1, <1>2, <1>3, <1>4, <1>5

\* No handle has been made yet.
LEMMA HandleInitInv == HandlesInit => KeyInv
<1> SUFFICES ASSUME HandlesInit PROVE KeyInv
  OBVIOUS
<1>1. Nil \notin Things
  BY HandlesAssumption
<1>2. /\ HandleTypes /\ kind \in Kinds /\ \A x \in Things, t \in Users : holds[x][t] = 0
      /\ \A x \in Things : count[x] = 0 /\ freed[x] = 0
      /\ \A t \in Users, s \in Slots : slot[t][s] = Nil
      /\ \A t \in Users : old[t] = Nil
  BY DEF HandlesInit, HandleTypes
<1>3. ASSUME NEW x \in Things
      PROVE  Own(x) = 0 /\ CountOf(old, Users, x) = 0 /\ \A t \in Users : Held(t, x) = 0
  BY <1>1, <1>2, RefFacts, HeldFacts
<1>4. GuardsHold /\ HoldsAlone /\ SoleOwner /\ FreedOnce /\ OldOfRefs
  BY <1>1, <1>2, <1>3 DEF GuardsHold, HoldsAlone, SoleOwner, FreedOnce, OldOfRefs
<1>5. RefsCounted
  BY <1>2, <1>3 DEF RefsCounted
<1> QED
  BY <1>2, <1>4, <1>5 DEF KeyInv, HandleInv, HandlesInit

\* Guards, reference-counted pointers, scoped descriptors and thread-local objects give
\* back what they own exactly once and when nobody has it any more, for any number of
\* threads and handles and whatever they copy, move, reset and destroy; thread-local objects
\* until a pthread_setspecific fails.
THEOREM HandlesStayExact == Spec => []HandlesExact
<1>1. Init => KeyInv
  BY HandleInitInv DEF Init
<1>2. KeyInv /\ [Next]_vars => KeyInv'
  BY KeyStep DEF Next, vars
<1> QED
  BY <1>1, <1>2, HandleInvExact, PTL DEF Spec

-----------------------------------------------------------------------------
(* Threads.  None of the four parts of ThreadsReaped but NoUseAfterDelete    *)
(* says enough to be kept by a step.  What keeps them is that whoever is in  *)
(* a member function holds a reference or runs the destructor, and holds     *)
(* state_lock_ where it has to (UsersHaveIt); and that the id which an       *)
(* object remembers is that of its own thread until that is joined           *)
(* (IdsKept), although the system uses ids again.                            *)

Priorities == {0, ToPthreadPriority(Factory.policy, Factory.priority)}
Members == [exists : BOOLEAN, state : {"uninitialized", "starting"}, detached : BOOLEAN,
            priority : Priorities, pthread : Ids \cup {None}]
SystemThreads == [status : {"free", "running", "ended"}, of : Objects \cup {None}, joinable : BOOLEAN]
ClientPlaces == {"idle", "Start", "Join", "SetName", "AddLiveThreadId", "pthread_join",
                 "RemoveLiveThreadId"}
ThreadPlaces == {"idle", "ThreadMain", "Run", "Join", "pthread_join", "RemoveLiveThreadId",
                 "return", "ended"}

ThreadTypes ==
    /\ th \in [Objects -> Members]
    /\ refs \in [Objects -> SUBSET (Clients \cup {"selfRef", "thread"})]
    /\ lock \in [Objects -> Actors \cup {None}]
    /\ os \in [Ids -> SystemThreads]
    /\ pc \in [Actors -> [at : ClientPlaces \cup ThreadPlaces, on : Objects \cup {None}]]
    /\ failed \in SUBSET Objects
    /\ ender \in [Objects -> Actors \cup {None}]

\* A client works on any object, the thread of an object on that object alone.
Places ==
    /\ \A a \in Actors : pc[a].on = None <=> pc[a].at = "idle"
    /\ \A c \in Clients : pc[c].at \in ClientPlaces
    /\ \A o \in Objects : pc[o].at \in ThreadPlaces /\ pc[o].on \in {None, o}

\* Who is in a member function has a shared_ptr to the object or destroys it.
HasIt(a, o) ==
    /\ pc[a].at \in {"Start", "SetName", "AddLiveThreadId"} => a \in refs[o]
    /\ pc[a].at \in {"Join", "pthread_join"} => a \in refs[o] \/ (refs[o] = {} /\ ender[o] = a)
    /\ pc[a].at = "RemoveLiveThreadId" => refs[o] = {} /\ ender[o] = a
    /\ pc[a].at = "ThreadMain" => "selfRef" \in refs[o]
    /\ pc[a].at = "Run" => "thread" \in refs[o]
    /\ pc[a].at \in {"AddLiveThreadId", "pthread_join"} => lock[o] = a
    /\ pc[a].at = "pthread_join" => th[o].state = "starting" /\ ~th[o].detached
UsersHaveIt == \A a \in Actors, o \in Objects : pc[a].on = o => HasIt(a, o)

\* What has not been started has no thread, no id and no failure; what has, has one of them.
StartedOnce ==
    \A o \in Objects :
        /\ ~th[o].exists /\ ender[o] = None => th[o].state = "uninitialized"
        /\ th[o].state = "uninitialized" =>
             /\ pc[o].at = "idle" /\ th[o].pthread = None /\ o \notin failed
             /\ \A i \in Ids : os[i].of # o
        /\ th[o].state = "starting" /\ o \notin failed => th[o].pthread \in Ids

\* The thread of an object is found under the id which it remembers, until it is joined.
IdsKept ==
    /\ \A o \in Objects, i \in Ids : os[i].of = o =>
         th[o].pthread = i /\ (th[o].detached => ~os[i].joinable)
    /\ \A o \in Objects : ~Damaged(o) /\ th[o].state = "starting" /\ ~th[o].detached =>
         th[o].pthread \in Ids /\ ThreadOf(o).of = o /\ ThreadOf(o).joinable

\* A thread that is still to be joined has a destructor that will join it, once there is one.
StillJoined ==
    \A o \in Objects, i \in Ids :
        os[i].of = o /\ os[i].joinable /\ ender[o] \notin {None, o} =>
            pc[ender[o]].on = o /\ pc[ender[o]].at \in {"Join", "pthread_join"}

\* The id of a thread that runs is in live_thread_ids, or its Start is about to add it.
IdsAdded ==
    \A o \in Objects :
        /\ pc[o].at \in {"ThreadMain", "Run"} /\ o \notin failed
        /\ \A p \in Objects \ {o} : th[p].pthread # th[o].pthread
        => \/ th[o].pthread \in live
           \/ \E c \in Clients : lock[o] = c /\ pc[c] = [at |-> "AddLiveThreadId", on |-> o]

ThreadInv == ThreadTypes /\ Places /\ UsersHaveIt /\ NoUseAfterDelete /\ StartedOnce /\ IdsKept
             /\ StillJoined /\ IdsAdded

\* A thread goes from one place to another, perhaps with the lock of its object, and nothing
\* else happens: what the new place needs is there.
LEMMA QuietStep ==
    ASSUME ThreadInv, NEW a \in Actors, NEW x \in ClientPlaces \cup ThreadPlaces,
           NEW y \in Objects \cup {None},
           At(a, x, y), UNCHANGED <<th, refs, os, live, failed, ender>>,
           lock' \in [Objects -> Actors \cup {None}],
           \A p \in Objects : lock'[p] # lock[p] => lock[p] \in {None, a},
           y = None <=> x = "idle", a \in Clients => x \in ClientPlaces,
           a \in Objects => x \in ThreadPlaces /\ y \in {None, a},
           y # None =>
             /\ x \in {"Start", "SetName", "AddLiveThreadId"} => a \in refs[y]
             /\ x \in {"Join", "pthread_join"} => a \in refs[y] \/ (refs[y] = {} /\ ender[y] = a)
             /\ x = "RemoveLiveThreadId" => refs[y] = {} /\ ender[y] = a
             /\ x \in {"AddLiveThreadId", "pthread_join"} => lock'[y] = a
             /\ x = "pthread_join" => th[y].state = "starting" /\ ~th[y].detached
             /\ th[y].exists,
           x \notin {"ThreadMain", "Run", "return", "ended"}, pc[a].at # "AddLiveThreadId",
           a \in Objects => th[a].state # "uninitialized",
           \A o \in Objects, i \in Ids : os[i].of = o /\ os[i].joinable /\ ender[o] = a /\ a # o =>
             y = o /\ x \in {"Join", "pthread_join"}
    PROVE  ThreadInv'
<1>1. /\ ThreadTypes /\ Places /\ UsersHaveIt /\ NoUseAfterDelete /\ StartedOnce /\ IdsKept
      /\ StillJoined /\ IdsAdded
      /\ Clients \cap Objects = {} /\ None \notin Actors /\ Actors = Clients \cup Objects
  BY PosixThreadsAssumption DEF ThreadInv, Actors
<1>2. /\ pc' \in [Actors -> [at : ClientPlaces \cup ThreadPlaces, on : Objects \cup {None}]]
      /\ pc'[a].at = x /\ pc'[a].on = y /\ \A b \in Actors : b # a => pc'[b] = pc[b]
  BY <1>1 DEF ThreadTypes, At
<1>3. ThreadTypes'
  BY <1>1, <1>2 DEF ThreadTypes
<1>4. Places'
  BY <1>1, <1>2 DEF Places
<1>5. UsersHaveIt'
  <2> SUFFICES ASSUME NEW b \in Actors, NEW o \in Objects, pc'[b].on = o
               PROVE  HasIt(b, o)'
    BY DEF UsersHaveIt
  <2>1. CASE b = a
    <3>1. y = o /\ y # None /\ pc'[b].at = x
      BY <1>1, <1>2, <2>1 DEF Actors
    <3> QED
      BY <1>1, <2>1, <3>1 DEF HasIt
  <2>2. CASE b # a
    <3>1. pc'[b] = pc[b] /\ HasIt(b, o)
      BY <1>1, <1>2, <2>2 DEF UsersHaveIt
    <3>2. lock[o] = b => lock'[o] = b
      BY <1>1, <2>2
    <3> QED
      BY <3>1, <3>2 DEF HasIt
  <2> QED
    BY <2>1, <2>2
<1>6. NoUseAfterDelete'
  BY <1>1, <1>2 DEF NoUseAfterDelete
<1>7. StartedOnce'
  BY <1>1, <1>2 DEF StartedOnce
<1>8. IdsKept'
  BY <1>1 DEF IdsKept, Damaged, ThreadOf
<1>9. StillJoined'
  BY <1>1, <1>2 DEF StillJoined, ThreadTypes
<1>10. IdsAdded'
  BY <1>1, <1>2 DEF IdsAdded
<1> QED
  BY <1>3, <1>4, <1>5, <1>6, <1>7, <1>8, <1>9, <1>10 DEF ThreadInv

\* Nobody is at work on an object before it is made.
LEMMA NewThreadStep ==
    ASSUME ThreadInv, NEW c \in Clients, NEW o \in Objects, NEW d \in BOOLEAN, NewThread(c, o, d)
    PROVE  ThreadInv'
<1>1. /\ ThreadTypes /\ Places /\ UsersHaveIt /\ NoUseAfterDelete /\ StartedOnce /\ IdsKept
      /\ StillJoined /\ IdsAdded
      /\ Clients \cap Objects = {} /\ None \notin Actors /\ Actors = Clients \cup Objects
      /\ None \notin Ids /\ {"selfRef", "thread"} \cap Clients = {}
      /\ Sharers \in [Objects -> SUBSET Clients]
  BY PosixThreadsAssumption DEF ThreadInv, Actors
<1>2. /\ ~th[o].exists /\ ender[o] = None /\ th'[o].exists /\ th'[o].state = th[o].state
      /\ th[o].state = "uninitialized"
      /\ th'[o].pthread = th[o].pthread /\ \A p \in Objects : p # o => th'[p] = th[p]
      /\ refs'[o] = {c} /\ \A p \in Objects : p # o => refs'[p] = refs[p]
      /\ UNCHANGED <<lock, os, live, pc, failed, ender>>
      /\ \A p \in Objects : th'[p].pthread = th[p].pthread /\ th'[p].state = th[p].state
  BY <1>1 DEF NewThread, ThreadTypes, Members, StartedOnce
<1>3. ThreadTypes'
  <2>1. th' \in [Objects -> Members]
    <3>1. PICK n \in Priorities : n = ToPthreadPriority(Factory.policy, Factory.priority)
      BY DEF Priorities
    <3>2. PICK m \in Members : m = th[o]
      BY <1>1 DEF ThreadTypes
    <3>3. [m EXCEPT !.exists = TRUE, !.detached = d, !.priority = n] \in Members
      BY DEF Members
    <3> QED
      BY <1>1, <3>1, <3>2, <3>3 DEF NewThread, ThreadTypes
  <2>2. refs' \in [Objects -> SUBSET (Clients \cup {"selfRef", "thread"})]
    BY <1>1 DEF NewThread, ThreadTypes
  <2> QED
    BY <1>1, <1>2, <2>1, <2>2 DEF ThreadTypes
<1>4. Places'
  BY <1>1, <1>2 DEF Places
<1>11. \A b \in Actors : pc[b].on # o
  BY <1>1, <1>2 DEF NoUseAfterDelete, StartedOnce, Places
<1>5. UsersHaveIt'
  <2> SUFFICES ASSUME NEW b \in Actors, NEW p \in Objects, pc'[b].on = p
               PROVE  HasIt(b, p)'
    BY DEF UsersHaveIt
  <2>1. p # o /\ pc'[b] = pc[b] /\ HasIt(b, p)
    BY <1>1, <1>2, <1>11 DEF UsersHaveIt
  <2> QED
    BY <1>2, <2>1 DEF HasIt
<1>6. NoUseAfterDelete'
  BY <1>1, <1>2 DEF NoUseAfterDelete
<1>7. StartedOnce'
  BY <1>1, <1>2 DEF StartedOnce
<1>8. IdsKept'
  <2>1. \A p \in Objects : Damaged(p)' <=> Damaged(p)
    BY <1>1, <1>2 DEF Damaged, ThreadTypes
  <2>2. \A p \in Objects : ThreadOf(p)' = ThreadOf(p)
    BY <1>2 DEF ThreadOf
  <2>3. \A i \in Ids : os[i].of # o
    BY <1>1, <1>2 DEF StartedOnce
  <2> QED
    BY <1>1, <1>2, <2>1, <2>2, <2>3 DEF IdsKept
<1>9. StillJoined'
  BY <1>1, <1>2 DEF StillJoined
<1>10. IdsAdded'
  BY <1>1, <1>2 DEF IdsAdded
<1> QED
  BY <1>3, <1>4, <1>5, <1>6, <1>7, <1>8, <1>9, <1>10 DEF ThreadInv

\* A copy of a shared_ptr takes nothing from those who are at work.
LEMMA ShareStep ==
    ASSUME ThreadInv, NEW c \in Clients, NEW d \in Clients, NEW o \in Objects, Share(c, d, o)
    PROVE  ThreadInv'
<1>1. /\ ThreadTypes /\ Places /\ UsersHaveIt /\ NoUseAfterDelete /\ StartedOnce /\ IdsKept
      /\ StillJoined /\ IdsAdded
      /\ Clients \cap Objects = {} /\ None \notin Actors /\ Actors = Clients \cup Objects
      /\ None \notin Ids /\ {"selfRef", "thread"} \cap Clients = {}
      /\ Sharers \in [Objects -> SUBSET Clients]
  BY PosixThreadsAssumption DEF ThreadInv, Actors
<1>2. /\ c \in refs[o] /\ refs'[o] = refs[o] \cup {d}
      /\ \A p \in Objects : p # o => refs'[p] = refs[p]
      /\ UNCHANGED <<th, lock, os, live, pc, failed, ender>>
  BY <1>1 DEF Share, ThreadTypes
<1>3. ThreadTypes'
  <2>1. refs' \in [Objects -> SUBSET (Clients \cup {"selfRef", "thread"})]
    BY <1>1 DEF Share, ThreadTypes
  <2> QED
    BY <1>1, <1>2, <2>1 DEF ThreadTypes
<1>4. Places'
  BY <1>1, <1>2 DEF Places
<1>5. UsersHaveIt'
  <2> SUFFICES ASSUME NEW b \in Actors, NEW p \in Objects, pc'[b].on = p
               PROVE  HasIt(b, p)'
    BY DEF UsersHaveIt
  <2>1. pc'[b] = pc[b] /\ HasIt(b, p)
    BY <1>1, <1>2 DEF UsersHaveIt
  <2>2. refs[p] \subseteq refs'[p] /\ (refs[p] = {} => refs'[p] = {})
    BY <1>2
  <2> QED
    BY <1>2, <2>1, <2>2 DEF HasIt
<1>6. NoUseAfterDelete'
  BY <1>1, <1>2 DEF NoUseAfterDelete
<1>7. StartedOnce'
  BY <1>1, <1>2 DEF StartedOnce
<1>8. IdsKept'
  BY <1>1, <1>2 DEF IdsKept, Damaged, ThreadOf
<1>9. StillJoined'
  BY <1>1, <1>2 DEF StillJoined
<1>10. IdsAdded'
  BY <1>1, <1>2 DEF IdsAdded
<1> QED
  BY <1>3, <1>4, <1>5, <1>6, <1>7, <1>8, <1>9, <1>10 DEF ThreadInv

\* A new thread has an id that no other has, and its Start has yet to make it known.
LEMMA StartCreatesStep ==
    ASSUME ThreadInv, NEW c \in Clients, NEW o \in Objects, StartCreates(c, o)
    PROVE  ThreadInv'
<1>1. /\ ThreadTypes /\ Places /\ UsersHaveIt /\ NoUseAfterDelete /\ StartedOnce /\ IdsKept
      /\ StillJoined /\ IdsAdded
      /\ Clients \cap Objects = {} /\ None \notin Actors /\ Actors = Clients \cup Objects
      /\ None \notin Ids /\ {"selfRef", "thread"} \cap Clients = {}
      /\ Sharers \in [Objects -> SUBSET Clients]
  BY PosixThreadsAssumption DEF ThreadInv, Actors
<1>2. PICK i \in Ids :
        /\ os[i] = NoThread
        /\ os' = [os EXCEPT ![i] = [status |-> "running", of |-> o, joinable |-> ~th[o].detached]]
        /\ th' = [th EXCEPT ![o].state = "starting", ![o].pthread = i]
  BY DEF StartCreates
<1>11. /\ th'[o].state = "starting" /\ th'[o].pthread = i /\ th'[o].detached = th[o].detached
       /\ th'[o].exists = th[o].exists /\ \A p \in Objects : p # o => th'[p] = th[p]
  BY <1>1, <1>2 DEF ThreadTypes, Members
<1>12. /\ os'[i].of = o /\ os'[i].joinable = ~th[o].detached
       /\ \A j \in Ids : j # i => os'[j] = os[j]
  BY <1>1, <1>2 DEF ThreadTypes
<1>13. /\ refs'[o] = refs[o] \cup {"selfRef"} /\ \A p \in Objects : p # o => refs'[p] = refs[p]
       /\ lock[o] = None /\ lock'[o] = c /\ \A p \in Objects : p # o => lock'[p] = lock[p]
       /\ UNCHANGED <<live, failed, ender>>
  BY <1>1 DEF StartCreates, ThreadTypes, Enter
<1>14. /\ pc[c].at = "Start" /\ pc[c].on = o
       /\ pc'[c] = [at |-> "AddLiveThreadId", on |-> o] /\ pc'[o] = [at |-> "ThreadMain", on |-> o]
       /\ \A b \in Actors : b # c /\ b # o => pc'[b] = pc[b]
       /\ c # o /\ c \in Actors /\ o \in Actors
  BY <1>1 DEF StartCreates, ThreadTypes, Enter
<1>15. /\ th[o].state = "uninitialized" /\ pc[o].at = "idle" /\ th[o].pthread = None
       /\ o \notin failed /\ \A j \in Ids : os[j].of # o
       /\ c \in refs[o] /\ th[o].exists /\ ender[o] = None
  BY <1>1, <1>14 DEF StartCreates, StartedOnce, UsersHaveIt, HasIt, NoUseAfterDelete
<1>3. ThreadTypes'
  <2>1. th' \in [Objects -> Members]
    <3>1. PICK m \in Members : m = th[o]
      BY <1>1 DEF ThreadTypes
    <3>2. [m EXCEPT !.state = "starting", !.pthread = i] \in Members
      BY <1>2 DEF Members
    <3> QED
      BY <1>1, <1>2, <3>1, <3>2 DEF ThreadTypes
  <2>2. os' \in [Ids -> SystemThreads]
    <3>1. [status |-> "running", of |-> o, joinable |-> ~th[o].detached] \in SystemThreads
      BY <1>1 DEF ThreadTypes, Members, SystemThreads
    <3> QED
      BY <1>1, <1>2, <3>1 DEF ThreadTypes
  <2>3. refs' \in [Objects -> SUBSET (Clients \cup {"selfRef", "thread"})]
    BY <1>1 DEF StartCreates, ThreadTypes
  <2>4. lock' \in [Objects -> Actors \cup {None}]
    BY <1>1 DEF StartCreates, ThreadTypes
  <2>5. pc' \in [Actors -> [at : ClientPlaces \cup ThreadPlaces, on : Objects \cup {None}]]
    BY <1>1 DEF StartCreates, ThreadTypes, ClientPlaces, ThreadPlaces
  <2> QED
    BY <1>1, <1>13, <2>1, <2>2, <2>3, <2>4, <2>5 DEF ThreadTypes
<1>4. Places'
  <2>1. \A b \in Actors : (pc[b].on = None <=> pc[b].at = "idle")' 
    BY <1>1, <1>14 DEF Places
  <2>2. \A b \in Clients : pc'[b].at \in ClientPlaces
    BY <1>1, <1>14 DEF Places, ClientPlaces
  <2>3. \A p \in Objects : pc'[p].at \in ThreadPlaces /\ pc'[p].on \in {None, p}
    BY <1>1, <1>14 DEF Places, ThreadPlaces
  <2> QED
    BY <2>1, <2>2, <2>3 DEF Places
<1>5. UsersHaveIt'
  <2> SUFFICES ASSUME NEW b \in Actors, NEW p \in Objects, pc'[b].on = p
               PROVE  HasIt(b, p)'
    BY DEF UsersHaveIt
  <2>1. CASE b = c
    BY <1>13, <1>14, <1>15, <2>1 DEF HasIt
  <2>2. CASE b = o
    BY <1>13, <1>14, <1>15, <2>2 DEF HasIt
  <2>3. CASE b # c /\ b # o
    <3>1. pc'[b] = pc[b] /\ HasIt(b, p) /\ b # None
      BY <1>1, <1>14, <2>3 DEF UsersHaveIt
    <3>2. /\ refs[p] \subseteq refs'[p] /\ (refs[p] = {} => refs'[p] = {})
          /\ (lock[p] = b => lock'[p] = b) /\ UNCHANGED ender
          /\ (lock[p] = b => th'[p] = th[p])
      BY <1>11, <1>13, <1>15, <3>1
    <3> QED
      BY <3>1, <3>2 DEF HasIt
  <2> QED
    BY <2>1, <2>2, <2>3
<1>6. NoUseAfterDelete'
  <2> SUFFICES ASSUME NEW p \in Objects
               PROVE  /\ refs'[p] # {} => th'[p].exists /\ ender'[p] = None
                      /\ ~th'[p].exists => \A b \in Actors : pc'[b].on = p =>
                            pc'[b].at \in {"return", "ended"} /\ b = p
    BY DEF NoUseAfterDelete
  <2>1. CASE p = o
    BY <1>11, <1>13, <1>15, <2>1
  <2>2. CASE p # o
    BY <1>1, <1>11, <1>13, <1>14, <2>2 DEF NoUseAfterDelete
  <2> QED
    BY <2>1, <2>2
<1>7. StartedOnce'
  <2> SUFFICES ASSUME NEW p \in Objects
               PROVE  /\ ~th'[p].exists /\ ender'[p] = None => th'[p].state = "uninitialized"
                      /\ th'[p].state = "uninitialized" =>
                           /\ pc'[p].at = "idle" /\ th'[p].pthread = None /\ p \notin failed'
                           /\ \A j \in Ids : os'[j].of # p
                      /\ th'[p].state = "starting" /\ p \notin failed' => th'[p].pthread \in Ids
    BY DEF StartedOnce
  <2>1. CASE p = o
    BY <1>11, <1>13, <1>15, <2>1
  <2>2. CASE p # o
    BY <1>1, <1>11, <1>12, <1>13, <1>14, <2>2 DEF StartedOnce
  <2> QED
    BY <2>1, <2>2
<1>8. IdsKept'
  <2>1. \A p \in Objects, j \in Ids : os'[j].of = p =>
          th'[p].pthread = j /\ (th'[p].detached => ~os'[j].joinable)
    <3> SUFFICES ASSUME NEW p \in Objects, NEW j \in Ids, os'[j].of = p
                 PROVE  th'[p].pthread = j /\ (th'[p].detached => ~os'[j].joinable)
      OBVIOUS
    <3>1. CASE j = i
      BY <1>11, <1>12, <3>1
    <3>2. CASE j # i
      <4>1. p # o /\ os[j].of = p
        BY <1>12, <1>15, <3>2
      <4> QED
        BY <1>1, <1>11, <1>12, <3>2, <4>1 DEF IdsKept
    <3> QED
      BY <3>1, <3>2
  <2>2. ASSUME NEW p \in Objects, ~Damaged(p)', th'[p].state = "starting", ~th'[p].detached
        PROVE  th'[p].pthread \in Ids /\ ThreadOf(p)'.of = p /\ ThreadOf(p)'.joinable
    <3>1. CASE p = o
      BY <1>1, <1>11, <1>12, <2>2, <3>1 DEF ThreadOf
    <3>2. CASE p # o
      <4>1. ~Damaged(p)
        BY <1>1, <1>11, <1>13, <1>15, <2>2, <3>2 DEF Damaged, ThreadTypes
      <4>2. th[p].pthread \in Ids /\ ThreadOf(p).of = p /\ ThreadOf(p).joinable
        BY <1>1, <1>11, <2>2, <3>2, <4>1 DEF IdsKept
      <4>3. th[p].pthread # i
        BY <1>1, <1>2, <4>2 DEF ThreadOf, NoThread, Actors
      <4> QED
        BY <1>1, <1>11, <1>12, <3>2, <4>2, <4>3 DEF ThreadOf
    <3> QED
      BY <3>1, <3>2
  <2> QED
    BY <2>1, <2>2 DEF IdsKept
<1>9. StillJoined'
  <2> SUFFICES ASSUME NEW p \in Objects, NEW j \in Ids, os'[j].of = p, os'[j].joinable,
                      ender'[p] \notin {None, p}
               PROVE  pc'[ender[p]].on = p /\ pc'[ender[p]].at \in {"Join", "pthread_join"}
    BY <1>13 DEF StillJoined
  <2>1. p # o /\ j # i /\ ender[p] \in Actors
    BY <1>1, <1>12, <1>13, <1>15 DEF ThreadTypes
  <2>2. pc[ender[p]].on = p /\ pc[ender[p]].at \in {"Join", "pthread_join"}
    BY <1>1, <1>12, <1>13, <2>1 DEF StillJoined
  <2> QED
    BY <1>14, <1>15, <2>1, <2>2
<1>10. IdsAdded'
  <2> SUFFICES ASSUME NEW p \in Objects, pc'[p].at \in {"ThreadMain", "Run"}, p \notin failed',
                      \A q \in Objects \ {p} : th'[q].pthread # th'[p].pthread
               PROVE  \/ th'[p].pthread \in live'
                      \/ \E b \in Clients : lock'[p] = b /\ pc'[b] = [at |-> "AddLiveThreadId", on |-> p]
    BY DEF IdsAdded
  <2>1. CASE p = o
    BY <1>13, <1>14, <2>1
  <2>2. CASE p # o
    <3>1. pc'[p] = pc[p] /\ th'[p] = th[p]
      BY <1>1, <1>11, <1>14, <2>2
    <3>2. th[p].pthread \in Ids
      BY <1>1, <1>13, <3>1 DEF StartedOnce, ThreadTypes, Members
    <3>3. \A q \in Objects \ {p} : th[q].pthread # th[p].pthread
      BY <1>1, <1>11, <1>15, <3>1, <3>2
    <3>4. \/ th[p].pthread \in live
          \/ \E b \in Clients : lock[p] = b /\ pc[b] = [at |-> "AddLiveThreadId", on |-> p]
      BY <1>1, <1>13, <3>1, <3>3 DEF IdsAdded
    <3> QED
      BY <1>1, <1>13, <1>14, <2>2, <3>1, <3>4
  <2> QED
    BY <2>1, <2>2
<1> QED
  BY <1>3, <1>4, <1>5, <1>6, <1>7, <1>8, <1>9, <1>10 DEF ThreadInv

\* A Start that fails leaves an object that is damaged, and perhaps others with its id.
LEMMA StartFailsStep ==
    ASSUME ThreadInv, NEW c \in Clients, NEW o \in Objects, StartFails(c, o)
    PROVE  ThreadInv'
<1>1. /\ ThreadTypes /\ Places /\ UsersHaveIt /\ NoUseAfterDelete /\ StartedOnce /\ IdsKept
      /\ StillJoined /\ IdsAdded
      /\ Clients \cap Objects = {} /\ None \notin Actors /\ Actors = Clients \cup Objects
      /\ None \notin Ids /\ {"selfRef", "thread"} \cap Clients = {}
      /\ Sharers \in [Objects -> SUBSET Clients]
  BY PosixThreadsAssumption DEF ThreadInv, Actors
<1>2. PICK i \in {None} \cup {j \in Ids : os[j] = NoThread} :
        th' = [th EXCEPT ![o].state = "starting", ![o].pthread = i]
  BY DEF StartFails
<1>11. /\ th'[o].state = "starting" /\ th'[o].pthread = i /\ th'[o].detached = th[o].detached
       /\ th'[o].exists = th[o].exists /\ \A p \in Objects : p # o => th'[p] = th[p]
  BY <1>1, <1>2 DEF ThreadTypes, Members
<1>13. /\ refs'[o] = refs[o] \cup {"selfRef"} /\ \A p \in Objects : p # o => refs'[p] = refs[p]
       /\ lock[o] = None /\ failed' = failed \cup {o}
       /\ UNCHANGED <<lock, os, live, ender>>
  BY <1>1 DEF StartFails, ThreadTypes, Enter
<1>14. /\ pc[c].at = "Start" /\ pc[c].on = o
       /\ pc'[c] = Idle /\ \A b \in Actors : b # c => pc'[b] = pc[b]
       /\ c # o /\ c \in Actors /\ o \in Actors
  BY <1>1 DEF StartFails, ThreadTypes, Enter
<1>15. /\ th[o].state = "uninitialized" /\ pc[o].at = "idle" /\ th[o].pthread = None
       /\ o \notin failed /\ \A j \in Ids : os[j].of # o
       /\ c \in refs[o] /\ th[o].exists /\ ender[o] = None
  BY <1>1, <1>14 DEF StartFails, StartedOnce, UsersHaveIt, HasIt, NoUseAfterDelete
<1>3. ThreadTypes'
  <2>1. th' \in [Objects -> Members]
    <3>1. PICK m \in Members : m = th[o]
      BY <1>1 DEF ThreadTypes
    <3>2. [m EXCEPT !.state = "starting", !.pthread = i] \in Members
      BY <1>2 DEF Members
    <3> QED
      BY <1>1, <1>2, <3>1, <3>2 DEF ThreadTypes
  <2>2. refs' \in [Objects -> SUBSET (Clients \cup {"selfRef", "thread"})]
    BY <1>1 DEF StartFails, ThreadTypes
  <2>3. pc' \in [Actors -> [at : ClientPlaces \cup ThreadPlaces, on : Objects \cup {None}]]
    BY <1>1 DEF StartFails, ThreadTypes, ClientPlaces, ThreadPlaces, Idle
  <2> QED
    BY <1>1, <1>13, <2>1, <2>2, <2>3 DEF ThreadTypes
<1>4. Places'
  BY <1>1, <1>14 DEF Places, ClientPlaces, Idle
<1>5. UsersHaveIt'
  <2> SUFFICES ASSUME NEW b \in Actors, NEW p \in Objects, pc'[b].on = p
               PROVE  HasIt(b, p)'
    BY DEF UsersHaveIt
  <2>1. b # c /\ pc'[b] = pc[b] /\ HasIt(b, p) /\ b # None
    BY <1>1, <1>14 DEF UsersHaveIt, Idle
  <2>2. /\ refs[p] \subseteq refs'[p] /\ (refs[p] = {} => refs'[p] = {})
        /\ UNCHANGED <<lock, ender>> /\ (lock[p] = b => th'[p] = th[p])
    BY <1>11, <1>13, <1>15, <2>1
  <2> QED
    BY <2>1, <2>2 DEF HasIt
<1>6. NoUseAfterDelete'
  <2> SUFFICES ASSUME NEW p \in Objects
               PROVE  /\ refs'[p] # {} => th'[p].exists /\ ender'[p] = None
                      /\ ~th'[p].exists => \A b \in Actors : pc'[b].on = p =>
                            pc'[b].at \in {"return", "ended"} /\ b = p
    BY DEF NoUseAfterDelete
  <2>1. CASE p = o
    BY <1>11, <1>13, <1>15, <2>1
  <2>2. CASE p # o
    <3>1. pc'[c].on # p
      BY <1>1, <1>14 DEF Idle
    <3> QED
      BY <1>1, <1>11, <1>13, <1>14, <2>2, <3>1 DEF NoUseAfterDelete
  <2> QED
    BY <2>1, <2>2
<1>7. StartedOnce'
  <2> SUFFICES ASSUME NEW p \in Objects
               PROVE  /\ ~th'[p].exists /\ ender'[p] = None => th'[p].state = "uninitialized"
                      /\ th'[p].state = "uninitialized" =>
                           /\ pc'[p].at = "idle" /\ th'[p].pthread = None /\ p \notin failed'
                           /\ \A j \in Ids : os'[j].of # p
                      /\ th'[p].state = "starting" /\ p \notin failed' => th'[p].pthread \in Ids
    BY DEF StartedOnce
  <2>1. CASE p = o
    BY <1>11, <1>13, <1>15, <2>1
  <2>2. CASE p # o
    BY <1>1, <1>11, <1>13, <1>14, <2>2 DEF StartedOnce
  <2> QED
    BY <2>1, <2>2
<1>8. IdsKept'
  <2>1. \A p \in Objects, j \in Ids : os'[j].of = p =>
          th'[p].pthread = j /\ (th'[p].detached => ~os'[j].joinable)
    BY <1>1, <1>11, <1>13, <1>15 DEF IdsKept
  <2>2. ASSUME NEW p \in Objects, ~Damaged(p)', th'[p].state = "starting", ~th'[p].detached
        PROVE  th'[p].pthread \in Ids /\ ThreadOf(p)'.of = p /\ ThreadOf(p)'.joinable
    <3>1. p # o
      BY <1>13, <2>2 DEF Damaged
    <3>2. ~Damaged(p)
      BY <1>1, <1>11, <1>13, <1>15, <2>2, <3>1 DEF Damaged, ThreadTypes
    <3>3. th[p].pthread \in Ids /\ ThreadOf(p).of = p /\ ThreadOf(p).joinable
      BY <1>1, <1>11, <2>2, <3>1, <3>2 DEF IdsKept
    <3> QED
      BY <1>11, <1>13, <3>1, <3>3 DEF ThreadOf
  <2> QED
    BY <2>1, <2>2 DEF IdsKept
<1>9. StillJoined'
  <2> SUFFICES ASSUME NEW p \in Objects, NEW j \in Ids, os'[j].of = p, os'[j].joinable,
                      ender'[p] \notin {None, p}
               PROVE  pc'[ender'[p]].on = p /\ pc'[ender'[p]].at \in {"Join", "pthread_join"}
    BY DEF StillJoined
  <2>1. ender[p] \in Actors /\ ender'[p] = ender[p]
    BY <1>1, <1>13 DEF ThreadTypes
  <2>2. pc[ender[p]].on = p /\ pc[ender[p]].at \in {"Join", "pthread_join"}
    BY <1>1, <1>13, <2>1 DEF StillJoined
  <2> QED
    BY <1>14, <2>1, <2>2
<1>10. IdsAdded'
  <2> SUFFICES ASSUME NEW p \in Objects, pc'[p].at \in {"ThreadMain", "Run"}, p \notin failed',
                      \A q \in Objects \ {p} : th'[q].pthread # th'[p].pthread
               PROVE  \/ th'[p].pthread \in live'
                      \/ \E b \in Clients : lock'[p] = b /\ pc'[b] = [at |-> "AddLiveThreadId", on |-> p]
    BY DEF IdsAdded
  <2>1. p # o /\ p # c
    BY <1>1, <1>13
  <2>2. pc'[p] = pc[p] /\ th'[p] = th[p]
    BY <1>1, <1>11, <1>14, <2>1
  <2>3. th[p].pthread \in Ids
    BY <1>1, <1>13, <2>2 DEF StartedOnce, ThreadTypes, Members
  <2>4. \A q \in Objects \ {p} : th[q].pthread # th[p].pthread
    BY <1>1, <1>11, <1>15, <2>2, <2>3
  <2>5. \/ th[p].pthread \in live
        \/ \E b \in Clients : lock[p] = b /\ pc[b] = [at |-> "AddLiveThreadId", on |-> p]
    BY <1>1, <1>13, <2>2, <2>4 DEF IdsAdded
  <2> QED
    BY <1>1, <1>13, <1>14, <2>1, <2>2, <2>5
<1> QED
  BY <1>3, <1>4, <1>5, <1>6, <1>7, <1>8, <1>9, <1>10 DEF ThreadInv

\* Start makes the id known and releases the lock that it alone had.
LEMMA AddLiveThreadIdStep ==
    ASSUME ThreadInv, NEW c \in Clients, NEW o \in Objects, AddLiveThreadId(c, o)
    PROVE  ThreadInv'
<1>1. /\ ThreadTypes /\ Places /\ UsersHaveIt /\ NoUseAfterDelete /\ StartedOnce /\ IdsKept
      /\ StillJoined /\ IdsAdded
      /\ Clients \cap Objects = {} /\ None \notin Actors /\ Actors = Clients \cup Objects
      /\ None \notin Ids /\ {"selfRef", "thread"} \cap Clients = {}
      /\ Sharers \in [Objects -> SUBSET Clients]
  BY PosixThreadsAssumption DEF ThreadInv, Actors
<1>2. /\ pc[c] = [at |-> "AddLiveThreadId", on |-> o] /\ c \in Actors
      /\ pc'[c] = Idle /\ \A b \in Actors : b # c => pc'[b] = pc[b]
      /\ lock'[o] = None /\ \A p \in Objects : p # o => lock'[p] = lock[p]
      /\ live' = live \cup {th[o].pthread} /\ UNCHANGED <<th, refs, os, failed, ender>>
  BY <1>1 DEF AddLiveThreadId, ThreadTypes
<1>11. lock[o] = c
  BY <1>1, <1>2 DEF UsersHaveIt, HasIt
<1>3. ThreadTypes'
  <2>1. lock' \in [Objects -> Actors \cup {None}]
    BY <1>1 DEF AddLiveThreadId, ThreadTypes
  <2>2. pc' \in [Actors -> [at : ClientPlaces \cup ThreadPlaces, on : Objects \cup {None}]]
    BY <1>1 DEF AddLiveThreadId, ThreadTypes, ClientPlaces, ThreadPlaces, Idle
  <2> QED
    BY <1>1, <1>2, <2>1, <2>2 DEF ThreadTypes
<1>4. Places'
  BY <1>1, <1>2 DEF Places, ClientPlaces, Idle
<1>5. UsersHaveIt'
  <2> SUFFICES ASSUME NEW b \in Actors, NEW p \in Objects, pc'[b].on = p
               PROVE  HasIt(b, p)'
    BY DEF UsersHaveIt
  <2>1. b # c /\ pc'[b] = pc[b] /\ HasIt(b, p)
    BY <1>1, <1>2 DEF UsersHaveIt, Idle
  <2>2. lock[p] = b => lock'[p] = b
    BY <1>2, <1>11, <2>1
  <2> QED
    BY <1>2, <2>1, <2>2 DEF HasIt
<1>6. NoUseAfterDelete'
  BY <1>1, <1>2 DEF NoUseAfterDelete, Idle
<1>7. StartedOnce'
  BY <1>1, <1>2 DEF StartedOnce, Idle
<1>8. IdsKept'
  BY <1>1, <1>2 DEF IdsKept, Damaged, ThreadOf
<1>9. StillJoined'
  <2> SUFFICES ASSUME NEW p \in Objects, NEW j \in Ids, os'[j].of = p, os'[j].joinable,
                      ender'[p] \notin {None, p}
               PROVE  pc'[ender'[p]].on = p /\ pc'[ender'[p]].at \in {"Join", "pthread_join"}
    BY DEF StillJoined
  <2>1. ender[p] \in Actors /\ ender'[p] = ender[p]
    BY <1>1, <1>2 DEF ThreadTypes
  <2>2. pc[ender[p]].on = p /\ pc[ender[p]].at \in {"Join", "pthread_join"}
    BY <1>1, <1>2, <2>1 DEF StillJoined
  <2> QED
    BY <1>2, <2>1, <2>2
<1>10. IdsAdded'
  <2> SUFFICES ASSUME NEW p \in Objects, pc'[p].at \in {"ThreadMain", "Run"}, p \notin failed',
                      \A q \in Objects \ {p} : th'[q].pthread # th'[p].pthread
               PROVE  \/ th'[p].pthread \in live'
                      \/ \E b \in Clients : lock'[p] = b /\ pc'[b] = [at |-> "AddLiveThreadId", on |-> p]
    BY DEF IdsAdded
  <2>1. p # c /\ pc'[p] = pc[p]
    BY <1>1, <1>2
  <2>2. \/ th[p].pthread \in live
        \/ \E b \in Clients : lock[p] = b /\ pc[b] = [at |-> "AddLiveThreadId", on |-> p]
    BY <1>1, <1>2, <2>1 DEF IdsAdded
  <2>3. CASE p = o
    BY <1>2, <2>3
  <2>4. CASE p # o
    BY <1>1, <1>2, <2>2, <2>4
  <2> QED
    BY <2>3, <2>4
<1> QED
  BY <1>3, <1>4, <1>5, <1>6, <1>7, <1>8, <1>9, <1>10 DEF ThreadInv

\* The thread that is reaped is the one of the object, or the object is damaged and so is
\* every other that remembers its id.
LEMMA JoinReturnsStep ==
    ASSUME ThreadInv, NEW a \in Actors, NEW o \in Objects, JoinReturns(a, o)
    PROVE  ThreadInv'
<1>1. /\ ThreadTypes /\ Places /\ UsersHaveIt /\ NoUseAfterDelete /\ StartedOnce /\ IdsKept
      /\ StillJoined /\ IdsAdded
      /\ Clients \cap Objects = {} /\ None \notin Actors /\ Actors = Clients \cup Objects
      /\ None \notin Ids /\ {"selfRef", "thread"} \cap Clients = {}
      /\ Sharers \in [Objects -> SUBSET Clients]
  BY PosixThreadsAssumption DEF ThreadInv, Actors
<1> DEFINE k == th[o].pthread
<1>2. /\ pc[a] = [at |-> "pthread_join", on |-> o] /\ pc'[a] = After(a, o)
      /\ \A b \in Actors : b # a => pc'[b] = pc[b]
      /\ lock'[o] = None /\ \A p \in Objects : p # o => lock'[p] = lock[p]
      /\ UNCHANGED <<refs, live, failed, ender>>
  BY <1>1 DEF JoinReturns, ThreadTypes
<1>11. /\ th'[o].detached /\ th'[o].exists = th[o].exists /\ th'[o].state = th[o].state
       /\ \A p \in Objects : p # o => th'[p] = th[p]
       /\ \A p \in Objects : th'[p].pthread = th[p].pthread
  BY <1>1 DEF JoinReturns, ThreadTypes, Members
<1>12. k \in Ids /\ os'[k] = NoThread /\ \A j \in Ids : j # k => os'[j] = os[j]
  BY <1>1 DEF JoinReturns, ThreadTypes, Members, ThreadOf, NoThread, Reap
<1>13. /\ lock[o] = a /\ th[o].state = "starting" /\ ~th[o].detached /\ th[o].exists
       /\ a \in refs[o] \/ (refs[o] = {} /\ ender[o] = a)
       /\ a \in Objects => a = o
  BY <1>1, <1>2 DEF UsersHaveIt, HasIt, NoUseAfterDelete, Places, Actors
<1>14. /\ pc'[a].at \in {"idle", "RemoveLiveThreadId"} /\ (pc'[a].at = "idle" => pc'[a].on = None)
       /\ pc'[a].at = "RemoveLiveThreadId" => pc'[a].on = o /\ refs[o] = {} /\ ender[o] = a
  BY <1>2, <1>13 DEF After, Idle
<1>3. ThreadTypes'
  <2>1. th' \in [Objects -> Members]
    <3>1. PICK m \in Members : m = th[o]
      BY <1>1 DEF ThreadTypes
    <3>2. [m EXCEPT !.detached = TRUE] \in Members
      BY DEF Members
    <3> QED
      BY <1>1, <3>1, <3>2 DEF JoinReturns, ThreadTypes
  <2>2. os' \in [Ids -> SystemThreads]
    BY <1>1 DEF JoinReturns, ThreadTypes, SystemThreads, NoThread, Reap
  <2>3. lock' \in [Objects -> Actors \cup {None}]
    BY <1>1 DEF JoinReturns, ThreadTypes
  <2>4. After(a, o) \in [at : ClientPlaces \cup ThreadPlaces, on : Objects \cup {None}]
    BY DEF After, ClientPlaces, ThreadPlaces, Idle
  <2>5. pc' \in [Actors -> [at : ClientPlaces \cup ThreadPlaces, on : Objects \cup {None}]]
    BY <1>1, <2>4 DEF JoinReturns, ThreadTypes
  <2> QED
    BY <1>1, <1>2, <2>1, <2>2, <2>3, <2>5 DEF ThreadTypes
<1>4. Places'
  <2>1. \A b \in Actors : (pc[b].on = None <=> pc[b].at = "idle")'
    BY <1>1, <1>2, <1>14 DEF Places
  <2>2. \A b \in Clients : pc'[b].at \in ClientPlaces
    BY <1>1, <1>2, <1>14 DEF Places, ClientPlaces
  <2>3. \A p \in Objects : pc'[p].at \in ThreadPlaces /\ pc'[p].on \in {None, p}
    BY <1>1, <1>2, <1>13, <1>14 DEF Places, ThreadPlaces
  <2> QED
    BY <2>1, <2>2, <2>3 DEF Places
<1>5. UsersHaveIt'
  <2> SUFFICES ASSUME NEW b \in Actors, NEW p \in Objects, pc'[b].on = p
               PROVE  HasIt(b, p)'
    BY DEF UsersHaveIt
  <2>1. CASE b = a
    BY <1>1, <1>2, <1>14, <2>1 DEF HasIt
  <2>2. CASE b # a
    <3>1. pc'[b] = pc[b] /\ HasIt(b, p)
      BY <1>1, <1>2, <2>2 DEF UsersHaveIt
    <3>2. lock[p] = b => lock'[p] = b /\ th'[p] = th[p]
      BY <1>2, <1>11, <1>13, <2>2
    <3> QED
      BY <1>2, <3>1, <3>2 DEF HasIt
  <2> QED
    BY <2>1, <2>2
<1>6. NoUseAfterDelete'
  <2> SUFFICES ASSUME NEW p \in Objects
               PROVE  /\ refs'[p] # {} => th'[p].exists /\ ender'[p] = None
                      /\ ~th'[p].exists => \A b \in Actors : pc'[b].on = p =>
                            pc'[b].at \in {"return", "ended"} /\ b = p
    BY DEF NoUseAfterDelete
  <2>1. CASE p = o
    BY <1>1, <1>2, <1>11, <1>13, <2>1 DEF NoUseAfterDelete
  <2>2. CASE p # o
    <3>1. pc'[a].on # p
      BY <1>1, <1>14, <2>2
    <3> QED
      BY <1>1, <1>2, <1>11, <2>2, <3>1 DEF NoUseAfterDelete
  <2> QED
    BY <2>1, <2>2
<1>15. \A p \in Objects, j \in Ids : os'[j].of = p => p # o /\ os'[j] = os[j] /\ os[j].of = p
  BY <1>1, <1>12 DEF IdsKept, NoThread
<1>7. StartedOnce'
  <2> SUFFICES ASSUME NEW p \in Objects
               PROVE  /\ ~th'[p].exists /\ ender'[p] = None => th'[p].state = "uninitialized"
                      /\ th'[p].state = "uninitialized" =>
                           /\ pc'[p].at = "idle" /\ th'[p].pthread = None /\ p \notin failed'
                           /\ \A j \in Ids : os'[j].of # p
                      /\ th'[p].state = "starting" /\ p \notin failed' => th'[p].pthread \in Ids
    BY DEF StartedOnce
  <2>1. CASE p = o
    BY <1>2, <1>11, <1>12, <1>13, <2>1
  <2>2. CASE p # o
    <3>1. pc'[p] = pc[p]
      BY <1>1, <1>2, <1>13, <2>2
    <3> QED
      BY <1>1, <1>2, <1>11, <1>15, <2>2, <3>1 DEF StartedOnce
  <2> QED
    BY <2>1, <2>2
<1>8. IdsKept'
  <2>1. \A p \in Objects, j \in Ids : os'[j].of = p =>
          th'[p].pthread = j /\ (th'[p].detached => ~os'[j].joinable)
    BY <1>1, <1>11, <1>15 DEF IdsKept
  <2>2. ASSUME NEW p \in Objects, ~Damaged(p)', th'[p].state = "starting", ~th'[p].detached
        PROVE  th'[p].pthread \in Ids /\ ThreadOf(p)'.of = p /\ ThreadOf(p)'.joinable
    <3>1. p # o /\ th'[p] = th[p]
      BY <1>11, <2>2
    <3>2. ~Damaged(p)
      BY <1>1, <1>2, <1>11, <2>2 DEF Damaged, ThreadTypes
    <3>3. th[p].pthread \in Ids /\ ThreadOf(p).of = p /\ ThreadOf(p).joinable
      BY <1>1, <2>2, <3>1, <3>2 DEF IdsKept
    <3>4. th[p].pthread # k
      <4> SUFFICES ASSUME th[p].pthread = k PROVE FALSE
        OBVIOUS
      <4>1. ThreadOf(o) = ThreadOf(p)
        BY DEF ThreadOf
      <4>2. Damaged(o)
        BY <1>1, <1>13, <3>1, <3>3, <4>1 DEF IdsKept
      <4> QED
        BY <1>1, <1>12, <3>2, <4>2 DEF Damaged
    <3> QED
      BY <1>1, <1>12, <3>1, <3>3, <3>4 DEF ThreadOf
  <2> QED
    BY <2>1, <2>2 DEF IdsKept
<1>9. StillJoined'
  <2> SUFFICES ASSUME NEW p \in Objects, NEW j \in Ids, os'[j].of = p, os'[j].joinable,
                      ender'[p] \notin {None, p}
               PROVE  pc'[ender'[p]].on = p /\ pc'[ender'[p]].at \in {"Join", "pthread_join"}
    BY DEF StillJoined
  <2>1. ender[p] \in Actors /\ ender'[p] = ender[p] /\ p # o
    BY <1>1, <1>2, <1>15 DEF ThreadTypes
  <2>2. pc[ender[p]].on = p /\ pc[ender[p]].at \in {"Join", "pthread_join"}
    BY <1>1, <1>15, <2>1 DEF StillJoined
  <2> QED
    BY <1>2, <2>1, <2>2
<1>10. IdsAdded'
  <2> SUFFICES ASSUME NEW p \in Objects, pc'[p].at \in {"ThreadMain", "Run"}, p \notin failed',
                      \A q \in Objects \ {p} : th'[q].pthread # th'[p].pthread
               PROVE  \/ th'[p].pthread \in live'
                      \/ \E b \in Clients : lock'[p] = b /\ pc'[b] = [at |-> "AddLiveThreadId", on |-> p]
    BY DEF IdsAdded
  <2>1. p # a /\ pc'[p] = pc[p]
    BY <1>1, <1>2, <1>14
  <2>2. \/ th[p].pthread \in live
        \/ \E b \in Clients : lock[p] = b /\ pc[b] = [at |-> "AddLiveThreadId", on |-> p]
    BY <1>1, <1>2, <1>11, <2>1 DEF IdsAdded
  <2>3. \A b \in Clients : pc[b] = [at |-> "AddLiveThreadId", on |-> p] => b # a
    BY <1>2
  <2> QED
    BY <1>1, <1>2, <1>11, <1>13, <2>2, <2>3
<1> QED
  BY <1>3, <1>4, <1>5, <1>6, <1>7, <1>8, <1>9, <1>10 DEF ThreadInv

\* A shared_ptr goes.  Nobody else who is at work on the object relied on this one, and if
\* it was the last then its owner is the only one there, and joins a thread that needs it.
LEMMA DropStep ==
    ASSUME ThreadInv, NEW a \in Actors, NEW o \in Objects, NEW holder \in Clients \cup {"thread"},
           NEW otherwise, DropBy(a, holder, o, otherwise), UNCHANGED <<th, lock, os, live, failed>>,
           holder \in refs[o],
           \/ a \in Clients /\ holder = a /\ pc[a] = Idle /\ otherwise = Idle
           \/ a = o /\ holder = "thread" /\ pc[a] = [at |-> "Run", on |-> o]
              /\ otherwise = [at |-> "return", on |-> o]
    PROVE  ThreadInv'
<1>1. /\ ThreadTypes /\ Places /\ UsersHaveIt /\ NoUseAfterDelete /\ StartedOnce /\ IdsKept
      /\ StillJoined /\ IdsAdded
      /\ Clients \cap Objects = {} /\ None \notin Actors /\ Actors = Clients \cup Objects
      /\ None \notin Ids /\ {"selfRef", "thread"} \cap Clients = {}
      /\ Sharers \in [Objects -> SUBSET Clients]
  BY PosixThreadsAssumption DEF ThreadInv, Actors
<1> DEFINE last == refs[o] = {holder}
<1>2. /\ refs'[o] = refs[o] \ {holder} /\ \A p \in Objects : p # o => refs'[p] = refs[p]
      /\ \A p \in Objects : p # o => ender'[p] = ender[p]
      /\ ender'[o] = IF last THEN a ELSE ender[o]
      /\ \A b \in Actors : b # a => pc'[b] = pc[b]
      /\ last => pc'[a] = [at |-> IF th[o].detached THEN "RemoveLiveThreadId" ELSE "Join", on |-> o]
      /\ ~last => pc'[a] = otherwise
      /\ UNCHANGED <<th, lock, os, live, failed>>
  BY <1>1 DEF DropBy, At, ThreadTypes
<1>11. th[o].exists /\ ender[o] = None
  BY <1>1 DEF NoUseAfterDelete
<1>13. pc' = [pc EXCEPT ![a] = IF last
                               THEN [at |-> IF th[o].detached THEN "RemoveLiveThreadId" ELSE "Join",
                                     on |-> o]
                               ELSE otherwise]
  BY DEF DropBy, At
<1>12. a \in Objects => a = o /\ th[o].state = "starting"
  BY <1>1 DEF StartedOnce, ThreadTypes, Members
<1>3. ThreadTypes'
  <2>1. refs' \in [Objects -> SUBSET (Clients \cup {"selfRef", "thread"})]
    BY <1>1 DEF DropBy, ThreadTypes
  <2>2. ender' \in [Objects -> Actors \cup {None}]
    BY <1>1 DEF DropBy, ThreadTypes
  <2>3. pc' \in [Actors -> [at : ClientPlaces \cup ThreadPlaces, on : Objects \cup {None}]]
    <3>1. otherwise \in [at : ClientPlaces \cup ThreadPlaces, on : Objects \cup {None}]
      BY DEF Idle, ClientPlaces, ThreadPlaces
    <3>2. [at |-> IF th[o].detached THEN "RemoveLiveThreadId" ELSE "Join", on |-> o]
            \in [at : ClientPlaces \cup ThreadPlaces, on : Objects \cup {None}]
      BY DEF ClientPlaces, ThreadPlaces
    <3> QED
      BY <1>1, <1>13, <3>1, <3>2 DEF ThreadTypes
  <2> QED
    BY <1>1, <1>2, <2>1, <2>2, <2>3 DEF ThreadTypes
<1>4. Places'
  <2>1. /\ pc'[a].on = None <=> pc'[a].at = "idle"
        /\ a \in Clients => pc'[a].at \in ClientPlaces
        /\ a \in Objects => pc'[a].at \in ThreadPlaces /\ pc'[a].on = a
    BY <1>1, <1>2, <1>12 DEF Idle, ClientPlaces, ThreadPlaces, Actors
  <2> QED
    BY <1>1, <1>2, <2>1 DEF Places
<1>5. UsersHaveIt'
  <2> SUFFICES ASSUME NEW b \in Actors, NEW p \in Objects, pc'[b].on = p
               PROVE  HasIt(b, p)'
    BY DEF UsersHaveIt
  <2>1. CASE b = a
    <3>1. CASE last
      BY <1>2, <2>1, <3>1 DEF HasIt
    <3>2. CASE ~last
      BY <1>1, <1>2, <2>1, <3>2 DEF HasIt, Idle
    <3> QED
      BY <3>1, <3>2
  <2>2. CASE b # a
    <3>1. pc'[b] = pc[b] /\ HasIt(b, p)
      BY <1>1, <1>2, <2>2 DEF UsersHaveIt
    <3>2. CASE p # o
      BY <1>2, <3>1, <3>2 DEF HasIt
    <3>3. CASE p = o
      <4>1. (b \in Clients /\ b \in refs[o] => b \in refs'[o]) /\ (b \in Objects => b = o)
        BY <1>1, <1>2, <2>2, <3>1, <3>3 DEF Places
      <4>2. CASE b \in Clients
        BY <1>1, <1>2, <3>1, <3>3, <4>1, <4>2 DEF HasIt, Places, ClientPlaces
      <4>3. CASE b = o
        <5>1. holder \in Clients /\ a \in Clients
          BY <1>1, <2>2, <4>3
        <5>2. /\ "thread" \in refs[o] => "thread" \in refs'[o]
              /\ "selfRef" \in refs[o] => "selfRef" \in refs'[o]
              /\ b # holder
          BY <1>1, <1>2, <4>3, <5>1
        <5>3. b \in refs[o] => b \in refs'[o]
          BY <1>2, <5>2
        <5> QED
          BY <1>1, <1>2, <3>1, <3>3, <5>2, <5>3, <4>3 DEF HasIt, Places, ThreadPlaces
      <4> QED
        BY <1>1, <4>1, <4>2, <4>3
    <3> QED
      BY <3>2, <3>3
  <2> QED
    BY <2>1, <2>2
<1>6. NoUseAfterDelete'
  <2> SUFFICES ASSUME NEW p \in Objects
               PROVE  /\ refs'[p] # {} => th'[p].exists /\ ender'[p] = None
                      /\ ~th'[p].exists => \A b \in Actors : pc'[b].on = p =>
                            pc'[b].at \in {"return", "ended"} /\ b = p
    BY DEF NoUseAfterDelete
  <2>1. CASE p = o
    BY <1>2, <1>11, <2>1
  <2>2. CASE p # o
    <3>1. pc'[a].on # p
      BY <1>1, <1>2, <2>2 DEF Idle, Actors
    <3> QED
      BY <1>1, <1>2, <2>2, <3>1 DEF NoUseAfterDelete
  <2> QED
    BY <2>1, <2>2
<1>7. StartedOnce'
  BY <1>1, <1>2, <1>11, <1>12 DEF StartedOnce
<1>8. IdsKept'
  BY <1>1, <1>2 DEF IdsKept, Damaged, ThreadOf
<1>9. StillJoined'
  <2> SUFFICES ASSUME NEW p \in Objects, NEW j \in Ids, os'[j].of = p, os'[j].joinable,
                      ender'[p] \notin {None, p}
               PROVE  pc'[ender'[p]].on = p /\ pc'[ender'[p]].at \in {"Join", "pthread_join"}
    BY DEF StillJoined
  <2>1. CASE p = o
    <3>1. last /\ ender'[o] = a
      BY <1>2, <1>11, <2>1
    <3>2. ~th[o].detached
      BY <1>1, <1>2, <2>1 DEF IdsKept
    <3> QED
      BY <1>2, <2>1, <3>1, <3>2
  <2>2. CASE p # o
    <3>1. ender'[p] = ender[p] /\ ender[p] \in Actors
      BY <1>1, <1>2, <2>2 DEF ThreadTypes
    <3>2. pc[ender[p]].on = p /\ pc[ender[p]].at \in {"Join", "pthread_join"}
      BY <1>1, <1>2, <3>1 DEF StillJoined
    <3> QED
      BY <1>2, <3>1, <3>2 DEF Idle
  <2> QED
    BY <2>1, <2>2
<1>10. IdsAdded'
  <2> SUFFICES ASSUME NEW p \in Objects, pc'[p].at \in {"ThreadMain", "Run"}, p \notin failed',
                      \A q \in Objects \ {p} : th'[q].pthread # th'[p].pthread
               PROVE  \/ th'[p].pthread \in live'
                      \/ \E b \in Clients : lock'[p] = b /\ pc'[b] = [at |-> "AddLiveThreadId", on |-> p]
    BY DEF IdsAdded
  <2>1. p # a /\ pc'[p] = pc[p]
    BY <1>1, <1>2, <1>12
  <2>2. \/ th[p].pthread \in live
        \/ \E b \in Clients : lock[p] = b /\ pc[b] = [at |-> "AddLiveThreadId", on |-> p]
    BY <1>1, <1>2, <2>1 DEF IdsAdded
  <2>3. \A b \in Clients : pc[b] = [at |-> "AddLiveThreadId", on |-> p] => b # a
    BY DEF Idle
  <2> QED
    BY <1>1, <1>2, <2>2, <2>3
<1> QED
  BY <1>3, <1>4, <1>5, <1>6, <1>7, <1>8, <1>9, <1>10 DEF ThreadInv

\* Nobody is left in an object when its destructor ends.
LEMMA RemoveLiveThreadIdStep ==
    ASSUME ThreadInv, NEW a \in Actors, NEW o \in Objects, RemoveLiveThreadId(a, o)
    PROVE  ThreadInv'
<1>1. /\ ThreadTypes /\ Places /\ UsersHaveIt /\ NoUseAfterDelete /\ StartedOnce /\ IdsKept
      /\ StillJoined /\ IdsAdded
      /\ Clients \cap Objects = {} /\ None \notin Actors /\ Actors = Clients \cup Objects
      /\ None \notin Ids /\ {"selfRef", "thread"} \cap Clients = {}
      /\ Sharers \in [Objects -> SUBSET Clients]
  BY PosixThreadsAssumption DEF ThreadInv, Actors
<1>2. /\ pc[a] = [at |-> "RemoveLiveThreadId", on |-> o]
      /\ pc'[a] = IF a \in Clients THEN Idle ELSE [at |-> "return", on |-> a]
      /\ \A b \in Actors : b # a => pc'[b] = pc[b]
      /\ live' = live \ {th[o].pthread} /\ UNCHANGED <<refs, lock, os, failed, ender>>
  BY <1>1 DEF RemoveLiveThreadId, ThreadTypes
<1>11. /\ ~th'[o].exists /\ th'[o].state = th[o].state /\ th'[o].detached = th[o].detached
       /\ th'[o].pthread = th[o].pthread /\ \A p \in Objects : p # o => th'[p] = th[p]
       /\ \A p \in Objects : /\ th'[p].state = th[p].state /\ th'[p].detached = th[p].detached
                             /\ th'[p].pthread = th[p].pthread
  BY <1>1 DEF RemoveLiveThreadId, ThreadTypes, Members
<1>12. refs[o] = {} /\ ender[o] = a /\ (a \in Objects => a = o)
  BY <1>1, <1>2 DEF UsersHaveIt, HasIt, Places, Actors
<1>13. \A b \in Actors : b # a /\ pc[b].on = o => pc[b].at \in {"return", "ended"} /\ b = o
  <2> SUFFICES ASSUME NEW b \in Actors, b # a, pc[b].on = o
               PROVE  pc[b].at \in {"return", "ended"} /\ b = o
    OBVIOUS
  <2>1. HasIt(b, o)
    BY <1>1 DEF UsersHaveIt
  <2>2. pc[b].at \in {"return", "ended"}
    BY <1>1, <1>12, <2>1 DEF HasIt, Places, ClientPlaces, ThreadPlaces
  <2>3. b \in Objects
    BY <1>1, <2>2 DEF Places, ClientPlaces
  <2> QED
    BY <1>1, <2>2, <2>3 DEF Places
<1>3. ThreadTypes'
  <2>1. th' \in [Objects -> Members]
    <3>1. PICK m \in Members : m = th[o]
      BY <1>1 DEF ThreadTypes
    <3>2. [m EXCEPT !.exists = FALSE] \in Members
      BY DEF Members
    <3> QED
      BY <1>1, <3>1, <3>2 DEF RemoveLiveThreadId, ThreadTypes
  <2>2. pc' \in [Actors -> [at : ClientPlaces \cup ThreadPlaces, on : Objects \cup {None}]]
    <3>1. pc'[a] \in [at : ClientPlaces \cup ThreadPlaces, on : Objects \cup {None}]
      BY <1>1, <1>2 DEF ClientPlaces, ThreadPlaces, Idle
    <3> QED
      BY <1>1, <3>1 DEF RemoveLiveThreadId, ThreadTypes
  <2> QED
    BY <1>1, <1>2, <2>1, <2>2 DEF ThreadTypes
<1>4. Places'
  <2>1. /\ pc'[a].on = None <=> pc'[a].at = "idle"
        /\ a \in Clients => pc'[a].at \in ClientPlaces
        /\ a \in Objects => pc'[a].at \in ThreadPlaces /\ pc'[a].on = a
    BY <1>1, <1>2 DEF Idle, ClientPlaces, ThreadPlaces
  <2> QED
    BY <1>1, <1>2, <2>1 DEF Places
<1>5. UsersHaveIt'
  <2> SUFFICES ASSUME NEW b \in Actors, NEW p \in Objects, pc'[b].on = p
               PROVE  HasIt(b, p)'
    BY DEF UsersHaveIt
  <2>1. CASE b = a
    BY <1>1, <1>2, <2>1 DEF HasIt, Idle, Actors
  <2>2. CASE b # a
    <3>1. pc'[b] = pc[b] /\ HasIt(b, p)
      BY <1>1, <1>2, <2>2 DEF UsersHaveIt
    <3> QED
      BY <1>2, <1>11, <3>1 DEF HasIt
  <2> QED
    BY <2>1, <2>2
<1>6. NoUseAfterDelete'
  <2> SUFFICES ASSUME NEW p \in Objects
               PROVE  /\ refs'[p] # {} => th'[p].exists /\ ender'[p] = None
                      /\ ~th'[p].exists => \A b \in Actors : pc'[b].on = p =>
                            pc'[b].at \in {"return", "ended"} /\ b = p
    BY DEF NoUseAfterDelete
  <2>1. pc'[a].on = p => pc'[a].at = "return" /\ a = p
    BY <1>1, <1>2 DEF Idle, Actors
  <2>2. CASE p = o
    BY <1>2, <1>12, <1>13, <2>1, <2>2
  <2>3. CASE p # o
    BY <1>1, <1>2, <1>11, <2>1, <2>3 DEF NoUseAfterDelete
  <2> QED
    BY <2>2, <2>3
<1>7. StartedOnce'
  BY <1>1, <1>2, <1>11, <1>12 DEF StartedOnce
<1>8. IdsKept'
  <2>1. \A p \in Objects : Damaged(p)' <=> Damaged(p)
    BY <1>1, <1>2, <1>11 DEF Damaged, ThreadTypes
  <2>2. \A p \in Objects : ThreadOf(p)' = ThreadOf(p)
    BY <1>2, <1>11 DEF ThreadOf
  <2> QED
    BY <1>1, <1>2, <1>11, <2>1, <2>2 DEF IdsKept
<1>9. StillJoined'
  <2> SUFFICES ASSUME NEW p \in Objects, NEW j \in Ids, os'[j].of = p, os'[j].joinable,
                      ender'[p] \notin {None, p}
               PROVE  pc'[ender'[p]].on = p /\ pc'[ender'[p]].at \in {"Join", "pthread_join"}
    BY DEF StillJoined
  <2>1. ender[p] \in Actors /\ ender'[p] = ender[p]
    BY <1>1, <1>2 DEF ThreadTypes
  <2>2. pc[ender[p]].on = p /\ pc[ender[p]].at \in {"Join", "pthread_join"}
    BY <1>1, <1>2, <2>1 DEF StillJoined
  <2> QED
    BY <1>2, <2>1, <2>2
<1>10. IdsAdded'
  <2> SUFFICES ASSUME NEW p \in Objects, pc'[p].at \in {"ThreadMain", "Run"}, p \notin failed',
                      \A q \in Objects \ {p} : th'[q].pthread # th'[p].pthread
               PROVE  \/ th'[p].pthread \in live'
                      \/ \E b \in Clients : lock'[p] = b /\ pc'[b] = [at |-> "AddLiveThreadId", on |-> p]
    BY DEF IdsAdded
  <2>1. p # a /\ pc'[p] = pc[p]
    BY <1>1, <1>2
  <2>2. p # o
    BY <1>1, <1>13, <2>1 DEF Places
  <2>3. \/ th[p].pthread \in live
        \/ \E b \in Clients : lock[p] = b /\ pc[b] = [at |-> "AddLiveThreadId", on |-> p]
    BY <1>1, <1>2, <1>11, <2>1 DEF IdsAdded
  <2>4. \A b \in Clients : pc[b] = [at |-> "AddLiveThreadId", on |-> p] => b # a
    BY <1>2
  <2>5. th[p].pthread # th[o].pthread
    BY <1>11, <2>2
  <2> QED
    BY <1>1, <1>2, <1>11, <2>3, <2>4, <2>5
<1> QED
  BY <1>3, <1>4, <1>5, <1>6, <1>7, <1>8, <1>9, <1>10 DEF ThreadInv

\* ThreadMain has a reference of its own before it gives up selfRef.
LEMMA ThreadMainStep ==
    ASSUME ThreadInv, NEW o \in Objects, ThreadMain(o)
    PROVE  ThreadInv'
<1>1. /\ ThreadTypes /\ Places /\ UsersHaveIt /\ NoUseAfterDelete /\ StartedOnce /\ IdsKept
      /\ StillJoined /\ IdsAdded
      /\ Clients \cap Objects = {} /\ None \notin Actors /\ Actors = Clients \cup Objects
      /\ None \notin Ids /\ {"selfRef", "thread"} \cap Clients = {}
      /\ Sharers \in [Objects -> SUBSET Clients]
  BY PosixThreadsAssumption DEF ThreadInv, Actors
<1>2. /\ pc[o] = [at |-> "ThreadMain", on |-> o] /\ pc'[o] = [at |-> "Run", on |-> o]
      /\ \A b \in Actors : b # o => pc'[b] = pc[b]
      /\ refs'[o] = (refs[o] \ {"selfRef"}) \cup {"thread"}
      /\ \A p \in Objects : p # o => refs'[p] = refs[p]
      /\ UNCHANGED <<th, lock, os, live, failed, ender>> /\ o \in Actors
  BY <1>1 DEF ThreadMain, ThreadTypes, At
<1>11. "selfRef" \in refs[o]
  BY <1>1, <1>2 DEF UsersHaveIt, HasIt
<1>3. ThreadTypes'
  <2>1. refs' \in [Objects -> SUBSET (Clients \cup {"selfRef", "thread"})]
    BY <1>1 DEF ThreadMain, ThreadTypes
  <2>2. pc' \in [Actors -> [at : ClientPlaces \cup ThreadPlaces, on : Objects \cup {None}]]
    BY <1>1 DEF ThreadMain, At, ThreadTypes, ClientPlaces, ThreadPlaces
  <2> QED
    BY <1>1, <1>2, <2>1, <2>2 DEF ThreadTypes
<1>4. Places'
  BY <1>1, <1>2 DEF Places, ThreadPlaces
<1>5. UsersHaveIt'
  <2> SUFFICES ASSUME NEW b \in Actors, NEW p \in Objects, pc'[b].on = p
               PROVE  HasIt(b, p)'
    BY DEF UsersHaveIt
  <2>1. CASE b = o
    BY <1>2, <2>1 DEF HasIt
  <2>2. CASE b # o
    <3>1. pc'[b] = pc[b] /\ HasIt(b, p)
      BY <1>1, <1>2, <2>2 DEF UsersHaveIt
    <3>2. CASE p # o
      BY <1>2, <3>1, <3>2 DEF HasIt
    <3>3. CASE p = o
      <4>1. b \in Clients /\ b # "selfRef"
        BY <1>1, <2>2, <3>1, <3>3 DEF Places
      <4>2. b \in refs[o] => b \in refs'[o]
        BY <1>2, <4>1
      <4> QED
        BY <1>1, <1>2, <1>11, <3>1, <3>3, <4>1, <4>2 DEF HasIt, Places, ClientPlaces
    <3> QED
      BY <3>2, <3>3
  <2> QED
    BY <2>1, <2>2
<1>6. NoUseAfterDelete'
  BY <1>1, <1>2, <1>11 DEF NoUseAfterDelete
<1>7. StartedOnce'
  BY <1>1, <1>2 DEF StartedOnce
<1>8. IdsKept'
  BY <1>1, <1>2 DEF IdsKept, Damaged, ThreadOf
<1>9. StillJoined'
  <2> SUFFICES ASSUME NEW p \in Objects, NEW j \in Ids, os'[j].of = p, os'[j].joinable,
                      ender'[p] \notin {None, p}
               PROVE  pc'[ender'[p]].on = p /\ pc'[ender'[p]].at \in {"Join", "pthread_join"}
    BY DEF StillJoined
  <2>1. ender[p] \in Actors /\ ender'[p] = ender[p]
    BY <1>1, <1>2 DEF ThreadTypes
  <2>2. pc[ender[p]].on = p /\ pc[ender[p]].at \in {"Join", "pthread_join"}
    BY <1>1, <1>2, <2>1 DEF StillJoined
  <2> QED
    BY <1>2, <2>1, <2>2
<1>10. IdsAdded'
  <2> SUFFICES ASSUME NEW p \in Objects, pc'[p].at \in {"ThreadMain", "Run"}, p \notin failed',
                      \A q \in Objects \ {p} : th'[q].pthread # th'[p].pthread
               PROVE  \/ th'[p].pthread \in live'
                      \/ \E b \in Clients : lock'[p] = b /\ pc'[b] = [at |-> "AddLiveThreadId", on |-> p]
    BY DEF IdsAdded
  <2>1. pc[p].at \in {"ThreadMain", "Run"}
    BY <1>1, <1>2
  <2>2. \/ th[p].pthread \in live
        \/ \E b \in Clients : lock[p] = b /\ pc[b] = [at |-> "AddLiveThreadId", on |-> p]
    BY <1>1, <1>2, <2>1 DEF IdsAdded
  <2> QED
    BY <1>1, <1>2, <2>2
<1> QED
  BY <1>3, <1>4, <1>5, <1>6, <1>7, <1>8, <1>9, <1>10 DEF ThreadInv

\* A thread that ends stays joinable for as long as somebody may join it.
LEMMA ThreadReturnsStep ==
    ASSUME ThreadInv, NEW o \in Objects, ThreadReturns(o)
    PROVE  ThreadInv'
<1>1. /\ ThreadTypes /\ Places /\ UsersHaveIt /\ NoUseAfterDelete /\ StartedOnce /\ IdsKept
      /\ StillJoined /\ IdsAdded
      /\ Clients \cap Objects = {} /\ None \notin Actors /\ Actors = Clients \cup Objects
      /\ None \notin Ids /\ {"selfRef", "thread"} \cap Clients = {}
      /\ Sharers \in [Objects -> SUBSET Clients]
  BY PosixThreadsAssumption DEF ThreadInv, Actors
<1>2. PICK i \in Ids :
        /\ os[i].of = o
        /\ os' = [os EXCEPT ![i] = IF @.joinable THEN [@ EXCEPT !.status = "ended"] ELSE NoThread]
  BY DEF ThreadReturns
<1>11. /\ pc[o] = [at |-> "return", on |-> o] /\ pc'[o] = [at |-> "ended", on |-> o]
       /\ \A b \in Actors : b # o => pc'[b] = pc[b]
       /\ UNCHANGED <<th, refs, lock, live, failed, ender>> /\ o \in Actors
  BY <1>1 DEF ThreadReturns, ThreadTypes
<1>12. /\ os'[i] \in SystemThreads /\ \A j \in Ids : j # i => os'[j] = os[j]
       /\ os[i].joinable => os'[i].of = o /\ os'[i].joinable
       /\ ~os[i].joinable => os'[i] = NoThread
  BY <1>1, <1>2 DEF ThreadTypes, SystemThreads, NoThread
<1>13. \A j \in Ids, p \in Objects : os'[j].of = p => os[j].of = p /\ os'[j].joinable = os[j].joinable
  BY <1>1, <1>2, <1>12 DEF NoThread, Actors, ThreadTypes, SystemThreads
<1>3. ThreadTypes'
  <2>1. os' \in [Ids -> SystemThreads]
    BY <1>1, <1>2, <1>12 DEF ThreadTypes
  <2>2. pc' \in [Actors -> [at : ClientPlaces \cup ThreadPlaces, on : Objects \cup {None}]]
    BY <1>1 DEF ThreadReturns, ThreadTypes, ClientPlaces, ThreadPlaces
  <2> QED
    BY <1>1, <1>11, <2>1, <2>2 DEF ThreadTypes
<1>4. Places'
  BY <1>1, <1>11 DEF Places, ThreadPlaces
<1>5. UsersHaveIt'
  <2> SUFFICES ASSUME NEW b \in Actors, NEW p \in Objects, pc'[b].on = p
               PROVE  HasIt(b, p)'
    BY DEF UsersHaveIt
  <2>1. CASE b = o
    BY <1>11, <2>1 DEF HasIt
  <2>2. CASE b # o
    <3>1. pc'[b] = pc[b] /\ HasIt(b, p)
      BY <1>1, <1>11, <2>2 DEF UsersHaveIt
    <3> QED
      BY <1>11, <3>1 DEF HasIt
  <2> QED
    BY <2>1, <2>2
<1>6. NoUseAfterDelete'
  BY <1>1, <1>11 DEF NoUseAfterDelete
<1>7. StartedOnce'
  BY <1>1, <1>11, <1>13 DEF StartedOnce
<1>8. IdsKept'
  <2>1. \A p \in Objects, j \in Ids : os'[j].of = p =>
          th'[p].pthread = j /\ (th'[p].detached => ~os'[j].joinable)
    BY <1>1, <1>11, <1>13 DEF IdsKept
  <2>2. ASSUME NEW p \in Objects, ~Damaged(p)', th'[p].state = "starting", ~th'[p].detached
        PROVE  th'[p].pthread \in Ids /\ ThreadOf(p)'.of = p /\ ThreadOf(p)'.joinable
    <3>1. th[p].pthread \in Ids /\ ThreadOf(p).of = p /\ ThreadOf(p).joinable
      BY <1>1, <1>11, <2>2 DEF IdsKept, Damaged
    <3>2. os[th[p].pthread].of = p /\ os[th[p].pthread].joinable
      BY <1>1, <3>1 DEF ThreadOf
    <3>3. os'[th[p].pthread].of = p /\ os'[th[p].pthread].joinable
      BY <1>2, <1>12, <3>1, <3>2
    <3> QED
      BY <1>1, <1>11, <3>1, <3>3 DEF ThreadOf
  <2> QED
    BY <2>1, <2>2 DEF IdsKept
<1>9. StillJoined'
  <2> SUFFICES ASSUME NEW p \in Objects, NEW j \in Ids, os'[j].of = p, os'[j].joinable,
                      ender'[p] \notin {None, p}
               PROVE  pc'[ender'[p]].on = p /\ pc'[ender'[p]].at \in {"Join", "pthread_join"}
    BY DEF StillJoined
  <2>1. ender[p] \in Actors /\ ender'[p] = ender[p]
    BY <1>1, <1>11 DEF ThreadTypes
  <2>2. pc[ender[p]].on = p /\ pc[ender[p]].at \in {"Join", "pthread_join"}
    BY <1>1, <1>11, <1>13, <2>1 DEF StillJoined
  <2> QED
    BY <1>11, <2>1, <2>2
<1>10. IdsAdded'
  <2> SUFFICES ASSUME NEW p \in Objects, pc'[p].at \in {"ThreadMain", "Run"}, p \notin failed',
                      \A q \in Objects \ {p} : th'[q].pthread # th'[p].pthread
               PROVE  \/ th'[p].pthread \in live'
                      \/ \E b \in Clients : lock'[p] = b /\ pc'[b] = [at |-> "AddLiveThreadId", on |-> p]
    BY DEF IdsAdded
  <2>1. pc[p].at \in {"ThreadMain", "Run"}
    BY <1>1, <1>11
  <2>2. \/ th[p].pthread \in live
        \/ \E b \in Clients : lock[p] = b /\ pc[b] = [at |-> "AddLiveThreadId", on |-> p]
    BY <1>1, <1>11, <2>1 DEF IdsAdded
  <2> QED
    BY <1>1, <1>11, <2>2
<1> QED
  BY <1>3, <1>4, <1>5, <1>6, <1>7, <1>8, <1>9, <1>10 DEF ThreadInv

\* A client begins a call, and Start and SetName end without a change.
LEMMA ClientMoves ==
    ASSUME ThreadInv, NEW c \in Clients, NEW o \in Objects,
           \/ \E method \in {"Start", "Join", "SetName"} : Call(c, o, method)
           \/ StartRefused(c, o) \/ SetName(c, o)
    PROVE  ThreadInv'
<1>1. /\ ThreadTypes /\ Places /\ UsersHaveIt /\ NoUseAfterDelete /\ StartedOnce /\ IdsKept
      /\ StillJoined /\ IdsAdded
      /\ Clients \cap Objects = {} /\ None \notin Actors /\ Actors = Clients \cup Objects
      /\ None \notin Ids
  BY PosixThreadsAssumption DEF ThreadInv, Actors
<1>2. /\ c \in Actors /\ c \notin Objects
      /\ lock' \in [Objects -> Actors \cup {None}] /\ lock' = lock
      /\ UNCHANGED <<th, refs, os, live, failed, ender>>
  BY <1>1 DEF Call, StartRefused, SetName, ThreadTypes
<1>3. pc[c].at \in {"idle", "Start", "SetName"}
  BY DEF Call, StartRefused, SetName, Enter, Idle
<1>4. \A p \in Objects, i \in Ids : ~(os[i].of = p /\ os[i].joinable /\ ender[p] = c /\ c # p)
  BY <1>1, <1>3 DEF StillJoined
<1>5. ASSUME NEW method \in {"Start", "Join", "SetName"}, Call(c, o, method)
      PROVE  ThreadInv'
  <2>1. method \in ClientPlaces \cup ThreadPlaces /\ method \in ClientPlaces /\ c \in refs[o]
        /\ th[o].exists /\ o # None
    BY <1>1, <1>5 DEF Call, ClientPlaces, NoUseAfterDelete, Actors
  <2>2. At(c, method, o)
    BY <1>5 DEF Call
  <2> QED
    BY <1>1, <1>2, <1>3, <1>4, <2>1, <2>2, QuietStep
<1>6. ASSUME StartRefused(c, o) \/ SetName(c, o)
      PROVE  ThreadInv'
  <2>1. At(c, "idle", None)
    BY <1>6 DEF StartRefused, SetName, Idle, At
  <2>2. "idle" \in ClientPlaces /\ None \in Objects \cup {None}
    BY DEF ClientPlaces
  <2> QED
    BY <1>1, <1>2, <1>3, <1>4, <2>1, <2>2, QuietStep
<1> QED
  BY <1>5, <1>6

\* A Join that returns at once, begins to wait, or fails.  A thread that destroys the object
\* goes on only when there is no thread of its own to be joined.
LEMMA JoinMoves ==
    ASSUME ThreadInv, NEW a \in Actors, NEW o \in Objects,
           JoinRefused(a, o) \/ JoinWaits(a, o) \/ JoinFails(a, o)
    PROVE  ThreadInv'
<1>1. /\ ThreadTypes /\ Places /\ UsersHaveIt /\ NoUseAfterDelete /\ StartedOnce /\ IdsKept
      /\ StillJoined /\ IdsAdded
      /\ Clients \cap Objects = {} /\ None \notin Actors /\ Actors = Clients \cup Objects
      /\ None \notin Ids
  BY PosixThreadsAssumption DEF ThreadInv, Actors
<1>2. /\ pc[a].on = o /\ pc[a].at \in {"Join", "pthread_join"}
      /\ lock' \in [Objects -> Actors \cup {None}]
      /\ UNCHANGED <<th, refs, os, live, failed, ender>>
      /\ o # None
  <2>1. o # None
    BY <1>1 DEF Actors
  <2>2. pc[a] \in {[at |-> "Join", on |-> o], [at |-> "pthread_join", on |-> o]}
    BY DEF JoinRefused, JoinWaits, JoinFails, Enter
  <2>3. lock' \in [Objects -> Actors \cup {None}]
    BY <1>1 DEF JoinRefused, JoinWaits, JoinFails, ThreadTypes
  <2>4. UNCHANGED <<th, refs, os, live, failed, ender>>
    BY DEF JoinRefused, JoinWaits, JoinFails
  <2> QED
    BY <2>1, <2>2, <2>3, <2>4
<1>3. /\ a \in refs[o] \/ (refs[o] = {} /\ ender[o] = a)
      /\ th[o].exists
      /\ a \in Objects => a = o /\ th[a].state # "uninitialized"
  BY <1>1, <1>2 DEF UsersHaveIt, HasIt, NoUseAfterDelete, Places, StartedOnce
<1>4. \A p \in Objects : lock'[p] # lock[p] => lock[p] \in {None, a}
  <2>1. pc[a].at = "pthread_join" => lock[o] = a
    BY <1>1, <1>2 DEF UsersHaveIt, HasIt
  <2> QED
    BY <1>1, <2>1 DEF JoinRefused, JoinWaits, JoinFails, Enter, ThreadTypes
<1>5. \A p \in Objects, i \in Ids : os[i].of = p /\ os[i].joinable /\ ender[p] = a /\ a # p => p = o
  BY <1>1, <1>2 DEF StillJoined
<1>6. CASE JoinWaits(a, o)
  <2>1. /\ At(a, "pthread_join", o) /\ lock'[o] = a
        /\ th[o].state = "starting" /\ ~th[o].detached /\ pc[a].at = "Join"
    BY <1>1, <1>6 DEF JoinWaits, ThreadTypes, Enter
  <2>2. "pthread_join" \in ClientPlaces /\ "pthread_join" \in ThreadPlaces
    BY DEF ClientPlaces, ThreadPlaces
  <2> QED
    BY <1>1, <1>2, <1>3, <1>4, <1>5, <2>1, <2>2, QuietStep
<1>7. CASE JoinRefused(a, o) \/ JoinFails(a, o)
  <2>1. pc' = [pc EXCEPT ![a] = After(a, o)]
    BY <1>7 DEF JoinRefused, JoinFails
  <2>2. \A i \in Ids : ~(os[i].of = o /\ os[i].joinable /\ a # o)
    <3>1. CASE JoinRefused(a, o)
      BY <1>1, <3>1 DEF JoinRefused, IdsKept, StartedOnce
    <3>2. CASE JoinFails(a, o)
      BY <1>1, <3>2 DEF JoinFails, IdsKept, ThreadOf
    <3> QED
      BY <1>7, <3>1, <3>2
  <2>3. CASE refs[o] = {}
    <3>1. At(a, "RemoveLiveThreadId", o) /\ ender[o] = a
      BY <1>3, <2>1, <2>3 DEF After, At
    <3>2. "RemoveLiveThreadId" \in ClientPlaces /\ "RemoveLiveThreadId" \in ThreadPlaces
      BY DEF ClientPlaces, ThreadPlaces
    <3> QED
      BY <1>1, <1>2, <1>3, <1>4, <1>5, <2>2, <2>3, <3>1, <3>2, QuietStep
  <2>4. CASE refs[o] # {}
    <3>1. At(a, "idle", None)
      BY <2>1, <2>4 DEF After, Idle, At
    <3>2. "idle" \in ClientPlaces /\ "idle" \in ThreadPlaces /\ None \in Objects \cup {None}
      BY DEF ClientPlaces, ThreadPlaces
    <3> QED
      BY <1>1, <1>2, <1>3, <1>4, <1>5, <2>2, <3>1, <3>2, QuietStep
  <2> QED
    BY <2>3, <2>4
<1> QED
  BY <1>6, <1>7

\* Every step of the thread objects keeps the invariant.
LEMMA ThreadStep ==
    ASSUME ThreadInv, PTNext
    PROVE  ThreadInv'
<1>1. ASSUME NEW a \in Actors, Continue(a)
      PROVE  ThreadInv'
  <2>1. PICK o \in {pc[a].on} \ {None} :
          \/ a \in Clients /\ (StartRefused(a, o) \/ StartCreates(a, o) \/ StartFails(a, o)
                               \/ AddLiveThreadId(a, o) \/ SetName(a, o))
          \/ JoinRefused(a, o)
          \/ JoinWaits(a, o)
          \/ JoinReturns(a, o)
          \/ JoinFails(a, o)
          \/ RemoveLiveThreadId(a, o)
          \/ a = o /\ (ThreadMain(o) \/ RunReturns(o) \/ ThreadReturns(o))
    BY <1>1 DEF Continue
  <2>2. o \in Objects
    BY <1>1, <2>1 DEF ThreadInv, ThreadTypes
  <2>3. ASSUME a = o, RunReturns(o)
        PROVE  ThreadInv'
    <3>1. /\ DropBy(o, "thread", o, [at |-> "return", on |-> o]) /\ pc[o] = [at |-> "Run", on |-> o]
          /\ UNCHANGED <<th, lock, os, live, failed>>
      BY <2>3 DEF RunReturns
    <3>2. "thread" \in refs[o]
      BY <2>2, <2>3, <3>1 DEF ThreadInv, UsersHaveIt, HasIt
    <3> QED
      BY <2>2, <2>3, <3>1, <3>2, DropStep
  <2> QED
    BY <2>1, <2>2, <2>3, ClientMoves, JoinMoves, StartCreatesStep, StartFailsStep,
       AddLiveThreadIdStep, JoinReturnsStep, RemoveLiveThreadIdStep, ThreadMainStep, ThreadReturnsStep
<1>2. ASSUME NEW c \in Clients, Choose(c)
      PROVE  ThreadInv'
  <2>1. PICK o \in Objects :
          \/ \E detached \in BOOLEAN : NewThread(c, o, detached)
          \/ \E d \in Clients : Share(c, d, o)
          \/ \E method \in {"Start", "Join", "SetName"} : Call(c, o, method)
          \/ Drop(c, o)
    BY <1>2 DEF Choose
  <2>2. ASSUME Drop(c, o)
        PROVE  ThreadInv'
    <3>1. /\ DropBy(c, c, o, Idle) /\ pc[c] = Idle /\ c \in refs[o] /\ c \in Actors
          /\ UNCHANGED <<th, lock, os, live, failed>>
      BY <2>2 DEF Drop, Actors
    <3> QED
      BY <3>1, DropStep
  <2> QED
    BY <2>1, <2>2, NewThreadStep, ShareStep, ClientMoves
<1> QED
  BY <1>1, <1>2 DEF PTNext

\* Before anything is made there is nothing to show.
LEMMA ThreadInitInv == PTInit => ThreadInv
<1> SUFFICES ASSUME PTInit PROVE ThreadInv
  OBVIOUS
<1>1. /\ \A o \in Objects : /\ th[o] = [exists |-> FALSE, state |-> "uninitialized", detached |-> FALSE,
                                        priority |-> 0, pthread |-> None]
                            /\ refs[o] = {} /\ lock[o] = None /\ ender[o] = None
      /\ \A i \in Ids : os[i] = NoThread
      /\ \A a \in Actors : pc[a] = Idle
      /\ failed = {} /\ None \notin Objects /\ Objects \subseteq Actors /\ Clients \subseteq Actors
  BY PosixThreadsAssumption DEF PTInit, Actors
<1>2. ThreadTypes
  <2>1. th \in [Objects -> Members]
    BY DEF PTInit, Members, Priorities
  <2>2. os \in [Ids -> SystemThreads]
    BY DEF PTInit, SystemThreads, NoThread
  <2>3. pc \in [Actors -> [at : ClientPlaces \cup ThreadPlaces, on : Objects \cup {None}]]
    BY DEF PTInit, Idle, ClientPlaces
  <2> QED
    BY <2>1, <2>2, <2>3 DEF PTInit, ThreadTypes
<1>3. Places
  BY <1>1 DEF Places, Idle, ClientPlaces, ThreadPlaces
<1>4. UsersHaveIt /\ NoUseAfterDelete
  BY <1>1 DEF UsersHaveIt, NoUseAfterDelete, Idle
<1>5. StartedOnce
  <2>1. \A o \in Objects : th[o].state = "uninitialized" /\ th[o].pthread = None
    BY DEF PTInit
  <2>2. \A i \in Ids : os[i].of = None
    BY <1>1 DEF NoThread
  <2>3. \A a \in Actors : pc[a].at = "idle"
    BY DEF PTInit, Idle
  <2> QED
    BY <1>1, <2>1, <2>2, <2>3 DEF StartedOnce
<1>6. IdsKept /\ StillJoined
  BY <1>1 DEF IdsKept, StillJoined, NoThread
<1>7. IdsAdded
  BY <1>1 DEF IdsAdded, Idle
<1> QED
  BY <1>2, <1>3, <1>4, <1>5, <1>6, <1>7 DEF ThreadInv

\* The lock makes the caller of pthread_join the only one, and IdsKept the thread its own;
\* a thread that is left joinable would have somebody at work in an object that has gone.
LEMMA ThreadInvReaped == ThreadInv => ThreadsReaped
<1> SUFFICES ASSUME ThreadInv PROVE ThreadsReaped
  OBVIOUS
<1>1. JoinsOwnThread
  BY DEF ThreadInv, JoinsOwnThread, Joining, UsersHaveIt, HasIt, IdsKept
<1>2. CleanedUp
  <2> SUFFICES ASSUME NEW o \in Objects, NEW i \in Ids, ender[o] # None, ~th[o].exists,
                      os[i].of = o, os[i].joinable, ender[o] # o
               PROVE  FALSE
    BY DEF CleanedUp
  <2>1. ender[o] \in Actors
    BY DEF ThreadInv, ThreadTypes
  <2>2. pc[ender[o]].on = o /\ pc[ender[o]].at \in {"Join", "pthread_join"}
    BY DEF ThreadInv, StillJoined
  <2> QED
    BY <2>1, <2>2 DEF ThreadInv, NoUseAfterDelete
<1>3. LiveIdsKnown
  <2>1. None \notin Clients
    BY PosixThreadsAssumption
  <2> SUFFICES ASSUME NEW o \in Objects, o \notin failed, pc[o].at = "Run", lock[o] = None,
                      \A p \in Objects \ {o} : th[p].pthread # th[o].pthread
               PROVE  th[o].pthread \in live
    BY DEF LiveIdsKnown
  <2> QED
    BY <2>1 DEF ThreadInv, IdsAdded
<1> QED
  BY <1>1, <1>2, <1>3 DEF ThreadInv, ThreadsReaped

\* Whatever clients share, start, join and drop, and whichever ids the system uses again:
\* Join waits for the thread of its own object and one caller at a time does, no object is
\* used after its destructor, a thread is not left unjoined, and the id of one that runs is
\* known once Start is over.
THEOREM ThreadsAreReaped == Spec => []ThreadsReaped
<1>1. Init => ThreadInv
  BY ThreadInitInv DEF Init
<1>2. ThreadInv /\ [Next]_vars => ThreadInv'
  <2> SUFFICES ASSUME ThreadInv, [Next]_vars PROVE ThreadInv'
    OBVIOUS
  <2>1. CASE PTNext
    BY <2>1, ThreadStep
  <2>2. CASE UNCHANGED ptvars
    <3>1. UNCHANGED <<th, refs, lock, os, live, pc, failed, ender>>
      BY <2>2 DEF ptvars
    <3>2. ThreadTypes' /\ Places'
      BY <3>1 DEF ThreadInv, ThreadTypes, Places
    <3>3. UsersHaveIt' /\ NoUseAfterDelete'
      BY <3>1 DEF ThreadInv, UsersHaveIt, HasIt, NoUseAfterDelete
    <3>4. StartedOnce' /\ StillJoined'
      BY <3>1 DEF ThreadInv, StartedOnce, StillJoined
    <3>5. IdsKept'
      BY <3>1 DEF ThreadInv, IdsKept, Damaged, ThreadOf
    <3>6. IdsAdded'
      BY <3>1 DEF ThreadInv, IdsAdded
    <3> QED
      BY <3>2, <3>3, <3>4, <3>5, <3>6 DEF ThreadInv
  <2> QED
    BY <2>1, <2>2 DEF Next, vars
<1> QED
  BY <1>1, <1>2, ThreadInvReaped, PTL DEF Spec

=============================================================================
