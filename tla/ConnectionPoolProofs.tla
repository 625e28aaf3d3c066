------------------------ MODULE ConnectionPoolProofs ------------------------
(* Safety of ConnectionPool for any number of sessions, connections and any *)
(* size, and its refinement of ConnectionLease.                             *)
EXTENDS ConnectionPool, FiniteSetTheorems, SequenceTheorems, WellFoundedInduction, TLAPS

-----------------------------------------------------------------------------
(* The list.                                                               *)

\* Every nonempty set of numbers has a smallest member.
LEMMA Least ==
    ASSUME NEW T \in SUBSET Nat, T # {}
    PROVE  \E m \in T : \A n \in T : m <= n
<1>1. \E x \in T : \A y \in T : ~ (<<y, x>> \in OpToRel(<, Nat))
  BY NatLessThanWellFounded, WFMin
<1>2. PICK m \in T : \A y \in T : ~ (<<y, m>> \in OpToRel(<, Nat))
  BY <1>1
<1>3. \A y \in T : ~ (y < m)
  BY <1>2 DEF OpToRel
<1> QED
  BY <1>3

\* The scan of get() and Put() stops: there is a first entry that is not
\* stale, or all of them are.
LEMMA PrefixFacts ==
    ASSUME NEW q \in Seq(Entries), NEW time
    PROVE  /\ StalePrefix(q, time) \in 0 .. Len(q)
           /\ StalePrefix(q, time) < Len(q) => ~Stale(q[StalePrefix(q, time) + 1], time)
<1> DEFINE Stops(k) == /\ \A i \in 1 .. k : Stale(q[i], time)
                       /\ k < Len(q) => ~Stale(q[k + 1], time)
           F == {i \in 1 .. Len(q) : ~Stale(q[i], time)}
<1>0. Len(q) \in Nat
  OBVIOUS
<1>1. \E k \in 0 .. Len(q) : Stops(k)
  <2>1. CASE F = {}
    <3>1. \A i \in 1 .. Len(q) : Stale(q[i], time)
      BY <2>1
    <3>2. Stops(Len(q))
      BY <1>0, <3>1
    <3> QED
      BY <1>0, <3>2
  <2>2. CASE F # {}
    <3>1. F \in SUBSET Nat
      BY <1>0
    <3>2. PICK m \in F : \A n \in F : m <= n
      BY <2>2, <3>1, Least
    <3>3. m - 1 \in 0 .. Len(q) /\ (m - 1) + 1 = m /\ ~Stale(q[m], time)
      BY <1>0, <3>2
    <3>4. \A i \in 1 .. (m - 1) : i \in 1 .. Len(q) /\ i < m
      BY <1>0, <3>3
    <3>5. \A i \in 1 .. (m - 1) : i \notin F
      BY <1>0, <3>2, <3>4
    <3>6. \A i \in 1 .. (m - 1) : Stale(q[i], time)
      BY <3>4, <3>5
    <3>7. Stops(m - 1)
      BY <3>3, <3>6
    <3> QED
      BY <3>3, <3>7
  <2> QED
    BY <2>1, <2>2
<1> DEFINE K == CHOOSE k \in 0 .. Len(q) : Stops(k)
<1>2. K \in 0 .. Len(q) /\ Stops(K)
  BY <1>1
<1>3. StalePrefix(q, time) = K
  BY DEF StalePrefix
<1> QED
  BY <1>2, <1>3

\* p is a stretch of q: what is left of q after entries have been taken from
\* its ends.
Part(p, q) ==
    /\ p \in Seq(Entries)
    /\ \E a \in Nat : /\ Len(p) + a <= Len(q)
                      /\ \A i \in 1 .. Len(p) : p[i] = q[i + a]

\* What the scan leaves, and its front is not stale.
LEMMA FreshFacts ==
    ASSUME NEW q \in Seq(Entries), NEW time
    PROVE  /\ Part(Fresh(q, time), q)
           /\ Len(Fresh(q, time)) = Len(q) - StalePrefix(q, time)
           /\ \A i \in 1 .. Len(Fresh(q, time)) :
                 Fresh(q, time)[i] = q[i + StalePrefix(q, time)]
           /\ Fresh(q, time) # << >> => ~Stale(Fresh(q, time)[1], time)
<1> DEFINE k == StalePrefix(q, time)
           f == Fresh(q, time)
<1>1. k \in 0 .. Len(q) /\ (k < Len(q) => ~Stale(q[k + 1], time))
  BY PrefixFacts
<1>2. Len(q) \in Nat
  OBVIOUS
<1> HIDE DEF k
<1>3. f = SubSeq(q, k + 1, Len(q))
  BY DEF Fresh, k
<1>4. f \in Seq(Entries) /\ Len(f) = Len(q) - k /\ \A i \in 1 .. Len(f) : f[i] = q[i + k]
  BY <1>1, <1>2, <1>3
<1> HIDE DEF f
<1>5. Part(f, q)
  BY <1>1, <1>2, <1>4 DEF Part
<1>6. f # << >> => ~Stale(f[1], time)
  <2> SUFFICES ASSUME f # << >> PROVE ~Stale(f[1], time)
    OBVIOUS
  <2>1. Len(f) \in Nat /\ Len(f) # 0
    BY <1>4
  <2>2. k < Len(q) /\ f[1] = q[k + 1]
    BY <1>1, <1>2, <1>4, <2>1
  <2> QED
    BY <1>1, <2>2
<1> QED
  BY <1>4, <1>5, <1>6 DEF k, f

\* A stretch given by its ends.
LEMMA Stretch ==
    ASSUME NEW p \in Seq(Entries), NEW m \in Nat \ {0}, NEW n \in Nat, m <= n + 1, n <= Len(p)
    PROVE  /\ SubSeq(p, m, n) \in Seq(Entries)
           /\ Len(SubSeq(p, m, n)) = n + 1 - m
           /\ \A i \in 1 .. n + 1 - m : SubSeq(p, m, n)[i] = p[i + (m - 1)]
<1>1. Len(p) \in Nat
  OBVIOUS
<1>2. CASE m = n + 1
  <2>1. SubSeq(p, m, n) = << >>
    BY <1>1, <1>2, SubSeqEmpty
  <2> QED
    BY <1>2, <2>1
<1>3. CASE m <= n
  <2>1. SubSeq(p, m, n) \in Seq(Entries) /\ Len(SubSeq(p, m, n)) = n + 1 - m
    BY <1>1, <1>3
  <2>2. \A i \in 1 .. n + 1 - m : SubSeq(p, m, n)[i] = p[i + (m - 1)]
    BY <1>1, <1>3
  <2> QED
    BY <2>1, <2>2
<1> QED
  BY <1>2, <1>3

\* Taking an entry from an end of a stretch leaves a stretch.
LEMMA PartSub ==
    ASSUME NEW q \in Seq(Entries), NEW p, Part(p, q), p # << >>
    PROVE  /\ Part(SubSeq(p, 1, Len(p) - 1), q)
           /\ Part(SubSeq(p, 2, Len(p)), q)
           /\ Len(SubSeq(p, 1, Len(p) - 1)) = Len(p) - 1
           /\ Len(SubSeq(p, 2, Len(p))) = Len(p) - 1
<1>1. p \in Seq(Entries) /\ Len(p) \in Nat \ {0} /\ Len(q) \in Nat
  BY DEF Part
<1>2. PICK a \in Nat : /\ Len(p) + a <= Len(q)
                       /\ \A i \in 1 .. Len(p) : p[i] = q[i + a]
  BY DEF Part
<1> DEFINE u == SubSeq(p, 1, Len(p) - 1)
           v == SubSeq(p, 2, Len(p))
<1>3. u \in Seq(Entries) /\ Len(u) = Len(p) - 1 /\ \A i \in 1 .. Len(u) : u[i] = p[i]
  <2>1. 1 \in Nat \ {0} /\ Len(p) - 1 \in Nat /\ 1 <= (Len(p) - 1) + 1 /\ Len(p) - 1 <= Len(p)
    BY <1>1
  <2>2. /\ u \in Seq(Entries)
        /\ Len(u) = (Len(p) - 1) + 1 - 1
        /\ \A i \in 1 .. (Len(p) - 1) + 1 - 1 : u[i] = p[i + (1 - 1)]
    BY <1>1, <2>1, Stretch
  <2> HIDE DEF u
  <2> QED
    BY <1>1, <2>2
<1>4. v \in Seq(Entries) /\ Len(v) = Len(p) - 1 /\ \A i \in 1 .. Len(v) : v[i] = p[i + 1]
  <2>1. 2 \in Nat \ {0} /\ 2 <= Len(p) + 1 /\ Len(p) <= Len(p)
    BY <1>1
  <2>2. /\ v \in Seq(Entries)
        /\ Len(v) = Len(p) + 1 - 2
        /\ \A i \in 1 .. Len(p) + 1 - 2 : v[i] = p[i + (2 - 1)]
    BY <1>1, <2>1, Stretch
  <2> HIDE DEF v
  <2> QED
    BY <1>1, <2>2
<1> HIDE DEF u, v
<1>5. \A i \in 1 .. Len(u) : u[i] = q[i + a]
  BY <1>1, <1>2, <1>3
<1>6. \A i \in 1 .. Len(v) : v[i] = q[i + (a + 1)]
  BY <1>1, <1>2, <1>4
<1>7. Part(u, q)
  <2>1. Len(u) + a <= Len(q)
    BY <1>1, <1>2, <1>3
  <2> QED
    BY <1>3, <1>5, <2>1 DEF Part
<1>8. Part(v, q)
  <2>1. a + 1 \in Nat /\ Len(v) + (a + 1) <= Len(q)
    BY <1>1, <1>2, <1>4
  <2> QED
    BY <1>4, <1>6, <2>1 DEF Part
<1> QED
  BY <1>3, <1>4, <1>7, <1>8 DEF u, v

\* The connections of a list.
Members(q) == {q[i].db_connection : i \in 1 .. Len(q)}

\* A stretch inherits what the invariants say of the list.
LEMMA PartInherits ==
    ASSUME NEW q \in Seq(Entries), NEW p, Part(p, q)
    PROVE  /\ Members(p) \subseteq Members(q)
           /\ Distinct(q) => Distinct(p)
           /\ \A time : Ordered(q, time) => Ordered(p, time)
<1>1. p \in Seq(Entries) /\ Len(p) \in Nat /\ Len(q) \in Nat
  BY DEF Part
<1>2. PICK a \in Nat : /\ Len(p) + a <= Len(q)
                       /\ \A i \in 1 .. Len(p) : p[i] = q[i + a]
  BY DEF Part
<1>3. \A i \in 1 .. Len(p) : i + a \in 1 .. Len(q)
  BY <1>1, <1>2
<1>4. Members(p) \subseteq Members(q)
  BY <1>2, <1>3 DEF Members
<1>5. Distinct(q) => Distinct(p)
  <2> SUFFICES ASSUME Distinct(q), NEW i \in 1 .. Len(p), NEW j \in 1 .. Len(p),
                      p[i].db_connection = p[j].db_connection
               PROVE  i = j
    BY DEF Distinct
  <2>1. q[i + a].db_connection = q[j + a].db_connection
    BY <1>2
  <2>2. i + a = j + a
    BY <1>3, <2>1 DEF Distinct
  <2> QED
    BY <1>2, <2>2
<1>6. ASSUME NEW time, Ordered(q, time) PROVE Ordered(p, time)
  <2>1. \A i \in 1 .. Len(p) : p[i].last_used <= p[i].pushed /\ p[i].pushed <= time
    BY <1>2, <1>3, <1>6 DEF Ordered
  <2>2. ASSUME NEW i \in 1 .. Len(p), NEW j \in 1 .. Len(p), i <= j
        PROVE  p[i].pushed <= p[j].pushed
    <3>1. i + a <= j + a /\ i + a \in 1 .. Len(q) /\ j + a \in 1 .. Len(q)
      BY <1>2, <1>3, <2>2
    <3>2. q[i + a].pushed <= q[j + a].pushed
      BY <1>6, <3>1 DEF Ordered
    <3> QED
      BY <1>2, <3>2
  <2> QED
    BY <2>1, <2>2 DEF Ordered
<1> QED
  BY <1>4, <1>5, <1>6

\* The last entry is of one connection, which the rest does not hold.
LEMMA BackFacts ==
    ASSUME NEW q \in Seq(Entries), Distinct(q), NEW p, Part(p, q), p # << >>
    PROVE  /\ p[Len(p)].db_connection \in Connections
           /\ p[Len(p)].db_connection \in Members(q)
           /\ p[Len(p)].db_connection \notin Members(PoppedBack(p))
<1>1. p \in Seq(Entries) /\ Len(p) \in Nat \ {0}
  BY DEF Part
<1>2. p[Len(p)] \in Entries /\ Len(p) \in 1 .. Len(p)
  BY <1>1
<1>3. p[Len(p)].db_connection \in Connections
  BY <1>2 DEF Entries
<1>4. Distinct(p) /\ Members(p) \subseteq Members(q)
  BY PartInherits
<1>5. p[Len(p)].db_connection \in Members(q)
  BY <1>2, <1>4 DEF Members
<1> DEFINE u == PoppedBack(p)
<1>6. Len(u) = Len(p) - 1 /\ \A i \in 1 .. Len(u) : u[i] = p[i]
  <2>1. 1 \in Nat \ {0} /\ Len(p) - 1 \in Nat /\ 1 <= (Len(p) - 1) + 1 /\ Len(p) - 1 <= Len(p)
    BY <1>1
  <2>2. /\ Len(u) = (Len(p) - 1) + 1 - 1
        /\ \A i \in 1 .. (Len(p) - 1) + 1 - 1 : u[i] = p[i + (1 - 1)]
    BY <1>1, <2>1, Stretch DEF PoppedBack
  <2> HIDE DEF u
  <2> QED
    BY <1>1, <2>2
<1> HIDE DEF u
<1>7. ASSUME NEW i \in 1 .. Len(u), u[i].db_connection = p[Len(p)].db_connection
      PROVE  FALSE
  <2>1. i \in 1 .. Len(p) /\ i # Len(p) /\ u[i] = p[i]
    BY <1>1, <1>6
  <2> QED
    BY <1>2, <1>4, <1>7, <2>1 DEF Distinct
<1>8. p[Len(p)].db_connection \notin Members(u)
  BY <1>7 DEF Members
<1> QED
  BY <1>3, <1>5, <1>8 DEF u

\* push_back of an entry for a connection that is not in the list.
LEMMA PushFacts ==
    ASSUME NEW q \in Seq(Entries), NEW e \in Entries
    PROVE  /\ PushedBack(q, <<e>>) \in Seq(Entries)
           /\ Len(PushedBack(q, <<e>>)) = Len(q) + 1
           /\ Members(PushedBack(q, <<e>>)) \subseteq Members(q) \cup {e.db_connection}
           /\ Distinct(q) /\ e.db_connection \notin Members(q) => Distinct(PushedBack(q, <<e>>))
           /\ Ordered(q, e.pushed) /\ e.last_used <= e.pushed =>
                 Ordered(PushedBack(q, <<e>>), e.pushed)
<1> DEFINE r == PushedBack(q, <<e>>)
           n == Len(q)
<1>1. /\ r \in Seq(Entries) /\ Len(r) = n + 1 /\ n \in Nat
      /\ r[n + 1] = e /\ \A i \in 1 .. n : r[i] = q[i]
  BY DEF PushedBack
<1>2. \A i \in 1 .. Len(r) : i \in 1 .. n \/ i = n + 1
  BY <1>1
<1>3. e.last_used \in Int /\ e.pushed \in Int
  BY NumbersAssumption DEF Entries, Times
<1> HIDE DEF r, n
<1>4. Members(r) \subseteq Members(q) \cup {e.db_connection}
  BY <1>1, <1>2 DEF Members, n
<1>5. ASSUME Distinct(q), e.db_connection \notin Members(q),
             NEW i \in 1 .. Len(r), NEW j \in 1 .. Len(r), r[i].db_connection = r[j].db_connection
      PROVE  i = j
  <2>1. \A k \in 1 .. n : r[k].db_connection # e.db_connection
    BY <1>1, <1>5 DEF Members, n
  <2>2. CASE i \in 1 .. n /\ j \in 1 .. n
    BY <1>1, <1>5, <2>2 DEF Distinct, n
  <2>3. CASE i = n + 1 \/ j = n + 1
    BY <1>1, <1>2, <1>5, <2>1, <2>3
  <2> QED
    BY <1>2, <2>2, <2>3
<1>6. ASSUME Ordered(q, e.pushed), e.last_used <= e.pushed
      PROVE  Ordered(r, e.pushed)
  <2>1. ASSUME NEW i \in 1 .. Len(r)
        PROVE  r[i].last_used <= r[i].pushed /\ r[i].pushed <= e.pushed
    BY <1>1, <1>2, <1>3, <1>6 DEF Ordered, n
  <2>2. ASSUME NEW i \in 1 .. Len(r), NEW j \in 1 .. Len(r), i <= j
        PROVE  r[i].pushed <= r[j].pushed
    <3>1. CASE j \in 1 .. n
      <4>1. i \in 1 .. n
        BY <1>1, <2>2, <3>1
      <4> QED
        BY <1>1, <1>6, <2>2, <3>1, <4>1 DEF Ordered, n
    <3>2. CASE j = n + 1
      BY <1>1, <2>1, <3>2
    <3> QED
      BY <1>2, <3>1, <3>2
  <2> QED
    BY <2>1, <2>2 DEF Ordered
<1> QED
  BY <1>1, <1>4, <1>5, <1>6 DEF r, n, Distinct

-----------------------------------------------------------------------------
(* The inductive invariant.                                                *)

\* Entries are in order as long as the clock is not set back.
Timely(q, time) == steady => Ordered(q, time)

PoolInv == TypeOK /\ SizeExact /\ Exclusive /\ IdleAreClean /\ InOrder

\* What a session leaves was held by it and by nobody else.
LEMMA LeavesFacts ==
    ASSUME TypeOK, NEW s \in Sessions, NEW c \in Connections \cup {None}
    PROVE  /\ Leaves(s, c) \subseteq Held
           /\ Leaves(s, c) \subseteq Connections
           /\ \A d \in Leaves(s, c) : d = db_connection_[s] /\ d # c
  BY NoneAssumption DEF Leaves, Held, TypeOK

\* What Turn does to the places a connection can be at.
LEMMA TurnFacts ==
    ASSUME TypeOK, NEW s \in Sessions, NEW c \in Connections \cup {None},
           NEW homes \in [Connections -> BOOLEAN], pc[s] # "put", Turn(s, c, homes)
    PROVE  /\ Held' \subseteq (Held \ Leaves(s, c)) \cup {c}
           /\ \/ self' = self /\ Returning' = Returning
              \/ /\ self' = [self EXCEPT ![s] = db_connection_[s]]
                 /\ db_connection_[s] \in Leaves(s, c) /\ Recycles(db_connection_[s])
                 /\ Returning' = Returning \cup Leaves(s, c)
<1> DEFINE old == db_connection_[s]
<1>1. self[s] = None /\ self \in [Sessions -> Connections \cup {None}]
  BY DEF TypeOK
<1>2. /\ db_connection_ \in [Sessions -> Connections \cup {None}]
      /\ db_connection_' = [db_connection_ EXCEPT ![s] = c]
  BY DEF TypeOK, Turn
<1>3. Held' \subseteq (Held \ Leaves(s, c)) \cup {c}
  BY <1>2 DEF Held, Leaves
<1>4. CASE \E d \in Leaves(s, c) : Recycles(d)
  <2>1. PICK d \in Leaves(s, c) : Recycles(d)
    BY <1>4
  <2>2. d = old /\ Leaves(s, c) = {old} /\ old # None
    BY <2>1 DEF Leaves
  <2>3. self' = [self EXCEPT ![s] = old]
    BY <1>4 DEF Turn
  <2>4. Returning' = Returning \cup {old}
    <3>1. self'[s] = old /\ \A r \in Sessions \ {s} : self'[r] = self[r]
      BY <1>1, <2>3
    <3> QED
      BY <1>1, <2>2, <3>1 DEF Returning
  <2> QED
    BY <1>3, <2>1, <2>2, <2>3, <2>4
<1>5. CASE ~ \E d \in Leaves(s, c) : Recycles(d)
  <2>1. self' = self
    BY <1>5 DEF Turn
  <2> QED
    BY <1>3, <2>1 DEF Returning
<1> QED
  BY <1>4, <1>5

\* Turn leaves every variable that it assigns well typed.
LEMMA TurnType ==
    ASSUME TypeOK, (steady => \A r \in Sessions : now[r] <= clock),
           NEW s \in Sessions, NEW c \in Connections \cup {None},
           NEW homes \in [Connections -> BOOLEAN], pc[s] # "put", Turn(s, c, homes)
    PROVE  /\ db_connection_' \in [Sessions -> Connections \cup {None}]
           /\ home' \in [Connections -> BOOLEAN]
           /\ pc' \in [Sessions -> {"idle", "get", "connect", "put"}]
           /\ now' \in [Sessions -> Times]
           /\ self' \in [Sessions -> Connections \cup {None}]
           /\ \A r \in Sessions : pc'[r] # "put" => self'[r] = None
           /\ (steady => \A r \in Sessions : now'[r] <= clock)
           /\ \A r \in Sessions \ {s} : pc'[r] = pc[r]
<1>1. /\ db_connection_ \in [Sessions -> Connections \cup {None}]
      /\ pc \in [Sessions -> {"idle", "get", "connect", "put"}]
      /\ now \in [Sessions -> Times] /\ clock \in Times
      /\ self \in [Sessions -> Connections \cup {None}]
      /\ \A r \in Sessions : pc[r] # "put" => self[r] = None
  BY DEF TypeOK
<1>2. home' \in [Connections -> BOOLEAN]
  <2>1. home' = [d \in Connections |-> homes[d] /\ d \notin Leaves(s, c)]
    BY DEF Turn
  <2> QED
    BY <2>1, Zenon
<1>3. db_connection_' \in [Sessions -> Connections \cup {None}]
  BY <1>1 DEF Turn
<1>4. CASE \E d \in Leaves(s, c) : Recycles(d)
  <2>1. /\ pc' = [pc EXCEPT ![s] = "put"]
        /\ self' = [self EXCEPT ![s] = db_connection_[s]]
        /\ now' = [now EXCEPT ![s] = clock]
    BY <1>4 DEF Turn
  <2>2. clock <= clock
    BY NumbersAssumption DEF Times, TypeOK
  <2> QED
    BY <1>1, <1>2, <1>3, <2>1, <2>2
<1>5. CASE ~ \E d \in Leaves(s, c) : Recycles(d)
  <2>1. pc' = [pc EXCEPT ![s] = "idle"] /\ self' = self /\ now' = now
    BY <1>5 DEF Turn
  <2> QED
    BY <1>1, <1>2, <1>3, <2>1
<1> QED
  BY <1>4, <1>5

\* A session turns to a connection that is nowhere else, or shared: every
\* connection stays at one place, and what goes back is clean.
LEMMA TurnKeeps ==
    ASSUME PoolInv, NEW s \in Sessions, NEW c \in Connections \cup {None},
           NEW homes \in [Connections -> BOOLEAN], pc[s] # "put", Turn(s, c, homes),
           Idle' \subseteq Idle \ {c}, c \notin Returning,
           \A d \in Connections : d # c => homes[d] = home[d] /\ recyclable_'[d] = recyclable_[d]
    PROVE  /\ \A a, b \in Sessions : self'[a] = self'[b] /\ self'[a] # None => a = b
           /\ Idle' \cap Held' = {} /\ Idle' \cap Returning' = {} /\ Held' \cap Returning' = {}
           /\ IdleAreClean'
<1>1. TypeOK /\ Exclusive /\ IdleAreClean
  BY DEF PoolInv
<1>2. /\ Leaves(s, c) \subseteq Held /\ Leaves(s, c) \subseteq Connections
      /\ \A d \in Leaves(s, c) : d = db_connection_[s] /\ d # c
  BY <1>1, LeavesFacts
<1>3. /\ Held' \subseteq (Held \ Leaves(s, c)) \cup {c}
      /\ \/ self' = self /\ Returning' = Returning
         \/ /\ self' = [self EXCEPT ![s] = db_connection_[s]]
            /\ db_connection_[s] \in Leaves(s, c) /\ Recycles(db_connection_[s])
            /\ Returning' = Returning \cup Leaves(s, c)
  BY <1>1, TurnFacts
<1>4. Idle \cap Held = {} /\ Idle \cap Returning = {} /\ Held \cap Returning = {}
  BY <1>1 DEF Exclusive
<1>5. Idle \subseteq Connections /\ Returning \subseteq Connections
  <2>1. connection_pool_ \in Seq(Entries) /\ self \in [Sessions -> Connections \cup {None}]
    BY <1>1 DEF TypeOK
  <2>2. \A i \in 1 .. Len(connection_pool_) : connection_pool_[i] \in Entries
    BY <2>1
  <2>3. \A i \in 1 .. Len(connection_pool_) : connection_pool_[i].db_connection \in Connections
    BY <2>2 DEF Entries
  <2> QED
    BY <2>1, <2>3 DEF Idle, Returning
<1>6. Idle' \cap Held' = {} /\ Idle' \cap Returning' = {} /\ Held' \cap Returning' = {}
  BY <1>2, <1>3, <1>4
<1>7. ASSUME NEW a \in Sessions, NEW b \in Sessions, self'[a] = self'[b], self'[a] # None
      PROVE  a = b
  <2>1. self \in [Sessions -> Connections \cup {None}]
        /\ \A x, y \in Sessions : self[x] = self[y] /\ self[x] # None => x = y
    BY <1>1 DEF TypeOK, Exclusive
  <2>2. CASE self' = self
    BY <1>7, <2>1, <2>2
  <2>3. CASE /\ self' = [self EXCEPT ![s] = db_connection_[s]]
             /\ db_connection_[s] \in Leaves(s, c)
    <3>1. \A r \in Sessions : self[r] # db_connection_[s]
      <4>1. db_connection_[s] \in Held /\ db_connection_[s] \in Connections
        BY <1>2, <2>3
      <4> QED
        BY <1>4, <4>1, NoneAssumption DEF Returning
    <3> QED
      BY <1>7, <2>1, <2>3, <3>1
  <2> QED
    BY <1>3, <2>2, <2>3
<1>8. \A d \in Connections : home'[d] = (homes[d] /\ d \notin Leaves(s, c))
  BY DEF Turn
<1>9. ASSUME NEW d \in Idle' \cup Returning' PROVE recyclable_'[d] /\ ~home'[d]
  <2>1. CASE d \in Idle \cup Returning /\ d # c
    <3>1. d \in Connections /\ recyclable_[d] /\ ~home[d]
      BY <1>1, <1>5, <2>1 DEF IdleAreClean
    <3>2. recyclable_'[d] = recyclable_[d] /\ homes[d] = home[d]
      BY <2>1, <3>1
    <3> QED
      BY <1>8, <3>1, <3>2
  <2>2. CASE d \in Leaves(s, c) /\ Recycles(db_connection_[s])
    <3>1. d \in Connections /\ d # c /\ d = db_connection_[s]
      BY <1>2, <2>2
    <3>2. recyclable_[d] /\ recyclable_'[d] = recyclable_[d]
      BY <2>2, <3>1 DEF Recycles
    <3> QED
      BY <1>8, <2>2, <3>1, <3>2
  <2> QED
    BY <1>3, <2>1, <2>2
<1> QED
  BY <1>6, <1>7, <1>9 DEF IdleAreClean

\* What PoolInv says of the list alone.
LEMMA ListFacts ==
    ASSUME PoolInv
    PROVE  /\ connection_pool_ \in Seq(Entries) /\ Len(connection_pool_) \in Nat
           /\ Distinct(connection_pool_) /\ Timely(connection_pool_, clock)
           /\ size_ = Len(connection_pool_) /\ Len(connection_pool_) <= limit_
           /\ limit_ \in Nat
           /\ Idle = Members(connection_pool_)
<1>1. connection_pool_ \in Seq(Entries) /\ limit_ \in PoolSizes
  BY DEF PoolInv, TypeOK
<1>2. Distinct(connection_pool_)
  BY DEF PoolInv, Exclusive
<1>3. Timely(connection_pool_, clock)
  BY DEF PoolInv, InOrder, Timely
<1>4. size_ = Len(connection_pool_) /\ Len(connection_pool_) <= limit_
  BY DEF PoolInv, SizeExact
<1>5. Idle = Members(connection_pool_)
  BY DEF Idle, Members
<1> QED
  BY <1>1, <1>2, <1>3, <1>4, <1>5, NumbersAssumption

\* What Put leaves of a list r, to which it has pushed at most one entry.
LEMMA EvictFacts ==
    ASSUME NEW r \in Seq(Entries), limit_ \in Nat, NEW n, NEW time,
           n = SizeWithout(Len(r), StalePrefix(r, time)), Len(r) <= limit_ + 1
    PROVE  LET f == Fresh(r, time)
               kept == IF OverLimit(n) THEN SubSeq(f, 2, Len(f)) ELSE f
           IN  /\ Part(kept, r)
               /\ Len(kept) = IF OverLimit(n) THEN SizeWithout(n, 1) ELSE n
               /\ Len(kept) <= limit_
<1> DEFINE f == Fresh(r, time)
<1>1. /\ Part(f, r) /\ Len(f) = Len(r) - StalePrefix(r, time)
      /\ StalePrefix(r, time) \in 0 .. Len(r)
  BY FreshFacts, PrefixFacts
<1>2. f \in Seq(Entries) /\ Len(r) \in Nat
  BY <1>1 DEF Part
<1> HIDE DEF f
<1>3. n = Len(f) /\ Len(f) \in Nat /\ Len(f) <= limit_ + 1
  BY <1>1, <1>2 DEF SizeWithout
<1>4. CASE OverLimit(n)
  <2>1. Len(f) = limit_ + 1 /\ f # << >>
    BY <1>2, <1>3, <1>4 DEF OverLimit
  <2>2. Part(SubSeq(f, 2, Len(f)), r) /\ Len(SubSeq(f, 2, Len(f))) = Len(f) - 1
    BY <1>1, <2>1, PartSub
  <2>3. Len(f) - 1 = SizeWithout(n, 1) /\ Len(f) - 1 <= limit_
    BY <1>3, <2>1 DEF SizeWithout
  <2> QED
    BY <1>4, <2>2, <2>3 DEF f
<1>5. CASE ~OverLimit(n)
  <2>1. Len(f) <= limit_
    BY <1>3, <1>5 DEF OverLimit
  <2> QED
    BY <1>1, <1>3, <1>5, <2>1 DEF f
<1> QED
  BY <1>4, <1>5

\* Put keeps the list in order and within its limit, and adds nothing but
\* the connection it was called with.
LEMMA PutFacts ==
    ASSUME PoolInv, NEW s \in Sessions, Put(s)
    PROVE  /\ connection_pool_' \in Seq(Entries)
           /\ Distinct(connection_pool_') /\ Timely(connection_pool_', clock)
           /\ size_' = Len(connection_pool_') /\ Len(connection_pool_') <= limit_
           /\ Idle' \subseteq Idle \cup ({self[s]} \ {None})
<1> DEFINE q == connection_pool_
           e == [db_connection |-> self[s], last_used |-> now[s], pushed |-> clock]
           new == IF self[s] = None THEN << >> ELSE << e >>
           r == PushedBack(q, new)
           f == Fresh(r, now[s])
           n == SizeWithout(size_ + Len(new), StalePrefix(r, now[s]))
<1>1. /\ q \in Seq(Entries) /\ Len(q) \in Nat /\ Distinct(q) /\ Timely(q, clock)
      /\ size_ = Len(q) /\ Len(q) <= limit_ /\ limit_ \in Nat /\ Idle = Members(q)
  BY ListFacts
<1>2. /\ connection_pool_' = IF OverLimit(n) THEN SubSeq(f, 2, Len(f)) ELSE f
      /\ size_' = IF OverLimit(n) THEN SizeWithout(n, 1) ELSE n
  BY DEF Put
<1>3. /\ self[s] \in Connections \cup {None} /\ now[s] \in Times /\ clock \in Times
      /\ (steady => now[s] <= clock)
  BY DEF PoolInv, TypeOK, InOrder
<1>4. /\ r \in Seq(Entries) /\ Len(r) = Len(q) + Len(new) /\ Len(new) \in 0 .. 1
      /\ Members(r) \subseteq Members(q) \cup ({self[s]} \ {None})
      /\ Distinct(r) /\ Timely(r, clock)
  <2>1. CASE self[s] = None
    <3>1. new = << >> /\ Len(new) = 0
      BY <2>1
    <3>2. r = q
      BY <1>1, <3>1 DEF PushedBack
    <3> QED
      BY <1>1, <3>1, <3>2
  <2>2. CASE self[s] # None
    <3>1. new = << e >> /\ Len(new) = 1
      BY <2>2
    <3>2. e \in Entries /\ e.db_connection = self[s] /\ e.last_used = now[s] /\ e.pushed = clock
      BY <1>3, <2>2 DEF Entries
    <3>3. self[s] \notin Members(q)
      <4>1. self[s] \in Returning
        BY <2>2 DEF Returning
      <4>2. Idle \cap Returning = {}
        BY DEF PoolInv, Exclusive
      <4> QED
        BY <1>1, <4>1, <4>2
    <3> HIDE DEF e
    <3>4. /\ PushedBack(q, <<e>>) \in Seq(Entries)
          /\ Len(PushedBack(q, <<e>>)) = Len(q) + 1
          /\ Members(PushedBack(q, <<e>>)) \subseteq Members(q) \cup {self[s]}
          /\ Distinct(PushedBack(q, <<e>>)) /\ Timely(PushedBack(q, <<e>>), clock)
      BY <1>1, <1>3, <3>2, <3>3, PushFacts DEF Timely
    <3> QED
      BY <2>2, <3>1, <3>4
  <2> QED
    BY <2>1, <2>2
<1> HIDE DEF new, r, e, q
<1>5. Len(r) = size_ + Len(new) /\ Len(r) <= limit_ + 1
  <2>1. Len(r) = Len(q) + Len(new) /\ (Len(new) = 0 \/ Len(new) = 1)
    BY <1>4
  <2>2. Len(q) \in Nat /\ size_ = Len(q) /\ Len(q) <= limit_ /\ limit_ \in Nat
    BY <1>1
  <2>3. Len(r) = size_ + Len(new)
    BY <2>1, <2>2, Zenon
  <2>4. CASE Len(new) = 0
    <3>1. Len(r) = Len(q) + 0
      BY <2>1, <2>4, Zenon
    <3>2. Len(r) = Len(q)
      BY <2>2, <3>1
    <3> QED
      BY <2>2, <2>3, <3>2
  <2>5. CASE Len(new) = 1
    <3>1. Len(r) = Len(q) + 1
      BY <2>1, <2>5, Zenon
    <3> QED
      BY <2>2, <2>3, <3>1
  <2> QED
    BY <2>1, <2>4, <2>5
<1>6. n = SizeWithout(Len(r), StalePrefix(r, now[s]))
  BY <1>5
<1> HIDE DEF n
<1>7. /\ Part(connection_pool_', r)
      /\ size_' = Len(connection_pool_') /\ Len(connection_pool_') <= limit_
  BY <1>1, <1>2, <1>4, <1>5, <1>6, EvictFacts
<1>8. connection_pool_' \in Seq(Entries)
  BY <1>7 DEF Part
<1>9. /\ Members(connection_pool_') \subseteq Members(r)
      /\ Distinct(connection_pool_') /\ Timely(connection_pool_', clock)
  BY <1>4, <1>7, PartInherits DEF Timely
<1>10. Idle' = Members(connection_pool_')
  BY DEF Idle, Members
<1> QED
  BY <1>1, <1>4, <1>7, <1>8, <1>9, <1>10

\* get() takes what is stale from the front, and one entry from the back.
LEMMA HitFacts ==
    ASSUME PoolInv, NEW s \in Sessions, GetHit(s)
    PROVE  LET q == Fresh(connection_pool_, now[s])
               c == q[Len(q)].db_connection
           IN  /\ Part(connection_pool_', connection_pool_)
               /\ size_' = Len(connection_pool_')
               /\ c \in Connections /\ c \in Idle /\ c \notin Idle'
               /\ Turn(s, c, [home EXCEPT ![c] = TRUE])
<1> DEFINE q == Fresh(connection_pool_, now[s])
           c == q[Len(q)].db_connection
           k == StalePrefix(connection_pool_, now[s])
<1>1. /\ connection_pool_ \in Seq(Entries) /\ Len(connection_pool_) \in Nat
      /\ Distinct(connection_pool_) /\ size_ = Len(connection_pool_)
      /\ Idle = Members(connection_pool_)
  BY ListFacts
<1>2. /\ q # << >> /\ connection_pool_' = PoppedBack(q) /\ size_' = SizeWithout(size_, k + 1)
      /\ Turn(s, c, [home EXCEPT ![c] = TRUE])
  BY DEF GetHit
<1>3. Part(q, connection_pool_) /\ Len(q) = Len(connection_pool_) - k
  BY <1>1, FreshFacts
<1>4. k \in 0 .. Len(connection_pool_)
  BY <1>1, PrefixFacts
<1> HIDE DEF q, k
<1>5. Part(PoppedBack(q), connection_pool_) /\ Len(PoppedBack(q)) = Len(q) - 1
  BY <1>1, <1>2, <1>3, PartSub DEF PoppedBack
<1>6. c \in Connections /\ c \in Members(connection_pool_) /\ c \notin Members(PoppedBack(q))
  BY <1>1, <1>2, <1>3, BackFacts
<1>7. Idle' = Members(connection_pool_')
  BY DEF Idle, Members
<1>8. size_' = Len(connection_pool_')
  <2>1. Len(connection_pool_') = (Len(connection_pool_) - k) - 1
    BY <1>2, <1>3, <1>5
  <2>2. size_' = Len(connection_pool_) - (k + 1)
    BY <1>1, <1>2 DEF SizeWithout
  <2> QED
    BY <1>1, <1>4, <2>1, <2>2
<1> QED
  BY <1>1, <1>2, <1>5, <1>6, <1>7, <1>8 DEF q

\* A step that takes entries from the list keeps what is said of the list.
LEMMA PartKeeps ==
    ASSUME PoolInv, Part(connection_pool_', connection_pool_)
    PROVE  /\ connection_pool_' \in Seq(Entries)
           /\ Distinct(connection_pool_') /\ Timely(connection_pool_', clock)
           /\ Len(connection_pool_') <= limit_
           /\ Idle' \subseteq Idle
<1>1. /\ connection_pool_ \in Seq(Entries) /\ Len(connection_pool_) \in Nat
      /\ Distinct(connection_pool_) /\ Timely(connection_pool_, clock)
      /\ Len(connection_pool_) <= limit_ /\ limit_ \in Nat
      /\ Idle = Members(connection_pool_)
  BY ListFacts
<1>2. /\ Members(connection_pool_') \subseteq Members(connection_pool_)
      /\ Distinct(connection_pool_') /\ Timely(connection_pool_', clock)
  BY <1>1, PartInherits DEF Timely
<1>3. connection_pool_' \in Seq(Entries)
  BY DEF Part
<1>4. PICK a \in Nat : Len(connection_pool_') + a <= Len(connection_pool_)
  BY DEF Part
<1>5. Len(connection_pool_') <= limit_
  <2>1. Len(connection_pool_') \in Nat
    BY <1>3
  <2> QED
    BY <1>1, <1>4, <2>1
<1>6. Idle' = Members(connection_pool_')
  BY DEF Idle, Members
<1> QED
  BY <1>1, <1>2, <1>3, <1>5, <1>6

\* The empty list is a stretch of any.
LEMMA EmptyPart ==
    ASSUME NEW q \in Seq(Entries)
    PROVE  Part(<< >>, q)
<1>1. Len(q) \in Nat /\ << >> \in Seq(Entries) /\ Len(<< >>) = 0
  OBVIOUS
<1>2. 0 \in Nat /\ 0 + 0 <= Len(q) /\ \A i \in 1 .. 0 : << >>[i] = q[i + 0]
  BY <1>1
<1> QED
  BY <1>1, <1>2 DEF Part

\* The pool starts empty, with nobody holding anything.
LEMMA InitPool == Init => PoolInv
<1> SUFFICES ASSUME Init PROVE PoolInv
  OBVIOUS
<1>1. Idle = {} /\ Held = {} /\ Returning = {}
  BY DEF Init, Idle, Held, Returning
<1>2. connection_pool_ = << >> /\ Len(connection_pool_) = 0 /\ limit_ \in Nat
  BY NumbersAssumption DEF Init
<1>3. TypeOK
  BY NumbersAssumption DEF Init, TypeOK, Times
<1>4. SizeExact
  BY <1>2 DEF Init, SizeExact
<1>5. Exclusive
  BY <1>1, <1>2 DEF Init, Exclusive, Distinct
<1>6. IdleAreClean
  BY <1>1 DEF IdleAreClean
<1>7. InOrder
  BY <1>2 DEF Init, InOrder, Timely, Ordered
<1> QED
  BY <1>3, <1>4, <1>5, <1>6, <1>7 DEF PoolInv

\* A session turns to a connection while the list loses entries or none.
LEMMA TurnStep ==
    ASSUME PoolInv, NEW s \in Sessions, NEW c \in Connections \cup {None},
           NEW homes \in [Connections -> BOOLEAN], pc[s] # "put", Turn(s, c, homes),
           Part(connection_pool_', connection_pool_), size_' = Len(connection_pool_'),
           c \notin Idle', c \notin Returning, limit_' = limit_, clock' = clock, steady' = steady,
           recyclable_' \in [Connections -> BOOLEAN],
           \A d \in Connections : d # c => homes[d] = home[d] /\ recyclable_'[d] = recyclable_[d]
    PROVE  PoolInv'
<1>1. /\ connection_pool_' \in Seq(Entries)
      /\ Distinct(connection_pool_') /\ Timely(connection_pool_', clock)
      /\ Len(connection_pool_') <= limit_ /\ Idle' \subseteq Idle
  BY PartKeeps
<1>2. TypeOK /\ (steady => \A r \in Sessions : now[r] <= clock)
  BY DEF PoolInv, InOrder
<1>3. /\ db_connection_' \in [Sessions -> Connections \cup {None}]
      /\ home' \in [Connections -> BOOLEAN]
      /\ pc' \in [Sessions -> {"idle", "get", "connect", "put"}]
      /\ now' \in [Sessions -> Times]
      /\ self' \in [Sessions -> Connections \cup {None}]
      /\ \A r \in Sessions : pc'[r] # "put" => self'[r] = None
      /\ (steady => \A r \in Sessions : now'[r] <= clock)
  BY <1>2, TurnType
<1>4. /\ \A a, b \in Sessions : self'[a] = self'[b] /\ self'[a] # None => a = b
      /\ Idle' \cap Held' = {} /\ Idle' \cap Returning' = {} /\ Held' \cap Returning' = {}
      /\ IdleAreClean'
  BY <1>1, TurnKeeps
<1>5. limit_ \in PoolSizes /\ clock \in Times /\ steady \in BOOLEAN
  BY <1>2 DEF TypeOK
<1>6. size_' \in Nat
  BY <1>1
<1>7. TypeOK'
  BY <1>1, <1>3, <1>5, <1>6 DEF TypeOK
<1>8. SizeExact' /\ InOrder'
  BY <1>1, <1>3 DEF SizeExact, InOrder, Timely, Ordered
<1>9. Exclusive'
  BY <1>1, <1>4 DEF Exclusive, Distinct
<1> QED
  BY <1>4, <1>7, <1>8, <1>9 DEF PoolInv

\* A step that leaves alone who holds what, and what is on its way back,
\* while the list loses entries or none.
LEMMA QuietStep ==
    ASSUME PoolInv, Part(connection_pool_', connection_pool_), size_' = Len(connection_pool_'),
           UNCHANGED <<limit_, db_connection_, home, self>>,
           clock' \in Times, steady' \in BOOLEAN, steady' => steady /\ clock <= clock',
           recyclable_' \in [Connections -> BOOLEAN],
           \A d \in Idle \cup Returning : recyclable_'[d] = recyclable_[d],
           pc' \in [Sessions -> {"idle", "get", "connect", "put"}],
           now' \in [Sessions -> Times],
           \A r \in Sessions : pc'[r] # "put" => self[r] = None,
           steady' => \A r \in Sessions : now'[r] <= clock'
    PROVE  PoolInv'
<1>1. /\ connection_pool_' \in Seq(Entries)
      /\ Distinct(connection_pool_') /\ Timely(connection_pool_', clock)
      /\ Len(connection_pool_') <= limit_ /\ Idle' \subseteq Idle
  BY PartKeeps
<1>2. TypeOK /\ Exclusive /\ IdleAreClean
  BY DEF PoolInv
<1>3. TypeOK'
  BY <1>1, <1>2 DEF TypeOK
<1>4. Held' = Held /\ Returning' = Returning
  BY DEF Held, Returning
<1>5. Exclusive'
  BY <1>1, <1>2, <1>4 DEF Exclusive, Distinct
<1>6. IdleAreClean'
  BY <1>1, <1>2, <1>4 DEF IdleAreClean
<1>7. ASSUME steady'
      PROVE  Ordered(connection_pool_', clock')
  <2>1. steady /\ clock <= clock' /\ Ordered(connection_pool_', clock)
    BY <1>1, <1>7 DEF Timely
  <2>2. ASSUME NEW i \in 1 .. Len(connection_pool_')
        PROVE  connection_pool_'[i].pushed \in Int /\ connection_pool_'[i].pushed <= clock
    <3>1. connection_pool_'[i] \in Entries
      BY <1>1
    <3> QED
      BY <2>1, <3>1, NumbersAssumption DEF Entries, Times, Ordered
  <2>3. clock \in Int /\ clock' \in Int
    BY <1>2, NumbersAssumption DEF TypeOK, Times
  <2>4. \A i \in 1 .. Len(connection_pool_') : connection_pool_'[i].pushed <= clock'
    BY <2>1, <2>2, <2>3
  <2> QED
    BY <2>1, <2>4 DEF Ordered
<1>8. SizeExact' /\ InOrder'
  BY <1>1, <1>7 DEF SizeExact, InOrder, Timely, Ordered
<1> QED
  BY <1>3, <1>5, <1>6, <1>8 DEF PoolInv

\* What PoolInv says outside the list.
LEMMA StateFacts ==
    ASSUME PoolInv
    PROVE  /\ db_connection_ \in [Sessions -> Connections \cup {None}]
           /\ home \in [Connections -> BOOLEAN] /\ recyclable_ \in [Connections -> BOOLEAN]
           /\ clock \in Times /\ clock <= clock /\ steady \in BOOLEAN
           /\ pc \in [Sessions -> {"idle", "get", "connect", "put"}]
           /\ now \in [Sessions -> Times]
           /\ self \in [Sessions -> Connections \cup {None}]
           /\ \A r \in Sessions : pc[r] # "put" => self[r] = None
           /\ (steady => \A r \in Sessions : now[r] <= clock)
           /\ Idle \cap Held = {} /\ Idle \cap Returning = {} /\ Held \cap Returning = {}
           /\ None \notin Held /\ None \notin Returning
           /\ Part(connection_pool_, connection_pool_) /\ Part(<< >>, connection_pool_)
<1>1. TypeOK /\ Exclusive /\ InOrder
  BY DEF PoolInv
<1>2. clock <= clock
  BY <1>1, NumbersAssumption DEF TypeOK, Times
<1>3. connection_pool_ \in Seq(Entries) /\ Len(connection_pool_) \in Nat
  BY <1>1 DEF TypeOK
<1>4. 0 \in Nat /\ Len(connection_pool_) + 0 <= Len(connection_pool_)
      /\ \A i \in 1 .. Len(connection_pool_) : connection_pool_[i] = connection_pool_[i + 0]
  BY <1>3
<1>5. Part(connection_pool_, connection_pool_)
  BY <1>3, <1>4 DEF Part
<1>6. Part(<< >>, connection_pool_)
  BY <1>3, EmptyPart
<1> QED
  BY <1>1, <1>2, <1>5, <1>6 DEF TypeOK, Exclusive, InOrder, Held, Returning

\* Every step of the system keeps the invariant.
LEMMA StepPool == PoolInv /\ [Next]_vars => PoolInv'
<1> SUFFICES ASSUME PoolInv, [Next]_vars PROVE PoolInv'
  OBVIOUS
<1> USE StateFacts
<1>0. size_ = Len(connection_pool_) /\ Len(<< >>) = 0
  BY ListFacts
<1>1. ASSUME NEW s \in Sessions, Open(s) PROVE PoolInv'
  <2>1. /\ pc' \in [Sessions -> {"idle", "get", "connect", "put"}]
        /\ now' \in [Sessions -> Times]
        /\ \A r \in Sessions : pc'[r] # "put" => self[r] = None
        /\ (steady => \A r \in Sessions : now'[r] <= clock)
    BY <1>1 DEF Open
  <2>2. UNCHANGED <<limit_, connection_pool_, size_, db_connection_, home, recyclable_, clock, steady,
                    self>>
    BY <1>1 DEF Open
  <2> QED
    BY <1>0, <2>1, <2>2, QuietStep
<1>2. ASSUME NEW s \in Sessions, GetHit(s) PROVE PoolInv'
  <2> DEFINE q == Fresh(connection_pool_, now[s])
             c == q[Len(q)].db_connection
             homes == [home EXCEPT ![c] = TRUE]
  <2>1. /\ Part(connection_pool_', connection_pool_) /\ size_' = Len(connection_pool_')
        /\ c \in Connections /\ c \in Idle /\ c \notin Idle' /\ Turn(s, c, homes)
    BY <1>2, HitFacts
  <2>2. pc[s] # "put" /\ UNCHANGED <<limit_, recyclable_, clock, steady>>
    BY <1>2 DEF GetHit
  <2> HIDE DEF c
  <2>3. homes \in [Connections -> BOOLEAN] /\ \A d \in Connections : d # c => homes[d] = home[d]
    BY <2>1
  <2>4. c \notin Returning
    BY <2>1
  <2> QED
    BY <2>1, <2>2, <2>3, <2>4, TurnStep
<1>3. ASSUME NEW s \in Sessions, GetMiss(s) PROVE PoolInv'
  <2>1. connection_pool_' = << >> /\ size_' = 0
    <3>1. /\ connection_pool_ \in Seq(Entries) /\ Fresh(connection_pool_, now[s]) = << >>
          /\ connection_pool_' = << >>
          /\ size_' = SizeWithout(size_, StalePrefix(connection_pool_, now[s]))
      BY <1>3, ListFacts DEF GetMiss
    <3>2. /\ Len(<< >>) = Len(connection_pool_) - StalePrefix(connection_pool_, now[s])
          /\ StalePrefix(connection_pool_, now[s]) \in 0 .. Len(connection_pool_)
          /\ Len(connection_pool_) \in Nat
      BY <3>1, FreshFacts, PrefixFacts
    <3> QED
      BY <1>0, <3>1, <3>2 DEF SizeWithout
  <2>2. pc' = [pc EXCEPT ![s] = "connect"] /\ pc[s] # "put"
        /\ UNCHANGED <<limit_, db_connection_, home, recyclable_, clock, steady, now, self>>
    BY <1>3 DEF GetMiss
  <2>3. /\ pc' \in [Sessions -> {"idle", "get", "connect", "put"}]
        /\ \A r \in Sessions : pc'[r] # "put" => self[r] = None
    BY <2>2
  <2> QED
    BY <1>0, <2>1, <2>2, <2>3, QuietStep
<1>4. ASSUME NEW s \in Sessions, NEW c \in Connections, Connect(s, c) PROVE PoolInv'
  <2> DEFINE homes == [home EXCEPT ![c] = limit_ # 0]
  <2>1. /\ pc[s] # "put" /\ c \notin Idle /\ c \notin Returning /\ Turn(s, c, homes)
        /\ recyclable_' = [recyclable_ EXCEPT ![c] = FALSE]
        /\ UNCHANGED <<limit_, connection_pool_, size_, clock, steady>>
    BY <1>4 DEF Connect
  <2>2. /\ homes \in [Connections -> BOOLEAN] /\ recyclable_' \in [Connections -> BOOLEAN]
        /\ \A d \in Connections : d # c => homes[d] = home[d] /\ recyclable_'[d] = recyclable_[d]
    BY <2>1
  <2>3. Idle' = Idle
    BY <2>1 DEF Idle
  <2> QED
    BY <1>0, <2>1, <2>2, <2>3, TurnStep
<1>5. ASSUME NEW s \in Sessions, NEW r \in Sessions, Copy(s, r) PROVE PoolInv'
  <2>1. /\ pc[s] # "put" /\ db_connection_[r] \in Held /\ Turn(s, db_connection_[r], home)
        /\ UNCHANGED <<limit_, connection_pool_, size_, recyclable_, clock, steady>>
    BY <1>5 DEF Copy, Held
  <2>2. /\ db_connection_[r] \in Connections \cup {None}
        /\ db_connection_[r] \notin Idle /\ db_connection_[r] \notin Returning
    BY <2>1
  <2>3. Idle' = Idle
    BY <2>1 DEF Idle
  <2> QED
    BY <1>0, <2>1, <2>2, <2>3, TurnStep
<1>6. ASSUME NEW s \in Sessions, Close(s) PROVE PoolInv'
  <2>1. /\ pc[s] # "put" /\ Turn(s, None, home)
        /\ UNCHANGED <<limit_, connection_pool_, size_, recyclable_, clock, steady>>
    BY <1>6 DEF Close
  <2>2. None \notin Idle'
    <3>1. Idle' = Members(connection_pool_)
      BY <2>1 DEF Idle, Members
    <3>2. \A i \in 1 .. Len(connection_pool_) : connection_pool_[i] \in Entries
      BY ListFacts
    <3>3. Members(connection_pool_) \subseteq Connections
      BY <3>2 DEF Members, Entries
    <3> QED
      BY <3>1, <3>3, NoneAssumption
  <2> QED
    BY <1>0, <2>1, <2>2, TurnStep
<1>7. ASSUME NEW s \in Sessions, NEW value \in BOOLEAN, SetRecyclable(s, value) PROVE PoolInv'
  <2>1. /\ db_connection_[s] \in Held
        /\ recyclable_' = [recyclable_ EXCEPT ![db_connection_[s]] = value]
        /\ UNCHANGED <<limit_, connection_pool_, size_, db_connection_, home, clock, steady, pc, now,
                       self>>
    BY <1>7 DEF SetRecyclable, Held
  <2>2. /\ recyclable_' \in [Connections -> BOOLEAN]
        /\ \A d \in Idle \cup Returning : recyclable_'[d] = recyclable_[d]
    BY <2>1
  <2> QED
    BY <1>0, <2>1, <2>2, QuietStep
<1>8. ASSUME NEW s \in Sessions, Put(s) PROVE PoolInv'
  <2>1. /\ connection_pool_' \in Seq(Entries)
        /\ Distinct(connection_pool_') /\ Timely(connection_pool_', clock)
        /\ size_' = Len(connection_pool_') /\ Len(connection_pool_') <= limit_
        /\ Idle' \subseteq Idle \cup ({self[s]} \ {None})
    BY <1>8, PutFacts
  <2>2. /\ self' = [self EXCEPT ![s] = None] /\ pc' = [pc EXCEPT ![s] = "idle"]
        /\ UNCHANGED <<limit_, db_connection_, home, recyclable_, clock, steady, now>>
    BY <1>8 DEF Put
  <2>3. \A a, b \in Sessions : self[a] = self[b] /\ self[a] # None => a = b
    BY DEF PoolInv, Exclusive
  <2>4. /\ self' \in [Sessions -> Connections \cup {None}]
        /\ pc' \in [Sessions -> {"idle", "get", "connect", "put"}]
        /\ \A r \in Sessions : pc'[r] # "put" => self'[r] = None
        /\ \A a, b \in Sessions : self'[a] = self'[b] /\ self'[a] # None => a = b
    BY <2>2, <2>3
  <2>5. Held' = Held /\ Returning' = Returning \ {self[s]}
    <3>1. Held' = Held
      BY <2>2 DEF Held
    <3>2. self'[s] = None /\ \A r \in Sessions \ {s} : self'[r] = self[r]
      BY <2>2
    <3>3. \A r \in Sessions \ {s} : self[r] # None => self[r] # self[s]
      BY <2>3
    <3> QED
      BY <3>1, <3>2, <3>3 DEF Returning
  <2>6. {self[s]} \ {None} \subseteq Returning
    BY DEF Returning
  <2>7. Idle' \cap Held' = {} /\ Idle' \cap Returning' = {} /\ Held' \cap Returning' = {}
    BY <2>1, <2>5, <2>6
  <2>8. IdleAreClean'
    BY <2>1, <2>2, <2>5, <2>6 DEF PoolInv, IdleAreClean
  <2>9. limit_ \in PoolSizes /\ size_' \in Nat
    BY <2>1 DEF PoolInv, TypeOK
  <2>10. TypeOK'
    BY <2>1, <2>2, <2>4, <2>9 DEF TypeOK
  <2>11. SizeExact' /\ Exclusive' /\ InOrder'
    BY <2>1, <2>2, <2>4, <2>7 DEF SizeExact, Exclusive, InOrder, Timely, Ordered, Distinct
  <2> QED
    BY <2>8, <2>10, <2>11 DEF PoolInv
<1>9. ASSUME NEW s \in Sessions, GC(s) PROVE PoolInv'
  <2>1. /\ pc[s] = "idle" /\ pc' = [pc EXCEPT ![s] = "put"] /\ now' = [now EXCEPT ![s] = clock]
        /\ UNCHANGED <<limit_, connection_pool_, size_, db_connection_, home, recyclable_, clock, steady,
                       self>>
    BY <1>9 DEF GC
  <2>2. /\ pc' \in [Sessions -> {"idle", "get", "connect", "put"}]
        /\ now' \in [Sessions -> Times]
        /\ \A r \in Sessions : pc'[r] # "put" => self[r] = None
        /\ (steady => \A r \in Sessions : now'[r] <= clock)
    BY <2>1
  <2> QED
    BY <1>0, <2>1, <2>2, QuietStep
<1>10. ASSUME NEW s \in Sessions, Clear(s) PROVE PoolInv'
  <2>1. /\ connection_pool_' = << >> /\ size_' = 0
        /\ UNCHANGED <<limit_, db_connection_, home, recyclable_, clock, steady, pc, now, self>>
    BY <1>10 DEF Clear
  <2> QED
    BY <1>0, <2>1, QuietStep
<1>11. ASSUME Tick PROVE PoolInv'
  <2>1. /\ clock < MaxTime /\ clock' = clock + 1
        /\ UNCHANGED <<limit_, connection_pool_, size_, db_connection_, home, recyclable_, steady, pc,
                       now, self>>
    BY <1>11 DEF Tick
  <2>2. /\ clock' \in Times /\ clock <= clock'
        /\ steady => \A r \in Sessions : now'[r] <= clock'
    BY <2>1, NumbersAssumption DEF Times
  <2> QED
    BY <1>0, <2>1, <2>2, QuietStep
<1>12. ASSUME SetBack PROVE PoolInv'
  <2>1. /\ clock' \in Times /\ steady' = FALSE
        /\ UNCHANGED <<limit_, connection_pool_, size_, db_connection_, home, recyclable_, pc, now,
                       self>>
    BY <1>12 DEF SetBack
  <2> QED
    BY <1>0, <2>1, QuietStep
<1>13. CASE UNCHANGED vars
  <2>1. UNCHANGED <<limit_, connection_pool_, size_, db_connection_, home, recyclable_, clock, steady, pc,
                    now, self>>
    BY <1>13 DEF vars
  <2> QED
    BY <1>0, <2>1, QuietStep
<1> QED
  BY <1>1, <1>2, <1>3, <1>4, <1>5, <1>6, <1>7, <1>8, <1>9, <1>10, <1>11, <1>12, <1>13
  DEF Next

-----------------------------------------------------------------------------
(* The theorems.                                                           *)

\* PoolInv holds throughout: the conjuncts of this module's invariants are
\* only inductive together, for each of get, Put, Dispose, GC and Clear.
THEOREM PoolInvHolds == Spec => []PoolInv
<1> QED
  BY InitPool, StepPool, PTL DEF Spec

\* The pool, its connections and the sessions are well typed.
THEOREM PoolTypeCorrect == Spec => []TypeOK
<1>1. PoolInv => TypeOK
  BY DEF PoolInv
<1> QED
  BY <1>1, PoolInvHolds, PTL

\* size_ is the length of the list and the list stays within limit_.
THEOREM PoolSizeExact == Spec => []SizeExact
<1>1. PoolInv => SizeExact
  BY DEF PoolInv
<1> QED
  BY <1>1, PoolInvHolds, PTL

\* A connection is in the list once, or held, or on its way back.
THEOREM PoolExclusive == Spec => []Exclusive
<1>1. PoolInv => Exclusive
  BY DEF PoolInv
<1> QED
  BY <1>1, PoolInvHolds, PTL

\* What is in the list or on its way there is recyclable and has no pool.
THEOREM PoolIdleAreClean == Spec => []IdleAreClean
<1>1. PoolInv => IdleAreClean
  BY DEF PoolInv
<1> QED
  BY <1>1, PoolInvHolds, PTL

\* The list is in the order of push_back until the clock is set back.
THEOREM PoolInOrder == Spec => []InOrder
<1>1. PoolInv => InOrder
  BY DEF PoolInv
<1> QED
  BY <1>1, PoolInvHolds, PTL

\* If s leaves get() with a connection, the step is its GetHit.
LEMMA OnlyHit ==
    ASSUME PoolInv, Next, NEW s \in Sessions, pc[s] = "get", pc'[s] # "connect", pc'[s] # "get"
    PROVE  GetHit(s)
<1> USE StateFacts
<1>1. TypeOK /\ (steady => \A r \in Sessions : now[r] <= clock)
  BY DEF PoolInv
<1>2. ASSUME NEW r \in Sessions, r # s, NEW c \in Connections \cup {None},
             NEW homes \in [Connections -> BOOLEAN], pc[r] # "put", Turn(r, c, homes)
      PROVE  FALSE
  <2>1. \A x \in Sessions \ {r} : pc'[x] = pc[x]
    BY <1>1, <1>2, TurnType
  <2> QED
    BY <1>2, <2>1
<1>3. ASSUME NEW r \in Sessions, r # s, GetHit(r) PROVE FALSE
  <2> DEFINE q == Fresh(connection_pool_, now[r])
             c == q[Len(q)].db_connection
             homes == [home EXCEPT ![c] = TRUE]
  <2>1. c \in Connections /\ Turn(r, c, homes)
    BY <1>3, HitFacts
  <2>2. pc[r] # "put"
    BY <1>3 DEF GetHit
  <2> HIDE DEF c
  <2>3. homes \in [Connections -> BOOLEAN]
    BY <2>1
  <2> QED
    BY <1>2, <1>3, <2>1, <2>2, <2>3
<1>4. ASSUME NEW r \in Sessions, NEW c \in Connections, Connect(r, c) PROVE FALSE
  <2>1. r # s /\ pc[r] # "put" /\ Turn(r, c, [home EXCEPT ![c] = limit_ # 0])
    BY <1>4 DEF Connect
  <2>2. [home EXCEPT ![c] = limit_ # 0] \in [Connections -> BOOLEAN]
    OBVIOUS
  <2> QED
    BY <1>2, <2>1, <2>2
<1>5. ASSUME NEW r \in Sessions, NEW x \in Sessions, Copy(r, x) PROVE FALSE
  <2>1. r # s /\ pc[r] # "put" /\ Turn(r, db_connection_[x], home)
    BY <1>5 DEF Copy
  <2> QED
    BY <1>2, <2>1
<1>6. ASSUME NEW r \in Sessions, Close(r) PROVE FALSE
  <2>1. r # s /\ pc[r] # "put" /\ Turn(r, None, home)
    BY <1>6 DEF Close
  <2> QED
    BY <1>2, <2>1
<1>7. ASSUME NEW r \in Sessions, Open(r) \/ GetMiss(r) \/ Put(r) \/ GC(r) PROVE FALSE
  BY <1>7 DEF Open, GetMiss, Put, GC
<1>8. ASSUME Tick \/ SetBack \/ (\E r \in Sessions : Clear(r) \/ \E value \in BOOLEAN : SetRecyclable(r, value))
      PROVE FALSE
  BY <1>8 DEF Tick, SetBack, Clear, SetRecyclable
<1> QED
  BY <1>3, <1>4, <1>5, <1>6, <1>7, <1>8 DEF Next

\* What get() hands out came back at most life_time_ before the time it read,
\* although the list is scanned by another time and only from its front, if the
\* clock has not been set back.
LEMMA HitIsFresh ==
    ASSUME PoolInv, steady, NEW s \in Sessions, GetHit(s)
    PROVE  connection_pool_[Len(connection_pool_)].pushed + life_time_ >= now[s]
<1> DEFINE list == connection_pool_
           k == StalePrefix(list, now[s])
           n == Len(list)
<1>1. list \in Seq(Entries) /\ n \in Nat /\ Ordered(list, clock)
  BY ListFacts DEF Timely
<1>2. Fresh(list, now[s]) # << >>
  BY DEF GetHit
<1>3. /\ k \in 0 .. n /\ (k < n => ~Stale(list[k + 1], now[s]))
      /\ Fresh(list, now[s]) \in Seq(Entries) /\ Len(Fresh(list, now[s])) = n - k
  BY <1>1, PrefixFacts, FreshFacts DEF Part
<1> HIDE DEF k, list
<1>4. k < n
  <2>1. Len(Fresh(list, now[s])) # 0
    BY <1>2, <1>3
  <2> QED
    BY <1>1, <1>3, <2>1
<1>5. k + 1 \in 1 .. n /\ n \in 1 .. n /\ k + 1 <= n
  BY <1>1, <1>3, <1>4
<1>6. list[k + 1].last_used <= list[k + 1].pushed /\ list[k + 1].pushed <= list[n].pushed
  BY <1>1, <1>5 DEF Ordered
<1>7. list[k + 1] \in Entries /\ list[n] \in Entries
  BY <1>1, <1>5
<1>8. /\ list[k + 1].last_used \in Int /\ list[k + 1].pushed \in Int /\ list[n].pushed \in Int
      /\ now[s] \in Int /\ life_time_ \in Int
  BY <1>7, StateFacts, NumbersAssumption DEF Entries, Times
<1>9. ~(list[k + 1].last_used + life_time_ < now[s])
  BY <1>3, <1>4 DEF Stale
<1>10. list[n].pushed + life_time_ >= now[s]
  BY <1>6, <1>8, <1>9
<1> QED
  BY <1>10 DEF list

\* No session is handed a connection that idled for longer than life_time_, as
\* long as the clock is not set back.
THEOREM PoolHandsOutFresh == Spec => FreshHandout
<1> DEFINE A == \A s \in Sessions : steady /\ pc[s] = "get" /\ pc'[s] # "connect" /\ pc'[s] # "get" =>
                  connection_pool_[Len(connection_pool_)].pushed + life_time_ >= now[s]
<1>1. PoolInv /\ [Next]_vars => [A]_vars
  <2> SUFFICES ASSUME PoolInv, Next, NEW s \in Sessions,
                      steady, pc[s] = "get", pc'[s] # "connect", pc'[s] # "get"
               PROVE  connection_pool_[Len(connection_pool_)].pushed + life_time_ >= now[s]
    OBVIOUS
  <2>1. GetHit(s)
    BY OnlyHit
  <2> QED
    BY <2>1, HitIsFresh
<1> QED
  BY <1>1, PoolInvHolds, PTL DEF Spec, FreshHandout

-----------------------------------------------------------------------------
(* The refinement of ConnectionLease.                                      *)

\* A list holds no more connections than it has entries.
LEMMA MembersBound ==
    ASSUME NEW q \in Seq(Entries)
    PROVE  Cardinality(Members(q)) \in Nat /\ Cardinality(Members(q)) <= Len(q)
<1> DEFINE f == [i \in 1 .. Len(q) |-> q[i].db_connection]
<1>1. Len(q) \in Nat
  OBVIOUS
<1>2. f \in Surjection(1 .. Len(q), Members(q))
  BY DEF Surjection, Members
<1>3. Cardinality(Members(q)) <= Len(q)
  BY <1>1, <1>2, FS_SurjCardinalityBound DEF ExistsSurjection
<1>4. IsFiniteSet(1 .. Len(q))
  <2>1. 1 \in Int /\ Len(q) \in Int
    BY <1>1
  <2> QED
    BY <2>1, FS_Interval, Zenon
<1>5. IsFiniteSet(Members(q))
  BY <1>2, <1>4, FS_Surjection, Zenon
<1> QED
  BY <1>3, <1>5, FS_CardinalityType

\* The instance counts as this module does.
LEMMA SameCardinality ==
    ASSUME NEW S
    PROVE  Lease!Cardinality(S) = Cardinality(S)
BY DEF Cardinality, Lease!Cardinality

\* Turn here is Turn there.
LEMMA TurnLease ==
    ASSUME PoolInv, NEW s \in Sessions, NEW c \in Connections \cup {None},
           NEW homes \in [Connections -> BOOLEAN], pc[s] # "put", Turn(s, c, homes),
           limit_' = limit_
    PROVE  Lease!Turn(s, c)
<1>1. TypeOK
  BY DEF PoolInv
<1>2. Returning' = Returning \/ Returning' = Returning \cup Leaves(s, c)
  BY <1>1, TurnFacts
<1>3. Lease!LeftBy(s, c) = Leaves(s, c)
  BY DEF Lease!LeftBy, Leaves
<1>4. db_connection_' = [db_connection_ EXCEPT ![s] = c]
  BY DEF Turn
<1> QED
  BY <1>2, <1>3, <1>4 DEF Lease!Turn

\* The pool starts as the lease does.
LEMMA InitLease == Init => Lease!Init
<1> SUFFICES ASSUME Init PROVE Lease!Init
  OBVIOUS
<1>1. Idle = {} /\ Returning = {}
  BY DEF Init, Idle, Returning
<1>2. limit_ \in Nat /\ db_connection_ = [s \in Sessions |-> None]
  BY NumbersAssumption DEF Init
<1> QED
  BY <1>1, <1>2 DEF Lease!Init

\* Every step of the pool is a step of the lease or changes nothing there.
LEMMA StepLease == PoolInv /\ [Next]_vars => [Lease!Next]_(Lease!vars)
<1> SUFFICES ASSUME PoolInv, [Next]_vars PROVE [Lease!Next]_(Lease!vars)
  OBVIOUS
<1> USE StateFacts
<1>1. ASSUME NEW s \in Sessions, GetHit(s) PROVE Lease!Next
  <2> DEFINE q == Fresh(connection_pool_, now[s])
             c == q[Len(q)].db_connection
             homes == [home EXCEPT ![c] = TRUE]
  <2>1. /\ Part(connection_pool_', connection_pool_)
        /\ c \in Connections /\ c \in Idle /\ c \notin Idle' /\ Turn(s, c, homes)
    BY <1>1, HitFacts
  <2>2. pc[s] # "put" /\ limit_' = limit_
    BY <1>1 DEF GetHit
  <2>3. Idle' \subseteq Idle
    BY <2>1, PartKeeps
  <2> HIDE DEF c
  <2>4. homes \in [Connections -> BOOLEAN]
    BY <2>1
  <2>5. Lease!Turn(s, c)
    BY <2>1, <2>2, <2>4, TurnLease
  <2>6. c \notin Lease!Held /\ c \notin Returning
    BY <2>1 DEF Held, Lease!Held
  <2>7. Lease!Acquire(s, c)
    BY <2>1, <2>3, <2>5, <2>6 DEF Lease!Acquire
  <2> QED
    BY <2>1, <2>7 DEF Lease!Next
<1>2. ASSUME NEW s \in Sessions, NEW c \in Connections, Connect(s, c) PROVE Lease!Next
  <2> DEFINE homes == [home EXCEPT ![c] = limit_ # 0]
  <2>1. /\ pc[s] # "put" /\ c \notin Idle /\ c \notin Held /\ c \notin Returning
        /\ Turn(s, c, homes) /\ UNCHANGED <<limit_, connection_pool_>>
    BY <1>2 DEF Connect
  <2>2. homes \in [Connections -> BOOLEAN]
    OBVIOUS
  <2>3. Lease!Turn(s, c)
    BY <2>1, <2>2, TurnLease
  <2>4. Idle' = Idle /\ c \notin Lease!Held
    BY <2>1 DEF Idle, Held, Lease!Held
  <2>5. Lease!Acquire(s, c)
    BY <2>1, <2>3, <2>4 DEF Lease!Acquire
  <2> QED
    BY <2>5 DEF Lease!Next
<1>3. ASSUME NEW s \in Sessions, NEW r \in Sessions, Copy(s, r) PROVE Lease!Next
  <2>1. /\ pc[s] # "put" /\ db_connection_[r] # None /\ Turn(s, db_connection_[r], home)
        /\ UNCHANGED <<limit_, connection_pool_>>
    BY <1>3 DEF Copy
  <2>2. Lease!Turn(s, db_connection_[r])
    BY <2>1, TurnLease
  <2>3. Lease!Share(s, r)
    BY <2>1, <2>2 DEF Idle, Lease!Share
  <2> QED
    BY <2>3 DEF Lease!Next
<1>4. ASSUME NEW s \in Sessions, Close(s) PROVE Lease!Next
  <2>1. /\ pc[s] # "put" /\ db_connection_[s] # None /\ Turn(s, None, home)
        /\ UNCHANGED <<limit_, connection_pool_>>
    BY <1>4 DEF Close
  <2>2. Lease!Turn(s, None)
    BY <2>1, TurnLease
  <2>3. Lease!Release(s)
    BY <2>1, <2>2 DEF Idle, Lease!Release
  <2> QED
    BY <2>3 DEF Lease!Next
<1>5. ASSUME NEW s \in Sessions, Put(s) PROVE Lease!Next
  <2>1. /\ connection_pool_' \in Seq(Entries) /\ Len(connection_pool_') <= limit_
        /\ Idle' \subseteq Idle \cup ({self[s]} \ {None})
    BY <1>5, PutFacts
  <2>2. /\ self' = [self EXCEPT ![s] = None] /\ limit_' = limit_
        /\ db_connection_' = db_connection_
    BY <1>5 DEF Put
  <2>3. Returning' = Returning \ {self[s]}
    <3>1. self'[s] = None /\ \A r \in Sessions \ {s} : self'[r] = self[r]
      BY <2>2
    <3>2. \A r \in Sessions \ {s} : self[r] # None => self[r] # self[s]
      BY DEF PoolInv, Exclusive
    <3> QED
      BY <3>1, <3>2 DEF Returning
  <2>4. CASE self[s] = None
    <3>1. Lease!Drop
      BY <2>1, <2>2, <2>3, <2>4 DEF Lease!Drop
    <3> QED
      BY <3>1 DEF Lease!Next
  <2>5. CASE self[s] # None
    <3>1. self[s] \in Returning /\ self[s] \in Connections
      BY <2>5 DEF Returning
    <3>2. Cardinality(Idle') <= limit_
      <4>1. Idle' = Members(connection_pool_')
        BY DEF Idle, Members
      <4>2. Cardinality(Idle') \in Nat /\ Cardinality(Idle') <= Len(connection_pool_')
        BY <2>1, <4>1, MembersBound
      <4>3. Len(connection_pool_') \in Nat /\ limit_ \in Nat
        BY <2>1, ListFacts
      <4> QED
        BY <2>1, <4>2, <4>3
    <3>3. Lease!Deposit(self[s])
      <4>1. Idle' \in SUBSET (Idle \cup {self[s]})
        BY <2>1
      <4>2. UNCHANGED <<db_connection_, limit_>>
        BY <2>2
      <4>3. Lease!Cardinality(Idle') <= limit_
        BY <3>2, SameCardinality
      <4> QED
        BY <2>3, <3>1, <4>1, <4>2, <4>3 DEF Lease!Deposit
    <3> QED
      BY <3>1, <3>3 DEF Lease!Next
  <2> QED
    BY <2>4, <2>5
<1>6. ASSUME NEW s \in Sessions, GetMiss(s) \/ Clear(s) PROVE Lease!Next
  <2>1. connection_pool_' = << >> /\ UNCHANGED <<limit_, db_connection_, self>>
    BY <1>6 DEF GetMiss, Clear
  <2>2. Idle' = {} /\ Returning' = Returning
    BY <2>1 DEF Idle, Returning
  <2>3. Lease!Drop
    BY <2>1, <2>2 DEF Lease!Drop
  <2> QED
    BY <2>3 DEF Lease!Next
<1>7. ASSUME UNCHANGED <<limit_, connection_pool_, db_connection_, self>>
      PROVE  UNCHANGED Lease!vars
  BY <1>7 DEF Lease!vars, Idle, Returning
<1>8. ASSUME \/ UNCHANGED vars \/ Tick \/ SetBack
             \/ \E s \in Sessions : Open(s) \/ GC(s)
                                    \/ \E value \in BOOLEAN : SetRecyclable(s, value)
      PROVE  UNCHANGED <<limit_, connection_pool_, db_connection_, self>>
  BY <1>8 DEF vars, Tick, SetBack, Open, GC, SetRecyclable
<1> QED
  BY <1>1, <1>2, <1>3, <1>4, <1>5, <1>6, <1>7, <1>8 DEF Next

\* The pool, with its list, its clock and its interleaved calls, implements
\* ConnectionLease: a connection handed out is held by nobody else, and no
\* more than limit_ are kept.
THEOREM PoolImplementsLease == Spec => ImplementsLease
<1> QED
  BY InitLease, StepLease, PoolInvHolds, PTL DEF Spec, ImplementsLease, Lease!Spec

=============================================================================
