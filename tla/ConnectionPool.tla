--------------------------- MODULE ConnectionPool ---------------------------
(***************************************************************************)
(* db/common/connection_pool.cc: the idle connections of one connection    *)
(* string, with db/backend/db_connection.cc, whose Dispose brings a        *)
(* connection back when the last Session that refers to it lets go.        *)
(*                                                                         *)
(* lock_ protects the list and size_; a critical section is one step.  The *)
(* clock is read before lock_ is taken, so another thread may get in       *)
(* between with a later time.  Reference counts are not variables: a       *)
(* connection's count is the number of sessions that hold it.              *)
(***************************************************************************)
EXTENDS Integers, Sequences, FiniteSets

CONSTANTS
    Sessions,    \* Session objects; a call runs in the thread that makes it
    Connections, \* DBConnection objects that can exist at the same time
    PoolSizes,   \* the values of @pool_size
    life_time_,  \* @pool_max_idle
    MaxTime,     \* bound on the clock
    None

ASSUME NoneAssumption == None \notin Connections
ASSUME NumbersAssumption == PoolSizes \subseteq Nat /\ life_time_ \in Nat /\ MaxTime \in Nat

VARIABLES
    limit_,
    connection_pool_,  \* entries, the one that came back last at the end
    size_,
    db_connection_,    \* Session::db_connection_
    home,              \* whether DBConnection::connection_pool_ is set
    recyclable_,
    clock,
    steady,            \* history: the computer's clock has not been set back
    pc,
    now,               \* the time a call has read
    self               \* the connection that Dispose hands to Put

vars == <<limit_, connection_pool_, size_, db_connection_, home, recyclable_, clock, steady,
          pc, now, self>>

Times == 0 .. MaxTime

\* pushed is a history variable: the time of push_back itself.
Entries == [db_connection : Connections, last_used : Times, pushed : Times]

\* The pool's, the connections' and the sessions' variables.
TypeOK ==
    /\ limit_ \in PoolSizes
    /\ connection_pool_ \in Seq(Entries)
    /\ size_ \in Nat
    /\ db_connection_ \in [Sessions -> Connections \cup {None}]
    /\ home \in [Connections -> BOOLEAN]
    /\ recyclable_ \in [Connections -> BOOLEAN]
    /\ clock \in Times
    /\ steady \in BOOLEAN
    /\ pc \in [Sessions -> {"idle", "get", "connect", "put"}]
    /\ now \in [Sessions -> Times]
    /\ self \in [Sessions -> Connections \cup {None}]
    /\ \A s \in Sessions : pc[s] # "put" => self[s] = None

Init ==
    /\ limit_ \in PoolSizes
    /\ connection_pool_ = << >>
    /\ size_ = 0
    /\ db_connection_ = [s \in Sessions |-> None]
    /\ home = [c \in Connections |-> FALSE]
    /\ recyclable_ = [c \in Connections |-> FALSE]
    /\ clock = 0
    /\ steady = TRUE
    /\ pc = [s \in Sessions |-> "idle"]
    /\ now = [s \in Sessions |-> 0]
    /\ self = [s \in Sessions |-> None]

Idle == {connection_pool_[i].db_connection : i \in 1 .. Len(connection_pool_)}
Held == {db_connection_[s] : s \in Sessions} \ {None}
Returning == {self[s] : s \in Sessions} \ {None}

-----------------------------------------------------------------------------
(* The list.                                                               *)

Stale(e, time) == e.last_used + life_time_ < time

\* The loop of get() and Put() stops at the first entry that is not stale.
StalePrefix(q, time) ==
    CHOOSE k \in 0 .. Len(q) :
        /\ \A i \in 1 .. k : Stale(q[i], time)
        /\ k < Len(q) => ~Stale(q[k + 1], time)

Fresh(q, time) == SubSeq(q, StalePrefix(q, time) + 1, Len(q))

\* size_ n, decremented for each of k entries that are removed.
SizeWithout(n, k) == n - k

\* Faulty variant: pop_front().
PoppedFront(q) == SubSeq(q, 2, Len(q))

\* pop_back().
PoppedBack(q) == SubSeq(q, 1, Len(q) - 1)

\* Faulty variant: push_front().
PushedFront(q, new) == new \o q

\* push_back() of at most one new entry.
PushedBack(q, new) == q \o new

\* Faulty variant: one too many is kept.
WayOverLimit(n) == n > limit_ + 1

OverLimit(n) == n > limit_

-----------------------------------------------------------------------------
(* Reference counts: what happens to the connection a session turns from.  *)

\* Faulty variant: references of other sessions are not counted.
LeavesAny(s, c) == {db_connection_[s]} \ {None, c}

\* The connection whose last reference is s's, when s turns to c.
Leaves(s, c) ==
    {db_connection_[s]} \ ({None, c} \cup {db_connection_[r] : r \in Sessions \ {s}})

\* Faulty variant: every pooled connection goes back.
RecyclesAny(d) == home[d]

\* Whether Dispose puts d back into the pool instead of deleting it.
Recycles(d) == home[d] /\ recyclable_[d]

\* Session s assigns c to db_connection_, and Dispose runs for what it left:
\* it takes the pool from the connection and calls Put, which reads the clock.
Turn(s, c, homes) ==
    /\ db_connection_' = [db_connection_ EXCEPT ![s] = c]
    /\ home' = [d \in Connections |-> homes[d] /\ d \notin Leaves(s, c)]
    /\ IF \E d \in Leaves(s, c) : Recycles(d)
       THEN /\ pc' = [pc EXCEPT ![s] = "put"]
            /\ self' = [self EXCEPT ![s] = db_connection_[s]]
            /\ now' = [now EXCEPT ![s] = clock]
       ELSE /\ pc' = [pc EXCEPT ![s] = "idle"]
            /\ UNCHANGED <<self, now>>

-----------------------------------------------------------------------------
(* Sessions.                                                               *)

\* Session::Open of a string that has this pool.
Open(s) ==
    /\ pc[s] = "idle"
    /\ pc' = [pc EXCEPT ![s] = IF limit_ = 0 THEN "connect" ELSE "get"]
    /\ now' = [now EXCEPT ![s] = clock]
    /\ UNCHANGED <<limit_, connection_pool_, size_, db_connection_, home, recyclable_,
                   clock, steady, self>>

\* get() finds a connection; Open sets the connection's pool again.
GetHit(s) ==
    LET q == Fresh(connection_pool_, now[s]) IN
    /\ pc[s] = "get"
    /\ q # << >>
    /\ connection_pool_' = PoppedBack(q)
    /\ size_' = SizeWithout(size_, StalePrefix(connection_pool_, now[s]) + 1)
    /\ LET c == q[Len(q)].db_connection IN Turn(s, c, [home EXCEPT ![c] = TRUE])
    /\ UNCHANGED <<limit_, recyclable_, clock, steady>>

GetMiss(s) ==
    /\ pc[s] = "get"
    /\ Fresh(connection_pool_, now[s]) = << >>
    /\ connection_pool_' = << >>
    /\ size_' = SizeWithout(size_, StalePrefix(connection_pool_, now[s]))
    /\ pc' = [pc EXCEPT ![s] = "connect"]
    /\ UNCHANGED <<limit_, db_connection_, home, recyclable_, clock, steady, now, self>>

\* The driver makes a new connection; a direct one has no pool.
Connect(s, c) ==
    /\ pc[s] = "connect"
    /\ c \notin Idle \cup Held \cup Returning
    /\ recyclable_' = [recyclable_ EXCEPT ![c] = FALSE]
    /\ Turn(s, c, [home EXCEPT ![c] = limit_ # 0])
    /\ UNCHANGED <<limit_, connection_pool_, size_, clock, steady>>

\* Assignment from another Session, which then shares its connection.
Copy(s, r) ==
    /\ pc[s] = "idle" /\ pc[r] = "idle" /\ s # r
    /\ db_connection_[r] # None
    /\ Turn(s, db_connection_[r], home)
    /\ UNCHANGED <<limit_, connection_pool_, size_, recyclable_, clock, steady>>

Close(s) ==
    /\ pc[s] = "idle"
    /\ db_connection_[s] # None
    /\ Turn(s, None, home)
    /\ UNCHANGED <<limit_, connection_pool_, size_, recyclable_, clock, steady>>

\* By the user, or with FALSE by DBConnectionThrowGuard after an exception.
SetRecyclable(s, value) ==
    /\ pc[s] = "idle"
    /\ db_connection_[s] # None
    /\ recyclable_' = [recyclable_ EXCEPT ![db_connection_[s]] = value]
    /\ UNCHANGED <<limit_, connection_pool_, size_, db_connection_, home, clock, steady, pc,
                   now, self>>

\* Put under lock_: push, evict, and drop the oldest if there is one too many.
Put(s) ==
    LET pushed == IF self[s] = None THEN << >>
                  ELSE << [db_connection |-> self[s], last_used |-> now[s], pushed |-> clock] >>
        all == PushedBack(connection_pool_, pushed)
        fresh == Fresh(all, now[s])
        n == SizeWithout(size_ + Len(pushed), StalePrefix(all, now[s]))
    IN
    /\ pc[s] = "put"
    /\ connection_pool_' = IF OverLimit(n) THEN SubSeq(fresh, 2, Len(fresh)) ELSE fresh
    /\ size_' = IF OverLimit(n) THEN SizeWithout(n, 1) ELSE n
    /\ self' = [self EXCEPT ![s] = None]
    /\ pc' = [pc EXCEPT ![s] = "idle"]
    /\ UNCHANGED <<limit_, db_connection_, home, recyclable_, clock, steady, now>>

\* Put(nullptr).
GC(s) ==
    /\ pc[s] = "idle"
    /\ limit_ # 0
    /\ pc' = [pc EXCEPT ![s] = "put"]
    /\ now' = [now EXCEPT ![s] = clock]
    /\ UNCHANGED <<limit_, connection_pool_, size_, db_connection_, home, recyclable_,
                   clock, steady, self>>

Clear(s) ==
    /\ pc[s] = "idle"
    /\ connection_pool_' = << >>
    /\ size_' = 0
    /\ UNCHANGED <<limit_, db_connection_, home, recyclable_, clock, steady, pc, now, self>>

\* base::Time::Now advances ...
Tick ==
    /\ clock < MaxTime
    /\ clock' = clock + 1
    /\ UNCHANGED <<limit_, connection_pool_, size_, db_connection_, home, recyclable_, steady, pc,
                   now, self>>

\* ... or is set back by the user (base/time.h:287).
SetBack ==
    /\ clock' \in {time \in Times : time < clock}
    /\ steady' = FALSE
    /\ UNCHANGED <<limit_, connection_pool_, size_, db_connection_, home, recyclable_, pc, now,
                   self>>


Next ==
    \/ \E s \in Sessions :
         \/ Open(s) \/ GetHit(s) \/ GetMiss(s) \/ Close(s) \/ Put(s) \/ GC(s) \/ Clear(s)
         \/ \E c \in Connections : Connect(s, c)
         \/ \E r \in Sessions : Copy(s, r)
         \/ \E value \in BOOLEAN : SetRecyclable(s, value)
    \/ Tick \/ SetBack

Spec == Init /\ [][Next]_vars

-----------------------------------------------------------------------------
(* Properties.                                                             *)

\* size_ is the length of the list, which never exceeds limit_: Put drops at
\* most one entry for the one it adds, and get, Put and Clear all adjust size_.
SizeExact == size_ = Len(connection_pool_) /\ Len(connection_pool_) <= limit_

\* No two entries are of one connection.
Distinct(q) == \A i, j \in 1 .. Len(q) : q[i].db_connection = q[j].db_connection => i = j

\* A connection is at one place: in the list once, or held by sessions, or
\* carried by one call of Put.  So no two sessions that were opened apart
\* ever share a connection, and none is deleted while it is used.
Exclusive ==
    /\ Distinct(connection_pool_)
    /\ \A s, r \in Sessions : self[s] = self[r] /\ self[s] # None => s = r
    /\ Idle \cap Held = {} /\ Idle \cap Returning = {} /\ Held \cap Returning = {}

\* A connection in the list, or on its way there, is recyclable, so one that
\* a failed statement has spoilt never gets there, and does not refer to its
\* pool: pool and connection would otherwise keep each other alive for ever.
IdleAreClean == \A c \in Idle \cup Returning : recyclable_[c] /\ ~home[c]

\* A connection that get() hands out came back no longer than life_time_
\* before the time that get() read.  Its last_used may say otherwise: Put
\* reads the clock before it takes lock_, so that the list need not be in
\* the order of last_used and get() only looks at the age of the front.  If the
\* clock is never set back: after that an entry with a time in the future hides
\* the stale ones behind it.
FreshHandout ==
    [][\A s \in Sessions : steady /\ pc[s] = "get" /\ pc'[s] # "connect" /\ pc'[s] # "get" =>
         connection_pool_[Len(connection_pool_)].pushed + life_time_ >= now[s]]_vars

Lease == INSTANCE ConnectionLease WITH
    limit <- limit_, holds <- db_connection_, returning <- Returning, idle <- Idle

\* Entries came back in the order they are in, after they were last used.
Ordered(q, time) ==
    /\ \A i \in 1 .. Len(q) : q[i].last_used <= q[i].pushed /\ q[i].pushed <= time
    /\ \A i, j \in 1 .. Len(q) : i <= j => q[i].pushed <= q[j].pushed

\* The list is in the order in which connections came back, which is what lets
\* get() and Put() stop at the first entry that is not stale, and no time that
\* was noted lies in the future; last_used itself need not be in order.  As
\* long as the clock is not set back.
InOrder ==
    steady => /\ Ordered(connection_pool_, clock)
              /\ \A s \in Sessions : now[s] <= clock

\* The pool keeps the promise of ConnectionLease through every interleaving of
\* get, Put, Dispose, GC and Clear.
ImplementsLease == Lease!Spec
=============================================================================
