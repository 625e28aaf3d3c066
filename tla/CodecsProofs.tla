---------------------------- MODULE CodecsProofs ----------------------------
(* What the conversions of base/ promise, for every value of the constants    *)
(* and every argument, where Codecs compares them on short words.             *)
EXTENDS Codecs, SequenceTheorems, TLAPS

(* ------------------------------- arithmetic ------------------------------- *)

\* The quotient of a natural number, and what it leaves.
LEMMA DivBounds ==
    ASSUME NEW a \in Nat, NEW b \in Nat \ {0}
    PROVE  (a \div b) \in Nat /\ b * (a \div b) <= a /\ a < b * (a \div b) + b
  BY SMT

\* A product of positive numbers is positive.
LEMMA ProductPositive ==
    ASSUME NEW a \in Nat \ {0}, NEW b \in Nat \ {0}
    PROVE  a * b \in Nat \ {0}
  BY SMT

\* A positive multiple of a number is at least the number.
LEMMA AtLeastOnce ==
    ASSUME NEW b \in Nat \ {0}, NEW x \in Int, x > 0
    PROVE  b * x >= b
  <1>1. x - 1 \in Nat
    OBVIOUS
  <1>2. b * (x - 1) >= 0
    BY <1>1, SMT
  <1>3. b * (x - 1) = b * x - b
    BY SMT
  <1> QED
    BY <1>2, <1>3, SMT

\* There is one way to write a number as a multiple and a remainder below it.
LEMMA OneQuotient ==
    ASSUME NEW b \in Nat \ {0}, NEW n \in Int, NEW p \in Int, NEW q \in Int,
           b * p <= n, n < b * p + b, b * q <= n, n < b * q + b
    PROVE  p = q
  <1>1. ASSUME NEW x \in Int, NEW y \in Int, b * x <= n, n < b * y + b, x > y
        PROVE  FALSE
    <2>1. b * (x - y) >= b
      BY <1>1, AtLeastOnce
    <2>2. b * (x - y) = b * x - b * y
      BY SMT
    <2>3. b * x \in Int /\ b * y \in Int
      OBVIOUS
    <2> QED
      BY <2>1, <2>2, <2>3, <1>1, SMT
  <1>2. ~(p > q)
    BY <1>1
  <1>3. ~(q > p)
    BY <1>1
  <1> QED
    BY <1>2, <1>3

\* C++'s quotient is towards zero: it leaves a remainder of the number's sign.
LEMMA QuotBounds ==
    ASSUME NEW a \in Int, NEW b \in Nat \ {0}
    PROVE  /\ Quot(a, b) \in Int
           /\ a >= 0 => Quot(a, b) >= 0 /\ b * Quot(a, b) <= a /\ a < b * Quot(a, b) + b
           /\ a < 0 => Quot(a, b) <= 0 /\ b * Quot(a, b) >= a /\ a > b * Quot(a, b) - b
           /\ Rem(a, b) \in Int
           /\ a = b * Quot(a, b) + Rem(a, b)
  <1>1. CASE a >= 0
    <2>1. a \in Nat /\ Quot(a, b) = a \div b
      BY <1>1 DEF Quot
    <2> QED
      BY <1>1, <2>1, DivBounds, SMT DEF Rem
  <1>2. CASE a < 0
    <2> DEFINE q == (-a) \div b
    <2>1. -a \in Nat /\ Quot(a, b) = -q
      BY <1>2 DEF Quot
    <2>2. q \in Nat /\ b * q <= -a /\ -a < b * q + b
      BY <2>1, DivBounds
    <2> HIDE DEF q
    <2>3. b * (-q) = -(b * q)
      BY <2>2, SMT
    <2> QED
      BY <1>2, <2>1, <2>2, <2>3, SMT DEF Rem
  <1> QED
    BY <1>1, <1>2

\* A multiple is divided exactly.
LEMMA QuotOfMultiple ==
    ASSUME NEW n \in Int, NEW b \in Nat \ {0}
    PROVE  Quot(n * b, b) = n
  <1>1. n * b \in Int /\ n * b = b * n
    BY SMT
  <1>2. CASE n >= 0
    <2>1. n * b >= 0
      BY <1>2, SMT
    <2>2. /\ Quot(n * b, b) \in Int
          /\ b * Quot(n * b, b) <= n * b /\ n * b < b * Quot(n * b, b) + b
      BY <1>1, <2>1, QuotBounds
    <2> QED
      BY <1>1, <2>2, OneQuotient
  <1>3. CASE n < 0
    <2>1. -n \in Nat /\ (-n) * b = -(n * b) /\ (-n) * b >= b
      BY <1>3, AtLeastOnce, SMT
    <2>2. n * b < 0
      BY <2>1, <1>1, SMT
    <2>3. Quot(n * b, b) = -(((-n) * b) \div b)
      BY <1>1, <2>1, <2>2, SMT DEF Quot
    <2>4. ((-n) * b) \div b = -n
      BY <2>1, OneQuotient, DivBounds, SMT
    <2> QED
      BY <2>3, <2>4, SMT
  <1> QED
    BY <1>2, <1>3

\* Rounding down as Explode does it: the quotient of a number below zero is taken of
\* the number less the divisor but one.
LEMMA RoundsDown ==
    ASSUME NEW a \in Int, NEW b \in Nat \ {0}, NEW n \in Int,
           b * n <= a, a < b * n + b
    PROVE  /\ a >= 0 => Quot(a, b) = n /\ n >= 0
           /\ a < 0 => Quot(a - b + 1, b) = n /\ n < 0
  <1>1. CASE a >= 0
    <2>1. Quot(a, b) = n
      BY <1>1, QuotBounds, OneQuotient
    <2>2. Quot(a, b) >= 0
      BY <1>1, QuotBounds
    <2> QED
      BY <1>1, <2>1, <2>2
  <1>2. CASE a < 0
    <2> DEFINE c == a - b + 1
               q == Quot(c, b)
    <2>1. c \in Int /\ c < 0
      BY <1>2
    <2>2. q \in Int /\ b * q >= c /\ c > b * q - b
      BY <2>1, QuotBounds
    <2>3. b * q \in Int /\ b * q <= a /\ a < b * q + b
      <3> HIDE DEF q
      <3> QED
        BY <2>2, SMT
    <2>4. q = n
      BY <2>2, <2>3, OneQuotient
    <2>5. n < 0
      <3>1. n >= 0 => b * n >= 0
        BY SMT
      <3> QED
        BY <3>1, <1>2
    <2> QED
      BY <1>2, <2>4, <2>5
  <1> QED
    BY <1>1, <1>2

(* --------------------------------- times --------------------------------- *)

\* The units are positive numbers, those made of others too.
LEMMA UnitsPositive ==
    /\ kNanosecondsPerMicrosecond \in Nat \ {0} /\ kMicrosecondsPerMillisecond \in Nat \ {0}
    /\ kMillisecondsPerSecond \in Nat \ {0} /\ kMicrosecondsPerSecond \in Nat \ {0}
    /\ kMicrosecondsPerSecond = kMicrosecondsPerMillisecond * kMillisecondsPerSecond
    /\ kNanosecondsPerSecond \in Nat \ {0}
    /\ kNanosecondsPerSecond = kNanosecondsPerMicrosecond * kMicrosecondsPerSecond
    /\ \A u \in UnitNames : Unit[u] \in Nat \ {0}
    /\ Unit["seconds"] = kMicrosecondsPerSecond
    /\ kTimeTToMicrosecondsOffset \in Nat
  <1>1. kMicrosecondsPerSecond \in Nat \ {0}
    BY TimesAssumption, ProductPositive DEF kMicrosecondsPerSecond
  <1>2. kNanosecondsPerSecond \in Nat \ {0}
    BY <1>1, TimesAssumption, ProductPositive DEF kNanosecondsPerSecond
  <1>3. kMicrosecondsPerMinute \in Nat \ {0}
    BY <1>1, TimesAssumption, ProductPositive DEF kMicrosecondsPerMinute
  <1>4. kMicrosecondsPerHour \in Nat \ {0}
    BY <1>3, TimesAssumption, ProductPositive DEF kMicrosecondsPerHour
  <1>5. kMicrosecondsPerDay \in Nat \ {0}
    BY <1>4, TimesAssumption, ProductPositive DEF kMicrosecondsPerDay
  <1>6. kTimeTToMicrosecondsOffset \in Nat
    BY <1>1, TimesAssumption, SMT DEF kTimeTToMicrosecondsOffset
  <1>7. 1 \in Nat \ {0}
    OBVIOUS
  <1>8. \A u \in UnitNames : Unit[u] \in Nat \ {0}
    BY <1>1, <1>3, <1>4, <1>5, <1>7, TimesAssumption DEF UnitNames, Unit
  <1>9. /\ kMicrosecondsPerSecond = kMicrosecondsPerMillisecond * kMillisecondsPerSecond
        /\ kNanosecondsPerSecond = kNanosecondsPerMicrosecond * kMicrosecondsPerSecond
    BY DEF kMicrosecondsPerSecond, kNanosecondsPerSecond
  <1>10. Unit["seconds"] = kMicrosecondsPerSecond
    BY DEF Unit
  <1> QED
    BY <1>1, <1>2, <1>6, <1>8, <1>9, <1>10, TimesAssumption

\* The seconds of a time that is not the greatest are below those of time_t.
LEMMA BelowTimeTMax ==
    ASSUME NEW us \in Int, us < TimeMax
    PROVE  Quot(us, kMicrosecondsPerSecond) < TimeTMax
  <1> DEFINE b == kMicrosecondsPerSecond
             q == Quot(us, b)
  <1>1. b \in Nat \ {0} /\ TimeMax \in Nat /\ TimeTMax \in Nat /\ TimeMax < TimeTMax * b
    BY UnitsPositive, TimesAssumption
  <1> HIDE DEF b
  <1>2. TimeTMax > 0
    <2>1. TimeTMax = 0 => TimeTMax * b = 0
      BY <1>1, SMT
    <2> QED
      BY <1>1, <2>1
  <1>3. q \in Int /\ (us < 0 => q <= 0) /\ (us >= 0 => b * q <= us)
    BY <1>1, QuotBounds
  <1> HIDE DEF q
  <1>4. CASE us < 0
    BY <1>1, <1>2, <1>3, <1>4 DEF q, b
  <1>5. CASE us >= 0 /\ q >= TimeTMax
    <2>1. q - TimeTMax \in Nat /\ b * (q - TimeTMax) >= 0
      BY <1>1, <1>3, <1>5, SMT
    <2>2. b * (q - TimeTMax) = b * q - TimeTMax * b
      BY <1>1, <1>3, SMT
    <2>3. b * q \in Int /\ TimeTMax * b \in Int
      BY <1>1, <1>3
    <2> QED
      BY <1>1, <1>3, <1>5, <2>1, <2>2, <2>3, SMT
  <1>6. CASE us >= 0 /\ q < TimeTMax
    BY <1>6 DEF q, b
  <1> QED
    BY <1>1, <1>3, <1>4, <1>5, <1>6 DEF q, b

\* A number that the type holds is not changed by it.
LEMMA WrapFits ==
    ASSUME NEW max \in Nat, NEW n \in Int, Holds(max, n)
    PROVE  Wrapped(max, n) = n
  <1> DEFINE x == n + max + 1
             m == 2 * (max + 1)
  <1>1. x \in Nat /\ m \in Nat \ {0} /\ x < m /\ x - (max + 1) = n
    BY SMT DEF Holds
  <1>2. Wrapped(max, n) = (x % m) - (max + 1)
    BY DEF Wrapped
  <1> HIDE DEF x, m
  <1>3. x % m = x
    BY <1>1, SMT
  <1> QED
    BY <1>1, <1>2, <1>3

\* A duration taken apart in seconds and nanoseconds is put together again, and passes
\* the DCHECKs if the part below a second is not negative.
LEMMA TimespecInverts ==
    ASSUME NEW us \in Int, Holds(TimeMax, us)
    PROVE  /\ Microseconds(DeltaToTimespec(us)) = us
           /\ ValidTimespec(DeltaToTimespec(us)) <=> Rem(us, kMicrosecondsPerSecond) >= 0
  <1> DEFINE b == kMicrosecondsPerSecond
             n == kNanosecondsPerMicrosecond
             q == Quot(us, b)
             r == Rem(us, b)
  <1>1. b \in Nat \ {0} /\ n \in Nat \ {0} /\ TimeMax \in Nat /\ kNanosecondsPerSecond = n * b
    BY UnitsPositive, TimesAssumption
  <1>2. /\ q \in Int /\ r \in Int /\ us = b * q + r
        /\ us >= 0 => b * q <= us /\ us < b * q + b
        /\ us < 0 => b * q >= us /\ us > b * q - b
    BY <1>1, QuotBounds
  <1>3. Quot(r * n, n) = r
    BY <1>1, <1>2, QuotOfMultiple
  <1>4. Microseconds(DeltaToTimespec(us)) = Wrapped(TimeMax, q * b + Quot(r * n, n))
    BY DEF Microseconds, DeltaToTimespec
  <1>5. ValidTimespec(DeltaToTimespec(us)) <=> r * n \in 0..kNanosecondsPerSecond - 1
    BY DEF ValidTimespec, DeltaToTimespec
  <1> HIDE DEF b, n, q, r
  <1>6. q * b = b * q /\ b * q \in Int
    BY <1>1, <1>2, SMT
  <1>7. Microseconds(DeltaToTimespec(us)) = us
    <2>1. q * b + r = us
      BY <1>2, <1>6
    <2> QED
      BY <1>1, <1>3, <1>4, <2>1, WrapFits
  <1>8. r < b
    BY <1>1, <1>2, <1>6, SMT
  <1>9. CASE r >= 0
    <2>1. n * (b - r) >= n
      BY <1>1, <1>2, <1>8, AtLeastOnce
    <2>2. n * (b - r) = n * b - r * n /\ r * n \in Nat
      BY <1>1, <1>2, <1>9, SMT
    <2>3. n * b \in Nat
      BY <1>1, SMT
    <2>4. r * n \in 0..kNanosecondsPerSecond - 1
      BY <1>1, <2>1, <2>2, <2>3, SMT
    <2> QED
      BY <1>5, <1>7, <1>9, <2>4 DEF r, b
  <1>10. CASE r < 0
    <2>1. n * (-r) >= n
      BY <1>1, <1>2, <1>10, AtLeastOnce
    <2>2. n * (-r) = -(r * n) /\ r * n \in Int
      BY <1>1, <1>2, SMT
    <2>3. ~(r * n \in 0..kNanosecondsPerSecond - 1)
      BY <1>1, <2>1, <2>2, SMT
    <2>4. ~(r >= 0)
      BY <1>2, <1>10
    <2> QED
      BY <1>5, <1>7, <2>3, <2>4 DEF r, b
  <1> QED
    BY <1>2, <1>9, <1>10

\* The remainder of a time that is not zero, or its quotient, is not zero.
LEMMA NotZero ==
    ASSUME NEW us \in Int, us # 0, NEW b \in Nat \ {0}, Quot(us, b) = 0
    PROVE  Rem(us, b) # 0
  <1>1. us = b * Quot(us, b) + Rem(us, b) /\ Rem(us, b) \in Int
    BY QuotBounds
  <1>2. b * 0 = 0
    BY SMT
  <1> QED
    BY <1>1, <1>2, SMT

\* struct timespec and struct timeval keep every time below the greatest: zero and the
\* greatest value, which stand for themselves, are met by no other time.  The way back ends
\* in a DCHECK exactly for the times before 1970 with a fraction of a second.  Nanoseconds
\* keep the times whose nanoseconds int64_t holds.
THEOREM StructuresKeepTime ==
    ASSUME NEW us \in Int, Holds(TimeMax, us), us < TimeMax
    PROVE  StructuresInvert(us)
  <1> DEFINE b == kMicrosecondsPerSecond
             n == kNanosecondsPerMicrosecond
             q == Quot(us, b)
             r == Rem(us, b)
  <1>1. /\ b \in Nat \ {0} /\ n \in Nat \ {0} /\ TimeMax \in Nat /\ TimeTMax \in Nat
        /\ kNanosecondsPerSecond = n * b
    BY UnitsPositive, TimesAssumption
  <1>2. q \in Int /\ r \in Int /\ us = b * q + r /\ q # TimeTMax
    <2>1. q < TimeTMax
      BY BelowTimeTMax
    <2>2. q \in Int /\ r \in Int /\ us = b * q + r
      BY <1>1, QuotBounds
    <2> QED
      BY <1>1, <2>1, <2>2
  <1>3. us # 0 => q # 0 \/ (r # 0 /\ r * n # 0)
    <2>1. us # 0 /\ q = 0 => r # 0
      BY <1>1, NotZero
    <2> HIDE DEF r, n
    <2>2. r # 0 => r * n # 0
      BY <1>1, <1>2, SMT
    <2> QED
      BY <2>1, <2>2
  <1>4. TimeTMax # 0
    <2> HIDE DEF b
    <2>1. TimeMax < TimeTMax * b
      BY TimesAssumption DEF b
    <2>2. 0 * b = 0
      BY <1>1, SMT
    <2> QED
      BY <1>1, <2>1, <2>2
  <1>5. TimeFromTimespec(TimeToTimespec(us)) = [ok |-> r >= 0, us |-> us]
    <2>1. CASE us = 0
      <3>1. TimeToTimespec(us) = [sec |-> 0, nsec |-> 0]
        BY <1>1, <2>1 DEF TimeToTimespec, IsNull, IsMax
      <3>2. [sec |-> 0, nsec |-> 0] # [sec |-> TimeTMax, nsec |-> kNanosecondsPerSecond - 1]
        BY <1>4
      <3>3. TimeFromTimespec(TimeToTimespec(us)).us = 0
        BY <3>1, <3>2 DEF TimeFromTimespec
      <3>4. ValidTimespec([sec |-> 0, nsec |-> 0])
        BY <1>1, UnitsPositive DEF ValidTimespec
      <3>5. q = 0 /\ r = 0
        <4> HIDE DEF b
        <4>0. us >= 0
          BY <2>1
        <4>5. b * q <= us /\ us < b * q + b
          BY <1>1, <4>0, QuotBounds
        <4> HIDE DEF q, r
        <4>1. /\ q \in Int /\ r \in Int /\ b * q <= 0 /\ 0 < b * q + b /\ 0 = b * q + r
          BY <1>2, <2>1, <4>5
        <4>2. b * 0 = 0
          BY <1>1, SMT
        <4>3. q = 0
          BY <1>1, <4>1, <4>2, OneQuotient
        <4> QED
          BY <4>1, <4>2, <4>3
      <3>6. r >= 0
        BY <3>5
      <3> HIDE DEF r
      <3>7. ValidTimespec([sec |-> 0, nsec |-> 0]) = (r >= 0)
        BY <3>4, <3>6 DEF ValidTimespec
      <3>8. TimeFromTimespec([sec |-> 0, nsec |-> 0]) = [ok |-> ValidTimespec([sec |-> 0, nsec |-> 0]), us |-> 0]
        BY <3>2 DEF TimeFromTimespec
      <3> QED
        BY <2>1, <3>1, <3>7, <3>8
    <2>2. CASE us # 0
      <3>1. TimeToTimespec(us) = DeltaToTimespec(us)
        BY <1>1, <2>2 DEF TimeToTimespec, IsNull, IsMax
      <3>2. DeltaToTimespec(us) = [sec |-> q, nsec |-> r * n]
        BY DEF DeltaToTimespec
      <3> HIDE DEF q, r, n, b
      <3>3. /\ DeltaToTimespec(us) # [sec |-> 0, nsec |-> 0]
            /\ DeltaToTimespec(us) # [sec |-> TimeTMax, nsec |-> kNanosecondsPerSecond - 1]
        BY <1>2, <1>3, <2>2, <3>2
      <3>4. ValidTimespec(DeltaToTimespec(us)) <=> r >= 0
        BY TimespecInverts DEF r, b
      <3>5. ValidTimespec(DeltaToTimespec(us)) = (r >= 0)
        BY <3>4 DEF ValidTimespec
      <3>6. TimeFromTimespec(DeltaToTimespec(us)) =
              [ok |-> ValidTimespec(DeltaToTimespec(us)), us |-> Microseconds(DeltaToTimespec(us))]
        BY <3>3 DEF TimeFromTimespec
      <3> QED
        BY <3>1, <3>5, <3>6, TimespecInverts
    <2> QED
      BY <2>1, <2>2
  <1>6. FromTimeval(ToTimeval(us)) = [ok |-> r >= 0, us |-> us]
    <2>1. CASE us = 0
      <3>1. ToTimeval(us) = [sec |-> 0, usec |-> 0]
        BY <1>1, <2>1 DEF ToTimeval, IsNull, IsMax
      <3>2. [sec |-> 0, usec |-> 0] # [sec |-> TimeTMax, usec |-> kMicrosecondsPerSecond - 1]
        BY <1>4
      <3>3. ValidTimeval([sec |-> 0, usec |-> 0])
        BY <1>1, UnitsPositive DEF ValidTimeval
      <3>4. r >= 0
        <4> HIDE DEF b
        <4>0. us >= 0
          BY <2>1
        <4>2. b * q <= us
          BY <1>1, <4>0, QuotBounds
        <4> HIDE DEF q, r
        <4>1. /\ q \in Int /\ r \in Int /\ b * q <= 0 /\ 0 = b * q + r
          BY <1>2, <2>1, <4>2
        <4> QED
          BY <1>1, <4>1, SMT
      <3> HIDE DEF r
      <3>5. ValidTimeval([sec |-> 0, usec |-> 0]) = (r >= 0)
        BY <3>3, <3>4 DEF ValidTimeval
      <3>6. FromTimeval([sec |-> 0, usec |-> 0]) = [ok |-> ValidTimeval([sec |-> 0, usec |-> 0]), us |-> 0]
        BY <3>2 DEF FromTimeval
      <3> QED
        BY <2>1, <3>1, <3>5, <3>6
    <2>2. CASE us # 0
      <3>1. ToTimeval(us) = [sec |-> q, usec |-> r]
        BY <1>1, <2>2 DEF ToTimeval, IsNull, IsMax
      <3> HIDE DEF q, r, n
      <3>2. /\ ToTimeval(us) # [sec |-> 0, usec |-> 0]
            /\ ToTimeval(us) # [sec |-> TimeTMax, usec |-> kMicrosecondsPerSecond - 1]
        BY <1>2, <1>3, <2>2, <3>1
      <3>3. FromTimeval(ToTimeval(us)) =
              [ok |-> ValidTimeval([sec |-> q, usec |-> r]), us |-> Wrapped(TimeMax, q * b + r)]
        BY <3>1, <3>2 DEF FromTimeval
      <3> HIDE DEF b
      <3>4. q * b = b * q /\ q * b + r = us
        BY <1>1, <1>2, SMT
      <3>5. Wrapped(TimeMax, q * b + r) = us
        BY <1>1, <3>4, WrapFits
      <3>6. r < b
        <4>1. us >= 0 => us < b * q + b
          BY <1>1, QuotBounds DEF q
        <4>2. us < 0 => b * q >= us
          BY <1>1, QuotBounds DEF q
        <4>3. b * q \in Int
          BY <1>1, <1>2, SMT
        <4> QED
          BY <1>1, <1>2, <4>1, <4>2, <4>3, SMT
      <3>7. ValidTimeval([sec |-> q, usec |-> r]) = (r >= 0)
        BY <1>1, <1>2, <3>6 DEF ValidTimeval, b
      <3> QED
        BY <3>3, <3>5, <3>7
    <2> QED
      BY <2>1, <2>2
  <1>7. ASSUME Holds(TimeMax, us * n)
        PROVE  FromNanoseconds(InNanoseconds(us)) = us
    <2>1. us * n \in Int
      BY <1>1, SMT
    <2>2. Wrapped(TimeMax, us * n) = us * n
      BY <1>1, <1>7, <2>1, WrapFits
    <2> QED
      BY <1>1, <2>2, QuotOfMultiple DEF FromNanoseconds, InNanoseconds
  <1>8. ASSUME us > 0
        PROVE  TicksNow(TimeToTimespec(us)) > us
    <2>1. TimeToTimespec(us) = DeltaToTimespec(us)
      BY <1>1, <1>8 DEF TimeToTimespec, IsNull, IsMax
    <2> QED
      BY <2>1, TimespecInverts DEF TicksNow
  <1>9. DeltaFromTimespec(DeltaToTimespec(us)).us = us
        /\ (DeltaFromTimespec(DeltaToTimespec(us)).ok <=> r >= 0)
    BY TimespecInverts DEF DeltaFromTimespec, r, b
  <1>10. /\ TimeFromTimespec(TimeToTimespec(us)).us = us /\ (TimeFromTimespec(TimeToTimespec(us)).ok <=> r >= 0)
         /\ FromTimeval(ToTimeval(us)).us = us /\ (FromTimeval(ToTimeval(us)).ok <=> r >= 0)
    <2> DEFINE rec == [ok |-> r >= 0, us |-> us]
    <2>1. rec.us = us /\ (rec.ok <=> r >= 0)
      BY Zenon
    <2>2. TimeFromTimespec(TimeToTimespec(us)) = rec /\ FromTimeval(ToTimeval(us)) = rec
      BY <1>5, <1>6
    <2> HIDE DEF r, rec
    <2> QED
      BY <2>1, <2>2
  <1>11. \A back \in {TimeFromTimespec(TimeToTimespec(us)), FromTimeval(ToTimeval(us)),
                     DeltaFromTimespec(DeltaToTimespec(us))} :
           back.us = us /\ (back.ok <=> r >= 0)
    <2> HIDE DEF r
    <2> QED
      BY <1>9, <1>10
  <1> QED
    BY <1>7, <1>8, <1>11 DEF StructuresInvert

\* Days down to milliseconds cut off less than one unit, towards zero, if the type of the
\* result, which is int for days, hours and minutes, holds them; time_t loses less than a
\* second.
THEOREM UnitsLoseLess ==
    ASSUME NEW us \in Int, Holds(TimeMax, us), us < TimeMax - kTimeTToMicrosecondsOffset
    PROVE  UnitsTruncate(us)
  <1>1. ASSUME NEW u \in UnitNames, Holds(Result(u), Quot(us, Unit[u]))
        PROVE  us - DeltaFrom(u, DeltaIn(u, us)) \in
                 (IF us >= 0 THEN 0 ELSE 1 - Unit[u])..(IF us >= 0 THEN Unit[u] - 1 ELSE 0)
    <2> DEFINE b == Unit[u]
               q == Quot(us, b)
    <2>1. b \in Nat \ {0}
      BY UnitsPositive
    <2>2. /\ q \in Int
          /\ us >= 0 => b * q <= us /\ us < b * q + b
          /\ us < 0 => b * q >= us /\ us > b * q - b
      BY <2>1, QuotBounds
    <2>3. DeltaIn(u, us) = q
      <3>1. Result(u) \in Nat
        BY TimesAssumption DEF Result
      <3> QED
        BY <1>1, <2>2, <3>1, WrapFits DEF DeltaIn
    <2>6. DeltaFrom(u, DeltaIn(u, us)) = Wrapped(TimeMax, q * b)
      BY <2>3 DEF DeltaFrom
    <2> HIDE DEF q, b
    <2>4. q * b = b * q /\ b * q \in Int
      BY <2>1, <2>2, SMT
    <2>7. TimeMax \in Nat
      BY TimesAssumption
    <2>8. Holds(TimeMax, q * b)
      <3>1. q >= 0 => q * b >= 0
        BY <2>1, <2>2, SMT
      <3>2. us >= 0 => q >= 0
        BY <2>1, QuotBounds DEF q
      <3>3. us < 0 => q <= 0
        BY <2>1, QuotBounds DEF q
      <3>4. q <= 0 => q * b <= 0
        <4>1. q <= 0 => (-q) * b >= 0
          BY <2>1, <2>2, SMT
        <4>2. (-q) * b = -(q * b)
          BY <2>1, <2>2, SMT
        <4> QED
          BY <4>1, <4>2, <2>4
      <3>5. us \in (-TimeMax - 1)..TimeMax
        BY DEF Holds
      <3> QED
        BY <2>2, <2>4, <2>7, <3>1, <3>2, <3>3, <3>4, <3>5, SMT DEF Holds
    <2>9. DeltaFrom(u, DeltaIn(u, us)) = q * b
      BY <2>4, <2>6, <2>7, <2>8, WrapFits
    <2>5. us - b * q \in (IF us >= 0 THEN 0 ELSE 1 - b)..(IF us >= 0 THEN b - 1 ELSE 0)
      BY <2>1, <2>2, <2>4, SMT
    <2> QED
      BY <2>4, <2>5, <2>9 DEF b
  <1>2. ASSUME us >= kTimeTToMicrosecondsOffset + kMicrosecondsPerSecond
        PROVE  us - FromTimeT(ToTimeT(us)) \in 0..kMicrosecondsPerSecond - 1
    <2> DEFINE b == kMicrosecondsPerSecond
               o == kTimeTToMicrosecondsOffset
               q == Quot(us - o, b)
    <2>1. b \in Nat \ {0} /\ o \in Nat /\ Unit["seconds"] = b /\ TimeMax \in Nat
      BY UnitsPositive, TimesAssumption
    <2>2. us - o \in Int /\ us - o >= b /\ us - o >= 0 /\ us - o < TimeMax /\ us # 0 /\ us < TimeMax
      BY <1>2, <2>1
    <2>3. q \in Int /\ b * q <= us - o /\ us - o < b * q + b /\ q >= 0
      BY <2>1, <2>2, QuotBounds
    <2>4. q < TimeTMax
      BY <2>2, BelowTimeTMax
    <2>5. q # 0
      <3> HIDE DEF q, b, o
      <3>1. b * 0 = 0
        BY <2>1, SMT
      <3> QED
        BY <2>1, <2>2, <2>3, <3>1
    <2>6. ToTimeT(us) = q
      <3>1. ~(TimeMax - o <= us)
        BY <2>1, <2>2
      <3>2. Holds(TimeMax, us - o)
        BY <2>1, <2>2 DEF Holds
      <3>3. Wrapped(TimeMax, us - o) = us - o
        BY <2>1, <2>2, <3>2, WrapFits
      <3> QED
        BY <2>1, <2>2, <3>1, <3>3 DEF ToTimeT, IsNull, IsMax
    <2>8. q * b = b * q /\ b * q \in Int /\ q * b >= 0
      <3> HIDE DEF q, b, o
      <3> QED
        BY <2>1, <2>3, SMT
    <2>7. FromTimeT(q) = o + q * b
      <3>1. q # TimeTMax
        BY <2>3, <2>4, TimesAssumption
      <3>2. FromTimeT(q) = Wrapped(TimeMax, o + Wrapped(TimeMax, q * b))
        BY <2>1, <2>5, <3>1 DEF FromTimeT, DeltaFrom
      <3> HIDE DEF q, b, o
      <3>3. Holds(TimeMax, q * b) /\ Holds(TimeMax, o + q * b)
        BY <2>1, <2>2, <2>3, <2>8, SMT DEF Holds
      <3>4. Wrapped(TimeMax, q * b) = q * b
        BY <2>1, <2>8, <3>3, WrapFits
      <3> QED
        BY <2>1, <2>8, <3>2, <3>3, <3>4, WrapFits
    <2> HIDE DEF q, b, o
    <2>9. us - (o + b * q) \in 0..b - 1
      BY <2>1, <2>2, <2>3, <2>8, SMT
    <2> QED
      BY <2>6, <2>7, <2>8, <2>9 DEF b
  <1> QED
    BY <1>1, <1>2 DEF UnitsTruncate

\* What Explode finds: the milliseconds m and the seconds s of a time, both rounded down
\* whether it is before or after 1970.
LEMMA ExplodeFields ==
    ASSUME NEW us \in Int, NEW m \in Int, NEW s \in Int,
           kMicrosecondsPerMillisecond * m <= us - kTimeTToMicrosecondsOffset,
           us - kTimeTToMicrosecondsOffset < kMicrosecondsPerMillisecond * m + kMicrosecondsPerMillisecond,
           kMillisecondsPerSecond * s <= m, m < kMillisecondsPerSecond * s + kMillisecondsPerSecond
    PROVE  Explode(us) = [civil |-> CivilOf(s), millisecond |-> m - kMillisecondsPerSecond * s]
  <1> DEFINE a == kMicrosecondsPerMillisecond
             b == kMillisecondsPerSecond
             micro == us - kTimeTToMicrosecondsOffset
             milli == IF micro >= 0 THEN Quot(micro, a) ELSE Quot(micro - a + 1, a)
             second == IF micro >= 0 THEN Quot(milli, b) ELSE Quot(milli - b + 1, b)
             rest == Rem(milli, b)
  <1>1. a \in Nat \ {0} /\ b \in Nat \ {0} /\ micro \in Int
    BY UnitsPositive
  <1>2. /\ micro >= 0 => Quot(micro, a) = m /\ m >= 0
        /\ micro < 0 => Quot(micro - a + 1, a) = m /\ m < 0
    BY <1>1, RoundsDown
  <1>3. milli = m
    BY <1>1, <1>2
  <1>4. /\ m >= 0 => Quot(m, b) = s
        /\ m < 0 => Quot(m - b + 1, b) = s
    BY <1>1, RoundsDown
  <1>5. second = s
    <2> HIDE DEF milli, micro, a, b
    <2> QED
      BY <1>1, <1>2, <1>3, <1>4
  <1>6. (IF rest < 0 THEN rest + b ELSE rest) = m - b * s
    <2> DEFINE q == Quot(m, b)
    <2>1. /\ q \in Int /\ rest \in Int /\ rest = m - b * q
          /\ m >= 0 => b * q <= m /\ m < b * q + b
          /\ m < 0 => b * q >= m /\ m > b * q - b
      BY <1>1, <1>3, QuotBounds DEF Rem
    <2> HIDE DEF q, rest, milli, micro, a, b
    <2>2. b * q \in Int /\ b * (q - 1) = b * q - b /\ b * s \in Int
      BY <1>1, <2>1, SMT
    <2>3. CASE rest >= 0
      <3>1. b * q <= m /\ m < b * q + b
        BY <1>1, <2>1, <2>2, <2>3
      <3>2. q = s
        BY <1>1, <2>1, <3>1, OneQuotient DEF b
      <3> QED
        BY <2>1, <2>3, <3>2
    <2>4. CASE rest < 0
      <3>1. b * (q - 1) <= m /\ m < b * (q - 1) + b
        BY <1>1, <2>1, <2>2, <2>4
      <3>2. q - 1 = s
        BY <1>1, <2>1, <3>1, OneQuotient DEF b
      <3> QED
        BY <1>1, <2>1, <2>2, <2>4, <3>2
    <2> QED
      BY <2>1, <2>3, <2>4
  <1>7. Explode(us) = [civil |-> CivilOf(second), millisecond |-> IF rest < 0 THEN rest + b ELSE rest]
    BY DEF Explode
  <1> HIDE DEF second, rest, milli, micro
  <1> QED
    BY <1>5, <1>6, <1>7

\* Every number has a quotient that rounds down.
LEMMA SomeQuotient ==
    ASSUME NEW a \in Int, NEW b \in Nat \ {0}
    PROVE  \E q \in Int : b * q <= a /\ a < b * q + b
  <1>1. CASE a >= 0
    BY <1>1, QuotBounds
  <1>2. CASE a < 0
    <2> DEFINE c == a - b + 1
               q == Quot(c, b)
    <2>1. c \in Int /\ c < 0
      BY <1>2
    <2>2. q \in Int /\ b * q >= c /\ c > b * q - b
      BY <2>1, QuotBounds
    <2> HIDE DEF q
    <2>3. b * q \in Int /\ b * q <= a /\ a < b * q + b
      BY <2>2, SMT
    <2> QED
      BY <2>2, <2>3
  <1> QED
    BY <1>1, <1>2

\* mktime finds the second whose wall clock reading this is, unless the hour comes twice.
LEMMA MktimeInverts ==
    ASSUME NEW s \in Int, CivilOf(s) \notin DstEnds..DstEnds + DstShift - 1
    PROVE  mktime(CivilOf(s), -1) = s
  <1>1. DstShift \in Nat /\ DstBegins \in Nat /\ DstEnds \in Nat
    BY TimesAssumption
  <1>2. CASE InDst(s)
    <2>1. CivilOf(s) = s + DstShift /\ (s + DstShift) - DstShift = s
      BY <1>1, <1>2 DEF CivilOf
    <2>2. InDst(s + DstShift)
      BY <1>1, <1>2, <2>1 DEF InDst
    <2>3. mktime(s + DstShift, -1) = s
      BY <1>2, <2>1, <2>2 DEF mktime
    <2> QED
      BY <2>1, <2>3
  <1>3. CASE ~InDst(s)
    BY <1>3 DEF CivilOf, mktime
  <1> QED
    BY <1>2, <1>3

\* FromExploded undoes Explode: the fields of every time whose reading is not ambiguous
\* are accepted, and give the time back to the millisecond, before 1970 too.
THEOREM CalendarKeepsTime ==
    ASSUME NEW us \in Int
    PROVE  CalendarInverts(us)
  <1> DEFINE a == kMicrosecondsPerMillisecond
             b == kMillisecondsPerSecond
             o == kTimeTToMicrosecondsOffset
  <1>1. a \in Nat \ {0} /\ b \in Nat \ {0} /\ o \in Nat /\ us - o \in Int
    BY UnitsPositive
  <1>2. PICK m \in Int : a * m <= us - o /\ us - o < a * m + a
    BY <1>1, SomeQuotient
  <1>3. PICK s \in Int : b * s <= m /\ m < b * s + b
    BY <1>1, SomeQuotient
  <1> DEFINE e == [civil |-> CivilOf(s), millisecond |-> m - b * s]
             t == m * a + o
  <1>4. Explode(us) = e
    BY <1>2, <1>3, ExplodeFields
  <1>5. t \in Int /\ t - o = a * m /\ a * m \in Int
    <2> HIDE DEF a, o
    <2> QED
      BY <1>1, <1>2, SMT
  <1>6. Explode(t) = e
    <2>1. a * m <= t - o /\ t - o < a * m + a
      BY <1>1, <1>5, SMT
    <2> QED
      BY <1>5, <1>3, <2>1, ExplodeFields
  <1>7. us - t \in 0..a - 1
    <2> HIDE DEF t, a, o
    <2> QED
      BY <1>1, <1>2, <1>5, SMT
  <1>8. ASSUME ~Ambiguous(us)
        PROVE  FromExploded(e) = [ok |-> TRUE, time |-> t]
    <2>1. e.civil = CivilOf(s) /\ e.millisecond = m - b * s
      OBVIOUS
    <2>2. CivilOf(s) # -1 /\ CivilOf(s) \notin DstEnds..DstEnds + DstShift - 1
      BY <1>4, <1>8, <2>1 DEF Ambiguous
    <2>3. mktime(CivilOf(s), -1) = s
      BY <2>2, MktimeInverts
    <2>4. s # -1
      BY <2>2, TimesAssumption DEF CivilOf, InDst
    <2>5. s * b + (m - b * s) = m
      <3> HIDE DEF b
      <3>1. s * b = b * s /\ b * s \in Int
        BY <1>1, SMT
      <3> QED
        BY <3>1
    <2> DEFINE isdst0 == mktime(CivilOf(s), 0)
               isdst1 == mktime(CivilOf(s), 1)
               first == mktime(CivilOf(s), -1)
               seconds == CASE first # -1 -> first
                            [] first = -1 /\ isdst0 < 0 -> isdst1
                            [] first = -1 /\ isdst0 >= 0 /\ isdst1 < 0 -> isdst0
                            [] OTHER -> IF isdst0 < isdst1 THEN isdst0 ELSE isdst1
               milli == CASE seconds = -1 /\ YearBefore1969(CivilOf(s)) -> MinSeconds * b
                          [] seconds = -1 /\ YearAfter1970(CivilOf(s)) -> MaxSeconds * b + b - 1
                          [] OTHER -> seconds * b + (m - b * s)
               time == milli * a + o
    <2>6. FromExploded(e) = IF Explode(time) = e THEN [ok |-> TRUE, time |-> time] ELSE [ok |-> FALSE, time |-> 0]
      BY <2>1 DEF FromExploded
    <2>7. seconds = s
      <3> HIDE DEF isdst0, isdst1
      <3> QED
        BY <2>3, <2>4
    <2> HIDE DEF seconds
    <2>8. milli = m
      BY <2>4, <2>5, <2>7
    <2> HIDE DEF milli
    <2>9. time = t
      BY <2>8
    <2> HIDE DEF e, time
    <2> QED
      BY <1>6, <2>6, <2>9
  <1> HIDE DEF e
  <1>9. ASSUME ~Ambiguous(us)
        PROVE  /\ FromExploded(Explode(us)).ok
               /\ us - FromExploded(Explode(us)).time \in 0..kMicrosecondsPerMillisecond - 1
    BY <1>4, <1>7, <1>8, <1>9
  <1> QED
    BY <1>9 DEF CalendarInverts

\* A word about times is made of digits to base 7.
WordOfDigits ==
    /\ subject \in DOMAIN Alphabet
    /\ subject = "time" => word \in Seq(0..6)

\* The instants of the words lie between the bounds the constants leave.
LEMMA InstantBounds ==
    ASSUME word \in Seq(0..6)
    PROVE  /\ Instant \in Int /\ Instant < TimeMax - kTimeTToMicrosecondsOffset
           /\ Holds(TimeMax, Instant)
  <1>1. \A i \in {1, 2, 3, 4} : Digit(i) \in 0..6
    BY SMT DEF Digit
  <1> DEFINE n1 == Digit(1)  n2 == Digit(2)  n3 == Digit(3)  n4 == Digit(4)
  <1>2. n1 \in 0..6 /\ n2 \in 0..6 /\ n3 \in 0..6 /\ n4 \in 0..6
    BY <1>1
  <1>3. Instant = 343 * n1 + 49 * n2 + 7 * n3 + n4 - 600
    BY DEF Instant
  <1> HIDE DEF n1, n2, n3, n4
  <1>4. Instant \in Int /\ Instant <= 1800 /\ Instant >= -600
    BY <1>2, <1>3, SMT
  <1>5. 1800 < TimeMax - kTimeTToMicrosecondsOffset
    BY WordsAssumption
  <1>6. TimeMax \in Int /\ kTimeTToMicrosecondsOffset \in Nat
    BY UnitsPositive, TimesAssumption
  <1> HIDE DEF Instant
  <1> QED
    BY <1>4, <1>5, <1>6, SMT DEF Holds

\* base/time: on every word, whatever the units, the epoch, the range of int64_t and the
\* days on which the clock is changed, the conversions give back what they were given, or
\* fail a DCHECK on a negative part of a structure.
THEOREM TimesAlwaysRoundTrip == Spec => []TimesRoundTrip
  <1>1. Init => WordOfDigits
    BY DEF Init, WordOfDigits
  <1>2. WordOfDigits /\ [Next]_vars => WordOfDigits'
    <2> SUFFICES ASSUME WordOfDigits, [Next]_vars PROVE WordOfDigits'
      OBVIOUS
    <2>1. ASSUME NEW c \in Alphabet[subject], Extend(c) PROVE WordOfDigits'
      <3>1. subject' = subject /\ word' = Append(word, c)
        BY <2>1 DEF Extend
      <3>2. subject = "time" => c \in 0..6
        BY <2>1, WordsAssumption DEF WordOfDigits
      <3> QED
        BY <3>1, <3>2 DEF WordOfDigits
    <2>2. CASE UNCHANGED vars
      BY <2>2 DEF WordOfDigits, vars
    <2> QED
      BY <2>1, <2>2 DEF Next
  <1>3. WordOfDigits => TimesRoundTrip
    <2> SUFFICES ASSUME WordOfDigits, subject = "time"
                 PROVE  StructuresInvert(Instant) /\ UnitsTruncate(Instant) /\ CalendarInverts(Instant)
      BY DEF TimesRoundTrip
    <2>1. Instant \in Int /\ Instant < TimeMax - kTimeTToMicrosecondsOffset /\ Holds(TimeMax, Instant)
      BY InstantBounds DEF WordOfDigits
    <2>2. Instant < TimeMax
      <3> HIDE DEF Instant
      <3> QED
        BY <2>1, UnitsPositive, TimesAssumption
    <2> QED
      BY <2>1, <2>2, StructuresKeepTime, UnitsLoseLess, CalendarKeepsTime
  <1> QED
    BY <1>1, <1>2, <1>3, PTL DEF Spec

(* --------------------------------- UTF-8 --------------------------------- *)

\* The powers of two that the shifts divide by.
LEMMA Shifts == 2 ^ 0 = 1 /\ 2 ^ 6 = 64 /\ 2 ^ 12 = 4096
  BY SMT

\* A trailing byte holds six bits, and the decoder knows it as one.
LEMMA TrailBits ==
    ASSUME NEW n \in Nat
    PROVE  /\ 128 + (n % 64) \in 128..191
           /\ (128 + (n % 64)) \div 64 = 2
           /\ (128 + (n % 64)) % 64 = n % 64
           /\ n = 64 * (n \div 64) + (n % 64)
           /\ n \div 64 \in Nat
  BY SMT

\* A number in pieces of six bits.
LEMMA SixBits ==
    ASSUME NEW v \in Nat
    PROVE  /\ v = 64 * (v \div 64) + (v % 64)
           /\ v = 4096 * (v \div 4096) + 64 * ((v \div 64) % 64) + (v % 64)
           /\ v = 262144 * (v \div 262144) + 4096 * ((v \div 4096) % 64) + 64 * ((v \div 64) % 64) + (v % 64)
  <1> DEFINE a == v \div 64
             b == v \div 4096
             c == v \div 262144
  <1>1. a \in Nat /\ 64 * a <= v /\ v < 64 * a + 64 /\ v = 64 * a + (v % 64)
    BY SMT
  <1>2. b \in Nat /\ 4096 * b <= v /\ v < 4096 * b + 4096
    BY SMT
  <1>3. c \in Nat /\ 262144 * c <= v /\ v < 262144 * c + 262144
    BY SMT
  <1> HIDE DEF a, b, c
  <1>4. b = a \div 64
    BY <1>1, <1>2, SMT
  <1>5. c = b \div 64
    BY <1>2, <1>3, SMT
  <1>6. a = 64 * b + (a % 64)
    BY <1>1, <1>4, SMT
  <1>7. b = 64 * c + (b % 64)
    BY <1>2, <1>5, SMT
  <1> DEFINE x == a % 64
             y == b % 64
             z == v % 64
  <1>8. x \in Nat /\ y \in Nat /\ z \in Nat
    BY <1>1, <1>2, SMT
  <1>9. v = 64 * a + z /\ a = 64 * b + x /\ b = 64 * c + y
    BY <1>1, <1>6, <1>7
  <1> HIDE DEF x, y, z
  <1>10. /\ v = 4096 * b + 64 * x + z
         /\ v = 262144 * c + 4096 * y + 64 * x + z
    BY <1>1, <1>2, <1>3, <1>8, <1>9, SMT
  <1> QED
    BY <1>9, <1>10 DEF x, y, z, a, b, c

\* Bytes that start with a sequence of one to four bytes of the right form, and the value
\* in the last three of these.
Form1(s) == s \in Seq(Nat) /\ Len(s) >= 1 /\ s[1] < 128
Form2(s) == s \in Seq(Nat) /\ Len(s) >= 2 /\ s[1] \div 32 = 6 /\ s[2] \div 64 = 2
Form3(s) == s \in Seq(Nat) /\ Len(s) >= 3 /\ s[1] \div 16 = 14 /\ s[2] \div 64 = 2 /\ s[3] \div 64 = 2
Form4(s) == s \in Seq(Nat) /\ Len(s) >= 4 /\ s[1] \div 8 = 30 /\ s[2] \div 64 = 2 /\ s[3] \div 64 = 2 /\ s[4] \div 64 = 2
Value2(s) == (s[1] % 32) * 64 + (s[2] % 64)
Value3(s) == (s[1] % 16) * 4096 + (s[2] % 64) * 64 + (s[3] % 64)
Value4(s) == (s[1] % 8) * 262144 + (s[2] % 64) * 4096 + (s[3] % 64) * 64 + (s[4] % 64)

\* The decoder's answer to each form.
LEMMA DecodeForms ==
    ASSUME NEW s
    PROVE  /\ Form1(s) => UTF8Decode(s) = [used |-> 1, value |-> s[1]]
           /\ Form2(s) => UTF8Decode(s) = [used |-> 2, value |-> Value2(s)]
           /\ Form3(s) => UTF8Decode(s) = [used |-> 3, value |-> Value3(s)]
           /\ Form4(s) => UTF8Decode(s) = [used |-> 4, value |-> Value4(s)]
  <1>1. At(s, 1) = s[2] /\ At(s, 2) = s[3] /\ At(s, 3) = s[4]
    BY DEF At
  <1>2. /\ IsTrail(s, 1) <=> Len(s) > 1 /\ s[2] \div 64 = 2
        /\ IsTrail(s, 2) <=> Len(s) > 2 /\ s[3] \div 64 = 2
        /\ IsTrail(s, 3) <=> Len(s) > 3 /\ s[4] \div 64 = 2
    BY <1>1 DEF IsTrail
  <1> DEFINE lead == s[1]
  <1>3. ASSUME s \in Seq(Nat), Len(s) >= 1
        PROVE  /\ lead \in Nat
               /\ lead < 128 => lead \div 32 # 6 /\ lead \div 16 # 14 /\ lead \div 8 # 30
               /\ lead \div 32 = 6 => lead >= 128 /\ lead \div 16 # 14 /\ lead \div 8 # 30
               /\ lead \div 16 = 14 => lead >= 128 /\ lead \div 32 # 6 /\ lead \div 8 # 30
               /\ lead \div 8 = 30 => lead >= 128 /\ lead \div 32 # 6 /\ lead \div 16 # 14
    <2>1. lead \in Nat
      BY <1>3
    <2> HIDE DEF lead
    <2> QED
      BY <2>1, SMT
  <1>4. ASSUME Form1(s) PROVE UTF8Decode(s) = [used |-> 1, value |-> s[1]]
    BY <1>3, <1>4, SMT DEF UTF8Decode, Form1
  <1>5. ASSUME Form2(s) PROVE UTF8Decode(s) = [used |-> 2, value |-> Value2(s)]
    <2>1. ~(lead < 128) /\ lead \div 32 = 6 /\ lead \div 16 # 14 /\ lead \div 8 # 30
      BY <1>3, <1>5, SMT DEF Form2
    <2>2. IsTrail(s, 1)
      BY <1>2, <1>5, SMT DEF Form2
    <2>3. Value2(s) = (lead % 32) * 64 + (At(s, 1) % 64)
      BY <1>1, SMT DEF Value2
    <2> QED
      BY <2>1, <2>2, <2>3, SMT DEF UTF8Decode
  <1>6. ASSUME Form3(s) PROVE UTF8Decode(s) = [used |-> 3, value |-> Value3(s)]
    <2>1. ~(lead < 128) /\ lead \div 32 # 6 /\ lead \div 16 = 14 /\ lead \div 8 # 30
      BY <1>3, <1>6, SMT DEF Form3
    <2>2. IsTrail(s, 1) /\ IsTrail(s, 2)
      BY <1>2, <1>6, SMT DEF Form3
    <2>3. Value3(s) = (lead % 16) * 4096 + (At(s, 1) % 64) * 64 + (At(s, 2) % 64)
      BY <1>1, SMT DEF Value3
    <2> QED
      BY <2>1, <2>2, <2>3, SMT DEF UTF8Decode
  <1>7. ASSUME Form4(s) PROVE UTF8Decode(s) = [used |-> 4, value |-> Value4(s)]
    <2>1. ~(lead < 128) /\ lead \div 32 # 6 /\ lead \div 16 # 14 /\ lead \div 8 = 30
      BY <1>3, <1>7, SMT DEF Form4
    <2>2. IsTrail(s, 1) /\ IsTrail(s, 2) /\ IsTrail(s, 3)
      BY <1>2, <1>7, SMT DEF Form4
    <2>3. Value4(s) = (lead % 8) * 262144 + (At(s, 1) % 64) * 4096 + (At(s, 2) % 64) * 64 + (At(s, 3) % 64)
      BY <1>1, SMT DEF Value4
    <2> QED
      BY <2>1, <2>2, <2>3, SMT DEF UTF8Decode
  <1> QED
    BY <1>4, <1>5, <1>6, <1>7, SMT

\* base/string_encode: whatever the value and the room, UTF8Encode writes nothing or a
\* sequence that fits, and UTF8Decode reads the value back from exactly these bytes.
THEOREM UTF8Inverts ==
    ASSUME NEW value \in Nat, value <= 2097151, NEW room \in Nat \ {0}
    PROVE  CodeReadsBack(room, value)
  <1> DEFINE e == UTF8Encode(room, value)
             t0 == Trail(value, 0)
             t6 == Trail(value, 6)
             t12 == Trail(value, 12)
  <1>1. value \in Nat /\ value \div 1 = value
    BY SMT
  <1>2. t0 = 128 + (value % 64) /\ t6 = 128 + ((value \div 64) % 64) /\ t12 = 128 + ((value \div 4096) % 64)
    BY <1>1, Shifts, SMT DEF Trail
  <1>3. value \div 64 \in Nat /\ value \div 4096 \in Nat
    BY <1>1, SMT
  <1>4. /\ t0 \in Nat /\ t0 \div 64 = 2 /\ t0 % 64 = value % 64
        /\ t6 \in Nat /\ t6 \div 64 = 2 /\ t6 % 64 = (value \div 64) % 64
        /\ t12 \in Nat /\ t12 \div 64 = 2 /\ t12 % 64 = (value \div 4096) % 64
    BY <1>1, <1>2, <1>3, TrailBits, SMT
  <1> HIDE DEF t0, t6, t12
  <1>5. CASE value <= 127
    <2>1. e = <<value>>
      <3>1. room >= 1 /\ ~(value > 127) /\ ~(value > 65535)
        BY <1>5, SMT
      <3> QED
        BY <1>5, <3>1, SMTT(30) DEF UTF8Encode
    <2>2. <<value>> \in Seq(Nat) /\ Len(<<value>>) = 1 /\ <<value>>[1] = value /\ <<value>> # <<>>
      BY <1>1, SMT
    <2>3. UTF8Decode(<<value>>) = [used |-> 1, value |-> value]
      <3> DEFINE s == <<value>>
      <3>1. Form1(s) /\ s[1] = value
        BY <1>5, <2>2, SMT DEF Form1
      <3> HIDE DEF s
      <3> QED
        BY <3>1, DecodeForms, SMT DEF s
    <2> QED
      BY <2>1, <2>2, <2>3, SMT DEF CodeReadsBack
  <1>6. CASE value > 127 /\ value <= 2047 /\ room >= 2
    <2> DEFINE lead == 192 + value \div 64
               s == <<lead, t0>>
    <2>1. lead \in Nat /\ lead \div 32 = 6 /\ lead % 32 = value \div 64
      BY <1>1, <1>6, SMT
    <2>2. e = s
      <3>1. ~(value <= 127) /\ value <= 65535 /\ ~(value > 65535)
        BY <1>6, SMT
      <3> QED
        BY <1>6, <3>1, SMTT(30) DEF UTF8Encode, t0
    <2> HIDE DEF lead
    <2>3. s \in Seq(Nat) /\ Len(s) = 2 /\ s[1] = lead /\ s[2] = t0 /\ s # <<>>
      BY <1>4, <2>1, SMT
    <2> HIDE DEF s
    <2>4. UTF8Decode(s) = [used |-> 2, value |-> Value2(s)]
      <3>1. Form2(s)
        BY <1>4, <2>1, <2>3, SMT DEF Form2
      <3> QED
        BY <3>1, DecodeForms, SMT
    <2>5. Value2(s) = value
      <3>1. Value2(s) = (lead % 32) * 64 + (t0 % 64)
        BY <2>3, SMT DEF Value2
      <3>2. (lead % 32) * 64 + (t0 % 64) = value
        BY <1>1, <1>3, <1>4, <2>1, SixBits, SMT
      <3> QED
        BY <3>1, <3>2, SMT
    <2> QED
      BY <1>6, <2>2, <2>3, <2>4, <2>5, SMT DEF CodeReadsBack
  <1>7. CASE value > 2047 /\ value <= 65535 /\ room >= 3
    <2> DEFINE lead == 224 + value \div 4096
               s == <<lead, t6, t0>>
    <2>1. lead \in Nat /\ lead \div 16 = 14 /\ lead % 16 = value \div 4096
      BY <1>1, <1>7, SMT
    <2>2. e = s
      <3>1. ~(value <= 127) /\ ~(value <= 2047) /\ ~(value > 65535) /\ value > 127
        BY <1>7, SMT
      <3> QED
        BY <1>7, <3>1, SMTT(30) DEF UTF8Encode, t0, t6
    <2> HIDE DEF lead
    <2>3. s \in Seq(Nat) /\ Len(s) = 3 /\ s[1] = lead /\ s[2] = t6 /\ s[3] = t0 /\ s # <<>>
      BY <1>4, <2>1, SMT
    <2> HIDE DEF s
    <2>4. UTF8Decode(s) = [used |-> 3, value |-> Value3(s)]
      <3>1. Form3(s)
        BY <1>4, <2>1, <2>3, SMT DEF Form3
      <3> QED
        BY <3>1, DecodeForms, SMT
    <2>5. Value3(s) = value
      <3>1. Value3(s) = (lead % 16) * 4096 + (t6 % 64) * 64 + (t0 % 64)
        BY <2>3, SMT DEF Value3
      <3>2. (lead % 16) * 4096 + (t6 % 64) * 64 + (t0 % 64) = value
        BY <1>1, <1>3, <1>4, <2>1, SixBits, SMT
      <3> QED
        BY <3>1, <3>2, SMT
    <2> QED
      BY <1>7, <2>2, <2>3, <2>4, <2>5, SMT DEF CodeReadsBack
  <1>8. CASE value > 65535 /\ room >= 4
    <2> DEFINE lead == 240 + value \div 262144
               s == <<lead, t12, t6, t0>>
    <2>1. lead \in Nat /\ lead \div 8 = 30 /\ lead % 8 = value \div 262144
      BY <1>1, <1>8, SMT
    <2>2. e = s
      BY <1>1, <1>8, SMT DEF UTF8Encode, t0, t6, t12
    <2> HIDE DEF lead
    <2>3. s \in Seq(Nat) /\ Len(s) = 4 /\ s[1] = lead /\ s[2] = t12 /\ s[3] = t6 /\ s[4] = t0 /\ s # <<>>
      BY <1>4, <2>1, SMT
    <2> HIDE DEF s
    <2>4. UTF8Decode(s) = [used |-> 4, value |-> Value4(s)]
      <3>1. Form4(s)
        BY <1>4, <2>1, <2>3, SMT DEF Form4
      <3> QED
        BY <3>1, DecodeForms, SMT
    <2>5. Value4(s) = value
      <3>1. Value4(s) = (lead % 8) * 262144 + (t12 % 64) * 4096 + (t6 % 64) * 64 + (t0 % 64)
        BY <2>3, SMT DEF Value4
      <3>2. (lead % 8) * 262144 + (t12 % 64) * 4096 + (t6 % 64) * 64 + (t0 % 64) = value
        BY <1>1, <1>3, <1>4, <2>1, SixBits, SMT
      <3> QED
        BY <3>1, <3>2, SMT
    <2> QED
      BY <1>8, <2>2, <2>3, <2>4, <2>5, SMT DEF CodeReadsBack
  <1>9. CASE \/ value > 127 /\ value <= 2047 /\ room < 2
             \/ value > 2047 /\ value <= 65535 /\ room < 3
             \/ value > 65535 /\ room < 4
    <2>1. e = <<>> /\ room # 4
      BY <1>1, <1>9, SMT DEF UTF8Encode
    <2> QED
      BY <2>1, SMT DEF CodeReadsBack
  <1> QED
    BY <1>1, <1>5, <1>6, <1>7, <1>8, <1>9, SMT

\* Whatever does not start with one of the forms is refused.
LEMMA DecodeRefuses ==
    ASSUME NEW s \in Seq(Nat), Len(s) >= 1,
           ~Form1(s), ~Form2(s), ~Form3(s), ~Form4(s)
    PROVE  UTF8Decode(s) = [used |-> 0, value |-> 0]
  <1>1. At(s, 1) = s[2] /\ At(s, 2) = s[3] /\ At(s, 3) = s[4]
    BY DEF At
  <1>2. /\ IsTrail(s, 1) <=> Len(s) > 1 /\ s[2] \div 64 = 2
        /\ IsTrail(s, 2) <=> Len(s) > 2 /\ s[3] \div 64 = 2
        /\ IsTrail(s, 3) <=> Len(s) > 3 /\ s[4] \div 64 = 2
    BY <1>1 DEF IsTrail
  <1>3. Len(s) \in Nat /\ s[1] \in Nat
    BY SMT
  <1>4. ~(s[1] < 128)
    BY <1>3, SMT DEF Form1
  <1>5. ~(IsTrail(s, 1) /\ s[1] \div 32 = 6)
    BY <1>2, <1>3, SMT DEF Form2
  <1>6. ~(IsTrail(s, 1) /\ IsTrail(s, 2) /\ s[1] \div 16 = 14)
    BY <1>2, <1>3, SMT DEF Form3
  <1>7. ~(IsTrail(s, 1) /\ IsTrail(s, 2) /\ IsTrail(s, 3) /\ s[1] \div 8 = 30)
    BY <1>2, <1>3, SMT DEF Form4
  <1> QED
    BY <1>4, <1>5, <1>6, <1>7, SMT DEF UTF8Decode

\* A sequence of one to four numbers, one by one.
LEMMA ShortSequences ==
    ASSUME NEW t \in Seq(Nat)
    PROVE  /\ Len(t) = 1 => t = <<t[1]>>
           /\ Len(t) = 2 => t = <<t[1], t[2]>>
           /\ Len(t) = 3 => t = <<t[1], t[2], t[3]>>
           /\ Len(t) = 4 => t = <<t[1], t[2], t[3], t[4]>>
  BY SMT

\* The start of a sequence.
LEMMA StartOf ==
    ASSUME NEW s \in Seq(Nat), NEW n \in 0..Len(s)
    PROVE  /\ SubSeq(s, 1, n) \in Seq(Nat)
           /\ Len(SubSeq(s, 1, n)) = n
           /\ \A i \in 1..n : SubSeq(s, 1, n)[i] = s[i]
  BY SMT

\* A sequence of two, three or four bytes that is no longer than its value needs is what
\* the encoder writes.
LEMMA RewritesTwo ==
    ASSUME NEW a \in Nat, NEW b \in Nat, a \div 32 = 6, b \div 64 = 2,
           NEW v, v = (a % 32) * 64 + (b % 64), v >= 128
    PROVE  UTF8Encode(4, v) = <<a, b>>
  <1> DEFINE x == a % 32
             y == b % 64
  <1>1. a = 192 + x /\ b = 128 + y /\ x \in Nat /\ x < 32 /\ y \in Nat /\ y < 64
    BY SMT
  <1>2. v = x * 64 + y
    BY SMT
  <1> HIDE DEF x, y
  <1>3. v \in Nat /\ v <= 2047 /\ v > 127 /\ v \div 64 = x /\ v % 64 = y /\ v \div 1 = v
    BY <1>1, <1>2, SMT
  <1>4. Trail(v, 0) = 128 + (v % 64)
    BY <1>3, Shifts, SMT DEF Trail
  <1>5. ~(v <= 127) /\ ~(v > 65535)
    BY <1>3, SMT
  <1>6. UTF8Encode(4, v) = <<192 + v \div 64, Trail(v, 0)>>
    BY <1>3, <1>5, SMTT(30) DEF UTF8Encode
  <1> QED
    BY <1>1, <1>3, <1>4, <1>6, SMT

\* Three bytes that read as a value of 2048 or more are what the value is written as.
LEMMA RewritesThree ==
    ASSUME NEW a \in Nat, NEW b \in Nat, NEW c \in Nat, a \div 16 = 14, b \div 64 = 2, c \div 64 = 2,
           NEW v, v = (a % 16) * 4096 + (b % 64) * 64 + (c % 64), v >= 2048
    PROVE  UTF8Encode(4, v) = <<a, b, c>>
  <1> DEFINE x == a % 16
             y == b % 64
             z == c % 64
  <1>1. /\ a = 224 + x /\ b = 128 + y /\ c = 128 + z
        /\ x \in Nat /\ x < 16 /\ y \in Nat /\ y < 64 /\ z \in Nat /\ z < 64
    BY SMT
  <1>2. v = x * 4096 + y * 64 + z
    BY SMT
  <1> HIDE DEF x, y, z
  <1>3. v \in Nat /\ v <= 65535 /\ v > 2047 /\ v \div 4096 = x /\ v \div 64 = x * 64 + y /\ v % 64 = z /\ v \div 1 = v
    BY <1>1, <1>2, SMT
  <1>4. (x * 64 + y) % 64 = y
    BY <1>1, SMT
  <1>5. Trail(v, 0) = 128 + (v % 64) /\ Trail(v, 6) = 128 + ((v \div 64) % 64)
    BY <1>3, Shifts, SMT DEF Trail
  <1>6. ~(v <= 127) /\ ~(v <= 2047) /\ ~(v > 65535) /\ v > 127
    BY <1>3, SMT
  <1>7. UTF8Encode(4, v) = <<224 + v \div 4096, Trail(v, 6), Trail(v, 0)>>
    BY <1>3, <1>6, SMTT(30) DEF UTF8Encode
  <1> QED
    BY <1>1, <1>3, <1>4, <1>5, <1>7, SMT

\* The same of four bytes that read as 65536 or more.
LEMMA RewritesFour ==
    ASSUME NEW s, Form4(s), Value4(s) >= 65536
    PROVE  UTF8Encode(4, Value4(s)) = <<s[1], s[2], s[3], s[4]>>
  <1> DEFINE a == s[1]  b == s[2]  c == s[3]  d == s[4]
             v == Value4(s)
  <1>1. a \in Nat /\ b \in Nat /\ c \in Nat /\ d \in Nat
    <2>1. Len(s) >= 4 /\ s \in Seq(Nat)
      BY SMT DEF Form4
    <2> QED
      BY ONLY <2>1, SMT
  <1>2. a \div 8 = 30 /\ b \div 64 = 2 /\ c \div 64 = 2 /\ d \div 64 = 2
    BY SMT DEF Form4
  <1>3. v = (a % 8) * 262144 + (b % 64) * 4096 + (c % 64) * 64 + (d % 64) /\ v >= 65536
    BY SMT DEF Value4
  <1> HIDE DEF a, b, c, d, v
  <1> DEFINE w == a % 8
             x == b % 64
             y == c % 64
             z == d % 64
  <1>4. /\ a = 240 + w /\ b = 128 + x /\ c = 128 + y /\ d = 128 + z
        /\ w \in Nat /\ w < 8 /\ x \in Nat /\ x < 64 /\ y \in Nat /\ y < 64 /\ z \in Nat /\ z < 64
    BY <1>1, <1>2, SMT
  <1>5. v = w * 262144 + x * 4096 + y * 64 + z
    BY <1>3, SMT
  <1> HIDE DEF w, x, y, z
  <1>6. v \in Nat /\ v <= 2097151 /\ v > 65535 /\ v \div 1 = v
    BY <1>4, <1>5, <1>3, SMT
  <1>7. v \div 262144 = w /\ v % 64 = z
    BY <1>4, <1>5, SMT
  <1>8. v \div 4096 = w * 64 + x /\ (w * 64 + x) % 64 = x
    BY <1>4, <1>5, SMT
  <1>9. v \div 64 = w * 4096 + x * 64 + y /\ (w * 4096 + x * 64 + y) % 64 = y
    BY <1>4, <1>5, SMT
  <1>10. /\ Trail(v, 0) = 128 + (v % 64) /\ Trail(v, 6) = 128 + ((v \div 64) % 64)
        /\ Trail(v, 12) = 128 + ((v \div 4096) % 64)
    BY <1>6, Shifts, SMT DEF Trail
  <1>11. ~(v <= 127) /\ ~(v <= 2047) /\ ~(v <= 65535)
    BY <1>6, SMT
  <1>12. UTF8Encode(4, v) = <<240 + v \div 262144, Trail(v, 12), Trail(v, 6), Trail(v, 0)>>
    BY <1>6, <1>11, SMTT(30) DEF UTF8Encode
  <1>13. UTF8Encode(4, v) = <<a, b, c, d>>
    BY <1>4, <1>7, <1>8, <1>9, <1>10, <1>12, SMT
  <1> QED
    BY <1>13 DEF a, b, c, d, v

\* base/string_encode: whatever the bytes, UTF8Decode uses no more than there are, and
\* encoding the value it found writes the same bytes, unless they were longer than needed.
THEOREM UTF8WritesBack ==
    ASSUME NEW s \in Seq(Nat), s # <<>>
    PROVE  TextWritesBack(s)
  <1>1. Len(s) \in Nat /\ Len(s) >= 1
    BY SMT
  <1>2. Least[1] = 0 /\ Least[2] = 128 /\ Least[3] = 2048 /\ Least[4] = 65536
    BY SMT DEF Least
  <1>3. ASSUME NEW n \in 1..4, Len(s) >= n, UTF8Decode(s).used = n,
               NEW t \in Seq(Nat), Len(t) = n, \A i \in 1..n : t[i] = s[i],
               UTF8Decode(s).value >= Least[n] => UTF8Encode(4, UTF8Decode(s).value) = t
        PROVE  TextWritesBack(s)
    <2>1. SubSeq(s, 1, n) \in Seq(Nat) /\ Len(SubSeq(s, 1, n)) = n /\ \A i \in 1..n : SubSeq(s, 1, n)[i] = s[i]
      BY <1>1, <1>3, StartOf, SMT
    <2>2. SubSeq(s, 1, n) = t
      BY <1>3, <2>1, SMT
    <2> QED
      BY <1>3, <2>2, SMT DEF TextWritesBack
  <1>4. CASE ~Form1(s) /\ ~Form2(s) /\ ~Form3(s) /\ ~Form4(s)
    <2>1. UTF8Decode(s) = [used |-> 0, value |-> 0]
      BY <1>1, <1>4, DecodeRefuses, SMT
    <2> QED
      BY <1>1, <2>1, SMT DEF TextWritesBack
  <1>5. CASE Form1(s)
    <2> DEFINE t == <<s[1]>>
    <2>1. UTF8Decode(s) = [used |-> 1, value |-> s[1]]
      BY <1>5, DecodeForms, SMT
    <2>2. s[1] \in Nat /\ s[1] <= 127 /\ ~(s[1] > 127) /\ ~(s[1] > 65535)
      BY <1>1, <1>5, SMT DEF Form1
    <2>3. UTF8Encode(4, s[1]) = t
      BY <2>2, SMTT(30) DEF UTF8Encode
    <2>4. t \in Seq(Nat) /\ Len(t) = 1 /\ \A i \in 1..1 : t[i] = s[i]
      BY <2>2, SMT
    <2> HIDE DEF t
    <2> QED
      BY <1>1, <1>3, <2>1, <2>3, <2>4, SMT
  <1>6. CASE Form2(s)
    <2> DEFINE v == Value2(s)
               t == <<s[1], s[2]>>
    <2>1. UTF8Decode(s) = [used |-> 2, value |-> v]
      BY <1>6, DecodeForms, SMT
    <2>2. Len(s) >= 2 /\ s[1] \in Nat /\ s[2] \in Nat /\ s[1] \div 32 = 6 /\ s[2] \div 64 = 2
      BY <1>1, <1>6, SMT DEF Form2
    <2>3. v = (s[1] % 32) * 64 + (s[2] % 64)
      BY SMT DEF Value2
    <2> HIDE DEF v
    <2>4. v >= 128 => UTF8Encode(4, v) = t
      <3> DEFINE a == s[1]  b == s[2]
      <3>1. a \in Nat /\ b \in Nat /\ a \div 32 = 6 /\ b \div 64 = 2
        BY <2>2, SMT
      <3>2. v = (a % 32) * 64 + (b % 64) /\ t = <<a, b>>
        BY <2>3, SMT
      <3> HIDE DEF a, b, t
      <3> QED
        BY <3>1, <3>2, RewritesTwo, SMT
    <2>5. t \in Seq(Nat) /\ Len(t) = 2 /\ \A i \in 1..2 : t[i] = s[i]
      BY <2>2, SMT
    <2> HIDE DEF t
    <2> QED
      <3>1. UTF8Decode(s).value >= Least[2] => UTF8Encode(4, UTF8Decode(s).value) = t
        BY <1>2, <2>1, <2>4, SMT
      <3>2. Len(s) >= 2 /\ 2 \in 1..4 /\ UTF8Decode(s).used = 2
        BY <2>1, <2>2, SMT
      <3> QED
        BY ONLY <1>3, <2>5, <3>1, <3>2, SMTT(60)
  <1>7. CASE Form3(s)
    <2> DEFINE v == Value3(s)
               t == <<s[1], s[2], s[3]>>
    <2>1. UTF8Decode(s) = [used |-> 3, value |-> v]
      BY <1>7, DecodeForms, SMT
    <2>2. /\ Len(s) >= 3 /\ s[1] \in Nat /\ s[2] \in Nat /\ s[3] \in Nat
          /\ s[1] \div 16 = 14 /\ s[2] \div 64 = 2 /\ s[3] \div 64 = 2
      BY <1>1, <1>7, SMT DEF Form3
    <2>3. v = (s[1] % 16) * 4096 + (s[2] % 64) * 64 + (s[3] % 64)
      BY SMT DEF Value3
    <2> HIDE DEF v
    <2>4. v >= 2048 => UTF8Encode(4, v) = t
      <3> DEFINE a == s[1]  b == s[2]  c == s[3]
      <3>1. a \in Nat /\ b \in Nat /\ c \in Nat /\ a \div 16 = 14 /\ b \div 64 = 2 /\ c \div 64 = 2
        BY <2>2, SMT
      <3>2. v = (a % 16) * 4096 + (b % 64) * 64 + (c % 64) /\ t = <<a, b, c>>
        BY <2>3, SMT
      <3> HIDE DEF a, b, c, t
      <3> QED
        BY <3>1, <3>2, RewritesThree, SMT
    <2>5. t \in Seq(Nat) /\ Len(t) = 3 /\ \A i \in 1..3 : t[i] = s[i]
      BY <2>2, SMT
    <2> HIDE DEF t
    <2> QED
      <3>1. UTF8Decode(s).value >= Least[3] => UTF8Encode(4, UTF8Decode(s).value) = t
        BY <1>2, <2>1, <2>4, SMT
      <3>2. Len(s) >= 3 /\ 3 \in 1..4 /\ UTF8Decode(s).used = 3
        BY <2>1, <2>2, SMT
      <3> QED
        BY ONLY <1>3, <2>5, <3>1, <3>2, SMTT(60)
  <1>8. CASE Form4(s)
    <2> DEFINE v == Value4(s)
               t == <<s[1], s[2], s[3], s[4]>>
    <2>1. UTF8Decode(s) = [used |-> 4, value |-> v]
      BY <1>8, DecodeForms, SMT
    <2>2. /\ Len(s) >= 4 /\ s[1] \in Nat /\ s[2] \in Nat /\ s[3] \in Nat /\ s[4] \in Nat
          /\ s[1] \div 8 = 30 /\ s[2] \div 64 = 2 /\ s[3] \div 64 = 2 /\ s[4] \div 64 = 2
      <3>1. Len(s) >= 4 /\ s \in Seq(Nat)
        BY <1>8, SMT DEF Form4
      <3>2. s[1] \in Nat /\ s[2] \in Nat /\ s[3] \in Nat /\ s[4] \in Nat
        BY ONLY <3>1, SMT
      <3> QED
        BY <1>8, <3>1, <3>2, SMT DEF Form4
    <2>3. v >= 65536 => UTF8Encode(4, v) = t
      BY <1>8, RewritesFour, SMT
    <2>4. t \in Seq(Nat) /\ Len(t) = 4 /\ \A i \in 1..4 : t[i] = s[i]
      BY <2>2, SMT
    <2> HIDE DEF t, v
    <2> QED
      <3>1. UTF8Decode(s).value >= Least[4] => UTF8Encode(4, UTF8Decode(s).value) = t
        BY <1>2, <2>1, <2>3, SMT
      <3>2. Len(s) >= 4 /\ 4 \in 1..4 /\ UTF8Decode(s).used = 4
        BY <2>1, <2>2, SMT
      <3> QED
        BY ONLY <1>3, <2>4, <3>1, <3>2, SMTT(60)
  <1> QED
    BY <1>4, <1>5, <1>6, <1>7, <1>8, SMT

(* -------------------------------- pickles -------------------------------- *)

\* A pickle that can be written to: all it holds is written, on a boundary, within its room.
WellFormed(p) ==
    /\ p \in [header : Nat, capacity : Nat, offset : Nat, payload : Seq(Nat)]
    /\ p.offset = Len(p.payload)
    /\ p.offset % 4 = 0
    /\ p.offset <= p.capacity

\* An iterator within its pickle, which holds the bytes up to end and perhaps more.
InPickle(it) ==
    /\ it \in [payload : Seq(Nat), at : Nat, end : Nat]
    /\ it.at <= it.end /\ it.end = Len(it.payload)

\* The iterator over a payload that has come to a place in it.
IteratorAt(payload, at) == [payload |-> payload, at |-> at, end |-> Len(payload)]

\* Align gives the next boundary.
LEMMA AlignBounds ==
    ASSUME NEW n \in Nat
    PROVE  Align(n, 4) \in Nat /\ n <= Align(n, 4) /\ Align(n, 4) < n + 4 /\ Align(n, 4) % 4 = 0
  BY SMT DEF Align

\* And so it does with the units in which the room grows.
LEMMA AlignRoom ==
    ASSUME NEW n \in Nat
    PROVE  /\ Align(n, kPayloadUnit) \in Nat /\ n <= Align(n, kPayloadUnit)
           /\ n > kPickleHeapAlign => Align(n, kPickleHeapAlign) - kPayloadUnit \in Nat
  BY SMT DEF Align, kPayloadUnit, kPickleHeapAlign

\* Two boundaries make a boundary.
LEMMA SumAligned ==
    ASSUME NEW m \in Nat, NEW n \in Nat, m % 4 = 0, n % 4 = 0
    PROVE  (m + n) % 4 = 0
  BY SMT

\* It does not matter which of three texts are joined first.
LEMMA Associates ==
    ASSUME NEW s \in Seq(Nat), NEW t \in Seq(Nat), NEW u \in Seq(Nat)
    PROVE  (s \o t) \o u = s \o (t \o u)
  BY ConcatAssociative

\* Bytes put behind bytes.
LEMMA Concatenation ==
    ASSUME NEW s \in Seq(Nat), NEW t \in Seq(Nat)
    PROVE  /\ s \o t \in Seq(Nat) /\ Len(s \o t) = Len(s) + Len(t)
           /\ \A i \in 1..Len(s) : (s \o t)[i] = s[i]
           /\ \A i \in 1..Len(t) : (s \o t)[Len(s) + i] = t[i]
  BY SMT

\* BeginWrite's growth: the room is at least what is needed.
LEMMA ResizeRoom ==
    ASSUME NEW p \in [header : Nat, capacity : Nat, offset : Nat, payload : Seq(Nat)], NEW n \in Nat
    PROVE  /\ Resize(p, n) \in [header : Nat, capacity : Nat, offset : Nat, payload : Seq(Nat)]
           /\ Resize(p, n).capacity >= n
           /\ Resize(p, n).header = p.header /\ Resize(p, n).offset = p.offset
           /\ Resize(p, n).payload = p.payload
  <1>1. Align(n, kPayloadUnit) \in Nat /\ n <= Align(n, kPayloadUnit)
    BY AlignRoom
  <1> QED
    BY <1>1 DEF Resize

\* What is written to a pickle: the bytes and the padding behind what it holds.
Padded(bytes) == bytes \o Zeros(Align(Len(bytes), 4) - Len(bytes))

\* The padding ends on a boundary.
LEMMA PaddedBytes ==
    ASSUME NEW bytes \in Seq(Nat)
    PROVE  /\ Padded(bytes) \in Seq(Nat)
           /\ Len(Padded(bytes)) = Align(Len(bytes), 4)
           /\ \A i \in 1..Len(bytes) : Padded(bytes)[i] = bytes[i]
  <1> DEFINE k == Align(Len(bytes), 4) - Len(bytes)
  <1>1. k \in Nat /\ Len(bytes) \in Nat /\ Align(Len(bytes), 4) \in Nat
    <2>1. Len(bytes) \in Nat
      OBVIOUS
    <2>2. Align(Len(bytes), 4) \in Nat /\ Len(bytes) <= Align(Len(bytes), 4)
      BY <2>1, AlignBounds
    <2> QED
      BY <2>1, <2>2
  <1> HIDE DEF k
  <1>2. Zeros(k) \in Seq(Nat) /\ Len(Zeros(k)) = k
    BY <1>1, SMT DEF Zeros
  <1>3. Padded(bytes) = bytes \o Zeros(k)
    BY DEF Padded, k
  <1>4. Len(bytes \o Zeros(k)) = Len(bytes) + k
    BY <1>2, SMT
  <1> QED
    BY <1>1, <1>2, <1>3, <1>4, SMT DEF k

\* Pickle::WriteBytes: the pickle stays well formed, grows by what PickleSizer adds, and
\* holds what it held, followed by the bytes and their padding.
LEMMA WriteAppends ==
    ASSUME NEW p, WellFormed(p), NEW bytes \in Seq(Nat)
    PROVE  /\ WellFormed(WriteBytesCommon(p, bytes))
           /\ WriteBytesCommon(p, bytes).header = p.header
           /\ WriteBytesCommon(p, bytes).payload = p.payload \o Padded(bytes)
           /\ WriteBytesCommon(p, bytes).offset = AddBytes(p.offset, Len(bytes))
  <1> DEFINE new_size == p.offset + Align(Len(bytes), 4)
             doubled == p.capacity * 2
             room == IF doubled > kPickleHeapAlign THEN Align(doubled, kPickleHeapAlign) - kPayloadUnit
                     ELSE doubled
             more == IF room > new_size THEN room ELSE new_size
             q == IF new_size > p.capacity THEN Resize(p, more) ELSE p
             w == WriteBytesCommon(p, bytes)
  <1>1. /\ p \in [header : Nat, capacity : Nat, offset : Nat, payload : Seq(Nat)]
        /\ p.offset = Len(p.payload) /\ p.offset % 4 = 0 /\ p.offset <= p.capacity
    BY DEF WellFormed
  <1>2. Len(bytes) \in Nat /\ Align(Len(bytes), 4) \in Nat /\ Align(Len(bytes), 4) % 4 = 0
    BY AlignBounds, SMT
  <1>3. new_size \in Nat /\ new_size % 4 = 0
    <2> DEFINE m == p.offset
               n == Align(Len(bytes), 4)
    <2>1. m \in Nat /\ n \in Nat /\ m % 4 = 0 /\ n % 4 = 0
      BY <1>1, <1>2
    <2> HIDE DEF m, n
    <2>2. m + n \in Nat /\ (m + n) % 4 = 0
      BY <2>1, SumAligned
    <2> QED
      BY <2>2 DEF m, n
  <1>4. more \in Nat /\ more >= new_size
    <2>1. p.capacity \in Nat /\ doubled \in Nat
      BY <1>1, SMT
    <2> HIDE DEF doubled, new_size
    <2>2. room \in Nat
      BY <2>1, AlignRoom
    <2> HIDE DEF room
    <2> QED
      BY <1>3, <2>2, SMT
  <1> HIDE DEF more
  <1>5. /\ q \in [header : Nat, capacity : Nat, offset : Nat, payload : Seq(Nat)]
        /\ q.capacity >= new_size
        /\ q.header = p.header /\ q.offset = p.offset /\ q.payload = p.payload
    <2> HIDE DEF new_size
    <2>1. CASE new_size > p.capacity
      <3>1. q = Resize(p, more)
        BY <2>1
      <3> HIDE DEF q
      <3>2. Resize(p, more).capacity >= more /\ Resize(p, more).capacity \in Nat
        BY <1>1, <1>4, ResizeRoom, SMT
      <3>3. Resize(p, more).capacity >= new_size
        BY <1>3, <1>4, <3>2, SMT
      <3> QED
        BY <1>1, <1>4, <3>1, <3>3, ResizeRoom
    <2>2. CASE ~(new_size > p.capacity)
      <3>1. q = p
        BY <2>2
      <3>2. p.capacity \in Nat
        BY <1>1
      <3>3. p.capacity >= new_size
        BY <1>3, <2>2, <3>2
      <3> HIDE DEF q
      <3> QED
        BY <1>1, <3>1, <3>3
    <2> QED
      BY <2>1, <2>2
  <1>6. w = [q EXCEPT !.payload = SubSeq(@, 1, p.offset) \o bytes \o Zeros(Align(Len(bytes), 4) - Len(bytes)),
                      !.offset = new_size]
    BY DEF WriteBytesCommon, more
  <1> DEFINE body == SubSeq(p.payload, 1, p.offset) \o bytes \o Zeros(Align(Len(bytes), 4) - Len(bytes))
  <1>7. body = p.payload \o Padded(bytes)
    <2> DEFINE k == Align(Len(bytes), 4) - Len(bytes)
    <2>1. k \in Nat
      <3>1. Len(bytes) \in Nat
        OBVIOUS
      <3>2. Align(Len(bytes), 4) \in Nat /\ Len(bytes) <= Align(Len(bytes), 4)
        BY <3>1, AlignBounds
      <3> QED
        BY <3>1, <3>2
    <2> HIDE DEF k
    <2>2. Zeros(k) \in Seq(Nat)
      BY <2>1, SMT DEF Zeros
    <2>3. SubSeq(p.payload, 1, p.offset) = p.payload
      BY <1>1, SubSeqFull
    <2>4. p.payload \in Seq(Nat)
      BY <1>1
    <2>5. (p.payload \o bytes) \o Zeros(k) = p.payload \o (bytes \o Zeros(k))
      BY <2>2, <2>4, Associates
    <2> QED
      BY <2>3, <2>5 DEF Padded, k
  <1>8. body \in Seq(Nat) /\ Len(body) = new_size
    <2>1. p.payload \in Seq(Nat) /\ Padded(bytes) \in Seq(Nat) /\ Len(Padded(bytes)) = Align(Len(bytes), 4)
      BY <1>1, PaddedBytes
    <2> HIDE DEF body
    <2>2. body \in Seq(Nat) /\ Len(body) = Len(p.payload) + Len(Padded(bytes))
      BY <1>7, <2>1, Concatenation
    <2> QED
      BY <1>1, <2>1, <2>2
  <1>9. /\ w \in [header : Nat, capacity : Nat, offset : Nat, payload : Seq(Nat)]
        /\ w.payload = body /\ w.offset = new_size /\ w.header = p.header /\ w.capacity = q.capacity
    <2>1. w = [q EXCEPT !.payload = body, !.offset = new_size]
      BY <1>5, <1>6
    <2> HIDE DEF w, q, body, new_size
    <2> QED
      BY <1>3, <1>5, <1>8, <2>1
  <1> HIDE DEF body
  <1>10. WellFormed(w)
    <2> HIDE DEF w, q, new_size
    <2> QED
      BY <1>3, <1>5, <1>8, <1>9 DEF WellFormed
  <1> QED
    BY <1>7, <1>9, <1>10 DEF AddBytes

\* The bytes of a part of a sequence.
LEMMA Slice ==
    ASSUME NEW s \in Seq(Nat), NEW o \in Nat, NEW n \in Nat, o + n <= Len(s)
    PROVE  /\ SubSeq(s, o + 1, o + n) \in Seq(Nat) /\ Len(SubSeq(s, o + 1, o + n)) = n
           /\ \A i \in 1..n : SubSeq(s, o + 1, o + n)[i] = s[o + i]
  <1>1. o + 1 \in Int /\ o + n \in Int /\ \A i \in (o + 1)..(o + n) : s[i] \in Nat
    OBVIOUS
  <1>2. /\ SubSeq(s, o + 1, o + n) \in Seq(Nat)
        /\ Len(SubSeq(s, o + 1, o + n)) = IF o + 1 <= o + n THEN (o + n) - (o + 1) + 1 ELSE 0
        /\ \A i \in 1..((o + n) - (o + 1) + 1) : SubSeq(s, o + 1, o + n)[i] = s[(o + 1) + i - 1]
    BY <1>1, SubSeqProperties
  <1>3. (IF o + 1 <= o + n THEN (o + n) - (o + 1) + 1 ELSE 0) = n /\ (o + n) - (o + 1) + 1 = n
    OBVIOUS
  <1>4. \A i \in 1..n : (o + 1) + i - 1 = o + i
    OBVIOUS
  <1> QED
    BY <1>2, <1>3, <1>4

\* Two sequences with the same bytes are the same.
LEMMA SameBytes ==
    ASSUME NEW s \in Seq(Nat), NEW t \in Seq(Nat), Len(s) = Len(t), \A i \in 1..Len(s) : s[i] = t[i]
    PROVE  s = t
  BY SMT

\* The read pointer never leaves the data, whatever length is asked for, and a read that
\* succeeds has the bytes it asked for; a read that fails goes to the end.
THEOREM ReadsStayInside ==
    ASSUME NEW it, InPickle(it), NEW n \in Int
    PROVE  /\ InPickle(ReadBytes(it, n).it)
           /\ ReadBytes(it, n).it.at >= it.at
           /\ ReadBytes(it, n).ok => n >= 0 /\ Len(ReadBytes(it, n).bytes) = n
           /\ ~ReadBytes(it, n).ok => ReadBytes(it, n).it.at = it.end
  <1>1. /\ it \in [payload : Seq(Nat), at : Nat, end : Nat]
        /\ it.at \in Nat /\ it.end \in Nat /\ it.at <= it.end /\ it.end = Len(it.payload)
        /\ it.payload \in Seq(Nat)
    BY DEF InPickle
  <1>2. CASE n < 0 \/ it.end - it.at < n
    <2>1. ReadBytes(it, n) = [ok |-> FALSE, it |-> [it EXCEPT !.at = it.end], bytes |-> <<>>]
      BY <1>2 DEF ReadBytes
    <2> DEFINE last == [it EXCEPT !.at = it.end]
    <2>2. /\ last \in [payload : Seq(Nat), at : Nat, end : Nat]
          /\ last.at = it.end /\ last.end = it.end /\ last.payload = it.payload
      BY <1>1
    <2> HIDE DEF last
    <2>3. ReadBytes(it, n).it = last /\ ~ReadBytes(it, n).ok
      BY <2>1 DEF last
    <2> QED
      BY <1>1, <2>2, <2>3 DEF InPickle
  <1>3. CASE ~(n < 0 \/ it.end - it.at < n)
    <2> DEFINE a == Align(n, 4)
               at == IF it.end - it.at < a THEN it.end ELSE it.at + a
               next == Advance(it, n)
               bytes == SubSeq(it.payload, it.at + 1, it.at + n)
    <2>1. ReadBytes(it, n) = [ok |-> TRUE, it |-> next, bytes |-> bytes]
      BY <1>3 DEF ReadBytes
    <2>2. n \in Nat /\ it.at + n <= it.end
      BY <1>1, <1>3
    <2>3. a \in Nat
      BY <2>2, AlignBounds
    <2>4. next = [it EXCEPT !.at = at]
      BY <1>1 DEF Advance
    <2> HIDE DEF a
    <2>5. at \in Nat /\ at <= it.end /\ at >= it.at
      BY <1>1, <2>3
    <2> HIDE DEF at, next
    <2>6. /\ next \in [payload : Seq(Nat), at : Nat, end : Nat]
          /\ next.at = at /\ next.end = it.end /\ next.payload = it.payload
      BY <1>1, <2>4, <2>5
    <2>7. Len(bytes) = n
      <3>1. it.payload \in Seq(Nat) /\ it.at \in Nat /\ n \in Nat /\ it.at + n <= Len(it.payload)
        BY <1>1, <2>2
      <3> QED
        BY ONLY <3>1, Slice, Zenon
    <2> HIDE DEF bytes
    <2>8. ReadBytes(it, n).it = next /\ ReadBytes(it, n).bytes = bytes /\ ReadBytes(it, n).ok
      BY <2>1
    <2> QED
      BY <1>1, <2>2, <2>5, <2>6, <2>7, <2>8 DEF InPickle
  <1> QED
    BY <1>2, <1>3

\* A pickle, read from where bytes were written to it, gives these bytes and goes on where
\* the next were written, however much was written after them.
THEOREM WrittenBytesReadBack ==
    ASSUME NEW p, WellFormed(p), NEW bytes \in Seq(Nat), NEW later \in Seq(Nat)
    PROVE  ReadBytes(IteratorAt(WriteBytesCommon(p, bytes).payload \o later, p.offset), Len(bytes)) =
             [ok |-> TRUE,
              it |-> IteratorAt(WriteBytesCommon(p, bytes).payload \o later, WriteBytesCommon(p, bytes).offset),
              bytes |-> bytes]
  <1> DEFINE w == WriteBytesCommon(p, bytes)
             n == Len(bytes)
             a == Align(n, 4)
             o == p.offset
             all == w.payload \o later
             found == SubSeq(all, o + 1, o + n)
             it == IteratorAt(all, o)
  <1>1. /\ WellFormed(w) /\ w.payload = p.payload \o Padded(bytes) /\ w.offset = o + a
        /\ w.payload \in Seq(Nat) /\ w.offset = Len(w.payload)
    BY WriteAppends DEF WellFormed, AddBytes
  <1>2. p.payload \in Seq(Nat) /\ o \in Nat /\ o = Len(p.payload)
    BY DEF WellFormed
  <1>3. n \in Nat /\ a \in Nat /\ n <= a
    <2>1. n \in Nat
      OBVIOUS
    <2> QED
      BY <2>1, AlignBounds
  <1>4. /\ Padded(bytes) \in Seq(Nat) /\ Len(Padded(bytes)) = a
        /\ \A i \in 1..n : Padded(bytes)[i] = bytes[i]
    BY PaddedBytes
  <1> HIDE DEF w
  <1>5. /\ all \in Seq(Nat) /\ Len(all) = Len(w.payload) + Len(later) /\ Len(later) \in Nat
        /\ \A i \in 1..Len(w.payload) : all[i] = w.payload[i]
    BY <1>1, Concatenation
  <1>6. \A i \in 1..a : w.payload[o + i] = Padded(bytes)[i]
    BY <1>1, <1>2, <1>4, Concatenation
  <1> HIDE DEF all, a, o
  <1>7. \A i \in 1..n : all[o + i] = bytes[i]
    <2> SUFFICES ASSUME NEW i \in 1..n PROVE all[o + i] = bytes[i]
      OBVIOUS
    <2>1. i \in 1..a /\ o + i \in 1..Len(w.payload)
      BY <1>1, <1>2, <1>3
    <2> QED
      BY <1>4, <1>5, <1>6, <2>1
  <1>8. found = bytes
    <2>1. o + n <= Len(all)
      BY <1>1, <1>2, <1>3, <1>5
    <2>2. found \in Seq(Nat) /\ Len(found) = n /\ \A i \in 1..n : found[i] = all[o + i]
      BY <1>2, <1>3, <1>5, <2>1, Slice
    <2> HIDE DEF found
    <2> QED
      BY <1>3, <1>7, <2>2, SameBytes
  <1>9. it.payload = all /\ it.at = o /\ it.end = Len(all)
    BY DEF IteratorAt
  <1> HIDE DEF it
  <1>10. ~(n < 0 \/ it.end - it.at < n) /\ ~(it.end - it.at < a) /\ it.at + a = w.offset
    <2>1. it.end = o + a + Len(later) /\ w.offset = o + a
      BY <1>1, <1>2, <1>3, <1>5, <1>9 DEF a, o
    <2> DEFINE k == Len(later)
    <2>2. n \in Nat /\ a \in Nat /\ n <= a /\ o \in Nat /\ k \in Nat
      BY <1>2, <1>3, <1>5
    <2> HIDE DEF n, k
    <2>3. ~(n < 0 \/ (o + a + k) - o < n) /\ ~((o + a + k) - o < a)
      BY ONLY <2>2, SMT
    <2> QED
      BY <1>9, <2>1, <2>3 DEF k
  <1>11. Advance(it, n) = IteratorAt(all, w.offset)
    BY <1>10 DEF Advance, IteratorAt, a, it
  <1>12. ReadBytes(it, n) = [ok |-> TRUE, it |-> Advance(it, n), bytes |-> found]
    BY <1>9, <1>10 DEF ReadBytes
  <1> HIDE DEF found, n
  <1>13. ReadBytes(it, n) = [ok |-> TRUE, it |-> IteratorAt(all, w.offset), bytes |-> bytes]
    BY <1>8, <1>11, <1>12
  <1> QED
    BY <1>13 DEF w, n, it, all, o

\* The bytes of a plain value, as many as its type has.
LEMMA PlainBytes ==
    ASSUME NEW n \in Nat, NEW size \in Nat \ {0}
    PROVE  /\ BytesOf(n, size) \in Seq(Nat) /\ Len(BytesOf(n, size)) = size
           /\ BytesOf(n, size)[1] = n % 256
           /\ size >= 2 => BytesOf(n, size)[2] = n \div 256
  <1>1. n % 256 \in Nat /\ n \div 256 \in Nat
    BY SMT
  <1> DEFINE x == n % 256
             y == n \div 256
             f == [i \in 1..size |-> CASE i = 1 -> x [] i = 2 -> y [] OTHER -> 0]
  <1>2. BytesOf(n, size) = f
    BY DEF BytesOf
  <1> HIDE DEF x, y
  <1>3. \A i \in 1..size : f[i] = IF i = 1 THEN x ELSE IF i = 2 THEN y ELSE 0
    BY SMT
  <1>4. f \in [1..size -> Nat]
    <2>1. x \in Nat /\ y \in Nat
      BY <1>1 DEF x, y
    <2>2. \A i \in 1..size : f[i] \in Nat
      <3> HIDE DEF f
      <3> QED
        BY <1>3, <2>1
    <2> QED
      BY <2>2
  <1> HIDE DEF f
  <1>5. f \in Seq(Nat) /\ Len(f) = size
    BY <1>4
  <1>6. f[1] = x /\ (size >= 2 => f[2] = y)
    BY <1>3
  <1> QED
    BY <1>2, <1>5, <1>6 DEF x, y

\* The sizes of the types.
LEMMA TypeSizes == \A type \in PODs : SizeOf[type] \in Nat \ {0}
  BY SMT DEF PODs, SizeOf

\* A pickle stays well formed whatever is written to it, and grows by what PickleSizer adds
\* up for the same values.
THEOREM WritesKeepForm ==
    ASSUME NEW p, WellFormed(p)
    PROVE  /\ \A type \in PODs, n \in Nat :
                WellFormed(WritePOD(p, type, n)) /\ WritePOD(p, type, n).offset = AddPOD(p.offset, type)
           /\ \A s \in Seq(Nat) :
                WellFormed(WriteString(p, s)) /\ WriteString(p, s).offset = AddString(p.offset, s)
           /\ \A n \in Nat :
                WellFormed(ClaimBytes(p, n)) /\ ClaimBytes(p, n).offset = AddBytes(p.offset, n)
  <1>1. ASSUME NEW q, WellFormed(q), NEW type \in PODs, NEW n \in Nat
        PROVE  WellFormed(WritePOD(q, type, n)) /\ WritePOD(q, type, n).offset = AddPOD(q.offset, type)
    <2>1. SizeOf[type] \in Nat \ {0}
      BY TypeSizes
    <2>2. BytesOf(n, SizeOf[type]) \in Seq(Nat) /\ Len(BytesOf(n, SizeOf[type])) = SizeOf[type]
      <3> DEFINE z == SizeOf[type]
      <3>1. z \in Nat \ {0}
        BY <2>1
      <3> HIDE DEF z
      <3>2. BytesOf(n, z) \in Seq(Nat) /\ Len(BytesOf(n, z)) = z
        BY <3>1, PlainBytes
      <3> QED
        BY <3>2 DEF z
    <2>3. AddBytes(q.offset, SizeOf[type]) = AddPOD(q.offset, type)
      BY DEF AddBytes, AddPOD
    <2>4. WritePOD(q, type, n) = WriteBytesCommon(q, BytesOf(n, SizeOf[type]))
      BY DEF WritePOD
    <2> QED
      BY <1>1, <2>2, <2>3, <2>4, WriteAppends
  <1>2. ASSUME NEW s \in Seq(Nat)
        PROVE  WellFormed(WriteString(p, s)) /\ WriteString(p, s).offset = AddString(p.offset, s)
    <2> DEFINE q == WritePOD(p, "int32", Len(s))
    <2>1. "int32" \in PODs /\ Len(s) \in Nat
      BY DEF PODs, SizeOf
    <2>2. WellFormed(q) /\ q.offset = AddPOD(p.offset, "int32")
      BY <1>1, <2>1
    <2>3. WriteString(p, s) = WriteBytesCommon(q, s)
      BY DEF WriteString, WriteBytes
    <2> HIDE DEF q
    <2>4. WellFormed(WriteBytesCommon(q, s)) /\ WriteBytesCommon(q, s).offset = AddBytes(q.offset, Len(s))
      BY <2>2, WriteAppends
    <2> QED
      BY <2>2, <2>3, <2>4 DEF AddString
  <1>3. ASSUME NEW n \in Nat
        PROVE  WellFormed(ClaimBytes(p, n)) /\ ClaimBytes(p, n).offset = AddBytes(p.offset, n)
    <2>1. Zeros(n) \in Seq(Nat) /\ Len(Zeros(n)) = n
      BY SMT DEF Zeros
    <2> QED
      BY <2>1, WriteAppends DEF ClaimBytes
  <1> QED
    BY <1>1, <1>2, <1>3

\* Reserve, the copy constructor and assignment change the room of a pickle, which stays
\* enough, and nothing of what it holds.
THEOREM CopiesKeepForm ==
    ASSUME NEW p, WellFormed(p)
    PROVE  /\ \A n \in Nat : WellFormed(Reserve(p, n)) /\ Reserve(p, n).payload = p.payload
           /\ WellFormed(CopyOf(p)) /\ CopyOf(p).payload = p.payload
           /\ \A q : WellFormed(q) => WellFormed(Assign(q, p)) /\ Assign(q, p).payload = p.payload
  <1> DEFINE Shape == [header : Nat, capacity : Nat, offset : Nat, payload : Seq(Nat)]
  <1>1. /\ p \in Shape /\ p.offset = Len(p.payload) /\ p.offset % 4 = 0 /\ p.offset <= p.capacity
        /\ p.offset \in Nat /\ p.capacity \in Nat
    BY DEF WellFormed
  <1>2. ASSUME NEW q \in Shape, NEW n \in Nat, q.payload = p.payload, q.offset = p.offset, n >= p.offset
        PROVE  WellFormed(Resize(q, n)) /\ Resize(q, n).payload = p.payload
    <2>1. /\ Resize(q, n) \in Shape /\ Resize(q, n).capacity >= n
          /\ Resize(q, n).offset = q.offset /\ Resize(q, n).payload = q.payload
      BY <1>2, ResizeRoom
    <2>2. Resize(q, n).capacity \in Nat
      BY <2>1
    <2>3. Resize(q, n).capacity >= p.offset
      BY <1>1, <1>2, <2>1, <2>2
    <2> QED
      BY <1>1, <1>2, <2>1, <2>2, <2>3 DEF WellFormed
  <1>3. ASSUME NEW n \in Nat
        PROVE  WellFormed(Reserve(p, n)) /\ Reserve(p, n).payload = p.payload
    <2> DEFINE new_size == p.offset + Align(n, 4)
               room == p.capacity * 2 + new_size
    <2>1. room \in Nat /\ room >= p.offset
      <3>1. Align(n, 4) \in Nat
        BY AlignBounds
      <3> QED
        BY <1>1, <3>1
    <2>2. Reserve(p, n) = IF new_size > p.capacity THEN Resize(p, room) ELSE p
      BY DEF Reserve
    <2> HIDE DEF room, new_size
    <2> QED
      BY <1>1, <1>2, <2>1, <2>2
  <1>4. ASSUME NEW c \in Nat
        PROVE  /\ WellFormed(Resize([p EXCEPT !.capacity = c], Len(p.payload)))
               /\ Resize([p EXCEPT !.capacity = c], Len(p.payload)).payload = p.payload
    <2> DEFINE q == [p EXCEPT !.capacity = c]
    <2>1. q \in Shape /\ q.payload = p.payload /\ q.offset = p.offset
      BY <1>1
    <2> HIDE DEF q
    <2>2. Len(p.payload) \in Nat /\ Len(p.payload) >= p.offset
      BY <1>1
    <2>3. WellFormed(Resize(q, Len(p.payload))) /\ Resize(q, Len(p.payload)).payload = p.payload
      BY <1>2, <2>1, <2>2
    <2> QED
      BY <2>3 DEF q
  <1>5. WellFormed(CopyOf(p)) /\ CopyOf(p).payload = p.payload
    BY <1>4 DEF CopyOf
  <1>6. ASSUME NEW q, WellFormed(q)
        PROVE  WellFormed(Assign(q, p)) /\ Assign(q, p).payload = p.payload
    <2>1. q.capacity \in Nat
      BY <1>6 DEF WellFormed
    <2> QED
      BY <1>4, <2>1 DEF Assign
  <1> QED
    BY <1>3, <1>5, <1>6

\* A pickle is well formed when it is made, with either constructor.
LEMMA NewPickleForm == WellFormed(NewPickle) /\ WellFormed(NewPickleWithHeader(6))
  <1> DEFINE e == [header |-> HeaderSize, capacity |-> 0, offset |-> 0, payload |-> <<>>]
             Shape == [header : Nat, capacity : Nat, offset : Nat, payload : Seq(Nat)]
  <1>1. e \in Shape /\ e.payload = <<>> /\ e.offset = 0 /\ kPayloadUnit \in Nat
    BY DEF HeaderSize, kPayloadUnit
  <1>2. NewPickle = Resize(e, kPayloadUnit)
    BY DEF NewPickle
  <1> HIDE DEF e
  <1>3. NewPickle \in Shape /\ NewPickle.offset = 0 /\ NewPickle.payload = <<>>
    BY <1>1, <1>2, ResizeRoom
  <1>4. Align(6, 4) \in Nat
    BY AlignBounds
  <1> DEFINE h == [NewPickle EXCEPT !.header = Align(6, 4)]
  <1>5. h \in Shape /\ h.offset = 0 /\ h.payload = <<>> /\ NewPickleWithHeader(6) = h
    BY <1>3, <1>4 DEF NewPickleWithHeader
  <1> HIDE DEF h
  <1>6. \A q \in Shape : q.offset = 0 /\ q.payload = <<>> => WellFormed(q)
    BY SMT DEF WellFormed
  <1> QED
    BY <1>3, <1>5, <1>6

\* The bytes of a length.
LEMMA LengthBytes ==
    ASSUME NEW n \in Nat
    PROVE  /\ BytesOf(n, 4) \in Seq(Nat) /\ Len(BytesOf(n, 4)) = 4
           /\ ValueIn(BytesOf(n, 4)) = n
  <1> DEFINE z == 4
             b == BytesOf(n, z)
  <1>1. z \in Nat \ {0} /\ z >= 2 /\ z > 1
    OBVIOUS
  <1> HIDE DEF z
  <1>2. b \in Seq(Nat) /\ Len(b) = z /\ b[1] = n % 256 /\ b[2] = n \div 256
    BY <1>1, PlainBytes
  <1> HIDE DEF b
  <1>3. ValueIn(b) = b[1] + 256 * b[2]
    BY <1>1, <1>2 DEF ValueIn
  <1>4. (n % 256) + 256 * (n \div 256) = n
    BY SMT
  <1> QED
    BY <1>2, <1>3, <1>4 DEF b, z

\* ReadString gives the string that WriteString wrote, its length taken from the pickle,
\* and goes on where the next value was written, however much was written after it.  The
\* length is one that the two bytes in which the model keeps a value hold.
THEOREM WrittenStringReadsBack ==
    ASSUME NEW p, WellFormed(p), NEW s \in Seq(Nat), Len(s) < 256 * 256, NEW later \in Seq(Nat)
    PROVE  ReadString(IteratorAt(WriteString(p, s).payload \o later, p.offset)) =
             [ok |-> TRUE, it |-> IteratorAt(WriteString(p, s).payload \o later, WriteString(p, s).offset),
              bytes |-> s]
  <1> DEFINE n == Len(s)
             b == BytesOf(n, 4)
             q == WriteBytesCommon(p, b)
             w == WriteBytesCommon(q, s)
             pad == Padded(s)
             more == pad \o later
             all == w.payload \o later
             it == IteratorAt(all, p.offset)
             next == IteratorAt(all, q.offset)
  <1>1. n \in Nat /\ SizeOf["int32"] = 4 /\ ReadSize("int32") = 4
    BY SMT DEF SizeOf, ReadSize
  <1>2. b \in Seq(Nat) /\ Len(b) = 4 /\ ValueIn(b) = n
    BY <1>1, LengthBytes
  <1>3. WriteString(p, s) = w
    BY <1>1 DEF WriteString, WriteBytes, WritePOD
  <1> HIDE DEF b, n
  <1>4. WellFormed(q)
    BY <1>2, WriteAppends
  <1>5. ReadBytes(IteratorAt(q.payload \o more, p.offset), 4) =
          [ok |-> TRUE, it |-> IteratorAt(q.payload \o more, q.offset), bytes |-> b]
    <2>1. more \in Seq(Nat)
      BY PaddedBytes, Concatenation
    <2> HIDE DEF more
    <2>2. ReadBytes(IteratorAt(WriteBytesCommon(p, b).payload \o more, p.offset), Len(b)) =
            [ok |-> TRUE, it |-> IteratorAt(WriteBytesCommon(p, b).payload \o more, WriteBytesCommon(p, b).offset),
             bytes |-> b]
      BY <1>2, <2>1, WrittenBytesReadBack
    <2> QED
      BY <1>2, <2>2
  <1> HIDE DEF q
  <1>6. q.payload \o more = all
    <2> DEFINE x == q.payload
    <2>1. pad \in Seq(Nat) /\ x \in Seq(Nat) /\ w.payload = x \o pad
      <3>1. w.payload = x \o pad
        BY <1>4, WriteAppends
      <3>2. x \in Seq(Nat)
        BY <1>4 DEF WellFormed
      <3> QED
        BY <3>1, <3>2, PaddedBytes
    <2> HIDE DEF x, pad, w
    <2>2. (x \o pad) \o later = x \o (pad \o later)
      BY ONLY <2>1, later \in Seq(Nat), Associates
    <2> QED
      BY <2>1, <2>2 DEF x
  <1>7. ReadBytes(next, Len(s)) = [ok |-> TRUE, it |-> IteratorAt(all, w.offset), bytes |-> s]
    BY <1>4, WrittenBytesReadBack
  <1> HIDE DEF w, all, more
  <1>8. ReadBytes(it, 4) = [ok |-> TRUE, it |-> next, bytes |-> b]
    BY <1>5, <1>6
  <1> HIDE DEF it, next
  <1>9. ReadBuiltinType(it, "int32") = [ok |-> TRUE, it |-> next, value |-> n]
    <2> DEFINE r == ReadBytes(it, ReadSize("int32"))
    <2>1. r = [ok |-> TRUE, it |-> next, bytes |-> b]
      BY <1>1, <1>8
    <2>2. ReadBuiltinType(it, "int32") = [ok |-> r.ok, it |-> r.it, value |-> IF r.ok THEN ValueIn(r.bytes) ELSE -1]
      BY DEF ReadBuiltinType
    <2> HIDE DEF r
    <2>3. r.ok = TRUE /\ r.it = next /\ r.bytes = b
      BY <2>1
    <2> QED
      BY <1>2, <2>2, <2>3
  <1>10. ReadString(it) = ReadBytes(next, n)
    BY <1>9 DEF ReadString
  <1> QED
    BY <1>3, <1>7, <1>10 DEF it, all, n

(* -------------------------------- numbers -------------------------------- *)

\* A table of digits has a number for every character.
LEMMA DigitValues == \A c \in 0..255 : kAsciiToInt[c] \in Nat
  BY SMT DEF kAsciiToInt, ascii_isdigit, ascii_isupper, ascii_islower

\* The multiplication does not overflow exactly if the value is within the quotient.
LEMMA QuotientTest ==
    ASSUME NEW v \in Nat, NEW base \in Nat \ {0}, NEW most \in Nat
    PROVE  v <= most \div base <=> v * base <= most
  <1> DEFINE q == most \div base
  <1>1. q \in Nat /\ base * q <= most /\ most < base * q + base
    BY DivBounds
  <1> HIDE DEF q
  <1>2. v * base = base * v /\ base * v \in Nat /\ base * q \in Nat
    BY <1>1, SMT
  <1>3. ASSUME v <= q PROVE base * v <= base * q
    <2>1. q - v \in Nat /\ base * (q - v) >= 0 /\ base * (q - v) = base * q - base * v
      BY <1>1, <1>3, SMT
    <2> QED
      BY <1>2, <2>1, SMT
  <1>4. ASSUME v > q PROVE base * v >= base * q + base
    <2>1. base * (v - q) >= base
      BY <1>1, <1>4, AtLeastOnce
    <2>2. base * (v - q) = base * v - base * q
      BY <1>1, SMT
    <2> QED
      BY <1>2, <2>1, <2>2, SMT
  <1>5. v <= q <=> v * base <= most
    BY <1>1, <1>2, <1>3, <1>4, SMT
  <1> QED
    BY <1>5 DEF q

\* safe_parse_positive_int, for every type, base, value and digit: the value takes the digit
\* up exactly if the type holds the longer number, else it is the greatest one; and the
\* product it is compared by is computed only where the type holds it too.
THEOREM PositiveStepExact ==
    ASSUME NEW T \in [least : Int, greatest : Nat], NEW base \in Nat \ {0}, NEW c \in 0..255,
           NEW v \in Nat, v <= T.greatest, kAsciiToInt[c] < base
    PROVE  /\ PositiveStep([ok |-> TRUE, value |-> v], c, base, T) =
                IF v * base + kAsciiToInt[c] <= T.greatest
                THEN [ok |-> TRUE, value |-> v * base + kAsciiToInt[c]]
                ELSE [ok |-> FALSE, value |-> T.greatest]
           /\ ~(v > T.greatest \div base) => v * base <= T.greatest
  <1> DEFINE most == T.greatest
             digit == kAsciiToInt[c]
             product == v * base
             r == [ok |-> TRUE, value |-> v]
             over == r.value > most \div base \/ r.value * base > most - digit
  <1>1. most \in Nat /\ digit \in Nat /\ product \in Nat /\ digit < base /\ most \div base \in Nat
    <2>1. most \in Nat /\ digit \in Nat
      BY DigitValues
    <2> QED
      BY <2>1, DivBounds, SMT
  <1>2. v <= most \div base <=> product <= most
    BY <1>1, QuotientTest
  <1>3. over <=> ~(product + digit <= most)
    <2>1. over <=> v > most \div base \/ product > most - digit
      OBVIOUS
    <2> HIDE DEF over, product, most, digit
    <2> DEFINE q == most \div base
    <2>2. q \in Nat /\ (v <= q <=> product <= most) /\ (over <=> v > q \/ product > most - digit)
      BY <1>1, <1>2, <2>1
    <2> HIDE DEF q
    <2> QED
      BY <1>1, <2>2, SMT
  <1>4. PositiveStep(r, c, base, T) =
          IF over THEN [ok |-> FALSE, value |-> most] ELSE [r EXCEPT !.value = @ * base + digit]
    <2>1. r.ok /\ digit < base /\ ~(digit >= base)
      BY <1>1
    <2> HIDE DEF r
    <2> QED
      BY <2>1 DEF PositiveStep
  <1>5. [r EXCEPT !.value = @ * base + digit] = [ok |-> TRUE, value |-> product + digit]
    <2> DEFINE next == product + digit
               yes == TRUE
    <2>1. r = [ok |-> yes, value |-> v] /\ r.value * base + digit = next
      OBVIOUS
    <2>2. next \in Int /\ v \in Int /\ r \in [ok : BOOLEAN, value : Int]
      BY <1>1
    <2> HIDE DEF next, product, digit, r, yes
    <2>3. [r EXCEPT !.value = next] = [ok |-> yes, value |-> next]
      BY ONLY <2>1, <2>2
    <2> QED
      BY <2>1, <2>3 DEF next, yes
  <1>6. PositiveStep(r, c, base, T) =
          IF product + digit <= most THEN [ok |-> TRUE, value |-> product + digit]
          ELSE [ok |-> FALSE, value |-> most]
    <2> HIDE DEF over, r, product, digit, most
    <2> QED
      BY <1>3, <1>4, <1>5
  <1>7. ~(v > most \div base) => product <= most
    BY <1>1, <1>2
  <1> QED
    BY <1>6, <1>7

\* safe_parse_negative_int, likewise: the least value on the other side.
THEOREM NegativeStepExact ==
    ASSUME NEW T \in [least : Int, greatest : Nat], T.least <= 0, NEW base \in Nat \ {0}, NEW c \in 0..255,
           NEW v \in Int, v <= 0, v >= T.least, kAsciiToInt[c] < base
    PROVE  /\ NegativeStep([ok |-> TRUE, value |-> v], c, base, T) =
                IF v * base - kAsciiToInt[c] >= T.least
                THEN [ok |-> TRUE, value |-> v * base - kAsciiToInt[c]]
                ELSE [ok |-> FALSE, value |-> T.least]
           /\ ~(v < -((-T.least) \div base)) => v * base >= T.least
  <1> DEFINE vmin == T.least
             digit == kAsciiToInt[c]
             product == v * base
             r == [ok |-> TRUE, value |-> v]
             vmin_over_base == -((-vmin) \div base)
             over == r.value < vmin_over_base \/ r.value * base < vmin + digit
  <1>1. /\ vmin \in Int /\ -vmin \in Nat /\ digit \in Nat /\ product \in Int /\ digit < base
        /\ (-vmin) \div base \in Nat /\ -v \in Nat /\ (-v) * base = -product
    <2>1. vmin \in Int /\ -vmin \in Nat /\ digit \in Nat
      <3>1. vmin \in Int /\ vmin <= 0
        OBVIOUS
      <3>2. digit \in Nat
        BY DigitValues
      <3> QED
        BY ONLY <3>1, <3>2
    <2>2. (-vmin) \div base \in Nat
      BY <2>1, DivBounds
    <2>3. -v \in Nat /\ (-v) * base = -product /\ product \in Int
      <3> HIDE DEF vmin
      <3>1. v \in Int /\ v <= 0 /\ base \in Nat
        OBVIOUS
      <3> QED
        BY ONLY <3>1, SMT
    <2> QED
      BY <2>1, <2>2, <2>3
  <1>2. -v <= (-vmin) \div base <=> -product <= -vmin
    <2> DEFINE n == -v
               most == -vmin
    <2>1. n \in Nat /\ most \in Nat /\ n * base = -product
      BY <1>1
    <2> HIDE DEF n, most
    <2>2. n <= most \div base <=> n * base <= most
      BY <2>1, QuotientTest
    <2> QED
      BY <2>1, <2>2 DEF n, most
  <1>3. over <=> ~(product - digit >= vmin)
    <2>1. over <=> v < vmin_over_base \/ product < vmin + digit
      OBVIOUS
    <2> DEFINE q == (-vmin) \div base
    <2>2. q \in Nat /\ vmin_over_base = -q /\ (-v <= q <=> -product <= -vmin)
      BY <1>1, <1>2
    <2> HIDE DEF over, product, vmin, digit, q, vmin_over_base
    <2> QED
      BY <1>1, <2>1, <2>2, SMT
  <1>4. NegativeStep(r, c, base, T) =
          IF over THEN [ok |-> FALSE, value |-> vmin] ELSE [r EXCEPT !.value = @ * base - digit]
    <2>1. r.ok /\ digit < base /\ ~(digit >= base)
      BY <1>1
    <2> HIDE DEF r
    <2> QED
      BY <2>1 DEF NegativeStep
  <1>5. [r EXCEPT !.value = @ * base - digit] = [ok |-> TRUE, value |-> product - digit]
    <2> DEFINE next == product - digit
               yes == TRUE
    <2>1. r = [ok |-> yes, value |-> v] /\ r.value * base - digit = next
      OBVIOUS
    <2>2. next \in Int /\ v \in Int /\ r \in [ok : BOOLEAN, value : Int]
      BY <1>1
    <2> HIDE DEF next, product, digit, r, yes
    <2>3. [r EXCEPT !.value = next] = [ok |-> yes, value |-> next]
      BY ONLY <2>1, <2>2
    <2> QED
      BY <2>1, <2>3 DEF next, yes
  <1>6. NegativeStep(r, c, base, T) =
          IF product - digit >= vmin THEN [ok |-> TRUE, value |-> product - digit]
          ELSE [ok |-> FALSE, value |-> vmin]
    <2> HIDE DEF over, r, product, digit, vmin
    <2> QED
      BY <1>3, <1>4, <1>5
  <1>7. ~(v < vmin_over_base) => product >= vmin
    <2> DEFINE q == (-vmin) \div base
    <2>1. q \in Nat /\ vmin_over_base = -q /\ (-v <= q <=> -product <= -vmin)
      BY <1>1, <1>2
    <2> HIDE DEF product, vmin, q, vmin_over_base
    <2> QED
      BY <1>1, <2>1, SMT
  <1> QED
    BY <1>6, <1>7
=============================================================================
