------------------------------- MODULE Numbers -------------------------------
(* base/numbers: numbers read from text.  An integer type is its least and    *)
(* greatest value; Int32 and Int64 stand for the narrow and the wide one, with *)
(* few enough bits that short texts overflow them.  A double is an integer    *)
(* number of thousandths; exponents, hexadecimal floats, inf and nan, which   *)
(* strtod also reads, are left out.                                           *)
EXTENDS AsciiText

Signed(bits) == [least |-> -(2 ^ (bits - 1)), greatest |-> 2 ^ (bits - 1) - 1]
Unsigned(bits) == [least |-> 0, greatest |-> 2 ^ bits - 1]
Int32 == Signed(7)
UInt32 == Unsigned(7)
Int64 == Signed(9)
UInt64 == Unsigned(9)
Width(T) == T.greatest - T.least + 1
\* static_cast to T: the value modulo the width of T.
CastTo(T, n) == T.least + ((n - T.least) % Width(T))
Clamp(T, n) == CASE n < T.least -> T.least [] n > T.greatest -> T.greatest [] OTHER -> n

kAsciiToInt ==
  [c \in 0..255 |-> CASE ascii_isdigit(c) -> c - 48
                      [] ascii_isupper(c) -> c - 55
                      [] ascii_islower(c) -> c - 87
                      [] OTHER -> 36]

(* ------------------------- the safe_strto* family ------------------------- *)

IsSpaceAt(s, i) == ascii_isspace(At(s, i))
HexPrefixAt(s, i) == i + 1 < Len(s) /\ At(s, i) = Zero /\ At(s, i + 1) \in {88, 120}

\* safe_parse_sign_and_base: the text without blanks, sign and prefix.
safe_parse_sign_and_base(s, base) ==
  LET start == SmallestOr({i \in Positions(s) : ~IsSpaceAt(s, i)}, Len(s))
      end   == LargestOr({i \in Positions(s) : ~IsSpaceAt(s, i)}, start - 1) + 1
      core  == SubSeq(s, start + 1, end)
      sign  == core # <<>> /\ core[1] \in {Minus, Plus}
      body  == IF sign THEN remove_prefix(core, 1) ELSE core
      hex   == base \in {0, 16} /\ HexPrefixAt(body, 0)
      octal == base = 0 /\ ~hex /\ body # <<>> /\ body[1] = Zero
  IN [ok       |-> /\ body # <<>>
                   /\ hex => Len(body) > 2
                   /\ base = 0 \/ base \in 2..36,
      negative |-> core # <<>> /\ core[1] = Minus,
      text     |-> IF hex THEN remove_prefix(body, 2)
                   ELSE IF octal THEN remove_prefix(body, 1) ELSE body,
      base     |-> CASE hex -> 16 [] octal -> 8 [] base = 0 /\ ~hex /\ ~octal -> 10 [] OTHER -> base]

\* One turn of the loop of safe_parse_positive_int: the next digit, if the value holds it.
PositiveStep(r, c, base, T) ==
  LET digit == kAsciiToInt[c] IN
  CASE ~r.ok -> r
    [] r.ok /\ digit >= base -> [r EXCEPT !.ok = FALSE]
    [] r.ok /\ digit < base /\ (r.value > T.greatest \div base \/ r.value * base > T.greatest - digit) ->
         [ok |-> FALSE, value |-> T.greatest]
    [] OTHER -> [r EXCEPT !.value = @ * base + digit]
safe_parse_positive_int(s, base, T) ==
  FoldLeft(LAMBDA r, c : PositiveStep(r, c, base, T), [ok |-> TRUE, value |-> 0], s)

\* Faulty variant: only the multiplication is checked for overflow, not the subtraction.
ParseNegativeUnchecked(s, base, T) ==
  FoldLeft(LAMBDA r, c : CASE ~r.ok -> r
                           [] r.ok /\ kAsciiToInt[c] >= base -> [r EXCEPT !.ok = FALSE]
                           [] r.ok /\ kAsciiToInt[c] < base /\ r.value * base < T.least ->
                                [ok |-> FALSE, value |-> T.least]
                           [] OTHER -> [r EXCEPT !.value = @ * base - kAsciiToInt[c]],
           [ok |-> TRUE, value |-> 0], s)

\* And of safe_parse_negative_int: vmin / base truncates towards zero.
NegativeStep(r, c, base, T) ==
  LET digit == kAsciiToInt[c]
      vmin_over_base == -((-T.least) \div base)
  IN CASE ~r.ok -> r
       [] r.ok /\ digit >= base -> [r EXCEPT !.ok = FALSE]
       [] r.ok /\ digit < base /\ (r.value < vmin_over_base \/ r.value * base < T.least + digit) ->
            [ok |-> FALSE, value |-> T.least]
       [] OTHER -> [r EXCEPT !.value = @ * base - digit]
safe_parse_negative_int(s, base, T) ==
  FoldLeft(LAMBDA r, c : NegativeStep(r, c, base, T), [ok |-> TRUE, value |-> 0], s)

safe_int_internal(s, T, base) ==
  LET h == safe_parse_sign_and_base(s, base) IN
  CASE ~h.ok -> [ok |-> FALSE, value |-> 0]
    [] h.ok /\ h.negative -> safe_parse_negative_int(h.text, h.base, T)
    [] OTHER -> safe_parse_positive_int(h.text, h.base, T)

safe_uint_internal(s, T, base) ==
  LET h == safe_parse_sign_and_base(s, base) IN
  IF ~h.ok \/ h.negative THEN [ok |-> FALSE, value |-> 0]
  ELSE safe_parse_positive_int(h.text, h.base, T)

safe_strto32_base(s, base) == safe_int_internal(s, Int32, base)
safe_strto64_base(s, base) == safe_int_internal(s, Int64, base)
safe_strtou32_base(s, base) == safe_uint_internal(s, UInt32, base)
safe_strtou64_base(s, base) == safe_uint_internal(s, UInt64, base)

\* safe_strto32(text) and its overloads read decimal, from a C string up to its NUL.
safe_strto(s, T) ==
  IF T.least < 0 THEN safe_int_internal(s, T, 10) ELSE safe_uint_internal(s, T, 10)

\* StringAsValue<T> parses the 32-bit or the 64-bit type and casts to T.
StringAsValue(s, T) ==
  LET wide == IF T.least < 0 THEN (IF T.greatest <= Int32.greatest THEN Int32 ELSE Int64)
              ELSE (IF T.greatest <= UInt32.greatest THEN UInt32 ELSE UInt64)
      r == safe_strto(s, wide)
  IN [ok |-> r.ok, value |-> CastTo(T, r.value)]

(* -------------------- strtol and the functions over it -------------------- *)

\* The C library's strtol, strtoul: value before the range is applied, and length.
strtol(s, base) ==
  LET start == SmallestOr({i \in Positions(s) : ~IsSpaceAt(s, i)}, Len(s))
      sign  == start < Len(s) /\ At(s, start) \in {Minus, Plus}
      at    == IF sign THEN start + 1 ELSE start
      hex   == base \in {0, 16} /\ HexPrefixAt(s, at) /\ at + 2 < Len(s) /\ kAsciiToInt[At(s, at + 2)] < 16
      b     == CASE hex -> 16
                 [] base = 0 /\ ~hex -> IF at < Len(s) /\ At(s, at) = Zero THEN 8 ELSE 10
                 [] OTHER -> base
      from  == IF hex THEN at + 2 ELSE at
      end   == SmallestOr({i \in from..Len(s) - 1 : kAsciiToInt[At(s, i)] >= b}, Len(s))
      size  == FoldLeft(LAMBDA n, c : n * b + kAsciiToInt[c], 0, SubSeq(s, from + 1, end))
  IN IF end <= from THEN [used |-> 0, value |-> 0]
     ELSE [used |-> end, value |-> IF sign /\ At(s, start) = Minus THEN -size ELSE size]

\* strtoul applies a minus sign modulo the width; a size that does not fit is the maximum.
strtoul(s, base, T) ==
  LET r == strtol(s, base)
  IN [r EXCEPT !.value = IF @ > T.greatest \/ -@ > T.greatest THEN T.greatest ELSE CastTo(T, @)]

\* Both adapters clamp what the 64-bit function returned and set errno.
strto32_adapter(s, base) ==
  LET r == strtol(s, base) IN
  [used |-> r.used, value |-> Clamp(Int32, Clamp(Int64, r.value)), erange |-> r.value # Clamp(Int32, r.value)]
strtou32_adapter(s, base) ==
  LET r == strtoul(s, base, UInt64) IN
  [used |-> r.used, value |-> Clamp(UInt32, r.value),
   erange |-> r.value # Clamp(UInt32, r.value)]

ParseLeadingInt32Value(s, deflt) ==
  LET r == strtol(s, 0) IN IF r.used = 0 THEN deflt ELSE Clamp(Int32, Clamp(Int64, r.value))
ParseLeadingDec32Value(s, deflt) ==
  LET r == strtol(s, 10) IN IF r.used = 0 THEN deflt ELSE Clamp(Int32, Clamp(Int64, r.value))

\* long has 64 bits: below -max and above max the maximum, else a cast.
LeadingUnsigned(s, base, deflt) ==
  LET r == strtol(s, base)
      v == Clamp(Int64, r.value)
  IN CASE r.used = 0 -> deflt
       [] r.used > 0 /\ (v > UInt32.greatest \/ v < -UInt32.greatest) -> UInt32.greatest
       [] OTHER -> CastTo(UInt32, v)
ParseLeadingUInt32Value(s, deflt) == LeadingUnsigned(s, 0, deflt)
ParseLeadingUDec32Value(s, deflt) == LeadingUnsigned(s, 10, deflt)

\* The six 64-bit readers: the function's base, and the type its strto* fills.
ParseLeading64Value(s, base, T, deflt) ==
  LET r == strtol(s, base) IN
  CASE r.used = 0 -> deflt
    [] r.used > 0 /\ T = Int64 -> Clamp(Int64, r.value)
    [] OTHER -> strtoul(s, base, T).value

\* At most five letters or digits, in lower case, name a truth value.
ParseLeadingBoolValue(s, deflt) ==
  LET start == SmallestOr({i \in Positions(s) : ~IsSpaceAt(s, i)}, Len(s))
      end   == SmallestOr({i \in start..Len(s) - 1 : ~ascii_isalnum(At(s, i))}, Len(s))
      word  == LowerASCII(SubSeq(s, start + 1, end))
  IN CASE word \in {<<48>>, <<110>>, <<110, 111>>, <<102, 97, 108, 115, 101>>} -> FALSE
       [] word \in {<<49>>, <<121>>, <<121, 101, 115>>, <<116, 114, 117, 101>>} -> TRUE
       [] OTHER -> deflt

ConsumeStrayLeadingZeroes(s) ==
  IF Len(s) > 1 /\ s[1] = Zero
  THEN remove_prefix(s, SmallestOr({i \in Positions(s) : At(s, i) # Zero}, Len(s) - 1))
  ELSE s

(* -------------------------- doubles and ranges -------------------------- *)

Thousandths == 1000
Unbounded == 1000000   \* HUGE_VAL

DigitsEnd(s, i) == SmallestOr({j \in i..Len(s) - 1 : ~ascii_isdigit(At(s, j))}, Len(s))
DecimalOf(digits) == FoldLeft(LAMBDA n, c : n * 10 + (c - 48), 0, digits)

\* The C library's strtod on a decimal text with at most three places.
strtod(s) ==
  LET at   == IF s # <<>> /\ s[1] \in {Plus, Minus} THEN 1 ELSE 0
      dot  == DigitsEnd(s, at)
      end  == IF dot < Len(s) /\ At(s, dot) = Dot THEN DigitsEnd(s, dot + 1) ELSE dot
      frac == IF end > dot THEN end - dot - 1 ELSE 0
      size == DecimalOf(SubSeq(s, at + 1, dot)) * Thousandths
              + DecimalOf(SubSeq(s, dot + 2, end)) * 10 ^ (3 - frac)
  IN IF dot = at /\ frac = 0 THEN [used |-> 0, value |-> 0]
     ELSE [used |-> end, value |-> IF s[1] = Minus THEN -size ELSE size]

\* The rest of the text must be blank; strtod without digits leaves it unread.
safe_strtod(s) ==
  LET r == strtod(s) IN
  [value |-> r.value,
   ok |-> s # <<>> /\ r.used > 0 /\ \A i \in r.used..Len(s) - 1 : IsSpaceAt(s, i)]

ParseLeadingDoubleValue(s, deflt) ==
  LET r == strtod(s) IN IF r.used = 0 THEN deflt ELSE r.value

\* EatADouble at position at: what it sets and where the text goes on.
EatADouble(s, at, question, checkMinus, checkPeriod, old) ==
  LET minus == checkMinus /\ at < Len(s) /\ At(s, at) = Minus
      pos   == IF minus THEN at + 1 ELSE at
      r     == strtod(remove_prefix(s, pos))
      dot   == checkPeriod /\ r.used > 0 /\ At(s, pos + r.used - 1) = Dot
  IN CASE at >= Len(s) -> [seen |-> FALSE, at |-> at, val |-> old, minus |-> FALSE, period |-> FALSE]
       [] at < Len(s) /\ question /\ At(s, at) = Question ->
            [seen |-> TRUE, at |-> at + 1, val |-> old, minus |-> FALSE, period |-> FALSE]
       [] at < Len(s) /\ ~(question /\ At(s, at) = Question) /\ r.used = 0 ->
            [seen |-> FALSE, at |-> at, val |-> old, minus |-> minus, period |-> FALSE]
       [] OTHER -> [seen |-> TRUE, at |-> pos + r.used - (IF dot THEN 1 ELSE 0),
                    val |-> r.value, minus |-> minus, period |-> dot]

\* EatAChar: does one of the characters come next?
EatAChar(s, at, chars) == at < Len(s) /\ At(s, at) \in chars
Skip(s, at, chars) == IF EatAChar(s, at, chars) THEN at + 1 ELSE at
Terminated(s, at, opts) ==
  IF at >= Len(s) THEN opts.null_terminator_ok ELSE At(s, at) \in opts.acceptable_terminators

\* The branch for "<10", ">=$5": one bound, the other stays.
ParseComparator(s, opts, init) ==
  LET at1 == Skip(s, 1, {61})
      at2 == IF opts.allow_currency THEN Skip(s, at1, {Dollar}) ELSE at1
      up  == s[1] = 62
      d   == EatADouble(s, at2, opts.allow_unbounded_markers, FALSE, FALSE, IF up THEN init.from ELSE init.to)
  IN [ok |-> d.seen /\ Terminated(s, d.at, opts), end |-> IF d.seen THEN d.at ELSE -1,
      currency |-> at2 > at1,
      from |-> IF up THEN d.val ELSE init.from, to |-> IF up THEN init.to ELSE d.val]

\* The separator after the first bound; a lone "." is none and is given back.
EatSeparator(s, at, opts, period) ==
  CASE ~EatAChar(s, at, opts.separators) -> [seen |-> FALSE, at |-> at]
    [] EatAChar(s, at, opts.separators) /\ At(s, at) # Dot -> [seen |-> TRUE, at |-> at + 1]
    [] EatAChar(s, at, opts.separators \cap {Dot}) /\ EatAChar(s, at + 1, {Dot}) ->
         [seen |-> TRUE, at |-> IF period THEN Skip(s, at + 2, {Dot}) ELSE at + 2]
    [] OTHER -> LET pair == EatAChar(s, at + 1, opts.separators)
                IN [seen |-> pair, at |-> IF pair THEN at + 2 ELSE at]

ParseDoubleRange(s, opts, from0, to0) ==
  LET init == IF opts.dont_modify_unbounded THEN [from |-> from0, to |-> to0]
              ELSE [from |-> -Unbounded, to |-> Unbounded]
      dollar == opts.allow_currency /\ EatAChar(s, 0, {Dollar})
      d1  == EatADouble(s, IF dollar THEN 1 ELSE 0, opts.allow_unbounded_markers,
                        Minus \in opts.separators /\ ~dollar /\ opts.num_required_bounds < 2,
                        Dot \in opts.separators, init.from)
      \* a currency sign without a number is given back
      at1 == IF dollar /\ ~d1.seen THEN 0 ELSE d1.at
      sep == EatSeparator(s, at1, opts, d1.period)
      flip == d1.minus /\ d1.seen
      \* no separator: one bound, an upper one after a minus sign
      atOne == IF d1.period THEN Skip(s, sep.at, {Dot}) ELSE sep.at
      oneOk == flip \/ ~(opts.require_separator \/ (opts.num_required_bounds > 0 /\ ~d1.seen)
                         \/ opts.num_required_bounds > 1)
      \* a separator: a second bound may follow
      dollar2 == ((dollar /\ d1.seen) \/ (opts.allow_currency /\ ~d1.seen)) /\ EatAChar(s, sep.at, {Dollar})
      d2  == EatADouble(s, IF dollar2 THEN sep.at + 1 ELSE sep.at, opts.allow_unbounded_markers,
                        FALSE, FALSE, init.to)
      atTwo == IF dollar2 /\ ~d2.seen THEN sep.at ELSE d2.at
      bounds == (IF d1.seen THEN 1 ELSE 0) + (IF d2.seen THEN 1 ELSE 0)
      early == opts.num_required_bounds = 2 /\ ~d1.seen
      ok  == /\ ~early
             /\ IF sep.seen THEN opts.num_required_bounds <= bounds ELSE oneOk
      at  == IF sep.seen THEN atTwo ELSE atOne
      \* a "." that terminates is given back
      end == IF EatAChar(s, at, {Dot} \cap opts.acceptable_terminators) THEN at - 1 ELSE at
  IN IF opts.allow_comparators /\ EatAChar(s, 0, {60, 62})
     THEN ParseComparator(s, opts, init)
     ELSE [ok |-> ok /\ Terminated(s, at, opts), end |-> IF ok THEN end ELSE -1,
           currency |-> ok /\ ((dollar /\ d1.seen) \/ (sep.seen /\ dollar2 /\ d2.seen)),
           from |-> CASE ~sep.seen /\ flip -> IF opts.dont_modify_unbounded THEN from0 ELSE -Unbounded
                      [] sep.seen /\ flip -> -d1.val
                      [] OTHER -> d1.val,
           to   |-> CASE ~sep.seen /\ flip -> d1.val
                      [] sep.seen /\ ~early -> d2.val
                      [] OTHER -> init.to]
=============================================================================
