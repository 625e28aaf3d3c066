------------------------------- MODULE Codecs -------------------------------
(* The conversions of base/ and the connection string parser, called with     *)
(* every short input.  A subject is what the input is taken for; the input is *)
(* a word that grows by one character or one call at a time.  The properties  *)
(* compare functions with their inverse, with an overload or a second parser  *)
(* for the same thing, or with what the text means.                           *)
EXTENDS Numbers, ConnectionStrings, FilePaths, Pickles, Times

CONSTANTS
    Alphabet,   \* for each subject, the characters (or calls) of its words
    MaxLen      \* for each subject, the length of its longest words

\* Words about times are digits to base 7, and the instants they stand for have a time_t.
ASSUME WordsAssumption ==
    /\ "time" \in DOMAIN Alphabet => Alphabet["time"] \subseteq 0..6
    /\ 1800 < TimeMax - kTimeTToMicrosecondsOffset

VARIABLES subject, word
vars == <<subject, word>>

Init == subject \in DOMAIN Alphabet /\ word = <<>>
Extend(c) ==
    /\ Len(word) < MaxLen[subject]
    /\ word' = Append(word, c)
    /\ UNCHANGED subject
Next == \E c \in Alphabet[subject] : Extend(c)
Spec == Init /\ [][Next]_vars

Heads == {SubSeq(word, 1, i) : i \in 0..Len(word)}
Rest(s) == remove_prefix(word, Len(s))

(* --------------------------------- texts --------------------------------- *)

Sides == SUBSET {"leading", "trailing"}
BlankSets == {<<Space>>, <<Space, 97>>, <<>>}

\* The two overloads of TrimString, one on string with its early returns, one on
\* StringPiece whose positions wrap around, cut the same characters.
TrimsAgree ==
    \A ends \in Sides, blanks \in BlankSets :
        blanks # <<>> \/ ends = {} =>
            TrimStringT(word, blanks, ends).text = TrimStringPieceT(word, blanks, ends)

\* Searching from the end finds what searching the reversed text finds.
Mirror(i) == IF i = npos THEN npos ELSE Len(word) - 1 - i
SearchesMirror ==
    \A s \in Heads :
        /\ find_last_of(word, s, npos) = Mirror(find_first_of(Reverse(word), s, 0))
        /\ find_last_not_of(word, s, npos) = Mirror(find_first_not_of(Reverse(word), s, 0))
        /\ find(word, Rest(s), 0) <= Len(s)
        /\ rfind(word, s, npos) # npos
        /\ ends_with(word, Rest(s)) /\ starts_with(word, s)
        /\ remove_suffix(word, Len(Rest(s))) = substr(word, 0, Len(s))

\* The order of signed chars is that of the codes with the sign bit turned over.
SignTurned(s) == [i \in DOMAIN s |-> (s[i] + 128) % 256]
IsAscii(s) == \A i \in DOMAIN s : s[i] < 128

\* The orders agree: operator<, compare and == on both sides of every split.  The
\* comparison without case finds the same texts equal as the comparison of the lower-case
\* texts, but orders them by signed chars: as compare does on ASCII only.
OrdersAgree ==
    \A s \in Heads :
        LET t == Rest(s) IN
        /\ PieceLess(s, t) <=> compare(s, t) = -1
        /\ PieceLess(t, s) <=> compare(s, t) = 1
        /\ PieceEq(s, t) <=> s = t
        /\ CompareCaseInsensitiveASCII(s, t) = compare(SignTurned(LowerASCII(s)), SignTurned(LowerASCII(t)))
        /\ IsAscii(word) => CompareCaseInsensitiveASCII(s, t) = compare(LowerASCII(s), LowerASCII(t))
        /\ \A i \in DOMAIN s : ascii_tolower(ascii_toupper(s[i])) = LowerASCII(s)[i]
        /\ LowerCaseEqualsASCII(s, LowerASCII(t)) <=> CompareCaseInsensitiveASCII(s, t) = 0
        /\ StartsWith(s, t, FALSE) <=> EndsWith(Reverse(s), Reverse(t), FALSE)
        /\ copy(word, Len(word), Len(s)) = substr(word, Len(s), npos)

\* ConnectionInfo::Init gives back a value that was quoted, with its quotes doubled,
\* whatever characters it has, and reads the property that follows; a value without
\* quotes comes back without the blanks around it.
Doubled(v) == FoldLeft(LAMBDA s, c : IF c = Quote THEN s \o <<c, c>> ELSE Append(s, c), <<>>, v)
Driver == <<109, Colon>>
KeyIs == <<107, Equal>>
Another == <<Semicolon, 97, Equal, 98>>
TwoProperties(v) ==
    [ok |-> TRUE, driver |-> <<109>>, properties |-> (<<107>> :> v) @@ (<<97>> :> <<98>>)]
ConnectionInfoReadsBack ==
    /\ LET info == ParseConnection(Driver \o KeyIs \o <<Quote>> \o Doubled(word) \o <<Quote>> \o Another)
       IN /\ info = TwoProperties(word)
          /\ GetProperty(info, <<107>>, <<>>) = word /\ GetProperty(info, <<107, 107>>, Driver) = Driver
    /\ Semicolon \notin BuildLookupTable(word) /\ (TrimString(word) = <<>> \/ TrimString(word)[1] # Quote) =>
         ParseConnection(Driver \o KeyIs \o word \o Another) = TwoProperties(TrimString(word))

\* Every text operation agrees with its counterpart.
TextsAgree ==
    /\ subject = "text" => TrimsAgree /\ SearchesMirror /\ OrdersAgree
    /\ subject = "connection" => ConnectionInfoReadsBack

(* -------------------------------- numbers -------------------------------- *)

Types == {Int32, Int64, UInt32, UInt64}
IsDigits(s, base) == s # <<>> /\ \A i \in DOMAIN s : kAsciiToInt[s[i]] < base
Digits(s, base) == FoldLeft(LAMBDA n, c : n * base + kAsciiToInt[c], 0, s)
Core(s) == TrimStringT(s, <<Space>>, {"leading", "trailing"}).text
Unsign(s) == IF s # <<>> /\ s[1] \in {Minus, Plus} THEN remove_prefix(s, 1) ELSE s
Meaning(s) == (IF s[1] = Minus THEN -1 ELSE 1) * Digits(Unsign(s), 10)

\* safe_strto* accept a text exactly if it is a decimal number that the type holds; of
\* a number too large or too small they leave the nearest value (unsigned: no minus).
\* StringAsValue into a type narrower than what it parses does not refuse what does not
\* fit: it reports success and sets the number modulo the type's width.
Narrow == [least |-> -2, greatest |-> 1]
NarrowExact(w, U, parsed) ==
    LET v == StringAsValue(w, U) IN
    /\ v.ok <=> safe_strto(w, parsed).ok
    /\ v.ok => v.value \in U.least..U.greatest /\ (v.value - Meaning(Core(w))) % Width(U) = 0
    /\ safe_strto(w, U).ok <=> v.ok /\ v.value = Meaning(Core(w))
DecimalExact(w) ==
    \A T \in Types :
        LET r == safe_strto(w, T)
            number == IsDigits(Unsign(Core(w)), 10)
                      /\ (T.least = 0 => Core(w)[1] # Minus)
        IN /\ r.ok <=> number /\ Meaning(Core(w)) = Clamp(T, Meaning(Core(w)))
           /\ number => r.value = Clamp(T, Meaning(Core(w)))
           /\ NarrowExact(w, T, T) /\ NarrowExact(w, Narrow, Int32)

\* What safe_strto*_base accepts, in any base, strtol reads completely and alike, so the
\* ParseLeading* functions return it; stray leading zeroes change nothing.
ParsersAgree(w) ==
    /\ \A base \in {0, 8, 10, 16} :
        LET r == safe_strto32_base(w, base)
            u == safe_strtou32_base(w, base)
            v == safe_strto64_base(w, base)
        IN /\ r.ok => strto32_adapter(w, base).value = r.value /\ ~strto32_adapter(w, base).erange
           /\ r.ok => v = r
           /\ u.ok => strtou32_adapter(w, base).value = u.value /\ safe_strtou64_base(w, base) = u
           /\ r.ok /\ base = 0 => ParseLeadingInt32Value(w, 99) = r.value
           /\ r.ok /\ base = 10 => ParseLeadingDec32Value(w, 99) = r.value
           /\ u.ok /\ base = 0 => ParseLeadingUInt32Value(w, 99) = u.value
           /\ u.ok /\ base = 10 => ParseLeadingUDec32Value(w, 99) = u.value
           /\ v.ok => ParseLeading64Value(w, base, Int64, 99) = v.value
    /\ IsDigits(w, 10) =>
         safe_strto(ConsumeStrayLeadingZeroes(w), Int64) = safe_strto(w, Int64)
    /\ safe_strto(w, Int32).ok /\ safe_strto(w, Int32).value \in {0, 1} /\ Len(w) = 1 =>
         ParseLeadingBoolValue(w, FALSE) = (safe_strto(w, Int32).value = 1)

Opt(separators, terminators, required, comparators) ==
    [separators |-> separators, acceptable_terminators |-> terminators, num_required_bounds |-> required,
     allow_comparators |-> comparators, null_terminator_ok |-> TRUE, allow_unbounded_markers |-> TRUE,
     require_separator |-> FALSE, dont_modify_unbounded |-> FALSE, allow_currency |-> TRUE]
RangeOptions == {Opt({Minus}, {}, 0, TRUE), Opt({Minus}, {Space}, 1, TRUE), Opt({Dot}, {}, 1, FALSE),
                 Opt({Minus, Dot}, {Space}, 2, FALSE), Opt({Minus}, {Dot}, 0, FALSE)}

\* A range that ParseDoubleRange accepts ends within the text, and the part of the text
\* up to there, read alone, is the same range.  Where a dot terminates it the code puts
\* *end one character too early, before the text if that is empty (numbers.cc:236).
RangeEndsInText(w) ==
    \A opts \in RangeOptions :
        LET r == ParseDoubleRange(w, opts, 0, 0)
            end == IF Dot \in opts.acceptable_terminators /\ r.end + 1 < Len(w) THEN r.end + 1 ELSE r.end
        IN r.ok => /\ end \in 0..Len(w)
                   /\ LET s == ParseDoubleRange(SubSeq(w, 1, end), opts, 0, 0)
                      IN s.ok /\ s.from = r.from /\ s.to = r.to
                   /\ end # r.end => At(w, end) = Dot
\* Two numbers with a minus sign between them are read as these two bounds.
RangeHasItsBounds(w) ==
    \A n \in 0..Len(w) :
        LET s == SubSeq(w, 1, n)
            t == remove_prefix(w, n)
            r == ParseDoubleRange(s \o <<Minus>> \o t, Opt({Minus}, {}, 2, FALSE), 0, 0)
            IsPlain(d) == safe_strtod(d).ok /\ d[1] \notin {Minus, Plus, Space} /\ d[Len(d)] # Space
        IN IsPlain(s) /\ IsPlain(t) =>
             r.ok /\ r.from = safe_strtod(s).value /\ r.to = safe_strtod(t).value
             /\ ParseLeadingDoubleValue(w, 0) = strtod(w).value

\* base/numbers: text to number conversions are exact and agree with one another, for every
\* word that a call is made with; safe_strto* refuse what they cannot hold (StringAsValue
\* cuts it off).
NumbersExact ==
    [][\A w \in {word'} :
         /\ subject = "number" => DecimalExact(w) /\ ParsersAgree(w)
         /\ subject = "range" => RangeEndsInText(w) /\ RangeHasItsBounds(w)]_vars

(* --------------------------------- paths --------------------------------- *)

\* The components that are not ".": GetComponents gives one for "./" and none for ".".
Named(p) == SelectSeq(GetComponents(p), LAMBDA c : c # kCurrentDirectory)

\* DirName and BaseName split a path so that Append joins it again.
SplitsAndJoins ==
    LET dir == DirName(word) IN
    /\ Named(AppendPath(dir, IF IsPathAbsolute(BaseName(word)) THEN <<>> ELSE BaseName(word))) = Named(word)
    /\ IsPathAbsolute(dir) <=> IsPathAbsolute(word)
    /\ ReferencesParent(word) <=> find(<<Slash>> \o word \o <<Slash>>, <<Slash, Dot, Dot, Slash>>, 0) # npos
    /\ IsPathAbsolute(word) /\ ~AreAllSeparators(word) => IsParent(dir, word)
    /\ IsParent(dir, word) =>
         Named(AppendRelativePath(dir, word, dir)) = Named(word)

\* The handlers call ReplaceExtension(".info"): the result is in the same directory, has
\* that extension and, but for the extension, the same name.
ExtensionReplaced ==
    LET new == ReplaceExtension(word, <<Dot, 97>>) IN
    ~HasNoExtension(word) /\ LastSeparator(word) # Len(word) - 1 =>
        /\ DirName(new) = DirName(word)
        /\ MatchesExtension(new, <<Dot, 65>>)
        /\ RemoveExtension(word) \o Extension(word) = word
        /\ 122 \notin BuildLookupTable(word) =>
             Extension(InsertBeforeExtension(word, <<97>>)) = Extension(word)

\* base/file_path: taking a path apart and putting it together gives the same path.
PathsRecompose == subject = "path" => SplitsAndJoins /\ ExtensionReplaced

(* ------------------------------- encodings ------------------------------- *)

\* A word as a number, its characters being digits of the base.
Number(base) == FoldLeft(LAMBDA n, c : (n * base + c) % 4194304, 0, word)

\* UTF8Decode reads back the value that UTF8Encode wrote and uses all its bytes; four
\* bytes of room are enough for every value.
CodeReadsBack(room, value) ==
    LET e == UTF8Encode(room, value) IN
    /\ Len(e) <= room
    /\ room = 4 => e # <<>>
    /\ e # <<>> => UTF8Decode(e) = [used |-> Len(e), value |-> value]
\* UTF8Decode uses no more bytes than there are, and encoding what it found gives these
\* bytes, unless they are longer than the value needs.
Least == <<0, 128, 2048, 65536>>
TextWritesBack(s) ==
    LET d == UTF8Decode(s) IN
    /\ d.used <= Len(s)
    /\ d.used > 0 /\ d.value >= Least[d.used] => UTF8Encode(4, d.value) = SubSeq(s, 1, d.used)

\* HexDecode inverts HexEncode, with and without delimiter, and so do the two of UTF-8.
EncodingsInvert ==
    /\ word # <<>> => HexDecode(HexEncode(word, 0)) = word
    /\ word # <<>> => HexDecodeWithDelimiter(Len(word), HexEncode(word, Colon), Colon) = word
    /\ word # <<>> => TextWritesBack(word)
    /\ \A room \in 1..4 : CodeReadsBack(room, Number(256) % 2097152)
    /\ LET n == (Number(256) % 65536) + 1
       IN 2 ^ Log2Floor(n) <= n /\ n < 2 ^ (Log2Floor(n) + 1) /\ n \in (2 ^ Log2Ceiling(n)) \div 2..2 ^ Log2Ceiling(n)

(* --------------------------------- pickle --------------------------------- *)

Abc == <<97, 98, 99>>
\* A word of calls: each kind of write, Reserve, and going on with a copy.
Call(p, c) ==
    CASE c \in PODs -> WritePOD(p, c, 1)
      [] c = "string" -> WriteString(p, Abc)
      [] c = "data" -> WriteData(p, Abc \o <<100, 101>>, 5)
      [] c = "claim" -> ClaimBytes(p, 3)
      [] c = "reserve" -> Reserve(p, 20)
      [] c = "copy" -> CopyOf(p)
      [] OTHER -> Assign(NewPickleWithHeader(6), p)
Size(n, c) ==
    CASE c \in PODs -> AddPOD(n, c)
      [] c = "string" -> AddString(n, Abc)
      [] c = "data" -> AddString(n, Abc \o <<100, 101>>)
      [] c = "claim" -> AddBytes(n, 3)
      [] OTHER -> n
Read(r, c) ==
    CASE c \in PODs -> LET v == ReadBuiltinType(r.it, c) IN [ok |-> r.ok /\ v.ok /\ v.value = 1, it |-> v.it]
      [] c = "string" -> LET v == ReadString(r.it) IN [ok |-> r.ok /\ v.bytes = Abc, it |-> v.it]
      [] c = "data" -> LET v == ReadString(r.it) IN [ok |-> r.ok /\ v.bytes = Abc \o <<100, 101>>, it |-> v.it]
      [] c = "claim" -> [r EXCEPT !.it = SkipBytes(@, 3)]
      [] OTHER -> r

\* What was written is read back in order, from the pickle and from its data, and nothing
\* is left; the sizer computes its size and its buffer holds it; data cut short is refused,
\* and reading a pickle as if it held one value more fails without passing its end.
PickleReadsBack ==
    LET p == FoldLeft(Call, NewPickle, word)
        data == DataOf(p)
        All(q) == FoldLeft(Read, [ok |-> TRUE, it |-> Iterator(q)], word)
    IN /\ Len(p.payload) = FoldLeft(Size, 0, word) /\ p.offset = Len(p.payload)
       /\ p.capacity >= Len(p.payload)
       /\ All(p).ok /\ All(FromData(data)).ok
       /\ All(p).it.at = Len(p.payload)
       /\ ~ReadBuiltinType(All(p).it, "int16").ok /\ ~ReadString(All(p).it).ok
       /\ SkipBytes(Iterator(p), Len(p.payload) + 1).at = Len(p.payload)
       /\ FindNext(p.header, data \o Abc) = Len(data)
       /\ \A n \in 0..Len(data) - 1 :
            /\ p.header = HeaderSize => FromData(SubSeq(data, 1, n)) = NullHeader
            /\ FindNext(p.header, SubSeq(data, 1, n)) = -1

\* base/string_encode, base/bits and base/pickle: bytes that were encoded decode to what
\* they were made from, and no decoder passes the end of its input.
BytesReadBack ==
    /\ subject = "bytes" => EncodingsInvert
    /\ subject = "pickle" => PickleReadsBack

(* --------------------------------- times --------------------------------- *)

\* The conversions to the structures of the system and back give the same time or, for a
\* time before 1970 with a fraction of a second, whose structure has a negative part, fail
\* a DCHECK.  Nanoseconds are exact if int64_t holds them, and ticks are never null.
StructuresInvert(us) ==
    /\ \A back \in {TimeFromTimespec(TimeToTimespec(us)), FromTimeval(ToTimeval(us)),
                     DeltaFromTimespec(DeltaToTimespec(us))} :
         /\ back.us = us
         /\ back.ok <=> Rem(us, kMicrosecondsPerSecond) >= 0
    /\ Holds(TimeMax, us * kNanosecondsPerMicrosecond) => FromNanoseconds(InNanoseconds(us)) = us
    /\ us > 0 => TicksNow(TimeToTimespec(us)) > us
\* Those to coarser units lose less than one unit, and only towards zero, if the type of
\* the result holds them: InDays, InHours and InMinutes are cut off to an int.
UnitsTruncate(us) ==
    /\ \A u \in UnitNames : Holds(Result(u), Quot(us, Unit[u])) =>
         us - DeltaFrom(u, DeltaIn(u, us)) \in
         (IF us >= 0 THEN 0 ELSE 1 - Unit[u])..(IF us >= 0 THEN Unit[u] - 1 ELSE 0)
    /\ us >= kTimeTToMicrosecondsOffset + kMicrosecondsPerSecond =>
         us - FromTimeT(ToTimeT(us)) \in 0..kMicrosecondsPerSecond - 1

\* mktime answers -1 for the second before 1970, and an hour that comes twice is ambiguous.
Ambiguous(us) ==
    \/ Explode(us).civil = -1
    \/ Explode(us).civil \in DstEnds..DstEnds + DstShift - 1
\* A point in time that is taken apart in calendar fields and put together again is the
\* same to the millisecond.
CalendarInverts(us) ==
    ~Ambiguous(us) =>
        LET back == FromExploded(Explode(us)) IN
        back.ok /\ us - back.time \in 0..kMicrosecondsPerMillisecond - 1

\* Instants around both epochs and both changes of the clock.
Digit(i) == IF i <= Len(word) THEN word[i] ELSE 0
Instant == 343 * Digit(1) + 49 * Digit(2) + 7 * Digit(3) + Digit(4) - 600

\* base/time: no conversion of a time and back is off by more than its unit, before and
\* after both epochs (Explode and FromExploded, ToTimeT, ToTimespec, InSeconds ...).
TimesRoundTrip ==
    subject = "time" =>
        StructuresInvert(Instant) /\ UnitsTruncate(Instant) /\ CalendarInverts(Instant)
=============================================================================
