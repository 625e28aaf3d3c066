------------------------------ MODULE AsciiText ------------------------------
(* Characters and the texts they make: base/ascii_ctype, base/string_piece,   *)
(* base/string_util.  A character is its code, a text is a sequence of codes, *)
(* and a position counts from 0 as in the source.  size_t is kept to SizeMod  *)
(* values, so npos, npos + 1 and end - begin wrap as they do there.           *)
EXTENDS Integers, SequencesExt

SizeMod == 64
npos == SizeMod - 1
Wrap(n) == n % SizeMod

Tab == 9
Space == 32
Dollar == 36
Plus == 43
Minus == 45
Dot == 46
Slash == 47
Zero == 48
Colon == 58
Question == 63

(* ------------------------------ ascii_ctype ------------------------------ *)

ascii_isdigit(c) == c \in 48..57
ascii_isupper(c) == c \in 65..90
ascii_islower(c) == c \in 97..122

(* The tables keep, per character, what the generator comments there say.    *)
kAsciiPropertyBits ==
  [c \in 0..255 |->
     [alpha  |-> ascii_isupper(c) \/ ascii_islower(c),
      alnum  |-> ascii_isupper(c) \/ ascii_islower(c) \/ ascii_isdigit(c),
      space  |-> c \in 9..13 \cup {Space},
      punct  |-> c \in (33..47) \cup (58..64) \cup (91..96) \cup (123..126),
      blank  |-> c \in {Tab, Space},
      cntrl  |-> c < 32 \/ c = 127,
      xdigit |-> ascii_isdigit(c) \/ c \in (65..70) \cup (97..102)]]
ascii_isspace(c) == kAsciiPropertyBits[c].space
ascii_isalnum(c) == kAsciiPropertyBits[c].alnum

kAsciiToLower == [c \in 0..255 |-> IF ascii_isupper(c) THEN c + 32 ELSE c]
kAsciiToUpper == [c \in 0..255 |-> IF ascii_islower(c) THEN c - 32 ELSE c]
ascii_tolower(c) == kAsciiToLower[c]
ascii_toupper(c) == kAsciiToUpper[c]

(* ------------------------------ StringPiece ------------------------------ *)

\* Character i of a text, as data()[i].
At(s, i) == s[i + 1]
Positions(s) == 0..Len(s) - 1
SmallestOr(S, d) == IF S = {} THEN d ELSE CHOOSE i \in S : \A j \in S : i <= j
LargestOr(S, d) == IF S = {} THEN d ELSE CHOOSE i \in S : \A j \in S : i >= j
Smaller(m, n) == IF m < n THEN m ELSE n

\* A StringPiece made from a const char* ends before the first NUL.
PieceOfCString(s) ==
  SubSeq(s, 1, SmallestOr({i \in Positions(s) : At(s, i) = 0}, Len(s)))

remove_prefix(s, n) == SubSeq(s, n + 1, Len(s))
remove_suffix(s, n) == SubSeq(s, 1, Len(s) - n)

\* wordmemcmp: the sign of the first difference within the first n characters.
wordmemcmp(s, t, n) ==
  LET d == SmallestOr({i \in 0..n - 1 : At(s, i) # At(t, i)}, n) IN
  CASE d = n -> 0 [] d < n /\ At(s, d) < At(t, d) -> -1 [] OTHER -> 1

compare(s, t) ==
  LET r == wordmemcmp(s, t, Smaller(Len(s), Len(t))) IN
  CASE r # 0 -> r [] r = 0 /\ Len(s) < Len(t) -> -1
    [] r = 0 /\ Len(s) > Len(t) -> 1 [] OTHER -> 0

PieceEq(s, t) == Len(s) = Len(t) /\ wordmemcmp(s, t, Len(s)) = 0
PieceLess(s, t) ==
  LET r == wordmemcmp(s, t, Smaller(Len(s), Len(t))) IN
  r < 0 \/ (r = 0 /\ Len(s) < Len(t))

starts_with(s, t) == Len(s) >= Len(t) /\ wordmemcmp(s, t, Len(t)) = 0
ends_with(s, t) ==
  Len(s) >= Len(t) /\ wordmemcmp(remove_prefix(s, Len(s) - Len(t)), t, Len(t)) = 0

\* The characters copy() puts into a buffer of n, for a pos in the text.
copy(s, n, pos) == SubSeq(s, pos + 1, pos + Smaller(Len(s) - pos, n))

substr(s, pos, n) ==
  LET p == Smaller(pos, Len(s))
  IN SubSeq(s, p + 1, p + Smaller(n, Len(s) - p))

OccursAt(s, t, i) == i + Len(t) <= Len(s) /\ SubSeq(s, i + 1, i + Len(t)) = t

find(s, t, pos) ==
  IF pos > Len(s) THEN npos
  ELSE SmallestOr({i \in pos..Len(s) : OccursAt(s, t, i)}, npos)

findChar(s, c, pos) ==
  SmallestOr({i \in Positions(s) : i >= pos /\ At(s, i) = c}, npos)

rfind(s, t, pos) ==
  CASE Len(s) < Len(t) -> npos
    [] Len(s) >= Len(t) /\ t = <<>> -> Smaller(Len(s), pos)
    [] OTHER -> LargestOr({i \in 0..Smaller(Len(s) - Len(t), pos) : OccursAt(s, t, i)}, npos)

rfindChar(s, c, pos) ==
  LargestOr({i \in Positions(s) : i <= pos /\ At(s, i) = c}, npos)

find_first_not_ofChar(s, c, pos) ==
  SmallestOr({i \in Positions(s) : i >= pos /\ At(s, i) # c}, npos)

find_last_not_ofChar(s, c, pos) ==
  LargestOr({i \in Positions(s) : i <= pos /\ At(s, i) # c}, npos)

\* BuildLookupTable: the set of the characters wanted.
BuildLookupTable(t) == {t[i] : i \in 1..Len(t)}

find_first_of(s, t, pos) ==
  CASE s = <<>> \/ t = <<>> -> npos
    [] s # <<>> /\ Len(t) = 1 -> findChar(s, t[1], pos)
    [] OTHER -> SmallestOr({i \in Positions(s) : i >= pos /\ At(s, i) \in BuildLookupTable(t)}, npos)

find_first_not_of(s, t, pos) ==
  CASE s = <<>> -> npos
    [] s # <<>> /\ t = <<>> -> 0
    [] s # <<>> /\ Len(t) = 1 -> find_first_not_ofChar(s, t[1], pos)
    [] OTHER -> SmallestOr({i \in Positions(s) : i >= pos /\ At(s, i) \notin BuildLookupTable(t)}, npos)

find_last_of(s, t, pos) ==
  CASE s = <<>> \/ t = <<>> -> npos
    [] s # <<>> /\ Len(t) = 1 -> rfindChar(s, t[1], pos)
    [] OTHER -> LargestOr({i \in Positions(s) : i <= pos /\ At(s, i) \in BuildLookupTable(t)}, npos)

\* Faulty variant: the one-character search misses the first character.
find_last_not_ofNoFirst(s, t, pos) ==
  IF s = <<>> THEN npos
  ELSE LargestOr({i \in Positions(s) \ {0} : i <= pos /\ At(s, i) \notin BuildLookupTable(t)}, npos)

find_last_not_of(s, t, pos) ==
  CASE s = <<>> -> npos
    [] s # <<>> /\ t = <<>> -> Smaller(pos, Len(s) - 1)
    [] s # <<>> /\ Len(t) = 1 -> find_last_not_ofChar(s, t[1], pos)
    [] OTHER -> LargestOr({i \in Positions(s) : i <= pos /\ At(s, i) \notin BuildLookupTable(t)}, npos)

(* ------------------------------ string_util ------------------------------ *)

ToLowerASCII(c) == IF c \in 65..90 THEN c + 32 ELSE c
LowerASCII(s) == [i \in DOMAIN s |-> ToLowerASCII(s[i])]

LowerCaseEqualsASCII(s, lower) == Len(s) = Len(lower) /\ LowerASCII(s) = lower

\* The value of a char, which is signed.
SignedChar(c) == IF c > 127 THEN c - 256 ELSE c

CompareCaseInsensitiveASCII(s, t) ==
  LET shorter == Smaller(Len(s), Len(t))
      lower(text, i) == SignedChar(ToLowerASCII(At(text, i)))
      d == SmallestOr({i \in 0..shorter - 1 : lower(s, i) # lower(t, i)}, shorter)
  IN CASE d < shorter -> IF lower(s, d) < lower(t, d) THEN -1 ELSE 1
       [] d = shorter /\ Len(s) = Len(t) -> 0
       [] OTHER -> IF Len(s) < Len(t) THEN -1 ELSE 1

StartsWith(s, search, sensitive) ==
  /\ Len(search) <= Len(s)
  /\ LET source == substr(s, 0, Len(search))
     IN IF sensitive THEN PieceEq(source, search) ELSE LowerASCII(source) = LowerASCII(search)

EndsWith(s, search, sensitive) ==
  /\ Len(search) <= Len(s)
  /\ LET source == substr(s, Len(s) - Len(search), Len(search))
     IN IF sensitive THEN PieceEq(source, search) ELSE LowerASCII(source) = LowerASCII(search)

\* TrimStringT for std::string: the text left and the ends that were trimmed.
TrimStringT(s, chars, ends) ==
  LET last  == Wrap(Len(s) - 1)
      first == IF "leading" \in ends THEN find_first_not_of(s, chars, 0) ELSE 0
      good  == IF "trailing" \in ends THEN find_last_not_of(s, chars, npos) ELSE last
  IN IF s = <<>> \/ first = npos \/ good = npos
     THEN [text |-> <<>>, trimmed |-> IF s = <<>> THEN {} ELSE ends]
     ELSE [text |-> substr(s, first, Wrap(good - first + 1)),
           trimmed |-> (IF first = 0 THEN {} ELSE {"leading"})
                       \cup (IF good = last THEN {} ELSE {"trailing"})]

\* The StringPiece overload: npos + 1 and end - begin wrap.
TrimStringPieceT(s, chars, ends) ==
  LET begin == IF "leading" \in ends THEN find_first_not_of(s, chars, 0) ELSE 0
      end   == IF "trailing" \in ends THEN Wrap(find_last_not_of(s, chars, npos) + 1) ELSE Len(s)
  IN substr(s, begin, Wrap(end - begin))
=============================================================================
