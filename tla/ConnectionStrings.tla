-------------------------- MODULE ConnectionStrings --------------------------
(* db/common/connection_info: "driver:key=value;key='quoted ''value'''".      *)
(* A string that is refused aborts the process (CHECK and DCHECK, which the   *)
(* Makefile does not switch off).                                             *)
EXTENDS AsciiText

Quote == 39
Semicolon == 59
Equal == 61
kTrimWhiteSpace == <<Space, Tab, 13, 10, 12>>
TrimString(s) == TrimStringT(s, kTrimWhiteSpace, {"leading", "trailing"}).text

AfterBlanks(s, pos) ==
  SmallestOr({i \in pos..Len(s) - 1 : At(s, i) \notin BuildLookupTable(kTrimWhiteSpace)}, Len(s))

\* The value behind an opening quote at pos - 1: two quotes stand for one.
Quoted(s, pos) ==
  LET read[i \in pos..Len(s) + 1] ==
        CASE i >= Len(s) -> [ok |-> FALSE, value |-> <<>>, pos |-> i]
          [] i < Len(s) /\ At(s, i) # Quote ->
               [read[i + 1] EXCEPT !.value = <<At(s, i)>> \o @]
          [] i + 1 < Len(s) /\ At(s, i) = Quote /\ At(s, i + 1) = Quote ->
               [read[i + 2] EXCEPT !.value = <<Quote>> \o @]
          [] OTHER -> [ok |-> TRUE, value |-> <<>>, pos |-> i + 1]
  IN read[pos]

\* A value without quotes goes up to the next semicolon, blanks cut off.
Plain(s, pos) ==
  LET n == findChar(s, Semicolon, pos)
      end == IF n = npos THEN Len(s) ELSE n
  IN [ok |-> TRUE, value |-> TrimString(SubSeq(s, pos + 1, end)), pos |-> end]

\* One turn of the loop of Init: a key, its value and one character after it.
ReadProperty(r, s) ==
  LET n     == findChar(s, Equal, r.pos)
      key   == TrimString(SubSeq(s, r.pos + 1, n))
      start == AfterBlanks(s, n + 1)
      v     == IF start < Len(s) /\ At(s, start) = Quote THEN Quoted(s, start + 1) ELSE Plain(s, start)
      next  == AfterBlanks(s, v.pos)
  IN CASE ~r.ok \/ r.pos >= Len(s) -> r
       [] r.ok /\ r.pos < Len(s) /\ n = npos -> [r EXCEPT !.ok = FALSE]
       [] OTHER -> [r EXCEPT !.ok = v.ok /\ key \notin DOMAIN r.properties,
                             !.pos = Smaller(next + 1, Len(s)),
                             !.properties = (key :> v.value) @@ @]

\* ConnectionInfo::Init
ParseConnection(s) ==
  LET pos == findChar(s, Colon, 0)
      start == [ok |-> TRUE, pos |-> pos + 1, properties |-> <<>>]
      r == FoldLeft(LAMBDA q, c : ReadProperty(q, s), start, s)
  IN IF pos = npos THEN [ok |-> FALSE, driver |-> <<>>, properties |-> <<>>]
     ELSE [ok |-> r.ok, driver |-> SubSeq(s, 1, pos), properties |-> r.properties]

HasProperty(info, key) == key \in DOMAIN info.properties
GetProperty(info, key, default) ==
  IF HasProperty(info, key) THEN info.properties[key] ELSE default
=============================================================================
