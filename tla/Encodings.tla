----------------------------- MODULE Encodings -----------------------------
(* base/string_encode and base/bits: UTF-8, hexadecimal text, alignment.      *)
EXTENDS AsciiText

\* Log2Floor halves the range of shifts 16, 8, 4, 2, 1; Align rounds up.
Log2Floor(n) ==
  IF n = 0 THEN -1
  ELSE FoldLeft(LAMBDA r, shift : IF r.value \div 2 ^ shift # 0
                                  THEN [value |-> r.value \div 2 ^ shift, log |-> r.log + shift] ELSE r,
                [value |-> n, log |-> 0], <<16, 8, 4, 2, 1>>).log
Log2Ceiling(n) == IF n = 0 THEN -1 ELSE 1 + Log2Floor(n - 1)
Align(size, alignment) == ((size + alignment - 1) \div alignment) * alignment

(* --------------------------------- UTF-8 --------------------------------- *)

Trail(value, shift) == 128 + ((value \div 2 ^ shift) % 64)
IsTrail(s, i) == Len(s) > i /\ At(s, i) \div 64 = 2

\* The bytes put into a buffer of room bytes; none if they do not fit.
UTF8Encode(room, value) ==
  CASE value <= 127 /\ room >= 1 -> <<value>>
    [] ~(value <= 127 /\ room >= 1) /\ value <= 2047 /\ room >= 2 ->
         <<192 + value \div 64, Trail(value, 0)>>
    [] ~(value <= 2047 /\ room >= 2) /\ value > 127 /\ value <= 65535 /\ room >= 3 ->
         <<224 + value \div 4096, Trail(value, 6), Trail(value, 0)>>
    [] value > 65535 /\ value <= 2097151 /\ room >= 4 ->
         <<240 + value \div 262144, Trail(value, 12), Trail(value, 6), Trail(value, 0)>>
    [] OTHER -> <<>>

\* The bytes used, 0 if they are no sequence, and the value; s is not empty.
UTF8Decode(s) ==
  LET lead == s[1]
      bits(i) == At(s, i) % 64
  IN CASE lead < 128 -> [used |-> 1, value |-> lead]
       [] IsTrail(s, 1) /\ lead \div 32 = 6 -> [used |-> 2, value |-> (lead % 32) * 64 + bits(1)]
       [] IsTrail(s, 1) /\ IsTrail(s, 2) /\ lead \div 16 = 14 ->
            [used |-> 3, value |-> (lead % 16) * 4096 + bits(1) * 64 + bits(2)]
       [] IsTrail(s, 1) /\ IsTrail(s, 2) /\ IsTrail(s, 3) /\ lead \div 8 = 30 ->
            [used |-> 4, value |-> (lead % 8) * 262144 + bits(1) * 4096 + bits(2) * 64 + bits(3)]
       [] OTHER -> [used |-> 0, value |-> 0]

(* -------------------------------- hexadecimal -------------------------------- *)

HexDigit(v) == IF v < 10 THEN 48 + v ELSE 55 + v
\* Every letter is taken for a digit, those after F and f too; -1: none.
HexValue(c) == CASE ascii_isdigit(c) -> c - 48
                 [] ascii_isupper(c) -> c - 55
                 [] ascii_islower(c) -> c - 87
                 [] OTHER -> -1

\* delimiter 0: none.  The buffer holds one byte more than the digits, but with
\* a delimiter exactly three per byte, the last of them for the NUL.
HexEncodeWithDelimiter(room, s, delimiter) ==
  LET needed == IF delimiter # 0 THEN Len(s) * 3 ELSE Len(s) * 2 + 1
      Digits(i) == <<HexDigit(s[i] \div 16), HexDigit(s[i] % 16)>>
                   \o (IF delimiter # 0 /\ i < Len(s) THEN <<delimiter>> ELSE <<>>)
  IN IF room = 0 \/ room < needed THEN <<>>
     ELSE FoldLeft(LAMBDA t, i : t \o Digits(i), <<>>, [i \in DOMAIN s |-> i])

\* The std::string overload gives it three bytes of room for each one.
HexEncode(s, delimiter) == HexEncodeWithDelimiter(Len(s) * 3, s, delimiter)

\* One turn of the loop: two digits, then a delimiter if more than one is left.
HexDecodeStep(r, s, delimiter) ==
  LET left == Len(s) - r.pos
      h1   == HexValue(At(s, r.pos))
      h2   == HexValue(At(s, r.pos + 1))
      next == r.pos + 2
      skip == delimiter # 0 /\ Len(s) - next > 1
  IN CASE ~r.ok \/ left = 0 -> r
       [] r.ok /\ left = 1 -> [r EXCEPT !.ok = FALSE]
       [] OTHER -> [ok    |-> h1 >= 0 /\ h2 >= 0 /\ (skip => At(s, next) = delimiter),
                    bytes |-> Append(r.bytes, (h1 * 16 + h2) % 256),
                    pos   |-> IF skip THEN next + 1 ELSE next]

HexDecodeWithDelimiter(room, s, delimiter) ==
  LET needed == IF delimiter # 0 THEN (Len(s) + 1) \div 3 ELSE Len(s) \div 2
      r == FoldLeft(LAMBDA q, c : HexDecodeStep(q, s, delimiter), [ok |-> TRUE, bytes |-> <<>>, pos |-> 0], s)
  IN IF room = 0 \/ room < needed \/ ~r.ok THEN <<>> ELSE r.bytes

\* The std::string overload; its DCHECK: a text that is not empty decodes to something.
HexDecode(s) == IF s = <<>> THEN <<>> ELSE HexDecodeWithDelimiter(Len(s) \div 2, s, 0)
=============================================================================
