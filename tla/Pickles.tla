------------------------------ MODULE Pickles ------------------------------
(* base/pickle: values packed one after the other behind a header, each on a  *)
(* boundary of four bytes, and the iterator that reads them back.  A pickle   *)
(* is its header size, the room behind the header, the write offset and the   *)
(* payload (a sequence of bytes); NullHeader is one whose data was refused.    *)
(* Units and page sizes are scaled down; the sizes of the types are real.      *)
EXTENDS Encodings

HeaderSize == 4
kPayloadUnit == 16
kPickleHeapAlign == 64
kCapacityReadOnly == -1
NullHeader == [header |-> 0, capacity |-> kCapacityReadOnly, offset |-> 0, payload |-> <<>>]

SizeOf == [bool |-> 4, int16 |-> 2, int32 |-> 4, int64 |-> 8, float |-> 4, double |-> 8]
PODs == DOMAIN SizeOf
\* The bytes of a value: little endian, and small enough for the first two.
BytesOf(n, size) == [i \in 1..size |-> CASE i = 1 -> n % 256 [] i = 2 -> n \div 256 [] OTHER -> 0]
Zeros(n) == [i \in 1..n |-> 0]

(* -------------------------------- writing -------------------------------- *)

\* Resize: CHECK refuses a read-only pickle.
Resize(p, capacity) == [p EXCEPT !.capacity = Align(capacity, kPayloadUnit)]

NewPickle == Resize([header |-> HeaderSize, capacity |-> 0, offset |-> 0, payload |-> <<>>], kPayloadUnit)
NewPickleWithHeader(size) == [NewPickle EXCEPT !.header = Align(size, 4)]

\* ClaimUninitializedBytesInternal and the copy of the bytes; the padding is zeroed.
WriteBytesCommon(p, bytes) ==
  LET new_size == p.offset + Align(Len(bytes), 4)
      doubled  == p.capacity * 2
      room     == IF doubled > kPickleHeapAlign THEN Align(doubled, kPickleHeapAlign) - kPayloadUnit
                  ELSE doubled
      q        == IF new_size > p.capacity THEN Resize(p, IF room > new_size THEN room ELSE new_size) ELSE p
  IN [q EXCEPT !.payload = SubSeq(@, 1, p.offset) \o bytes \o Zeros(Align(Len(bytes), 4) - Len(bytes)),
               !.offset = new_size]
WriteBytes(p, bytes) == WriteBytesCommon(p, bytes)
ClaimBytes(p, n) == WriteBytesCommon(p, Zeros(n))

WritePOD(p, type, n) == WriteBytesCommon(p, BytesOf(n, SizeOf[type]))
WriteString(p, s) == WriteBytes(WritePOD(p, "int32", Len(s)), s)
\* WriteData refuses a negative length.
WriteData(p, s, length) ==
  IF length < 0 THEN p ELSE WriteBytes(WritePOD(p, "int32", length), SubSeq(s, 1, length))

Reserve(p, length) ==
  LET new_size == p.offset + Align(length, 4)
  IN IF new_size > p.capacity THEN Resize(p, p.capacity * 2 + new_size) ELSE p

\* The copy constructor and assignment: room for the payload, the same offset.
CopyOf(q) == Resize([q EXCEPT !.capacity = 0], Len(q.payload))
Assign(p, q) == Resize([q EXCEPT !.capacity = p.capacity], Len(q.payload))

(* ----------------------------- data from outside ----------------------------- *)

\* data(), size(): the payload size in the header, then the payload.
DataOf(p) == BytesOf(Len(p.payload), 4) \o Zeros(p.header - 4) \o p.payload
PayloadSizeIn(data) == data[1] + 256 * data[2]

\* Pickle(data, len): what is not payload must be an aligned header that fits.
FromData(data) ==
  LET header == Len(data) - PayloadSizeIn(data) IN
  IF Len(data) < HeaderSize \/ header <= 0 \/ header # Align(header, 4) THEN NullHeader
  ELSE [header |-> header, capacity |-> kCapacityReadOnly, offset |-> 0,
        payload |-> SubSeq(data, header + 1, Len(data))]

\* PeekNext: the size of the pickle that starts the data, -1 if that is not known.
PeekNext(header, data) ==
  IF Len(data) < HeaderSize \/ Len(data) < header THEN -1 ELSE header + PayloadSizeIn(data)
\* FindNext: where the next one starts, -1 if this one does not end here.
FindNext(header, data) ==
  IF PeekNext(header, data) > Len(data) THEN -1 ELSE PeekNext(header, data)

(* -------------------------------- reading -------------------------------- *)

Iterator(p) == [payload |-> p.payload, at |-> 0, end |-> Len(p.payload)]

\* Faulty variant: reads do not skip the padding.
AdvanceUnaligned(it, size) == [it EXCEPT !.at = Smaller(it.end, @ + size)]
Advance(it, size) ==
  [it EXCEPT !.at = IF it.end - it.at < Align(size, 4) THEN it.end ELSE @ + Align(size, 4)]

\* GetReadPointerAndAdvance: a read that does not fit moves to the end.
ReadBytes(it, n) ==
  IF n < 0 \/ it.end - it.at < n
  THEN [ok |-> FALSE, it |-> [it EXCEPT !.at = it.end], bytes |-> <<>>]
  ELSE [ok |-> TRUE, it |-> Advance(it, n), bytes |-> SubSeq(it.payload, it.at + 1, it.at + n)]

\* ReadBool reads one byte of the four WriteBool wrote.
ReadSize(type) == IF type = "bool" THEN 1 ELSE SizeOf[type]
ValueIn(bytes) == bytes[1] + (IF Len(bytes) > 1 THEN 256 * bytes[2] ELSE 0)
ReadBuiltinType(it, type) ==
  LET r == ReadBytes(it, ReadSize(type))
  IN [ok |-> r.ok, it |-> r.it, value |-> IF r.ok THEN ValueIn(r.bytes) ELSE -1]

\* ReadString, ReadStringPiece, ReadData: the length, then that many bytes.
ReadString(it) ==
  LET len == ReadBuiltinType(it, "int32") IN
  IF ~len.ok THEN [ok |-> FALSE, it |-> len.it, bytes |-> <<>>] ELSE ReadBytes(len.it, len.value)
SkipBytes(it, n) == ReadBytes(it, n).it

(* --------------------------------- sizing --------------------------------- *)

\* PickleSizer adds up what the writes of the same values take.
AddPOD(size, type) == size + Align(SizeOf[type], 4)
AddBytes(size, n) == size + Align(n, 4)
AddString(size, s) == AddBytes(AddPOD(size, "int32"), Len(s))
=============================================================================
