-------------------------------- MODULE NDNB --------------------------------
(***************************************************************************)
(* The NDNB encoder (src/ndn.cxx/wire/ndnb/wire-ndnb.cc): the Append*      *)
(* functions write blocks to one output iterator, the Estimate* functions  *)
(* predict how many bytes they write.  The state is the byte string        *)
(* written so far, what each call meant to write (as the blocks of spec    *)
(* 4.3) and the byte count the last call returned and estimated.          *)
(* A decoder written from spec 4.3, not from the encoder, reads the bytes  *)
(* back.                                                                   *)
(***************************************************************************)
EXTENDS Naturals, Integers, Sequences, SequencesExt

CONSTANTS
  Dtags,          \* dtag values passed by callers
  Blobs,          \* payloads (byte strings) of tagged blobs and strings
  PadLengths,     \* length argument of AppendTaggedBlobWithPadding
  Numbers,        \* uint32 arguments of AppendNumber / AppendTaggedNumber
  Seconds,        \* total_seconds() of a TimeInterval
  Nanos,          \* total_nanoseconds() % 1e9 of a TimeInterval
  Names,          \* names given to SerializeName (sequences of Blobs)
  DTAG_Component, \* NdnbParser::NDN_DTAG_Component
  MaxCalls,       \* bound on the number of Append calls
  None            \* a call that returns or estimates nothing

\* Type tags and the closer (spec 4.3; NdnbParser's enum).
EXT == 0  TAG == 1  DTAG == 2  ATTR == 3  DATTR == 4  BLOB == 5  UDATA == 6
NDN_CLOSE == 0

NDN_TT_BITS == 3
NDN_MAX_TINY == 15     \* (1 << (7 - NDN_TT_BITS)) - 1

VARIABLES
  out,       \* the bytes written through the OutputIterator
  expect,    \* the blocks the calls were asked to write (history)
  before,    \* Len(out) before the last call
  written,   \* what the last call returned
  estimate,  \* what the matching Estimate* function returns for it
  calls      \* number of calls so far

vars == <<out, expect, before, written, estimate, calls>>

(***************************************************************************)
(* Block headers                                                           *)
(***************************************************************************)

\* The high-order bytes of a header, most significant first: each is
\* ((unsigned char)val & ~NDN_TT_HBIT) | NDN_CLOSE, val shifted by 7.
RECURSIVE ContinuationBytes(_)
ContinuationBytes(val) ==
  IF val # 0 THEN ContinuationBytes(val \div 128) \o <<val % 128>> ELSE <<>>

\* Mutant: the last byte keeps all of val, not its low NDN_MAX_TINY bits.
HeaderBytes_NoTinyMask(val, tt) ==
  ContinuationBytes(val \div 16) \o <<128 + val * 8 + (tt % 8)>>

\* AppendBlockHeader: the last byte has the high bit, the low 4 bits of val
\* and the 3-bit type tag; the rest of val precedes it in 7-bit groups.
HeaderBytes(val, tt) ==
  ContinuationBytes(val \div 16) \o <<128 + (val % 16) * 8 + (tt % 8)>>

RECURSIVE Septets(_)
Septets(v) == IF v > 0 THEN 1 + Septets(v \div 128) ELSE 0

\* Mutant: the estimate shifts by NDN_TT_BITS instead of 7 - NDN_TT_BITS.
EstimateBlockHeader_ShiftTT(value) == 1 + Septets(value \div 8)

\* EstimateBlockHeader: one byte plus one per 7 bits left after 4.
EstimateBlockHeader(value) == 1 + Septets(value \div 16)

(***************************************************************************)
(* Payload conversions                                                     *)
(***************************************************************************)

\* Mutant: the digits come out least significant first.
RECURSIVE Decimal_Reversed(_)
Decimal_Reversed(n) ==
  IF n < 10 THEN <<48 + n>> ELSE <<48 + (n % 10)>> \o Decimal_Reversed(n \div 10)

\* os << number: the decimal digits in ASCII.
RECURSIVE Decimal(_)
Decimal(n) == IF n < 10 THEN <<48 + n>> ELSE Decimal(n \div 10) \o <<48 + (n % 10)>>

\* The timestamp length loop: 2 bytes, plus one per non-zero byte of
\* total_seconds >> 4, at most 6 bytes in all.
RECURSIVE GrowRequired(_, _)
GrowRequired(required, ts) ==
  IF required < 7 /\ ts # 0 THEN GrowRequired(required + 1, ts \div 256)
                            ELSE required

RequiredBytes(sec) == GrowRequired(2, sec \div 16)

\* Mutant: the fraction is truncated, not rounded (no + 195312).
Fraction_Truncated(ns) == (((ns % 1000000000) \div 5) * 8) \div 390625

\* The 12-bit fraction, rounded: ((ns % 1e9) / 5 * 8 + 195312) / 390625.
Fraction(ns) == (((ns % 1000000000) \div 5) * 8 + 195312) \div 390625

\* AppendTimestampBlob's payload: total_seconds >> 4 in required - 2
\* big-endian bytes, then ((total_seconds & 15) << 12) + fraction in two;
\* os.put keeps the low byte of each shifted value.
TimestampBytes(sec, ns) ==
  LET required == RequiredBytes(sec)
      high == sec \div 16
      low  == (sec % 16) * 4096 + Fraction(ns)
  IN  [i \in 1..(required - 2) |-> (high \div 256 ^ (required - 2 - i)) % 256]
        \o << (low \div 256) % 256, low % 256 >>

(***************************************************************************)
(* The blocks a call is meant to produce (spec 4.3)                        *)
(***************************************************************************)

\* Kinds of expected or decoded blocks that are not a header's type tag.
CLOSE_BLOCK == 8  NUMBER_BLOCK == 9  TIME_BLOCK == 10  MALFORMED == 11

Block(tt, val, data) == [tt |-> tt, val |-> val, data |-> data]
Closer == [tt |-> CLOSE_BLOCK, val |-> 0, data |-> <<>>]
Open(dtag) == Block(DTAG, dtag, <<>>)
Blob(data) == Block(BLOB, Len(data), data)
NumberBlock(n) == [tt |-> NUMBER_BLOCK, val |-> n, data |-> <<>>]
TimeBlock(sec, ns) == [tt |-> TIME_BLOCK, val |-> sec, data |-> <<ns>>]

\* An empty payload has no BLOB sub-block (the dtag is closed at once).
TaggedBlobBlocks(dtag, data) ==
  <<Open(dtag)>> \o (IF data = <<>> THEN <<>> ELSE <<Blob(data)>>) \o <<Closer>>

(***************************************************************************)
(* Operations                                                              *)
(***************************************************************************)

TypeOK ==
  /\ out \in Seq(0..255)
  /\ before \in 0..Len(out)
  /\ written \in Nat \cup {None}
  /\ estimate \in Nat \cup {None}
  /\ calls \in 0..MaxCalls

Init ==
  /\ out = <<>>
  /\ expect = <<>>
  /\ before = 0
  /\ written = None
  /\ estimate = None
  /\ calls = 0

\* One Append call: write the bytes, record the blocks, the return value
\* and the estimate.
Emit(bytes, blocks, ret, est) ==
  /\ calls < MaxCalls
  /\ calls' = calls + 1
  /\ out' = out \o bytes
  /\ expect' = expect \o blocks
  /\ before' = Len(out)
  /\ written' = ret
  /\ estimate' = est

\* AppendBlockHeader (start, dtag, NDN_DTAG): a caller opening a dtag.
AppendBlockHeader(val, tt) ==
  Emit(HeaderBytes(val, tt), <<Block(tt, val, <<>>)>>,
       Len(HeaderBytes(val, tt)), EstimateBlockHeader(val))

AppendCloser ==
  Emit(<<NDN_CLOSE>>, <<Closer>>, 1, None)

\* AppendNumber: a UDATA header for the decimal string, then the string.
AppendNumber(number) ==
  LET str == Decimal(number)
  IN  Emit(HeaderBytes(Len(str), UDATA) \o str, <<NumberBlock(number)>>,
           Len(HeaderBytes(Len(str), UDATA)) + Len(str),
           EstimateBlockHeader(Len(str)) + Len(str))

AppendTimestampBlob(sec, ns) ==
  LET required == RequiredBytes(sec)
      header == HeaderBytes(required, BLOB)
  IN  Emit(header \o TimestampBytes(sec, ns), <<TimeBlock(sec, ns)>>,
           Len(header) + required,
           EstimateBlockHeader(required) + required)

\* AppendTaggedBlob: DTAG header, BLOB header and data only if size > 0,
\* closer.  EstimateTaggedBlob mirrors the size > 0 test.
TaggedBlobBytes(dtag, data) ==
  HeaderBytes(dtag, DTAG)
    \o (IF Len(data) > 0 THEN HeaderBytes(Len(data), BLOB) \o data ELSE <<>>)
    \o <<NDN_CLOSE>>

EstimateTaggedBlob(dtag, size) ==
  IF size > 0 THEN EstimateBlockHeader(dtag) + EstimateBlockHeader(size) + size + 1
              ELSE EstimateBlockHeader(dtag) + 1

AppendTaggedBlob(dtag, data) ==
  Emit(TaggedBlobBytes(dtag, data), TaggedBlobBlocks(dtag, data),
       Len(TaggedBlobBytes(dtag, data)), EstimateTaggedBlob(dtag, Len(data)))

\* AppendTaggedBlobWithPadding: a blob longer than length is written
\* unpadded; otherwise a BLOB of exactly length bytes (data, then zeros),
\* omitted when length is 0.
AppendTaggedBlobWithPadding(dtag, length, data) ==
  IF Len(data) > length
  THEN AppendTaggedBlob(dtag, data)
  ELSE LET padded == data \o [i \in 1..(length - Len(data)) |-> 0]
           bytes == HeaderBytes(dtag, DTAG)
                      \o (IF length > 0 THEN HeaderBytes(length, BLOB) \o padded
                                        ELSE <<>>)
                      \o <<NDN_CLOSE>>
       IN  Emit(bytes, TaggedBlobBlocks(dtag, padded), Len(bytes), None)

AppendString(dtag, string) ==
  LET bytes == HeaderBytes(dtag, DTAG) \o HeaderBytes(Len(string), UDATA)
                 \o string \o <<NDN_CLOSE>>
  IN  Emit(bytes, <<Open(dtag), Block(UDATA, Len(string), string), Closer>>,
           Len(bytes),
           EstimateBlockHeader(dtag) + EstimateBlockHeader(Len(string))
             + Len(string) + 1)

\* AppendTaggedNumber returns void.
AppendTaggedNumber(dtag, number) ==
  LET str == Decimal(number)
  IN  Emit(HeaderBytes(dtag, DTAG) \o HeaderBytes(Len(str), UDATA) \o str
             \o <<NDN_CLOSE>>,
           <<Open(dtag), NumberBlock(number), Closer>>, None, None)

\* SerializeName: one Component tagged blob per component, in order;
\* SerializedSizeName sums EstimateTaggedBlob over them.
SerializeName(name) ==
  LET Concat(f) == FoldLeft(LAMBDA acc, x : acc \o x, <<>>, f)
      bytes == Concat([i \in 1..Len(name) |-> TaggedBlobBytes(DTAG_Component, name[i])])
  IN  Emit(bytes,
           Concat([i \in 1..Len(name) |-> TaggedBlobBlocks(DTAG_Component, name[i])]),
           Len(bytes),
           FoldLeft(LAMBDA acc, c : acc + EstimateTaggedBlob(DTAG_Component, Len(c)),
                    0, name))

Next ==
  \/ \E d \in Dtags : AppendBlockHeader(d, DTAG)
  \/ AppendCloser
  \/ \E n \in Numbers : AppendNumber(n) \/ \E d \in Dtags : AppendTaggedNumber(d, n)
  \/ \E s \in Seconds, ns \in Nanos : AppendTimestampBlob(s, ns)
  \/ \E d \in Dtags, b \in Blobs :
       \/ AppendTaggedBlob(d, b)
       \/ AppendString(d, b)
       \/ \E l \in PadLengths : AppendTaggedBlobWithPadding(d, l, b)
  \/ \E n \in Names : SerializeName(n)

Spec == Init /\ [][Next]_vars

(***************************************************************************)
(* Reference decoder, from spec 4.3: a header is bytes with the high bit  *)
(* clear (7 value bits each, most significant first) ended by a byte with *)
(* the high bit set (4 value bits, 3 type bits); BLOB and UDATA headers   *)
(* are followed by val payload bytes; a zero byte closes a scope.         *)
(***************************************************************************)

Malformed == [tt |-> MALFORMED, val |-> 0, data |-> <<>>]

BigEndian(bytes, radix) == FoldLeft(LAMBDA acc, x : acc * radix + x, 0, bytes)

HeaderEnds(b, i) ==
  {k \in i..Len(b) : b[k] >= 128 /\ \A m \in i..(k - 1) : b[m] < 128}

RECURSIVE DecodeFrom(_, _)
DecodeFrom(b, i) ==
  IF i > Len(b) THEN <<>>
  ELSE IF b[i] = NDN_CLOSE THEN <<Closer>> \o DecodeFrom(b, i + 1)
  ELSE IF HeaderEnds(b, i) = {} THEN <<Malformed>>
  ELSE LET j   == CHOOSE k \in HeaderEnds(b, i) : TRUE
           val == BigEndian(SubSeq(b, i, j - 1), 128) * 16 + ((b[j] \div 8) % 16)
           tt  == b[j] % 8
       IN  IF tt \notin {BLOB, UDATA}
           THEN <<Block(tt, val, <<>>)>> \o DecodeFrom(b, j + 1)
           ELSE IF j + val > Len(b) THEN <<Malformed>>
           ELSE <<Block(tt, val, SubSeq(b, j + 1, j + val))>>
                  \o DecodeFrom(b, j + val + 1)

Decode(b) == DecodeFrom(b, 1)

IsDecimal(data) == data # <<>> /\ \A k \in 1..Len(data) : data[k] \in 48..57

\* A decoded block carries what the call meant: a number is a UDATA of its
\* decimal digits, a timestamp is a BLOB, anything else is equal.
Matches(d, e) ==
  CASE e.tt = NUMBER_BLOCK -> d.tt = UDATA /\ IsDecimal(d.data)
                          /\ BigEndian([k \in 1..Len(d.data) |-> d.data[k] - 48], 10) = e.val
    [] e.tt = TIME_BLOCK   -> d.tt = BLOB
    [] OTHER           -> d = e

\* Nanoseconds of f 1/4096-second ticks (1e9 / 4096 = 244140.625).
NsOfTicks(f) == f * 244140 + (f * 5) \div 8
HalfTick == 122071

Abs(x) == IF x < 0 THEN -x ELSE x

(***************************************************************************)
(* Properties                                                              *)
(***************************************************************************)

\* Every Append call returns the number of bytes it wrote to the iterator,
\* and its Estimate* function predicts that number, for every argument.
EstimatesExact ==
  /\ written # None => written = Len(out) - before
  /\ estimate # None => estimate = Len(out) - before

\* Whatever sequence of Append calls a caller makes, the bytes decode
\* (spec 4.3) into exactly the blocks those calls were asked to write.
Decodes ==
  LET d == Decode(out)
  IN  /\ Len(d) = Len(expect)
      /\ \A i \in 1..Len(d) : Matches(d[i], expect[i])

\* AppendTimestampBlob writes the time rounded to the nearest 1/4096 s: the
\* blob read as a big-endian count of ticks is the seconds given, plus a
\* fraction within half a tick of the nanoseconds given.
TimestampsRound ==
  LET d == Decode(out)
  IN  \A i \in 1..Len(expect) :
        expect[i].tt = TIME_BLOCK /\ i <= Len(d) /\ d[i].tt = BLOB =>
          LET f == BigEndian(d[i].data, 256) - expect[i].val * 4096
          IN  f \in 0..4096 /\ Abs(NsOfTicks(f) - expect[i].data[1]) <= HalfTick
=============================================================================
