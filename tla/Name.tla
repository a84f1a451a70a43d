-------------------------------- MODULE Name --------------------------------
(***************************************************************************)
(* ndn::Name (src/ndn.cxx/name.cpp): a name is the vector m_comps of byte  *)
(* string components.  The state is one Name being built by the append     *)
(* operations, together with the wall clock that appendVersion() reads.    *)
(* The getters are operators over a component sequence; properties apply  *)
(* them to every name the append operations can build.                     *)
(*                                                                         *)
(* A component is a sequence of bytes (0..255).  size_t arithmetic is done *)
(* modulo 2^SizeBits: the wrap-around of getSubName is the same at any     *)
(* width, only the constant npos changes.                                  *)
(***************************************************************************)
EXTENDS Naturals, Integers, Sequences, SequencesExt

CONSTANTS
  Numbers,    \* uint64 arguments given to appendNumber / appendVersion
  Markers,    \* marker bytes given to appendNumberWithMarker
  RawComps,   \* byte strings given to append(const Bytes &)
  NVersion,   \* Name::nversion, the default argument of appendVersion
  Seconds,    \* values of total_seconds() the clock may show
  Micros,     \* values of fractional_seconds() (microseconds) it may show
  SizeBits,   \* width of size_t in the model
  MaxLen,     \* bound on the number of components built
  NameException \* the NameException thrown (a model value)

ASSUME /\ Numbers \subseteq Nat /\ NVersion \notin Nat
       /\ Markers \subseteq 0..255
       /\ \A c \in RawComps : c \in Seq(0..255)
       /\ Seconds \subseteq Nat /\ Micros \subseteq 0..999999

VersionMarker == 253   \* 0xFD

SizeT == 2 ^ SizeBits
npos == SizeT - 1      \* Name::npos = (size_t)-1

VARIABLES
  comps,     \* m_comps
  origin,    \* origin[i]: the call that appended comps[i] (history)
  clock,     \* microsec_clock::universal_time(): [sec, usec]
  versions   \* the versions appendVersion() synthesized, in call order

vars == <<comps, origin, clock, versions>>

Origin == [kind : {"raw", "number", "marked"}, value : Nat, marker : 0..255]

TypeOK ==
  /\ comps \in Seq(Seq(0..255)) /\ Len(comps) <= MaxLen
  /\ origin \in Seq(Origin) /\ Len(origin) = Len(comps)
  /\ clock \in [sec : Seconds, usec : Micros]
  /\ versions \in Seq(Nat)

(***************************************************************************)
(* Encoders and decoders                                                   *)
(***************************************************************************)

\* Mutant: the byte is masked with 0xFFF, as in appendVersion, not 0xFF.
RECURSIVE NumberBytes_WideMask(_)
NumberBytes_WideMask(number) ==
  IF number > 0 THEN <<number % 4096>> \o NumberBytes_WideMask(number \div 256)
                ELSE <<>>

\* appendNumber's loop: emit the low byte and shift right until zero, so the
\* bytes are little-endian with no trailing zero byte (0 is the empty string).
RECURSIVE NumberBytes(_)
NumberBytes(number) ==
  IF number > 0 THEN <<number % 256>> \o NumberBytes(number \div 256)
                ELSE <<>>

\* asNumber: walk the component from its last byte, ret = (ret << 8) | byte.
asNumber(comp) == FoldRight(LAMBDA b, ret : ret * 256 + b, comp, 0)

\* Mutant: the loop or-s in every byte, the marker included.
asNumberWithMarker_NoLag(comp, marker) ==
  IF comp = <<>> \/ comp[1] # marker THEN NameException
  ELSE FoldRight(LAMBDA b, ret : ret * 256 + b, comp, 0)

\* asNumberWithMarker: fail unless the first byte is the marker; the loop
\* holds the previous byte in `value`, so the first byte is never or-ed in.
asNumberWithMarker(comp, marker) ==
  IF comp = <<>> \/ comp[1] # marker THEN NameException
  ELSE FoldRight(LAMBDA b, ret : ret * 256 + b, Tail(comp), 0)

\* The version appendVersion() synthesizes from the clock:
\* (total_seconds << 12) | (0xFFF & (fractional_seconds / 244)).
NowVersion(c) == c.sec * 4096 + ((c.usec \div 244) % 4096)

(***************************************************************************)
(* Getters                                                                 *)
(***************************************************************************)

\* get(int index): a negative index becomes size - 1 - index; then the
\* index, as unsigned, must be below size.
get(name, index) ==
  LET i == IF index < 0 THEN Len(name) - 1 - index ELSE index
  IN  IF i < 0 \/ i >= Len(name) THEN NameException ELSE name[i + 1]

\* Mutant: the range check rejects pos + len = size.
getSubName_CheckGeq(name, pos, len) ==
  LET l   == IF len = npos THEN (Len(name) - pos) % SizeT ELSE len
      end == (pos + l) % SizeT
  IN  IF end >= Len(name) THEN NameException
      ELSE [k \in 1..(IF end > pos THEN end - pos ELSE 0) |->
              get(name, pos + k - 1)]

\* getSubName(pos, len): len = npos becomes size - pos (size_t); the range
\* check is pos + len > size (size_t); the loop appends get(i) for
\* pos <= i < pos + len (size_t).
getSubName(name, pos, len) ==
  LET l   == IF len = npos THEN (Len(name) - pos) % SizeT ELSE len
      end == (pos + l) % SizeT
  IN  IF end > Len(name) THEN NameException
      ELSE [k \in 1..(IF end > pos THEN end - pos ELSE 0) |->
              get(name, pos + k - 1)]

(***************************************************************************)
(* URI form                                                                *)
(***************************************************************************)

HexDigit(d) == IF d < 10 THEN 48 + d ELSE 87 + d

\* Name::asString: a byte for which isprint holds (0x20..0x7E) is written as
\* itself, any other as '%' and two lower-case hex digits.
asString(comp) ==
  FlattenSeq([i \in 1..Len(comp) |->
                IF comp[i] \in 32..126 THEN <<comp[i]>>
                ELSE <<37, HexDigit(comp[i] \div 16), HexDigit(comp[i] % 16)>>])

\* operator<< (what toUri returns): "/" and the components' strings joined
\* with "/".
toUri(name) ==
  <<47>> \o FlattenSeq([i \in 1..Len(name) |->
                         (IF i > 1 THEN <<47>> ELSE <<>>) \o asString(name[i])])

\* getline(ss, compStr, '/') until it fails: the pieces between slashes; the
\* piece after a final slash is empty and getline fails on it.
getlines(s) ==
  LET r == FoldLeft(LAMBDA acc, c :
                      IF c = 47 THEN [pieces |-> Append(acc.pieces, acc.cur),
                                      cur |-> <<>>]
                      ELSE [acc EXCEPT !.cur = Append(@, c)],
                    [pieces |-> <<>>, cur |-> <<>>], s)
  IN  IF r.cur = <<>> THEN r.pieces ELSE Append(r.pieces, r.cur)

\* Name::Name(const string &): the first piece is discarded and every other
\* piece's characters become a component as they are.
NameOfUri(s) == IF getlines(s) = <<>> THEN <<>> ELSE Tail(getlines(s))

(***************************************************************************)
(* Comparison and concatenation                                            *)
(***************************************************************************)

\* operator==: compare the components pairwise while both names have one,
\* false at the first difference; then equal only if both ran out together.
NameEquals(a, b) ==
  /\ \A i \in 1..Min({Len(a), Len(b)}) : a[i] = b[i]
  /\ Len(a) = Len(b)

\* operator+: a copy of the left name with the right one's components
\* appended.
NamePlus(a, b) == a \o b

(***************************************************************************)
(* Operations                                                              *)
(***************************************************************************)

Init ==
  /\ comps = <<>>
  /\ origin = <<>>
  /\ clock \in [sec : Seconds, usec : Micros]
  /\ versions = <<>>

\* Name::append (const Bytes &comp): push_back.
AppendComp(comp, from) ==
  /\ Len(comps) < MaxLen
  /\ comps' = Append(comps, comp)
  /\ origin' = Append(origin, from)

append(comp) ==
  /\ AppendComp(comp, [kind |-> "raw", value |-> 0, marker |-> 0])
  /\ UNCHANGED <<clock, versions>>

\* Name::append (const Name &): insert the other name's components at the end.
appendName(other) ==
  /\ Len(comps) + Len(other) <= MaxLen
  /\ comps' = comps \o other
  /\ origin' = origin \o [k \in 1..Len(other) |->
                            [kind |-> "raw", value |-> 0, marker |-> 0]]
  /\ UNCHANGED <<clock, versions>>

appendNumber(number) ==
  /\ AppendComp(NumberBytes(number),
                [kind |-> "number", value |-> number, marker |-> 0])
  /\ UNCHANGED <<clock, versions>>

appendNumberWithMarker(number, marker) ==
  /\ AppendComp(<<marker>> \o NumberBytes(number),
                [kind |-> "marked", value |-> number, marker |-> marker])
  /\ UNCHANGED <<clock, versions>>

\* appendVersion(version): an explicit version is appended with the 0xFD
\* marker; the default nversion is replaced by the clock's version first.
appendVersion(version) ==
  \/ /\ version # NVersion
     /\ appendNumberWithMarker(version, VersionMarker)
  \/ /\ version = NVersion
     /\ AppendComp(<<VersionMarker>> \o NumberBytes(NowVersion(clock)),
                   [kind |-> "marked", value |-> NowVersion(clock),
                    marker |-> VersionMarker])
     /\ versions' = Append(versions, NowVersion(clock))
     /\ UNCHANGED clock

\* universal_time() moves forward between two calls.
Tick ==
  /\ \E s \in Seconds, u \in Micros :
       /\ s > clock.sec \/ (s = clock.sec /\ u > clock.usec)
       /\ clock' = [sec |-> s, usec |-> u]
  /\ UNCHANGED <<comps, origin, versions>>

Next ==
  \/ \E c \in RawComps : append(c)
  \/ \E c \in RawComps : appendName(<<c, c>>)
  \/ \E n \in Numbers : appendNumber(n)
  \/ \E n \in Numbers, m \in Markers : appendNumberWithMarker(n, m)
  \/ \E v \in Numbers \cup {NVersion} : appendVersion(v)
  \/ Tick

Spec == Init /\ [][Next]_vars

(***************************************************************************)
(* Properties                                                              *)
(***************************************************************************)

\* Every component appended by appendNumber or appendNumberWithMarker
\* decodes, with asNumber or asNumberWithMarker and the same marker, to the
\* number it was built from, whatever was appended before or after it.
NumbersDecode ==
  \A i \in 1..Len(comps) :
    /\ origin[i].kind = "number" => asNumber(comps[i]) = origin[i].value
    /\ origin[i].kind = "marked" =>
         asNumberWithMarker(comps[i], origin[i].marker) = origin[i].value

\* getSubName cuts a name anywhere: getSubName(0, pos) + getSubName(pos)
\* (len = npos) == the whole name, with Name's own operator+ and ==.
SubNamesConcatenate ==
  \A pos \in 0..Len(comps) :
    LET prefix == getSubName(comps, 0, pos)
        suffix == getSubName(comps, pos, npos)
    IN  /\ prefix # NameException /\ suffix # NameException
        /\ NameEquals(NamePlus(prefix, suffix), comps)

\* getSubName's range check (name.cpp:322) is meant to reject a start
\* position past the end of the name.
SubNameOutOfRangeFails ==
  \A pos \in Len(comps) + 1 .. Len(comps) + 2 :
    getSubName(comps, pos, npos) = NameException

\* appendVersion() called later gets a version no smaller than before, so
\* "the latest version" of a name (CertificateCache) is the newest one.
VersionsIncrease == IsSorted(versions, <=)
\* Spec section 8: Name::fromUri(n.toUri()) == n for every Name; here for
\* every name the append operations build, read back by the string
\* constructor.
UriRoundTrip == NameOfUri(toUri(comps)) = comps
=============================================================================
