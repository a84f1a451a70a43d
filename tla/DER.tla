-------------------------------- MODULE DER --------------------------------
(***************************************************************************)
(* The DER visitors: SimpleVisitor (helpers/der/visitor/simple-visitor.cc) *)
(* turns one node into a boost::any, and the certificate subject visitors  *)
(* (visitor-der/visitor/cert-subject*-visitor.cc) walk a SEQUENCE OF       *)
(* SEQUENCE { OID, PrintableString } into CertificateData's subject list.  *)
(*                                                                         *)
(* A node is a record of its tag, payload bytes and children.  A boost::any *)
(* is a record of the type it holds and the value.  The inputs are abstract *)
(* values encoded by the reference encoder of spec 4.4, so each visit is    *)
(* decode(encode(v)) and the properties compare it with v.                 *)
(***************************************************************************)
EXTENDS Naturals, Sequences, SequencesExt

CONSTANTS
  Prims,      \* abstract primitive values handed to SimpleVisitor
  Pairs,      \* abstract subject descriptions (oid, value, value's tag)
  MaxSubjects,\* bound on the length of a subject list
  Thrown      \* an exception left the visitor (a model value)

\* DER tags
BOOLEAN_TAG == 1  INTEGER_TAG == 2  BIT_STRING == 3  OCTET_STRING == 4
NULL_TAG == 5  OID_TAG == 6  PRINTABLE_STRING == 19  GTIME == 24
SEQUENCE_TAG == 48

Node(tag, payload) == [tag |-> tag, payload |-> payload, children |-> <<>>]
Sequence(kids) == [tag |-> SEQUENCE_TAG, payload |-> <<>>, children |-> kids]

BoostAny(type, value) == [type |-> type, value |-> value]
Empty == BoostAny("empty", <<>>)

(***************************************************************************)
(* Decoding, as the code does it                                           *)
(***************************************************************************)

\* DerNode::decode128 (der.h, not in the repository; spec 4.4): base-128
\* groups, high bit set on every byte but the last of a sub-identifier.
RECURSIVE decode128s(_, _)
decode128s(bytes, acc) ==
  IF bytes = <<>> THEN <<>>
  ELSE LET v == acc * 128 + (Head(bytes) % 128)
       IN  IF Head(bytes) >= 128 THEN decode128s(Tail(bytes), v)
           ELSE <<v>> \o decode128s(Tail(bytes), 0)

\* Mutant: the offset is not advanced past the first byte.
OidArcs_NoSkip(p) == <<p[1] \div 40, p[1] % 40>> \o decode128s(p, 0)

\* visit(DerOid): the first byte is split into first / 40 and first % 40,
\* then decode128 is called until the payload is consumed.
OidArcs(p) == <<p[1] \div 40, p[1] % 40>> \o decode128s(Tail(p), 0)

DecimalOf(bytes) == FoldLeft(LAMBDA acc, b : acc * 10 + (b - 48), 0, bytes)

Leap(y) == (y % 4 = 0 /\ y % 100 # 0) \/ y % 400 = 0
DaysIn(y, m) == CASE m = 2 -> IF Leap(y) THEN 29 ELSE 28
                  [] m \in {4, 6, 9, 11} -> 30
                  [] OTHER -> 31

\* boost::posix_time::from_iso_string("YYYYMMDDTHHMMSS"): the gregorian
\* date constructor throws on a year before 1400, a month outside 1..12 or
\* a day past the end of the month.
from_iso_string(date, time) ==
  LET y == DecimalOf(SubSeq(date, 1, 4))
      m == DecimalOf(SubSeq(date, 5, 6))
      d == DecimalOf(SubSeq(date, 7, 8))
  IN  IF y < 1400 \/ m \notin 1..12 \/ d \notin 1..DaysIn(y, m) THEN Thrown
      ELSE [year |-> y, month |-> m, day |-> d,
            hour |-> DecimalOf(SubSeq(time, 1, 2)),
            minute |-> DecimalOf(SubSeq(time, 3, 4)),
            second |-> DecimalOf(SubSeq(time, 5, 6))]

\* visit(DerGtime): str.substr(0, 8) + "T" + str.substr(8, 6); substr(8)
\* throws out_of_range on a string shorter than 8 and clamps a longer one.
GtimeValue(p) ==
  IF Len(p) < 8 THEN Thrown
  ELSE from_iso_string(SubSeq(p, 1, 8), SubSeq(p, 9, Min({Len(p), 14})))

\* visit(DerBool): false when payload[0] is 0, true otherwise.  The inputs
\* never hand it an empty payload.
BoolValue(p) == p[1] # 0

\* SimpleVisitor::visit for each node type.
SimpleVisit(n) ==
  CASE n.tag = BOOLEAN_TAG      -> BoostAny("bool", BoolValue(n.payload))
    [] n.tag = INTEGER_TAG      -> BoostAny("Blob", n.payload)
    [] n.tag = PRINTABLE_STRING -> BoostAny("string", n.payload)
    [] n.tag = BIT_STRING       -> BoostAny("Blob", n.payload)
    [] n.tag = NULL_TAG         -> Empty
    [] n.tag = OCTET_STRING     -> BoostAny("Ptr<Blob>", n.payload)
    [] n.tag = OID_TAG          -> BoostAny("OID", OidArcs(n.payload))
    [] n.tag = SEQUENCE_TAG     -> Empty
    [] n.tag = GTIME            -> LET t == GtimeValue(n.payload)
                                   IN  IF t = Thrown THEN Thrown
                                       ELSE BoostAny("ptime", t)

\* Mutant: the OID and the value are swapped in the CertificateSubDescrypt.
CertSubDescrypt_Swapped(seq) ==
  LET o == SimpleVisit(seq.children[1])
      v == SimpleVisit(seq.children[2])
  IN  IF o = Thrown \/ v = Thrown \/ o.type # "OID" \/ v.type # "string"
      THEN Thrown
      ELSE [oid |-> v.value, value |-> o.value]

\* CertSubDescryptVisitor::visit: any_cast<OID> of child 0 and
\* any_cast<string> of child 1; a wrong type throws bad_any_cast.  The
\* inputs always have two children (children[1] is not range-checked).
CertSubDescrypt(seq) ==
  LET o == SimpleVisit(seq.children[1])
      v == SimpleVisit(seq.children[2])
  IN  IF o = Thrown \/ v = Thrown \/ o.type # "OID" \/ v.type # "string"
      THEN Thrown
      ELSE [oid |-> o.value, value |-> v.value]

\* Mutant: the loop stops before the last child.
RECURSIVE CertSubjectWalk_DropLast(_, _)
CertSubjectWalk_DropLast(kids, acc) ==
  IF Len(kids) <= 1 THEN [ok |-> TRUE, subjects |-> acc]
  ELSE LET d == CertSubDescrypt(Head(kids))
       IN  IF d = Thrown THEN [ok |-> FALSE, subjects |-> acc]
           ELSE CertSubjectWalk_DropLast(Tail(kids), Append(acc, d))

\* CertSubjectVisitor::visit: every child in order is visited with the same
\* CertificateData; addSubjectDescription has run for the children before
\* one that throws.
RECURSIVE CertSubjectWalk(_, _)
CertSubjectWalk(kids, acc) ==
  IF kids = <<>> THEN [ok |-> TRUE, subjects |-> acc]
  ELSE LET d == CertSubDescrypt(Head(kids))
       IN  IF d = Thrown THEN [ok |-> FALSE, subjects |-> acc]
           ELSE CertSubjectWalk(Tail(kids), Append(acc, d))

(***************************************************************************)
(* The reference encoder of spec 4.4                                       *)
(***************************************************************************)

RECURSIVE Base128(_)
Base128(n) == IF n < 128 THEN <<n>> ELSE Base128(n \div 128) \o <<n % 128>>

\* a sub-identifier: base-128 groups, high bit on all but the last
SubIdentifier(n) ==
  LET g == Base128(n)
  IN  [i \in 1..Len(g) |-> IF i < Len(g) THEN g[i] + 128 ELSE g[i]]

EncodeOid(arcs) ==
  <<40 * arcs[1] + arcs[2]>> \o
    FlattenSeq([k \in 1..Len(arcs) - 2 |-> SubIdentifier(arcs[k + 2])])

Digits(n, w) == [i \in 1..w |-> 48 + ((n \div 10 ^ (w - i)) % 10)]

\* YYYYMMDDHHMMSS, with a trailing Z when zulu is set
EncodeTime(t) ==
  Digits(t.year, 4) \o Digits(t.month, 2) \o Digits(t.day, 2)
    \o Digits(t.hour, 2) \o Digits(t.minute, 2) \o Digits(t.second, 2)
    \o (IF t.zulu THEN <<90>> ELSE <<>>)

\* A primitive value: its tag and the field that matters for that tag.
Encode(v) ==
  CASE v.tag = BOOLEAN_TAG -> Node(BOOLEAN_TAG, v.bytes)
    [] v.tag = OID_TAG     -> Node(OID_TAG, EncodeOid(v.arcs))
    [] v.tag = GTIME       -> Node(GTIME, EncodeTime(v.time))
    [] OTHER               -> Node(v.tag, v.bytes)

EncodePair(p) == Sequence(<<Node(OID_TAG, EncodeOid(p.oid)),
                            Node(p.vtag, p.value)>>)

EncodeSubjects(list) == Sequence([i \in 1..Len(list) |-> EncodePair(list[i])])

SubjectLists == UNION {[1..k -> Pairs] : k \in 0..MaxSubjects}

(***************************************************************************)
(* State: the last node handed to SimpleVisitor and what it returned, the  *)
(* last subject SEQUENCE walked and the CertificateData's subject list.    *)
(***************************************************************************)
VARIABLES
  prim,       \* the abstract value last encoded and visited
  visited,    \* SimpleVisitor's result for it
  subjectList,\* the abstract subject list last encoded and walked
  certSubjects, \* CertificateData's subject descriptions after the walk
  walkOk      \* the walk returned without an exception

vars == <<prim, visited, subjectList, certSubjects, walkOk>>

AnyTypes == {"bool", "Blob", "string", "Ptr<Blob>", "empty", "OID", "ptime"}

TypeOK ==
  /\ prim \in Prims \cup {Thrown}
  /\ \/ visited = Thrown
     \/ /\ visited.type \in AnyTypes
        /\ visited.type = "bool" => visited.value \in BOOLEAN
        /\ visited.type = "OID" => visited.value \in Seq(Nat)
  /\ subjectList \in SubjectLists \cup {Thrown}
  /\ certSubjects \in Seq([oid : Seq(Nat), value : Seq(0..255)])
  /\ walkOk \in BOOLEAN

Init ==
  /\ prim = Thrown /\ visited = Empty
  /\ subjectList = Thrown /\ certSubjects = <<>> /\ walkOk = TRUE

\* node.accept(simpleVisitor) on the encoding of v
Visit(v) ==
  /\ prim' = v
  /\ visited' = SimpleVisit(Encode(v))
  /\ UNCHANGED <<subjectList, certSubjects, walkOk>>

\* subjectSeq.accept(certSubjectVisitor, certData) with a new CertificateData
VisitSubjects(list) ==
  LET r == CertSubjectWalk(EncodeSubjects(list).children, <<>>)
  IN  /\ subjectList' = list
      /\ certSubjects' = r.subjects
      /\ walkOk' = r.ok
      /\ UNCHANGED <<prim, visited>>

Next ==
  \/ \E v \in Prims : Visit(v)
  \/ \E l \in SubjectLists : VisitSubjects(l)

Spec == Init /\ [][Next]_vars

(***************************************************************************)
(* Properties                                                              *)
(***************************************************************************)

\* The spec's decode(encode(v)) = v for the SimpleVisitor: a boolean, OID,
\* GeneralizedTime or byte payload comes back as the value it encodes, and
\* a GeneralizedTime of an impossible date is rejected with an exception.
PrimitivesDecode ==
  prim # Thrown =>
    CASE prim.tag = BOOLEAN_TAG -> visited.value = (prim.bytes # <<0>>)
      [] prim.tag = OID_TAG     -> visited.value = prim.arcs
      [] prim.tag = GTIME       ->
           LET t == prim.time
           IN  IF t.month \in 1..12 /\ t.day \in 1..DaysIn(t.year, t.month)
               THEN visited # Thrown /\ visited.value =
                      [year |-> t.year, month |-> t.month, day |-> t.day,
                       hour |-> t.hour, minute |-> t.minute, second |-> t.second]
               ELSE visited = Thrown
      [] prim.tag \in {NULL_TAG, SEQUENCE_TAG} -> visited = Empty
      [] OTHER -> visited.value = prim.bytes

\* The subject walk returns the subject list it was given, in order, when
\* every value is a PrintableString; otherwise it throws, after adding the
\* descriptions before the first bad one.
SubjectsDecode ==
  subjectList # Thrown =>
    LET good == {i \in 1..Len(subjectList) :
                   subjectList[i].vtag = PRINTABLE_STRING}
        firstBad == IF good = DOMAIN subjectList THEN Len(subjectList) + 1
                    ELSE Min(DOMAIN subjectList \ good)
    IN  /\ walkOk = (firstBad > Len(subjectList))
        /\ certSubjects = [i \in 1..firstBad - 1 |->
                             [oid |-> subjectList[i].oid,
                              value |-> subjectList[i].value]]
====
