------------------------------- MODULE MCDER -------------------------------
(***************************************************************************)
(* Inputs for the DER visitors: each primitive type once, booleans written *)
(* as 0xFF, 0x01 and 0x00, OIDs with one-, two- and three-byte             *)
(* sub-identifiers and first bytes 0 and 119 (the largest that splits back *)
(* into the arcs the spec's first/40, first%40 rule encodes), and          *)
(* GeneralizedTimes on and off the leap-day and month-length boundaries.   *)
(* Subject lists of up to two descriptions, a value being a                *)
(* PrintableString or (malformed) an OCTET STRING.                         *)
(***************************************************************************)
EXTENDS DER

T(y, mo, d, h, mi, s, z) ==
  [year |-> y, month |-> mo, day |-> d, hour |-> h, minute |-> mi,
   second |-> s, zulu |-> z]

NoTime == T(2023, 1, 1, 0, 0, 0, FALSE)

P(tag, bytes, arcs, time) == [tag |-> tag, bytes |-> bytes, arcs |-> arcs, time |-> time]

MCOids == {<<2, 5, 4, 3>>, <<1, 2, 840, 113549>>, <<0, 0>>, <<2, 39>>}

MCTimes == {T(2023, 1, 1, 0, 0, 0, FALSE), T(2024, 2, 29, 23, 59, 59, TRUE),
            T(2000, 2, 29, 12, 30, 5, FALSE), T(2023, 2, 29, 12, 0, 0, FALSE),
            T(2100, 2, 29, 0, 0, 0, FALSE), T(2023, 4, 31, 0, 0, 0, FALSE),
            T(2023, 13, 1, 0, 0, 0, FALSE)}

MCPrims ==
  {P(BOOLEAN_TAG, b, <<>>, NoTime) : b \in {<<255>>, <<1>>, <<0>>}}
  \cup {P(t, b, <<>>, NoTime) : <<t, b>> \in
          {<<INTEGER_TAG, <<1, 0>>>>, <<BIT_STRING, <<0, 255>>>>,
           <<OCTET_STRING, <<7>>>>, <<NULL_TAG, <<>>>>,
           <<SEQUENCE_TAG, <<>>>>, <<PRINTABLE_STRING, <<65>>>>}}
  \cup {P(OID_TAG, <<>>, a, NoTime) : a \in MCOids}
  \cup {P(GTIME, <<>>, <<>>, t) : t \in MCTimes}

MCPairs ==
  [oid : {<<2, 5, 4, 3>>, <<1, 2, 840, 113549>>}, value : {<<65>>, <<>>},
   vtag : {PRINTABLE_STRING, OCTET_STRING}]
=============================================================================
