------------------------------ MODULE MCRegex ------------------------------
(***************************************************************************)
(* Model of the Name-Regex top matcher for TLC.  The expressions cover     *)
(* the grammar's shapes: anchored and unanchored, a component and a group, *)
(* and ^$, the one expression whose pattern list is empty.  The templates  *)
(* cover literals at the end and in the middle, \0, groups in and out of   *)
(* range, a multi-digit group and malformed items.  Literals with a nested *)
(* '<' are left out: spec 4.2 does not say what they expand to.            *)
(***************************************************************************)
EXTENDS Regex

A == <<"a">>
B == <<"b">>
MCExprs == { <<"^", "$">>, <<"<", "a", ">">>, <<"^", "<", "a", ">", "$">>,
             <<"(", "<", "a", ">", ")", "$">> }
MCFromNames == { <<>>, <<A>>, << <<"a", ".">> >> }
MCMatchNames == { <<>>, <<A>> }
MCTemplates ==
  { <<"<", "a", ">">>,
    <<"<", "a", ">", "\\", "0">>,
    <<"\\", "0", "<", "b", ">", "\\", "1">>,
    <<"\\", "1", "\\", "0">>,
    <<"\\", "2">>,
    <<"\\", "0">>,
    <<"<", "b", ">", "\\", "0", "\\", "0">>,
    <<"\\", "1", "0">>,
    <<"\\">>,
    <<"<", "a">>,
    <<"a", "\\", "0">> }
=============================================================================
