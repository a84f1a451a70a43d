------------------------------- MODULE Regex -------------------------------
(***************************************************************************)
(* The Name-Regex top matcher (src/ndn.cxx/regex/regex-top-matcher.cc) and *)
(* the pattern-list compiler (security/regex/regex-patternlist-matcher.cc).*)
(* The state is one RegexTopMatcher object: how its construction ended,    *)
(* m_secondaryUsed and m_matchResult set by match(), and the last name     *)
(* expand() returned.  Strings are sequences of one-character strings;     *)
(* a name is a sequence of components, each a character sequence (its URI *)
(* form).                                                                  *)
(***************************************************************************)
EXTENDS Naturals, Sequences, SequencesExt

CONSTANTS
  Exprs,          \* regex strings given to the constructor
  FromNames,      \* names given to fromName
  MatchNames,     \* names given to match
  Templates,      \* expand strings given to expand
  RegexException  \* the RegexException thrown (a model value)

Digits == {"0", "1", "2", "3", "4", "5", "6", "7", "8", "9"}
DigitValue(c) == CHOOSE d \in 0..9 : <<"0","1","2","3","4","5","6","7","8","9">>[d + 1] = c

\* The string "<.*>*" appended or prepended by compile.
AnyStar == <<"<", ".", "*", ">", "*">>

(***************************************************************************)
(* Compilation                                                             *)
(***************************************************************************)

\* ExtractPattern: the '(' case extracts the group and its repetition, then
\* falls through into the '<' case, which extracts a component and its
\* repetition and falls through into default: throw.  No case breaks, so
\* every pattern ends in RegexException (ExtractSubPattern and
\* ExtractRepetition can only throw earlier).
ExtractPattern(expr, index) == RegexException

\* Compile: extract patterns from index 0 until the end of the string; an
\* empty pattern list compiles.
Compile(expr) ==
  IF Len(expr) = 0 THEN TRUE ELSE ExtractPattern(expr, 0) # RegexException

\* RegexTopMatcher::compile: append <.*>* unless the expression ends in $
\* (else drop the $); without a leading ^ build a secondary matcher for
\* <.*>* followed by the expression (else drop the ^); build the primary.
\* expr[0] of an empty string is '\0'.
TopCompile(expr) ==
  LET e1 == IF expr[Len(expr)] # "$" THEN expr \o AnyStar
                                      ELSE SubSeq(expr, 1, Len(expr) - 1)
      secondary == e1 = <<>> \/ e1[1] # "^"
      primary == IF secondary THEN e1 ELSE Tail(e1)
  IN  /\ secondary => Compile(AnyStar \o e1)
      /\ Compile(primary)

\* convertSpecialChar: a backslash before . [ { } ( ) \ * + ? | ^ $.
Special == {".", "[", "{", "}", "(", ")", "\\", "*", "+", "?", "|", "^", "$"}

convertSpecialChar(str) ==
  FoldLeft(LAMBDA acc, c : IF c \in Special THEN acc \o <<"\\", c>>
                                            ELSE Append(acc, c),
           <<>>, str)

\* fromName: ^ then <component> per component, then $ if hasAnchor.
fromName(name, hasAnchor) ==
  <<"^">>
    \o FoldLeft(LAMBDA acc, comp : acc \o <<"<">> \o convertSpecialChar(comp) \o <<">">>,
                <<>>, name)
    \o (IF hasAnchor THEN <<"$">> ELSE <<>>)

(***************************************************************************)
(* Expansion                                                               *)
(***************************************************************************)

\* The digit loop of getItemFromExpand: stop at the first non-digit; the
\* character at index size is '\0', so the loop stops at size.
RECURSIVE DigitsEnd(_, _)
DigitsEnd(x, offset) ==
  IF offset < Len(x) /\ x[offset + 1] \in Digits THEN DigitsEnd(x, offset + 1)
                                                 ELSE offset

\* The <...> loop: count < and > from begin + 1; after each step the
\* offset must stay below the size, or the template is malformed.
RECURSIVE AngleEnd(_, _, _, _)
AngleEnd(x, offset, left, right) ==
  IF right >= left THEN offset
  ELSE LET l == IF x[offset + 1] = "<" THEN left + 1 ELSE left
           r == IF x[offset + 1] = ">" THEN right + 1 ELSE right
       IN  IF offset + 1 >= Len(x) THEN RegexException
                                   ELSE AngleEnd(x, offset + 1, l, r)

\* getItemFromExpand: the item starting at offset (0-based) and the offset
\* after it, or RegexException.
getItemFromExpand(x, offset) ==
  LET Item(next) == [item |-> SubSeq(x, offset + 1, next), next |-> next]
  IN  CASE x[offset + 1] = "\\" ->
             IF offset + 1 >= Len(x) THEN RegexException
             ELSE IF DigitsEnd(x, offset + 1) > offset + 1
                  THEN Item(DigitsEnd(x, offset + 1))
                  ELSE RegexException
        [] x[offset + 1] = "<" ->
             IF offset + 1 >= Len(x) THEN RegexException
             ELSE IF AngleEnd(x, offset + 1, 1, 0) = RegexException
                  THEN RegexException
                  ELSE Item(AngleEnd(x, offset + 1, 1, 0))
        [] OTHER -> RegexException

Number(ds) == FoldLeft(LAMBDA acc, c : acc * 10 + DigitValue(c), 0, ds)

\* Mutant: the literal keeps its closing '>' (substr(1, size - 1)).
RECURSIVE ExpandFrom_KeepCloser(_, _, _, _, _)
ExpandFrom_KeepCloser(x, offset, result, matchResult, backRefs) ==
  IF offset >= Len(x) THEN result
  ELSE LET it == getItemFromExpand(x, offset)
       IN  IF it = RegexException THEN RegexException
           ELSE IF it.item[1] = "<"
           THEN ExpandFrom_KeepCloser(x, it.next, Append(result, Tail(it.item)),
                                      matchResult, backRefs)
           ELSE LET index == Number(Tail(it.item))
                IN  IF index = 0
                    THEN ExpandFrom_KeepCloser(x, it.next, result \o matchResult, matchResult, backRefs)
                    ELSE IF index <= Len(backRefs)
                    THEN ExpandFrom_KeepCloser(x, it.next, result \o backRefs[index], matchResult, backRefs)
                    ELSE RegexException

\* expand: append the literal of each <...> item; for \k append the match
\* result (k = 0) or back reference k, which must be at most getNum().
RECURSIVE ExpandFrom(_, _, _, _, _)
ExpandFrom(x, offset, result, matchResult, backRefs) ==
  IF offset >= Len(x) THEN result
  ELSE LET it == getItemFromExpand(x, offset)
       IN  IF it = RegexException THEN RegexException
           ELSE IF it.item[1] = "<"
           THEN ExpandFrom(x, it.next, Append(result, SubSeq(it.item, 2, Len(it.item) - 1)),
                           matchResult, backRefs)
           ELSE LET index == Number(Tail(it.item))
                IN  IF index = 0
                    THEN ExpandFrom(x, it.next, result \o matchResult, matchResult, backRefs)
                    ELSE IF index <= Len(backRefs)
                    THEN ExpandFrom(x, it.next, result \o backRefs[index], matchResult, backRefs)
                    ELSE RegexException

expand(x, matchResult, backRefs) == ExpandFrom(x, 0, <<>>, matchResult, backRefs)

(***************************************************************************)
(* Reference expansion, from spec 4.2: a template is a sequence of tokens  *)
(* <literal> (no < or > inside) and \k (one or more digits); <literal>     *)
(* appends the literal, \0 the whole match, \k group k; anything else, or *)
(* an unknown group, is a RegexException.                                  *)
(***************************************************************************)
RECURSIVE ReferenceExpand(_, _, _)
ReferenceExpand(x, matchResult, backRefs) ==
  LET Then(part, rest) ==
        LET r == ReferenceExpand(rest, matchResult, backRefs)
        IN  IF r = RegexException THEN RegexException ELSE part \o r
      closers == {k \in 2..Len(x) : x[k] = ">"}
      digitRun == {m \in 1..(Len(x) - 1) : \A k \in 2..(m + 1) : x[k] \in Digits}
  IN  IF x = <<>> THEN <<>>
      ELSE IF x[1] = "<"
      THEN IF closers = {} THEN RegexException
           ELSE LET k == Min(closers)
                    literal == SubSeq(x, 2, k - 1)
                IN  IF "<" \in ToSet(literal) THEN RegexException
                    ELSE Then(<<literal>>, SubSeq(x, k + 1, Len(x)))
      ELSE IF x[1] = "\\" /\ digitRun # {}
      THEN LET m == Max(digitRun)
               k == Number(SubSeq(x, 2, m + 1))
               rest == SubSeq(x, m + 2, Len(x))
           IN  IF k = 0 THEN Then(matchResult, rest)
               ELSE IF k <= Len(backRefs) THEN Then(backRefs[k], rest)
               ELSE RegexException
      ELSE RegexException

(***************************************************************************)
(* The RegexTopMatcher object                                              *)
(***************************************************************************)

VARIABLES
  status,         \* "none", "threw" (the constructor threw) or "ready"
  m_expand,       \* the expand string given to the constructor
  m_secondaryUsed,
  m_matchResult,
  matched,        \* what the last match() returned
  template,       \* the expand string the last expand() used
  backRefs,       \* the groups of the back-reference manager it used
  expanded        \* what the last expand() returned

vars == <<status, m_expand, m_secondaryUsed, m_matchResult, matched,
          template, backRefs, expanded>>

None == <<"none">>

Init ==
  /\ status = "none"
  /\ m_expand = <<>>
  /\ m_secondaryUsed = FALSE
  /\ m_matchResult = <<>>
  /\ matched = FALSE
  /\ template = <<>>
  /\ backRefs = <<>>
  /\ expanded = None

\* The constructor: store the expand string, clear m_secondaryUsed, compile.
RegexTopMatcher(expr, x) ==
  /\ status' = IF TopCompile(expr) THEN "ready" ELSE "threw"
  /\ m_expand' = x
  /\ m_secondaryUsed' = FALSE
  /\ m_matchResult' = <<>>
  /\ matched' = FALSE
  /\ expanded' = None
  /\ UNCHANGED <<template, backRefs>>

\* match(name): clear the result, try the primary matcher, then the
\* secondary.  Only an empty primary pattern list compiles (ExtractPattern
\* throws on every pattern), and then there is no secondary matcher; an
\* empty pattern list matches the empty name, with an empty result.
match(name) ==
  /\ status = "ready"
  /\ m_secondaryUsed' = FALSE
  /\ m_matchResult' = <<>>
  /\ matched' = (name = <<>>)
  /\ UNCHANGED <<status, m_expand, template, backRefs, expanded>>

\* expand(expandStr): an empty argument means m_expand; the back
\* references are those of the matcher that matched, none for an empty
\* pattern list.
Expand(x) ==
  /\ status = "ready"
  /\ template' = IF x # <<>> THEN x ELSE m_expand
  /\ backRefs' = <<>>
  /\ expanded' = expand(template', m_matchResult, backRefs')
  /\ UNCHANGED <<status, m_expand, m_secondaryUsed, m_matchResult, matched>>

Next ==
  \/ \E e \in Exprs, x \in Templates \cup {<<>>} : RegexTopMatcher(e, x)
  \/ \E n \in FromNames, a \in BOOLEAN : RegexTopMatcher(fromName(n, a), <<>>)
  \/ \E n \in MatchNames : match(n)
  \/ \E x \in Templates \cup {<<>>} : Expand(x)

Spec == Init /\ [][Next]_vars

(***************************************************************************)
(* Properties                                                              *)
(***************************************************************************)

\* expand never returns a wrong name: after every expand() call the result
\* is either RegexException or the expansion spec 4.2 defines for the
\* template, the match result and the back references it used.
ExpandSound ==
  expanded # None =>
    \/ expanded = RegexException
    \/ expanded = ReferenceExpand(template, m_matchResult, backRefs)

=============================================================================
