CONSTANTS
  RegexException = RegexException
  Exprs <- MCExprs
  FromNames <- MCFromNames
  MatchNames <- MCMatchNames
  Templates <- MCTemplates
SPECIFICATION Spec
INVARIANT ExpandSound
CHECK_DEADLOCK FALSE
