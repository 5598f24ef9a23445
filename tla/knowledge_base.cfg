SPECIFICATION Spec
CONSTANTS
  MaxArticles = 2
  Services = {mail, payments}
  Requests = {r1, r2}
  MaxCalls = 3
  MaxLosses = 1
SYMMETRY Interchangeable
INVARIANTS
  CustomersSeeApproved
PROPERTIES
  RowMoves
  LinksAsSubmitted
\* The request budget ends.
CHECK_DEADLOCK FALSE
