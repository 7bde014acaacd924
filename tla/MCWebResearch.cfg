SPECIFICATION Spec
CONSTANTS
  Queries = {q1, q2, q3, q4}
  Pages = {p1, p2}
  MaxQueries = 3
  MaxRounds = 2
  MaxResults = 2
INVARIANTS
  TypeOK
  EvidenceOnce
  ReportRestsOnEvidence
PROPERTY
  RunEnds
CHECK_DEADLOCK FALSE
