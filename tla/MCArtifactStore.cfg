SPECIFICATION Spec
CONSTANTS
  Processes = {p1, p2}
  Contents = {c1, c2}
  Names = {answer}
  NoContent = NoContent
  MaxPuts = 2
  MaxVersion = 2
SYMMETRY Symmetry
INVARIANTS
  TypeOK
  ReferencesResolve
PROPERTY
  RefinesLedger
