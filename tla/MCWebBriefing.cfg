SPECIFICATION Spec
CONSTANTS
  Urls = {u1, u2}
  SummarizedList = 10
  None = None
  MaxLinks = 3
  MaxEdits = 3
SYMMETRY UrlSymmetry
INVARIANTS
  TypeOK
  RepeatsAreHarmless
  ReportIsTrue
PROPERTY
  MovedLinksAreLeftAlone
