SPECIFICATION Spec
CONSTANTS
  Windows = {8192, 12288}
  TurnSizes = {900, 2500, 4000}
  FixedSizes = {400, 4000}
  SummarySizes = {300}
  ArtifactSizes = {1500}
  RefSize = 200
  MaxTurns = 6
  MaxRefs = 2
INVARIANTS
  TypeOK
  ConversationKept
  PromptFits
