SPECIFICATION Spec
CONSTANTS
  Plans <- MCPlans
  MaxSteps = 2
  MaxComments = 2
  MaxAborts = 2
INVARIANTS
  TypeOK
  CommentsIngestedOnce
  StepsInOrder
  RevisionAnnounced
  HandedBackBeforeWaiting
PROPERTIES
  RepetitionBounded
  AssignedIsHandedBack
  CommentsReachConversation
  RefinesProtocol
