SPECIFICATION JSpec
CONSTANTS
  Humans <- MCHumans
  Agents <- MCAgents
  MaxHistory = 3
  MaxJournals = 4
  MaxAnswers = 3
INVARIANTS
  JTypeOK
  ConversationInOrder
  LiveAgentsAreNotFeedback
