SPECIFICATION JSpec
CONSTANTS
  Humans <- MCHumans
  Agents <- MCAgents
  MaxHistory = 0
  MaxJournals = 3
  MaxAnswers = 2
INVARIANTS
  AgentsAreNotFeedback
