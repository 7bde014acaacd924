SPECIFICATION Spec
CONSTANTS
  skill = skill
  fetch = fetch
  search = search
  comment = comment
  a1 = a1
  a2 = a2
  Skills <- MCSkills
  Tools <- MCTools
  CommentTool = comment
  Artifacts <- MCArtifacts
  Replies <- MCReplies
INVARIANTS
  TypeOK
  PlanIsExecutable
  FitsTicketGraph
  NothingGuessed
