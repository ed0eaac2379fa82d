SPECIFICATION FairSpec

CONSTANTS
  Documents <- SmallDocuments
  Faults <- OtherAnswers
  JobWords <- SmallJobWords
  JevReplies <- SmallJevReplies
  MaxMissing = 3
  MaxRetries = 2

INVARIANTS
  TypeOK
  AcceptedRenders
  ScoredIsShown
  PromptOnlyAnswered

PROPERTIES
  PipelineEnds

CHECK_DEADLOCK FALSE
