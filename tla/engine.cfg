SPECIFICATION FairSpec
CONSTANTS
  Trees <- AllTrees
  QueueSize = 2
  UserResults = {"PIPELINE_CONTINUE", "PIPELINE_HALT", "PIPELINE_DISABLE", "PIPELINE_TERMINATE", "PIPELINE_RESET", "FUNCTION_HALT", "DISABLE"}
INVARIANTS
  TypeOK
  FreshMeansFresh
  NothingLeaks
PROPERTIES
  LifeCycle
  KeepsLadder
  ServesAll
  JoinWaits
  EdgesFire
  HandsOver
CHECK_DEADLOCK FALSE
