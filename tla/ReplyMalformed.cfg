SPECIFICATION Spec
CONSTANTS
  None = None
  Profiles = {"strategist"}
  CardProblems = {}
  WorkflowProblems = {}
  TurnProblems <- MCTurnProblems
  AdviceProblems = {}
  ParseProblems = {}
  ToolProblems = {}
INVARIANT ErrorsNormalised
CHECK_DEADLOCK FALSE
