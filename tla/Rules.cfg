SPECIFICATION Spec
CONSTANTS
  None = None
  Profiles = {"strategist"}
  CardProblems <- MCCardProblems
  WorkflowProblems <- MCWorkflowProblems
  TurnProblems <- MCTurnProblems
  AdviceProblems <- MCAdviceProblems
  ParseProblems <- MCParseProblems
  ToolProblems <- MCToolProblems
INVARIANTS CardsRight WorkflowJudged TurnAnswered AdviceAgrees ParsingAgrees ToolsAnswer
CHECK_DEADLOCK FALSE
