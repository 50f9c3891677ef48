SPECIFICATION Spec
CONSTANTS
  N = 4
  Callers = {"motor", "main"}
INVARIANT TypeOK
PROPERTY AnswerFollowsLine
