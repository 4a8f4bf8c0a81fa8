SPECIFICATION Spec
CONSTANTS
  None = None
  Habits = {FALSE}
  ReadTimeout = TRUE
  MaxFrames = 5
  MaxFaults = 0
INVARIANTS AnswerToThisCommand
