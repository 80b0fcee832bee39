\* One CPU, programs that fork and exit.
SPECIFICATION FairSpec
CONSTANTS
  CPU = {c0}
  BSP = c0
  NENV = 3
  NINIT = 2
  MaxGen = 1
  Calls = {"exofork", "set_status", "exit"}
  Misuse = {}
CHECK_DEADLOCK FALSE
PROPERTY RunnableRuns
