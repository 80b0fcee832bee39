\* A parent sets the status of a child that is running on another CPU.
SPECIFICATION Spec
CONSTANTS
  CPU = {c0, c1}
  BSP = c0
  NENV = 2
  NINIT = 1
  MaxGen = 1
  Calls = {"exofork", "set_status"}
  Misuse = {"set_status_running"}
CHECK_DEADLOCK FALSE
INVARIANT OneCpu
