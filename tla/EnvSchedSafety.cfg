\* Two CPUs, three slots, one of them free at boot; every call, no misuse; fair CPUs.
SPECIFICATION FairSpec
CONSTANTS
  CPU = {c0, c1}
  BSP = c0
  NENV = 3
  NINIT = 2
  MaxGen = 1
  Calls = {"exofork", "set_status", "destroy", "exit", "ipc", "upcall"}
  Misuse = {}
CHECK_DEADLOCK FALSE
INVARIANTS TypeOK OneCpu RunningIsCurrent FreeListExact MonitorIsIdle CpunumRight
PROPERTIES StarvedOnlyByExits ZombieFreedAtTrap
