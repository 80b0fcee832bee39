\* More CPUs than slots, so that slots are reused under new ids while others run; fair CPUs.
SPECIFICATION FairSpec
CONSTANTS
  CPU = {c0, c1, c2}
  BSP = c0
  NENV = 2
  NINIT = 2
  MaxGen = 2
  Calls = {"exofork", "set_status", "destroy", "exit", "ipc", "upcall"}
  Misuse = {}
CHECK_DEADLOCK FALSE
INVARIANTS RecvBlocked OwnRegisters NoPanic
PROPERTY ZombieReaped
