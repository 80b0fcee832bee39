\* A parent destroys a child twice.
SPECIFICATION Spec
CONSTANTS
  CPU = {c0, c1}
  BSP = c0
  NENV = 2
  NINIT = 1
  MaxGen = 1
  Calls = {"exofork", "set_status", "destroy"}
  Misuse = {"destroy_dying"}
CHECK_DEADLOCK FALSE
PROPERTY ZombieFreedAtTrap
