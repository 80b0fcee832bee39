\* Three CPUs, fair, any of which may panic; and three environments that send to
\* and receive from each other: everybody sends, with or without a page, to b
\* and c, of which c asks for a page and b does not.
SPECIFICATION BothSpec
CONSTANTS
  CPU = {c0, c1, c2}
  BSP = c0
  NoCPU = NoCPU
  Failures = TRUE
  Env = {a, b, c}
  Senders = {a, b}
  PageReceivers = {c}
  PlainReceivers = {b}
  Perms = {"none", "W", "bad"}
  NoEnv = NoEnv
  NoPage = NoPage
  Nothing = Nothing
INVARIANTS
  TypeOK
  MutualExclusion
  NoLockPanic
  HaltedIffStatus
  OwnStack
PROPERTIES
  Refinement
  PanicFreezesKernel
  ApsBoot
  LockProgress
  ImplementsRendezvous
  ReceiverServed
CHECK_DEADLOCK FALSE
