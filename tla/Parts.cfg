SPECIFICATION Spec
CONSTANTS
  Tasks = {"primes", "pingpong", "sendpage"}
  MaxEnvs = 8
  Fed = 11
  NoMessage = NoMessage
  nthread = 3
  keys <- MCKeys
  NBUCKET = 2
  MaxCpus = 3
  Machines <- MCCpus
  StackSize = 2
  StackGap = 1
  StackTop = 20
  Kstacks = 22
  Tables <- MCTablesMp
  Cores = {"c1", "c2"}
  CpuEnvs = {"e1", "e2", "e3"}
  Pages = {"v"}
  PageFrames = {1, 2, 3, 4}
  EditRunning = FALSE
  KillTwice = FALSE
  SECTSIZE = 2
  MemCells = 32
  A20 = 16
  ELFHDR = 4
  HdrSectors = 2
  BootCells = {0, 1, 2}
  Images <- MCImages
  PageCells = 4
  NPTENTRIES = 2
  UserPages = 6
  Frames = 8
  FreeCounts = {0, 2, 3, 4, 5, 8}
  Binaries <- MCBinaries
  Lab = {3, 4}
  Tests <- MCTrapPrograms
  PrintAt = {0, 7, 8, 11, 12, 15, 38, 43, 44}
  PrintLen = {1, 2, 5, 12}
  XTop = 44
  Locals = {0, 2}
  Clients = {"handler", "nostack", "badhandler", "noupcall"}
INVARIANTS
  ImagesAsLinked
  BootIsSound
  TrapsAreExact
  CpusAreApart
  ConsoleIsFaithful
  ProgramsAreRight
  ProgramsFinish
  
PROPERTIES
  ResumesUnharmed
\* Every part but the TLB comes to an end.
CHECK_DEADLOCK FALSE
