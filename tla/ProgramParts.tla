------------------------------ MODULE ProgramParts -------------------------------
(***************************************************************************)
(* Two concurrent programs, in one specification: the test programs of     *)
(* lab4/user that fork and talk to each other (UserPrograms, here with the *)
(* prefix Progs) and the threads homework (HashTable, here Hash).  They do *)
(* not share state: a behaviour is a behaviour of one of them, and the     *)
(* variables of the other stay 0.                                          *)
(***************************************************************************)
EXTENDS Integers

CONSTANTS
  Tasks, MaxEnvs, Fed, NoMessage,   \* of UserPrograms
  nthread, keys, NBUCKET            \* of HashTable

VARIABLES
  progPart,   \* whose behaviour it is
  task, state, wants, offer, inbox, taken, spot, locals, text, out,
  heads, heap, mutex, passed, where, turn, cursor, loaded, missing

Progs == INSTANCE UserPrograms WITH
  Program <- Tasks, NENV <- MaxEnvs, Last <- Fed, None <- NoMessage,
  program <- task, pc <- spot, loc <- locals

Hash == INSTANCE HashTable WITH
  table <- heads, lock <- mutex, done <- passed, at <- where, i <- turn, e <- cursor, n <- loaded

ASSUME ProgramPartsAssumption == Progs!ProgramAssumption /\ Hash!HashTableAssumption

-----------------------------------------------------------------------------

taskVars == <<task, state, wants, offer, inbox, taken, spot, locals, text, out>>
hashVars == <<heads, heap, mutex, passed, where, turn, cursor, loaded, missing>>
progVars == <<progPart, taskVars, hashVars>>

TaskIdle ==
  /\ task = 0 /\ state = 0 /\ wants = 0 /\ offer = 0 /\ inbox = 0 /\ taken = 0 /\ spot = 0
  /\ locals = 0 /\ text = 0 /\ out = 0
HashIdle ==
  /\ heads = 0 /\ heap = 0 /\ mutex = 0 /\ passed = 0 /\ where = 0 /\ turn = 0 /\ cursor = 0
  /\ loaded = 0 /\ missing = 0

ProgIdle == progPart = "none" /\ TaskIdle /\ HashIdle

ProgInit ==
  \/ progPart = "UserPrograms" /\ Progs!Init /\ HashIdle
  \/ progPart = "HashTable" /\ Hash!Init /\ TaskIdle

ProgNext ==
  \/ progPart = "UserPrograms" /\ Progs!Next /\ UNCHANGED <<progPart, hashVars>>
  \/ progPart = "HashTable" /\ Hash!Next /\ UNCHANGED <<progPart, taskVars>>

ProgSpec == ProgInit /\ [][ProgNext]_progVars

-----------------------------------------------------------------------------

\* However the processes or threads interleave, what they find is right.  The
\* chain of primes.c prints the primes in their order and leaves none out, although
\* every process prints on its own and sees only what its neighbour sends; the
\* threads of ph.c lose no key, and none looks a key up while another still puts.
ProgramsAreRight ==
  /\ progPart = "UserPrograms" => Progs!PrimesInOrder
  /\ progPart = "HashTable" => Hash!NoKeyMissing /\ Hash!GetsAfterPuts
================================================================================
