------------------------------- MODULE Keyboard -------------------------------
(***************************************************************************)
(* Console input (kern/console.c): scan codes wait in the keyboard         *)
(* controller and a character in the UART; cons_getc polls both through    *)
(* cons_intr into a ring and takes one character out of it.  Keys go down  *)
(* and up between any two reads of a port, also within a sequence of scan  *)
(* codes that starts with E0, which kbd_proc_data assembles in the static  *)
(* variable shift.                                                         *)
(***************************************************************************)
EXTENDS Naturals, Sequences, SequencesExt

CONSTANTS
  Keys,         \* the keys of the keyboard, a subset of DOMAIN ScanCode
  CONSBUFSIZE,
  MaxKeys,      \* bound: how often keys go down or up
  MaxSerial     \* bound: how many characters the UART receives

VARIABLES
  held, leds,    \* the keys that are down; "CAPSLOCK" is on
  codes, uart,   \* what the devices hold for the kernel
  shift,         \* static shift of kbd_proc_data, a set of flags
  ring, rpos, wpos,
  polling,       \* where cons_getc is
  keyed, sent,   \* history: the characters meant on each device ...
  stored, got,   \* ... those put into the ring, and taken from it
  reboots,       \* history: reboots meant, reboots done
  lost,          \* history: how many characters were taken before each overrun of the ring
  tangled,       \* history: two keys of one kind were down at a time
  strokes        \* history: number of keys gone down or up

devices == <<held, leds, codes, uart, keyed, sent, tangled, strokes>>
vars == <<devices, shift, ring, rpos, wpos, polling, stored, got, reboots, lost>>

E0 == 224

\* The make code of each key.
ScanCode ==
  [a |-> <<30>>, one |-> <<2>>, enter |-> <<28>>, kpenter |-> <<E0, 28>>,
   slash |-> <<53>>, kpdiv |-> <<E0, 53>>, kpdot |-> <<83>>, del |-> <<E0, 83>>,
   lshift |-> <<42>>, rshift |-> <<54>>, lctl |-> <<29>>, rctl |-> <<E0, 29>>,
   lalt |-> <<56>>, ralt |-> <<E0, 56>>, caps |-> <<58>>]

Released(seq) == Append(SubSeq(seq, 1, Len(seq) - 1), seq[Len(seq)] + 128)

Kinds == {{"lshift", "rshift"}, {"lctl", "rctl"}, {"lalt", "ralt"}}
Modifiers == UNION Kinds

KeyboardAssumption ==
  /\ Keys \subseteq DOMAIN ScanCode
  /\ CONSBUFSIZE \in Nat \ {0, 1} /\ MaxKeys \in Nat /\ MaxSerial \in Nat

Init ==
  /\ held = {} /\ leds = {} /\ codes = <<>> /\ uart = <<>>
  /\ shift = {}
  /\ ring = [i \in 0 .. CONSBUFSIZE - 1 |-> ""] /\ rpos = 0 /\ wpos = 0
  /\ polling = "no"
  /\ keyed = <<>> /\ sent = <<>> /\ stored = <<>> /\ got = <<>>
  /\ reboots = [meant |-> 0, done |-> 0]
  /\ lost = <<>> /\ tangled = FALSE /\ strokes = 0

-----------------------------------------------------------------------------
(* Devices *)

Down(kind) == kind \cap held # {}

\* What a key means while the keys in held are down: the legend on the key.
Legend(k) ==
  LET ctl == Down({"lctl", "rctl"})
      up == Down({"lshift", "rshift"}) IN
  CASE k = "a" -> IF ctl THEN "^A" ELSE IF up # ("CAPSLOCK" \in leds) THEN "A" ELSE "a"
    [] k = "one" -> IF ctl THEN "" ELSE IF up THEN "!" ELSE "1"
    [] k = "enter" -> IF ctl THEN "\r" ELSE "\n"
    [] k = "kpenter" -> IF ctl THEN "" ELSE "\n"
    [] k = "slash" -> IF ctl THEN "^/" ELSE IF up THEN "?" ELSE "/"
    [] k = "kpdiv" -> IF ctl THEN "^/" ELSE "/"
    [] k = "kpdot" -> IF ctl THEN "" ELSE "."
    [] k = "del" -> "DEL"
    [] OTHER -> ""

Reboots(k) == k = "del" /\ Down({"lctl", "rctl"}) /\ Down({"lalt", "ralt"})

\* Key k goes down; a key that is no modifier may also repeat.
KeyDown(k) ==
  /\ strokes < MaxKeys /\ k \in Keys /\ (k \in held => k \notin Modifiers \cup {"caps"})
  /\ codes' = codes \o ScanCode[k]
  /\ held' = held \cup {k}
  /\ leds' = IF k # "caps" THEN leds ELSE {"CAPSLOCK"} \ leds
  /\ keyed' = IF Legend(k) = "" THEN keyed ELSE Append(keyed, Legend(k))
  /\ reboots' = [reboots EXCEPT !.meant = IF Reboots(k) THEN @ + 1 ELSE @]
  /\ tangled' = (tangled \/ \E kind \in Kinds : kind \subseteq held')
  /\ strokes' = strokes + 1
  /\ UNCHANGED <<uart, sent, shift, ring, rpos, wpos, polling, stored, got, lost>>

KeyUp(k) ==
  /\ strokes < MaxKeys /\ k \in held
  /\ codes' = codes \o Released(ScanCode[k])
  /\ held' = held \ {k}
  /\ strokes' = strokes + 1
  /\ UNCHANGED <<leds, uart, keyed, sent, tangled, shift, ring, rpos, wpos, polling, stored, got,
                 reboots, lost>>

\* The UART has no FIFO: serial_init turns it off.
Receive ==
  /\ uart = <<>> /\ Len(sent) < MaxSerial
  /\ LET c == IF Len(sent) % 2 = 0 THEN "s" ELSE "t" IN
     uart' = <<c>> /\ sent' = Append(sent, c)
  /\ UNCHANGED <<held, leds, codes, keyed, tangled, strokes, shift, ring, rpos, wpos, polling,
                 stored, got, reboots, lost>>

-----------------------------------------------------------------------------
(* kbd_proc_data *)

shiftcode(data) == CASE data \in {29, 157} -> {"CTL"} [] data \in {42, 54} -> {"SHIFT"}
                     [] data \in {56, 184} -> {"ALT"} [] OTHER -> {}
togglecode(data) == CASE data = 58 -> {"CAPSLOCK"} [] data = 69 -> {"NUMLOCK"}
                      [] data = 70 -> {"SCROLLLOCK"} [] OTHER -> {}

normalmap(data) == CASE data = 30 -> "a" [] data = 2 -> "1" [] data \in {28, 156} -> "\n"
                     [] data \in {53, 181} -> "/" [] data = 83 -> "." [] data = 211 -> "DEL"
                     [] OTHER -> ""
shiftmap(data) == CASE data = 30 -> "A" [] data = 2 -> "!" [] data \in {28, 156} -> "\n"
                    [] data = 53 -> "?" [] data = 181 -> "/" [] data = 83 -> "." [] data = 211 -> "DEL"
                    [] OTHER -> ""
ctlmap(data) == CASE data = 30 -> "^A" [] data = 28 -> "\r" [] data \in {53, 181} -> "^/"
                  [] data = 211 -> "DEL" [] OTHER -> ""

charcode(flags, data) ==
  IF "CTL" \in flags THEN ctlmap(data)
  ELSE IF "SHIFT" \in flags THEN shiftmap(data) ELSE normalmap(data)

Swapped(c) == CASE c = "a" -> "A" [] c = "A" -> "a" [] OTHER -> c

\* cons_intr: a character goes into the ring, 0 does not.
Store(c) ==
  IF c = "" THEN UNCHANGED <<ring, wpos, stored, lost>>
  ELSE /\ ring' = [ring EXCEPT ![wpos] = c]
       /\ wpos' = IF wpos + 1 = CONSBUFSIZE THEN 0 ELSE wpos + 1
       /\ stored' = Append(stored, c)
       /\ lost' = IF wpos' = rpos THEN Append(lost, Len(got)) ELSE lost

\* Mutant of KbdRelease: a release leaves E0ESC set.
Mut_KbdRelease(data) ==
  /\ shift' = shift \ shiftcode(IF "E0ESC" \in shift THEN data ELSE data - 128)
  /\ UNCHANGED <<ring, wpos, stored, lost, reboots>>

KbdRelease(data) ==
  /\ shift' = shift \ (shiftcode(IF "E0ESC" \in shift THEN data ELSE data - 128) \cup {"E0ESC"})
  /\ UNCHANGED <<ring, wpos, stored, lost, reboots>>

KbdPress(code) ==
  LET data == IF "E0ESC" \in shift THEN code + 128 ELSE code
      on == (shift \ {"E0ESC"}) \cup shiftcode(data)
      flags == (on \cup togglecode(data)) \ (on \cap togglecode(data))
      c == charcode(flags, data)
      d == IF "CAPSLOCK" \in flags THEN Swapped(c) ELSE c IN
  /\ shift' = flags
  /\ reboots' = [reboots EXCEPT !.done = IF {"CTL", "ALT"} \subseteq flags /\ d = "DEL" THEN @ + 1 ELSE @]
  /\ Store(d)

-----------------------------------------------------------------------------
(* cons_getc *)

\* getchar calls cons_getc until that returns a character.
Poll ==
  /\ polling = "no" /\ polling' = "serial"
  /\ UNCHANGED <<devices, shift, ring, rpos, wpos, stored, got, reboots, lost>>

\* serial_intr: one round of the loop of cons_intr with serial_proc_data.
SerialIntr ==
  /\ polling = "serial"
  /\ IF uart = <<>> THEN polling' = "kbd" /\ UNCHANGED <<uart, ring, wpos, stored, lost>>
     ELSE uart' = <<>> /\ Store(uart[1]) /\ UNCHANGED polling
  /\ UNCHANGED <<held, leds, codes, keyed, sent, tangled, strokes, shift, rpos, got, reboots>>

\* kbd_intr: one round with kbd_proc_data.
KbdIntr ==
  /\ polling = "kbd"
  /\ IF codes = <<>>
     THEN polling' = "take" /\ UNCHANGED <<codes, shift, ring, wpos, stored, lost, reboots>>
     ELSE /\ codes' = Tail(codes) /\ UNCHANGED polling
          /\ LET data == Head(codes) IN
             CASE data = E0 -> /\ shift' = shift \cup {"E0ESC"}
                               /\ UNCHANGED <<ring, wpos, stored, lost, reboots>>
               [] data # E0 /\ data >= 128 -> KbdRelease(data)
               [] OTHER -> KbdPress(data)
  /\ UNCHANGED <<held, leds, uart, keyed, sent, tangled, strokes, rpos, got>>

\* The next character of the ring, or 0.
Take ==
  /\ polling = "take" /\ polling' = "no"
  /\ IF rpos = wpos THEN UNCHANGED <<rpos, got>>
     ELSE /\ got' = Append(got, ring[rpos])
          /\ rpos' = IF rpos + 1 = CONSBUFSIZE THEN 0 ELSE rpos + 1
  /\ UNCHANGED <<devices, shift, ring, wpos, stored, reboots, lost>>

Next ==
  \/ \E k \in Keys : KeyDown(k) \/ KeyUp(k)
  \/ Receive
  \/ Poll \/ SerialIntr \/ KbdIntr \/ Take

Spec == Init /\ [][Next]_vars

-----------------------------------------------------------------------------
(* Properties *)

\* What is in the ring, from rpos on.
InRing ==
  LET n == (wpos + CONSBUFSIZE - rpos) % CONSBUFSIZE IN
  [i \in 1 .. n |-> ring[(rpos + i - 1) % CONSBUFSIZE]]

TypeOK ==
  /\ held \subseteq Keys /\ rpos \in DOMAIN ring /\ wpos \in DOMAIN ring
  /\ shift \subseteq {"SHIFT", "CTL", "ALT", "CAPSLOCK", "NUMLOCK", "SCROLLLOCK", "E0ESC"}
  /\ polling \in {"no", "serial", "kbd", "take"}

\* cons_getc returns the characters in the order they came, each once, but for
\* those of an overrun: when one call finds CONSBUFSIZE of them the ring reads as
\* empty (kern/console.c:408), and just those are never returned.
InOrder ==
  LET out == got \o InRing
      Gone(i) == CONSBUFSIZE * Cardinality({j \in DOMAIN lost : lost[j] < i}) IN
  /\ Len(out) + CONSBUFSIZE * Len(lost) = Len(stored)
  /\ \A i \in DOMAIN out : out[i] = stored[i + Gone(i)]

\* The characters are those on the keys, whichever way the polls of the kernel
\* cut the scan codes into pieces, as long as nobody holds both keys of a kind
\* (the release of one is then taken for both), and none overtakes another of
\* its device.
KeysAsMeant ==
  LET OfSerial(c) == c \in {"s", "t"}
      OfKeys(c) == c \notin {"s", "t"} IN
  /\ IsPrefix(SelectSeq(stored, OfSerial), sent)
  /\ ~tangled => IsPrefix(SelectSeq(stored, OfKeys), keyed)
  /\ ~tangled /\ codes = <<>> => SelectSeq(stored, OfKeys) = keyed /\ reboots.done = reboots.meant

\* With all keys up and all codes read no modifier is stuck, even after both
\* keys of a kind were down.
NothingStuck == held = {} /\ codes = <<>> => shift = leds
==============================================================================
