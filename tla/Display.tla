-------------------------------- MODULE Display -------------------------------
(***************************************************************************)
(* Console output and line editing: cons_putc on the serial line and the   *)
(* CGA screen (kern/console.c), readline (lib/readline.c) between the      *)
(* outputs of the commands it reads.  The attribute byte of a cell, the    *)
(* parallel port and the waiting for the UART are left out.                *)
(***************************************************************************)
EXTENDS Naturals, Sequences, SequencesExt

CONSTANTS
  CRT_COLS, CRT_ROWS,
  BUFLEN,       \* of readline
  Prompt,       \* the characters of the prompt
  Outputs,      \* what commands print, sequences of Printed
  Typed,        \* the characters that getchar may return
  MaxTyped      \* bound: how many of them

\* "x", "y" and "K" stand for printable characters, "BS" for a backspace, "DEL" for 0x7f, which
\* readline takes for a backspace and the screen for a character.
Printed == {"x", "y", "K", " ", "\n", "\r", "\t"}

DisplayAssumption ==
  /\ CRT_COLS \in Nat \ {0} /\ CRT_ROWS \in Nat \ {0, 1} /\ BUFLEN \in Nat \ {0, 1}
  /\ Outputs \subseteq Seq(Printed) /\ Typed \subseteq {"x", "y", "BS", "DEL", "\t", "\n", "\r"}
  /\ Prompt \in Seq({"K", " "})
  \* 1024 and 80 * 24 in the code.
  /\ Len(Prompt) + BUFLEN <= CRT_COLS * (CRT_ROWS - 1)

VARIABLES
  crt,        \* the CGA: pos, and buf, its cells
  wire,       \* history: all characters sent on the serial line
  line,       \* buf of readline
  reading,    \* readline is waiting for a character
  ntyped      \* history: number of characters typed

vars == <<crt, wire, line, reading, ntyped>>

CRT_SIZE == CRT_COLS * CRT_ROWS
Cell == 0 .. CRT_SIZE - 1

-----------------------------------------------------------------------------
(* cons_putc, on records [pos, buf, wire] *)

\* The end of cga_putc: everything moves up by a row.
Scrolled(s) ==
  IF s.pos < CRT_SIZE THEN s
  ELSE [s EXCEPT !.buf = [i \in Cell |-> IF i + CRT_COLS \in Cell THEN s.buf[i + CRT_COLS] ELSE " "],
                 !.pos = s.pos - CRT_COLS]

\* cga_putc of a character that is no tab.
CgaPutc(s, c) ==
  Scrolled(
    CASE c = "BS" -> IF s.pos > 0 THEN [s EXCEPT !.pos = @ - 1, !.buf[s.pos - 1] = " "] ELSE s
      [] c = "\n" -> [s EXCEPT !.pos = @ + CRT_COLS - (@ % CRT_COLS)]
      [] c = "\r" -> [s EXCEPT !.pos = @ - (@ % CRT_COLS)]
      [] OTHER -> [s EXCEPT !.buf[s.pos] = c, !.pos = @ + 1])

\* A tab is five spaces, which go to all devices, as the tab did before.
ConsPutc(s, c) ==
  LET One(t, d) == CgaPutc([t EXCEPT !.wire = Append(@, d)], d) IN
  IF c = "\t" THEN FoldLeft(One, [s EXCEPT !.wire = Append(@, "\t")], <<" ", " ", " ", " ", " ">>)
  ELSE One(s, c)

\* cprintf of the characters of a sequence, cputchar of one.
Put(seq) ==
  LET s == FoldLeft(ConsPutc, [pos |-> crt.pos, buf |-> crt.buf, wire |-> wire], seq) IN
  /\ crt' = [pos |-> s.pos, buf |-> s.buf]
  /\ wire' = s.wire

-----------------------------------------------------------------------------

\* cga_init takes the cursor where the BIOS left it, here in the first row.
Init ==
  /\ crt \in [pos : {0, 1}, buf : {[i \in Cell |-> " "]}]
  /\ wire = IF crt.pos = 0 THEN <<>> ELSE <<" ">>
  /\ line = <<>> /\ reading = FALSE /\ ntyped = 0

\* A command, or a program, prints.
Cprintf(seq) ==
  /\ ~reading /\ Len(wire) < 3
  /\ Put(seq)
  /\ UNCHANGED <<line, reading, ntyped>>

\* readline is called.
Readline ==
  /\ ~reading
  /\ reading' = TRUE /\ line' = <<>>
  /\ Put(Prompt)
  /\ UNCHANGED ntyped

Erases(c) == c \in {"BS", "DEL"}
Ends(c) == c \in {"\n", "\r"}
\* c >= ' ', which is true of 0x7f.
Prints(c) == c \notin {"BS", "\t", "\n", "\r"}

Room == Len(line) < BUFLEN - 1

\* getchar returns c.
Getchar(c) ==
  /\ reading /\ ntyped < MaxTyped
  /\ ntyped' = ntyped + 1
  /\ CASE Erases(c) /\ line # <<>> -> Put(<<"BS">>) /\ line' = Front(line)
       [] ~(Erases(c) /\ line # <<>>) /\ Prints(c) /\ Room -> Put(<<c>>) /\ line' = Append(line, c)
       [] Ends(c) -> Put(<<"\n">>) /\ UNCHANGED line
       [] OTHER -> UNCHANGED <<crt, wire, line>>
  /\ reading' = ~Ends(c)

Next ==
  \/ \E seq \in Outputs : Cprintf(seq)
  \/ Readline
  \/ \E c \in Typed : Getchar(c)

Spec == Init /\ [][Next]_vars

-----------------------------------------------------------------------------
(* Properties *)

TypeOK ==
  /\ crt.pos \in Cell /\ DOMAIN crt.buf = Cell
  /\ \A i \in Cell : crt.buf[i] \in (Printed \ {"\n", "\r", "\t"}) \cup {"DEL"}
  /\ reading \in BOOLEAN /\ ntyped \in 0 .. MaxTyped

\* The paper of an endless printer that gets the characters of the serial line,
\* on which the backspace also erases and a tab, which is followed by its
\* spaces, does nothing: at is the position of the head, text what is printed.
Paper ==
  LET Strike(s, c) ==
        CASE c = "\t" -> s
          [] c = "BS" -> [s EXCEPT !.at = @ - 1, !.text = [@ EXCEPT ![s.at] = " "]]
          [] c = "\n" -> [s EXCEPT !.at = @ + CRT_COLS - (@ % CRT_COLS)]
          [] c = "\r" -> [s EXCEPT !.at = @ - (@ % CRT_COLS)]
          [] OTHER -> [s EXCEPT !.at = @ + 1, !.text = [@ EXCEPT ![s.at + 1] = c]] IN
  FoldLeft(Strike, [at |-> 0, text |-> [i \in 1 .. CRT_SIZE + CRT_COLS * Len(wire) |-> " "]], wire)

\* The screen is the last rows of the paper, however often it scrolled, with
\* the cursor at the same place (kern/console.c:195).
ScreenIsTail ==
  \E paper \in {Paper} :
    LET top == paper.at - crt.pos IN
    /\ top >= 0 /\ top % CRT_COLS = 0
    /\ \A i \in Cell : crt.buf[i] = paper.text[top + i + 1]

\* What the user edits is what is left of the cursor, also when the line went
\* over the end of a row, or of the screen, and came back, and is the line that
\* readline will return, which with its zero fits the buffer
\* (lib/readline.c:26; 0x7f on an empty line counts as a character).
EchoIsLine ==
  reading =>
    LET shown == Prompt \o line IN
    /\ Len(line) < BUFLEN
    /\ \A i \in 1 .. Len(shown) :
         Len(shown) - i < crt.pos => crt.buf[crt.pos - 1 - Len(shown) + i] = shown[i]
    /\ Len(shown) <= crt.pos
==============================================================================
