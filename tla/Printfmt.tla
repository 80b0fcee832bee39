------------------------------- MODULE Printfmt -------------------------------
(***************************************************************************)
(* Formatting (lib/printfmt.c): vprintfmt on a format string with one      *)
(* directive and its arguments, and snprintf, which cuts the result to its *)
(* buffer.  A format, an argument of %s and the output are sequences of    *)
(* characters.  An int and a long are words of Bits bits, a long long is   *)
(* twice as wide.                                                          *)
(***************************************************************************)
EXTENDS Integers, Sequences
LOCAL INSTANCE SequencesExt

CONSTANTS
  Bits,
  Numbers,     \* arguments of the numeric formats, two's complement of 2 * Bits
  Strings,     \* arguments of %s
  Directives,  \* the formats to try, see Format
  BufSizes     \* the n of snprintf

VARIABLES
  directive, arg, n,   \* the call
  output,              \* what vprintfmt passed to putch
  buffer, result       \* of snprintf

vars == <<directive, arg, n, output, buffer, result>>

\* A directive [minus, zero, alt, width, prec, ls, conv, stars]: "%-#05.*ld" and
\* the like; width and prec are a sequence of digits, <<"*">> or <<>>, ls is the
\* number of ls, and stars are the arguments for the "*"s.
Format(d) ==
  LET Flag(on, c) == IF on THEN <<c>> ELSE <<>> IN
  <<"x", "%">> \o Flag(d.minus, "-") \o Flag(d.alt, "#") \o Flag(d.zero, "0") \o d.width
  \o (IF d.prec = <<>> THEN <<>> ELSE <<".">> \o d.prec)
  \o [i \in 1 .. d.ls |-> "l"] \o <<d.conv, "y">>

Digits == <<"0", "1", "2", "3", "4", "5", "6", "7", "8", "9", "a", "b", "c", "d", "e", "f">>
Decimals == {Digits[i] : i \in 1 .. 10}
Value(c) == (CHOOSE i \in 1 .. 16 : Digits[i] = c) - 1

Errors == [e \in 1 .. 3 |-> <<"u", "b", "i">>[e]]   \* error_string, abridged
MAXERROR == 4

\* A null pointer as argument of %s, and a character outside ' ' .. '~'.
Null == <<"NULL">>
Unprintable == {"BEL"}

PrintfmtAssumption ==
  /\ Bits \in 2 .. 14 /\ BufSizes \subseteq Nat
  /\ Numbers \subseteq -(2 ^ (2 * Bits - 1)) .. 2 ^ (2 * Bits - 1) - 1
  /\ \A d \in Directives :
       Len(d.stars) = (IF d.width = <<"*">> THEN 1 ELSE 0) + (IF d.prec = <<"*">> THEN 1 ELSE 0)

-----------------------------------------------------------------------------

Times(k, c) == [i \in 1 .. (IF k > 0 THEN k ELSE 0) |-> c]

RECURSIVE Printnum(_, _, _, _)
Printnum(num, base, width, padc) ==
  (IF num >= base THEN Printnum(num \div base, base, width - 1, padc) ELSE Times(width - 1, padc))
  \o <<Digits[(num % base) + 1]>>

\* va_arg of a word, or of two.
Wide(lflag) == 2 ^ (IF lflag >= 2 THEN 2 * Bits ELSE Bits)
Getuint(x, lflag) == x % Wide(lflag)
Getint(x, lflag) == LET u == Getuint(x, lflag) IN IF 2 * u < Wide(lflag) THEN u ELSE u - Wide(lflag)

Strnlen(s, size) == IF size < 0 \/ Len(s) <= size THEN Len(s) ELSE size

\* %s; as size_t a precision below 0 is huge.
PrintString(f, x) ==
  LET s == IF x = Null THEN <<"(", "n", "u", "l", "l", ")">> ELSE x
      len == Strnlen(s, f.precision)
      left == IF f.width > 0 /\ f.padc # "-" THEN f.width - len ELSE 0
      right == IF f.padc = "-" THEN f.width - len ELSE 0 IN
  Times(left, f.padc)
  \o [i \in 1 .. len |-> IF f.altflag /\ s[i] \in Unprintable THEN "?" ELSE s[i]]
  \o Times(right, " ")

Number(f, x) ==
  CASE f.ch = "d" -> LET num == Getint(x, f.lflag) IN
                     IF num < 0 THEN <<"-">> \o Printnum(-num, 10, f.width, f.padc)
                     ELSE Printnum(num, 10, f.width, f.padc)
    [] f.ch = "u" -> Printnum(Getuint(x, f.lflag), 10, f.width, f.padc)
    [] f.ch = "o" -> Printnum(Getuint(x, f.lflag), 8, f.width, f.padc)
    [] f.ch = "x" -> Printnum(Getuint(x, f.lflag), 16, f.width, f.padc)
    [] f.ch = "p" -> <<"0", "x">> \o Printnum(Getuint(x, 0), 16, f.width, f.padc)

Abs(x) == IF x < 0 THEN -x ELSE x

\* What a conversion character prints; f holds what was read before it, and
\* since the last "%".
Convert(f, x) ==
  CASE f.ch \in {"d", "u", "o", "x", "p"} -> Number(f, x)
    [] f.ch = "c" -> <<x>>
    [] f.ch = "s" -> PrintString(f, x)
    [] f.ch = "e" -> LET err == Abs(Getint(x, 0)) IN
                     IF err \in DOMAIN Errors THEN <<Errors[err]>>
                     ELSE <<"e", "r", "r", "o", "r", " ">> \o Printnum(err, 10, -1, " ")

Start == [padc |-> " ", width |-> -1, precision |-> -1, lflag |-> 0, altflag |-> FALSE, ch |-> ""]

\* process_precision: the first number is the width.
Given(f, k) ==
  IF f.width < 0 THEN [f EXCEPT !.width = k, !.precision = -1] ELSE [f EXCEPT !.precision = k]

\* Where the number that starts at at ends, and its value.
LastDigit(fmt, at) ==
  CHOOSE k \in at .. Len(fmt) : (\A i \in at .. k : fmt[i] \in Decimals) /\ fmt[k + 1] \notin Decimals
Decimal(ds) == FoldLeft(LAMBDA k, c : 10 * k + Value(c), 0, ds)

\* vprintfmt: in the text, and, from Escape on, after the "%".  args are the
\* arguments not yet taken.  An unknown escape is printed as it stands, and what a
\* "*" in it has taken is gone.
RECURSIVE Vprintfmt(_, _), Escape(_, _, _, _)
Vprintfmt(fmt, args) ==
  IF fmt = <<>> THEN <<>>
  ELSE IF Head(fmt) # "%" THEN <<Head(fmt)>> \o Vprintfmt(Tail(fmt), args)
  ELSE Escape(Tail(fmt), 1, Start, args)

Escape(fmt, at, f, args) ==
  LET ch == IF at > Len(fmt) THEN "" ELSE fmt[at]
      rest == SubSeq(fmt, at + 1, Len(fmt)) IN
  CASE ch = "-" -> Escape(fmt, at + 1, [f EXCEPT !.padc = "-"], args)
    [] ch = "0" -> Escape(fmt, at + 1, [f EXCEPT !.padc = "0"], args)
    [] ch \in Decimals \ {"0"} ->
                      LET last == LastDigit(fmt, at) IN
                      Escape(fmt, last + 1, Given(f, Decimal(SubSeq(fmt, at, last))), args)
    [] ch = "*" -> Escape(fmt, at + 1, Given(f, Getint(Head(args), 0)), Tail(args))
    [] ch = "." -> Escape(fmt, at + 1, [f EXCEPT !.width = IF @ < 0 THEN 0 ELSE @], args)
    [] ch = "#" -> Escape(fmt, at + 1, [f EXCEPT !.altflag = TRUE], args)
    [] ch = "l" -> Escape(fmt, at + 1, [f EXCEPT !.lflag = @ + 1], args)
    [] ch \in {"d", "u", "o", "x", "p", "c", "s", "e"} ->
         Convert([f EXCEPT !.ch = ch], Head(args)) \o Vprintfmt(rest, Tail(args))
    [] ch = "%" -> <<"%">> \o Vprintfmt(rest, args)
    [] OTHER -> <<"%">> \o Vprintfmt(fmt, args)

\* vsnprintf and sprintputch: ebuf = buf + n - 1.
Vsnprintf(out, size) ==
  IF size < 1 THEN [buf |-> <<>>, rc |-> -3]       \* -E_INVAL
  ELSE LET kept == SubSeq(out, 1, IF Len(out) < size - 1 THEN Len(out) ELSE size - 1) IN
       [buf |-> Append(kept, "NUL"), rc |-> Len(out)]

Init ==
  /\ directive \in Directives /\ n \in BufSizes
  /\ arg \in (CASE directive.conv = "s" -> Strings [] directive.conv \in {"c", "%", "z"} -> {"c"}
                [] OTHER -> Numbers)
  /\ directive.conv = "e" => Getint(arg, 0) # -(2 ^ (Bits - 1))   \* -INT_MIN is undefined
  /\ output = <<>> /\ buffer = <<>> /\ result = 0

Snprintf ==
  /\ output = <<>>
  /\ output' = Vprintfmt(Format(directive), Append(directive.stars, arg))
  /\ buffer' = Vsnprintf(output', n).buf /\ result' = Vsnprintf(output', n).rc
  /\ UNCHANGED <<directive, arg, n>>

Next == Snprintf

Spec == Init /\ [][Next]_vars

-----------------------------------------------------------------------------
(* Properties *)

\* The digits of a number, most significant first, by places.
Numeral(num, base) ==
  LET len == CHOOSE k \in 1 .. 2 * Bits : num < base ^ k /\ (k = 1 \/ num >= base ^ (k - 1)) IN
  [i \in 1 .. len |-> Digits[((num \div base ^ (len - i)) % base) + 1]]

Base(conv) == CASE conv \in {"d", "u"} -> 10 [] conv = "o" -> 8 [] OTHER -> 16

\* The number that a conversion is about, by C's rules for its type.
Argument(d) ==
  LET wide == 2 ^ (IF d.ls >= 2 THEN 2 * Bits ELSE Bits) IN
  IF d.conv # "d" THEN arg % wide
  ELSE CHOOSE v \in -(wide \div 2) .. wide \div 2 - 1 : (v - arg) % wide = 0

\* A width or a precision: a numeral, the k-th of the stars, or the default.
Count(w, d, k, default) ==
  CASE w = <<>> -> default
    [] w = <<"*">> -> d.stars[k]
    [] OTHER -> CHOOSE c \in 0 .. 99 : Numeral(c, 10) = w

Width(d) == Count(d.width, d, 1, 0)
Precision(d) == Count(d.prec, d, Len(d.stars), -1)

Padded(s, d, pad) == Times(Width(d) - Len(s), pad) \o s

\* Numbers come out as C prescribes, right-adjusted with spaces or zeros, as far
\* as the flag - and negative widths, which mean the same, are not used: - fills
\* with dashes on the left, where lib/printfmt.c:107 says that it pads on the
\* right, and a negative width is no width.  A sign is printed before the padding
\* and not counted in the width; a precision is ignored.
NumbersAsInC ==
  directive.conv \in {"d", "u", "o", "x"} /\ ~directive.minus /\ Width(directive) >= 0
  /\ output # <<>> =>
    LET v == Argument(directive)
        num == Numeral(Abs(v), Base(directive.conv))
        sign == IF v < 0 THEN <<"-">> ELSE <<>> IN
    output = <<"x">> \o sign \o Padded(num, directive, IF directive.zero THEN "0" ELSE " ") \o <<"y">>

\* Strings are cut to the precision, or not if it is negative, and filled to the
\* width, on the right with the flag - and on the left without; with # what cannot
\* be printed shows as a question mark.  Left out: a negative width, and a
\* precision that begins with the digit 0, which is read as the flag, so that
\* "%.0s" prints the whole string.
StringsAsInC ==
  directive.conv = "s" /\ ~(directive.minus /\ directive.zero) /\ Width(directive) >= 0
  /\ directive.prec # <<"0">> /\ output # <<>> =>
    LET whole == IF arg = Null THEN <<"(", "n", "u", "l", "l", ")">> ELSE arg
        max == Precision(directive)
        s == IF max < 0 \/ Len(whole) <= max THEN whole ELSE SubSeq(whole, 1, max)
        shown == [i \in DOMAIN s |-> IF directive.alt /\ s[i] \in Unprintable THEN "?" ELSE s[i]]
        fill == Times(Width(directive) - Len(s), IF directive.zero THEN "0" ELSE " ") IN
    output = <<"x">> \o (IF directive.minus THEN shown \o fill ELSE fill \o shown) \o <<"y">>

\* snprintf stays in its buffer, ends it with a zero, and returns how long the
\* whole text is.
SnprintfInBounds ==
  output # <<>> /\ n >= 1 =>
    /\ Len(buffer) <= n /\ buffer[Len(buffer)] = "NUL" /\ result = Len(output)
    /\ \A i \in 1 .. Len(buffer) - 1 : buffer[i] = output[i]
    /\ Len(buffer) < n => Len(buffer) = Len(output) + 1
==============================================================================
