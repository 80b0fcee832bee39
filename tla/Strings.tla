-------------------------------- MODULE Strings --------------------------------
(***************************************************************************)
(* String and memory routines (lib/string.c).  Memory is a small array of  *)
(* bytes, a string ends at the first 0, and one routine is called once on  *)
(* one memory; addresses are indices of the array.                         *)
(***************************************************************************)
EXTENDS Integers, Sequences, FiniteSets

CONSTANTS
  Size,        \* bytes of memory
  Half,        \* strings lie in 0 .. Half - 1 and in Half .. 2 * Half - 1
  Bytes,       \* values of a byte, 0 included; a char is signed
  Numerals     \* texts given to strtol, sequences of characters

VARIABLES
  before, mem,    \* memory before and after the call
  call,           \* the routine and its arguments
  ret             \* what it returned; <<>> before the call

vars == <<before, mem, call, ret>>

Addr == 0 .. Size - 1

StringsAssumption == Size \in Nat /\ Half \in 1 .. Size \div 2 /\ 0 \in Bytes /\ Bytes \subseteq 0 .. 255

-----------------------------------------------------------------------------
(* Moving and filling *)

\* rep movs: n units of u bytes from s to d, upwards or downwards, each read
\* from the memory that the previous ones have left.
RepMovs(m, d, s, n, u, down) ==
  LET At(k) == IF down THEN n - k ELSE k - 1
      f[k \in 0 .. n] ==
        IF k = 0 THEN m
        ELSE [a \in DOMAIN m |->
               IF a \in d + u * At(k) .. d + u * At(k) + u - 1
               THEN f[k - 1][s + (a - d)] ELSE f[k - 1][a]] IN
  f[n]

Aligned(S) == \A x \in S : x % 4 = 0

Memmove(m, d, s, n) ==
  LET down == s < d /\ s + n > d IN
  IF Aligned({d, s, n}) THEN RepMovs(m, d, s, n \div 4, 4, down) ELSE RepMovs(m, d, s, n, 1, down)

Memset(m, d, c, n) == [a \in DOMAIN m |-> IF a \in d .. d + n - 1 THEN c % 256 ELSE m[a]]

-----------------------------------------------------------------------------
(* Copying and comparing strings *)

Strlen(m, a) == LET z[b \in Addr] == IF m[b] = 0 THEN 0 ELSE 1 + z[b + 1] IN z[a]
Strnlen(m, a, size) ==
  LET z[k \in 0 .. size] == IF k = 0 \/ m[a + size - k] = 0 THEN 0 ELSE 1 + z[k - 1] IN z[size]

\* One byte at a time, the ending zero last.
Strcpy(m, d, s) == RepMovs(m, d, s, Strlen(m, s) + 1, 1, FALSE)
Strcat(m, d, s) == Strcpy(m, d + Strlen(m, d), s)

\* The source pointer stays on the ending zero.
Strncpy(m, d, s, size) ==
  [a \in DOMAIN m |-> IF a \notin d .. d + size - 1 THEN m[a]
                      ELSE IF a - d > Strlen(m, s) THEN 0 ELSE m[s + (a - d)]]

\* How many bytes strlcpy copies, which is what it returns.
StrlcpyLen(m, s, size) ==
  LET c[k \in 0 .. size] ==     \* size - k bytes are copied
        IF k <= 1 \/ m[s + size - k] = 0 THEN 0 ELSE 1 + c[k - 1] IN
  c[size]

Strlcpy(m, d, s, size) ==
  IF size = 0 THEN m
  ELSE LET k == StrlcpyLen(m, s, size) IN [RepMovs(m, d, s, k, 1, FALSE) EXCEPT ![d + k] = 0]

\* The difference, as unsigned chars, at the first place where the strings
\* differ or end, 0 when n places are equal.
Strncmp(m, p, q, n) ==
  LET c[k \in 0 .. n] ==
        IF k = n THEN 0
        ELSE IF m[p + k] # 0 /\ m[p + k] = m[q + k] THEN c[k + 1] ELSE m[p + k] - m[q + k] IN
  c[0]
Strcmp(m, p, q) == Strncmp(m, p, q, Size - (IF p > q THEN p ELSE q))

Memcmp(m, p, q, n) ==
  LET c[k \in 0 .. n] ==
        IF k = n THEN 0 ELSE IF m[p + k] = m[q + k] THEN c[k + 1] ELSE m[p + k] - m[q + k] IN
  c[0]

Strfind(m, a, c) ==
  LET f[b \in a .. Size - 1] == IF m[b] = 0 \/ m[b] = c THEN b ELSE f[b + 1] IN f[a]
\* A null pointer, -1 here, also for c = 0.
Strchr(m, a, c) == LET b == Strfind(m, a, c) IN IF m[b] # 0 THEN b ELSE -1
Memfind(m, a, c, n) ==
  LET f[k \in 0 .. n] == IF k = n \/ m[a + k] = c THEN a + k ELSE f[k + 1] IN f[0]

-----------------------------------------------------------------------------
(* strtol *)

DigitOrder == <<"0", "1", "2", "3", "4", "5", "6", "7", "8", "9", "a", "b", "c", "d", "e", "f", "x">>
Upper == [c \in {"A", "B", "C", "D", "E", "F", "X"} |->
           CASE c = "A" -> 10 [] c = "B" -> 11 [] c = "C" -> 12 [] c = "D" -> 13
             [] c = "E" -> 14 [] c = "F" -> 15 [] c = "X" -> 33]
\* A letter counts from 10, and whatever is no letter or digit ends a number.
Dig(c) ==
  IF c \in DOMAIN Upper THEN Upper[c]
  ELSE IF c = "x" THEN 33
  ELSE IF \E i \in 1 .. 16 : DigitOrder[i] = c THEN (CHOOSE i \in 1 .. 16 : DigitOrder[i] = c) - 1
  ELSE 99

\* What a prefix says of the base.
Prefix(s, at, base) ==
  LET At(k) == IF k > Len(s) THEN "NUL" ELSE s[k]
      hex == base \in {0, 16} /\ At(at) = "0" /\ At(at + 1) = "x" IN
  CASE hex -> [at |-> at + 2, base |-> 16]
    [] ~hex /\ base = 0 /\ At(at) = "0" -> [at |-> at + 1, base |-> 8]
    [] ~hex /\ base = 0 /\ At(at) # "0" -> [at |-> at, base |-> 10]
    [] OTHER -> [at |-> at, base |-> base]

\* The value and the rest; numbers too long for a long are not tried.
Strtol(s, base) ==
  LET skip[k \in 1 .. Len(s) + 1] == IF k <= Len(s) /\ s[k] \in {" ", "\t"} THEN skip[k + 1] ELSE k
      sign == skip[1]
      signed == sign <= Len(s) /\ s[sign] \in {"+", "-"}
      p == Prefix(s, sign + (IF signed THEN 1 ELSE 0), base)
      v[k \in p.at .. Len(s) + 1] ==       \* the value of s[p.at .. k - 1]
        IF k = p.at THEN 0 ELSE v[k - 1] * p.base + Dig(s[k - 1])
      end[k \in p.at .. Len(s) + 1] == IF k <= Len(s) /\ Dig(s[k]) < p.base THEN end[k + 1] ELSE k IN
  [val |-> IF signed /\ s[sign] = "-" THEN -v[end[p.at]] ELSE v[end[p.at]],
   rest |-> SubSeq(s, end[p.at], Len(s))]

-----------------------------------------------------------------------------

Moves == [fn : {"memmove"}, d : Addr, s : Addr, n : 0 .. Size]
Fills == [fn : {"memset"}, d : Addr, c : {1, 257}, n : {0, 2, 4}]
Copies == [fn : {"strcpy", "strcat", "strncpy", "strlcpy"}, d : {0}, s : {Half}, n : 0 .. Half]
Compares == [fn : {"strcmp", "strncmp", "memcmp"}, d : {0}, s : {Half}, n : 0 .. Half]
Searches == [fn : {"strchr", "strfind", "memfind", "strnlen"}, s : {Half}, n : 0 .. Half, c : Bytes]
Conversions == [fn : {"strtol"}, text : Numerals, base : {0, 8, 10, 16}]

\* A call moves inside memory; strings that are read end, and a destination
\* has room for what it gets.
Init ==
  /\ ret = <<>>
  /\ \/ /\ call \in {x \in Moves : x.d + x.n <= Size /\ x.s + x.n <= Size}
        /\ before = [a \in Addr |-> a]
     \/ call \in {x \in Fills : x.d + x.n <= Size} /\ before = [a \in Addr |-> 7]
     \/ /\ call \in Copies \cup Compares \cup Searches
        /\ \E t \in [0 .. 2 * Half - 1 -> Bytes] :
             before = [a \in Addr |-> IF a < 2 * Half THEN t[a] ELSE 0]
        /\ Strlen(before, 0) < Half /\ Strlen(before, call.s) < Half
        /\ call.fn = "strcat" => Strlen(before, 0) + Strlen(before, call.s) < Half
        /\ call.fn \in {x.fn : x \in Searches} => before[0] = 0 /\ before[1] = 0
     \/ call \in Conversions /\ before = [a \in Addr |-> 0]
  /\ mem = before

Store(m) == mem' = m /\ ret' = <<"stored">>
Return(v) == ret' = v /\ UNCHANGED mem

Call ==
  /\ ret = <<>>
  /\ CASE call.fn = "memmove" -> Store(Memmove(mem, call.d, call.s, call.n))
       [] call.fn = "memset" -> Store(Memset(mem, call.d, call.c, call.n))
       [] call.fn = "strcpy" -> Store(Strcpy(mem, call.d, call.s))
       [] call.fn = "strcat" -> Store(Strcat(mem, call.d, call.s))
       [] call.fn = "strncpy" -> Store(Strncpy(mem, call.d, call.s, call.n))
       [] call.fn = "strlcpy" -> Store(Strlcpy(mem, call.d, call.s, call.n))
       [] call.fn = "strcmp" -> Return(<<Strcmp(mem, call.d, call.s)>>)
       [] call.fn = "strncmp" -> Return(<<Strncmp(mem, call.d, call.s, call.n)>>)
       [] call.fn = "memcmp" -> Return(<<Memcmp(mem, call.d, call.s, call.n)>>)
       [] call.fn = "strchr" -> Return(<<Strchr(mem, call.s, call.c)>>)
       [] call.fn = "strfind" -> Return(<<Strfind(mem, call.s, call.c)>>)
       [] call.fn = "memfind" -> Return(<<Memfind(mem, call.s, call.c, call.n)>>)
       [] call.fn = "strnlen" -> Return(<<Strnlen(mem, call.s, call.n)>>)
       [] call.fn = "strtol" -> Return(<<Strtol(call.text, call.base)>>)
  /\ UNCHANGED <<before, call>>

Next == Call

Spec == Init /\ [][Next]_vars

-----------------------------------------------------------------------------
(* Properties *)

\* memmove copies what was there before it, whether or not the areas overlap
\* and by words or by bytes; it and memset touch nothing else.
MovesAsIfThroughACopy ==
  ret # <<>> /\ call.fn \in {"memmove", "memset"} =>
    \A a \in Addr :
      mem[a] = IF a \notin call.d .. call.d + call.n - 1 THEN before[a]
               ELSE IF call.fn = "memset" THEN 1 ELSE before[call.s + (a - call.d)]

\* The text at a.
Text(m, a) == SubSeq([i \in 1 .. Size |-> m[i - 1]], a + 1, (CHOOSE b \in a .. Size - 1 :
                      m[b] = 0 /\ \A k \in a .. b - 1 : m[k] # 0))

\* The copying routines leave the text they should at the destination, strlcpy
\* as much of it as fits in n bytes with the ending zero, and none writes past
\* the n bytes of its buffer.
CopiesFit ==
  ret # <<>> /\ call.fn \in {"strcpy", "strcat", "strncpy", "strlcpy"} =>
    LET src == Text(before, call.s)
        full == IF call.fn = "strcat" THEN Text(before, 0) \o src ELSE src
        room == CASE call.fn = "strncpy" -> call.n [] call.fn = "strlcpy" -> call.n - 1 [] OTHER -> Size
        kept == IF Len(full) <= room THEN full ELSE SubSeq(full, 1, room)
        limit == IF call.fn \in {"strncpy", "strlcpy"} THEN call.n ELSE Len(full) + 1 IN
    /\ \A a \in Addr : a >= limit => mem[a] = before[a]
    /\ \A i \in 1 .. Len(kept) : mem[i - 1] = kept[i]
    /\ Len(kept) < limit /\ call.fn # "strncpy" => mem[Len(kept)] = 0
    /\ call.fn = "strncpy" => \A i \in Len(kept) + 1 .. call.n : mem[i - 1] = 0

\* Comparisons have the sign of the order of the texts, and searches find the
\* first place or the end.
Sign(x) == IF x < 0 THEN -1 ELSE IF x > 0 THEN 1 ELSE 0
Upto(t, n) == IF Len(t) <= n THEN t ELSE SubSeq(t, 1, n)
Order(t, u) ==
  IF t = u THEN 0
  ELSE IF \E i \in 0 .. Len(t) : /\ Upto(t, i) = Upto(u, i)
                                 /\ i < Len(u) /\ (i = Len(t) \/ t[i + 1] < u[i + 1])
       THEN -1 ELSE 1

ComparesInOrder ==
  ret # <<>> =>
    CASE call.fn = "strcmp" -> Sign(ret[1]) = Order(Text(mem, 0), Text(mem, call.s))
      [] call.fn = "strncmp" ->
           Sign(ret[1]) = Order(Upto(Text(mem, 0), call.n), Upto(Text(mem, call.s), call.n))
      [] call.fn = "memcmp" ->
           (ret[1] = 0) = (\A k \in 0 .. call.n - 1 : mem[k] = mem[call.s + k])
      [] call.fn \in {"strchr", "strfind"} ->
           LET t == Text(mem, call.s)
               hit == {i \in 1 .. Len(t) : t[i] = call.c} IN
           IF hit # {} THEN ret[1] = call.s + (CHOOSE i \in hit : \A j \in hit : i <= j) - 1
           ELSE ret[1] = IF call.fn = "strchr" THEN -1 ELSE call.s + Len(t)
      [] call.fn = "memfind" ->
           /\ ret[1] \in call.s .. call.s + call.n
           /\ \A a \in call.s .. ret[1] - 1 : mem[a] # call.c
           /\ ret[1] < call.s + call.n => mem[ret[1]] = call.c
      [] call.fn = "strnlen" -> ret[1] = Len(Upto(Text(mem, call.s), call.n))
      [] OTHER -> TRUE

\* strtol reads the longest number at the start of the text in its base, where
\* base 0 follows the prefix.
StrtolReads ==
  ret # <<>> /\ call.fn = "strtol" =>
    LET t == call.text
        body == SelectSeq(t, LAMBDA c : c \notin {" ", "\t", "+", "-"})   \* signs and blanks lead
        hex == call.base \in {0, 16} /\ Len(body) >= 2 /\ body[1] = "0" /\ body[2] = "x"
        base == IF hex THEN 16 ELSE IF call.base # 0 THEN call.base
                ELSE IF Len(body) > 0 /\ body[1] = "0" THEN 8 ELSE 10
        digits == IF hex THEN SubSeq(body, 3, Len(body)) ELSE body
        len == CHOOSE k \in 0 .. Len(digits) :
                 /\ \A i \in 1 .. k : Dig(digits[i]) < base
                 /\ k < Len(digits) => Dig(digits[k + 1]) >= base
        val[k \in 0 .. len] == IF k = 0 THEN 0 ELSE val[k - 1] * base + Dig(digits[k]) IN
    /\ ret[1].rest = SubSeq(digits, len + 1, Len(digits))
    /\ ret[1].val = IF \E i \in 1 .. Len(t) : t[i] = "-" THEN -val[len] ELSE val[len]
==============================================================================
