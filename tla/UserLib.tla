------------------------------- MODULE UserLib -------------------------------
(***************************************************************************)
(* The library of the user programs (userlib/libnachos.c) and the two      *)
(* routines with which the kernel takes a string from a program            *)
(* (kernel/exception.cc).                                                  *)
(*                                                                         *)
(* A behaviour is one call on some contents of a small memory, or one call *)
(* of the formatter on a format made of pieces; the loops of the code are  *)
(* compared with definitions of what the functions are for.                *)
(***************************************************************************)
EXTENDS Integers, Sequences, SequencesExt, FiniteSets

CONSTANTS
  Size,      \* bytes of memory
  Bytes,     \* values they take
  IntBits, LongBits,   \* widths of int and long, multiples of 4
  Longs,     \* arguments of the number directives
  Lengths,   \* sizes given to n_snprintf
  Pieces,    \* directives and text that formats are made of
  MaxPieces, \* bound: pieces in a format
  BuffSize,  \* size of the buffer of n_printf
  NULL       \* the null pointer

Char(name) ==
  CASE name = "nul" -> 0 [] name = "%" -> 37 [] name = "-" -> 45 [] name = "0" -> 48
    [] name = "9" -> 57 [] name = "A" -> 65 [] name = "Z" -> 90 [] name = "a" -> 97
    [] name = "c" -> 99 [] name = "d" -> 100 [] name = "i" -> 105 [] name = "l" -> 108
    [] name = "q" -> 113 [] name = "s" -> 115 [] name = "x" -> 120 [] name = "z" -> 122

Addr == 0..(Size - 1)

VARIABLES
  memory,
  call    \* the call made: its function, arguments, the memory before, the result

vars == <<memory, call>>
NoCall == [fn |-> "none"]

Wrap(v, bits) == ((v + 2^(bits - 1)) % 2^bits) - 2^(bits - 1)

-----------------------------------------------------------------------------
(* Strings. *)

RECURSIVE n_strcmp(_, _, _, _)
n_strcmp(m, s1, s2, i) ==
  IF m[s1 + i] = 0 /\ m[s2 + i] = 0 THEN 0
  ELSE IF m[s1 + i] < m[s2 + i] THEN -1
  ELSE IF m[s1 + i] > m[s2 + i] THEN 1
  ELSE n_strcmp(m, s1, s2, i + 1)

RECURSIVE n_strlen(_, _, _)
n_strlen(m, s, i) == IF m[s + i] # 0 THEN n_strlen(m, s, i + 1) ELSE i

\* fault: the end is seen before it is copied.
StrcpyOpen(m, dst, src, i) == IF m[src + i] = 0 THEN m ELSE [m EXCEPT ![dst + i] = m[src + i]]

\* One turn of the copy, which includes the end of the string.
Strcpy(m, dst, src, i) == [m EXCEPT ![dst + i] = m[src + i]]

RECURSIVE StrcpyLoop(_, _, _, _)
StrcpyLoop(m, dst, src, i) ==
  LET next == Strcpy(m, dst, src, i)
  IN  IF m[src + i] = 0 THEN next ELSE StrcpyLoop(next, dst, src, i + 1)

\* The memory after the call, and the pointer it returns.
n_strcpy(m, dst, src) ==
  IF dst # NULL /\ src # NULL THEN [memory |-> StrcpyLoop(m, dst, src, 0), result |-> dst]
  ELSE [memory |-> m, result |-> NULL]

n_strcat(m, dst, src) ==
  LET i == n_strlen(m, dst, 0)
      j == n_strlen(m, src, 0)
      copied[k \in 0..(j + 1)] ==
        IF k = 0 THEN m ELSE [copied[k - 1] EXCEPT ![dst + i + k - 1] = copied[k - 1][src + k - 1]]
  IN  copied[j + 1]

n_toupper(c) == IF c >= Char("a") /\ c <= Char("z") THEN c + (Char("A") - Char("a")) ELSE c
n_tolower(c) == IF c <= Char("Z") /\ c >= Char("A") THEN c + (Char("a") - Char("A")) ELSE c

IsDigit(c) == c # 0 /\ ~(c < Char("0")) /\ ~(c > Char("9"))

\* int arithmetic that wraps, as the instructions of the processor do.
RECURSIVE AtoiLoop(_, _, _)
AtoiLoop(str, i, val) ==
  IF IsDigit(str[i]) THEN AtoiLoop(str, i + 1, Wrap(val * 10 + str[i] - Char("0"), IntBits)) ELSE val

n_atoi(str) ==
  IF str[1] = Char("-") THEN Wrap(-AtoiLoop(str, 2, 0), IntBits) ELSE AtoiLoop(str, 1, 0)

-----------------------------------------------------------------------------
(* Memory areas. *)

RECURSIVE n_memcmp(_, _, _, _, _)
n_memcmp(m, s1, s2, n, i) ==
  IF i >= n THEN 0
  ELSE IF m[s1 + i] < m[s2 + i] THEN -1
  ELSE IF m[s1 + i] > m[s2 + i] THEN 1
  ELSE n_memcmp(m, s1, s2, n, i + 1)

n_memcpy(m, s1, s2, n) ==
  LET copied[i \in 0..n] ==
        IF i = 0 THEN m ELSE [copied[i - 1] EXCEPT ![s1 + i - 1] = copied[i - 1][s2 + i - 1]]
  IN  IF s1 # NULL /\ s2 # NULL THEN [memory |-> copied[n], result |-> s1]
      ELSE [memory |-> m, result |-> NULL]

n_memset(m, s, c, n) ==
  LET set[i \in 0..n] == IF i = 0 THEN m ELSE [set[i - 1] EXCEPT ![s + i - 1] = c % 256]
  IN  set[n]

TOHEX(x) == IF x < 10 THEN x + Char("0") ELSE Char("a") + (x - 10)

\* The digits; the addresses and the layout are left out.
n_dumpmem(m, addr, len) ==
  FlattenSeq([i \in 1..len |-> <<TOHEX((m[addr + i - 1] \div 16) % 16), TOHEX(m[addr + i - 1] % 16)>>])

-----------------------------------------------------------------------------
(* The kernel's copy of a string of a program. *)

\* One more than the characters read, the end among them.
RECURSIVE LengthLoop(_, _, _)
LengthLoop(m, addr, i) == IF m[addr + i] # 0 THEN LengthLoop(m, addr, i + 1) ELSE i + 1
GetLengthParam(m, addr) == LengthLoop(m, addr, 0) + 1

RECURSIVE StringLoop(_, _, _, _)
StringLoop(m, addr, dest, maxlen) ==
  LET c == m[addr + Len(dest)]
  IN  IF Len(dest) >= maxlen THEN dest
      ELSE IF c = 0 THEN Append(dest, c)
      ELSE StringLoop(m, addr, Append(dest, c), maxlen)

Unwritten == -1   \* a byte of a local array that nothing was stored in

\* The last byte of dest is 0; those in between are not written.
GetStringParam(m, addr, maxlen) ==
  LET dest == StringLoop(m, addr, <<>>, maxlen)
  IN  [i \in 1..maxlen |-> IF i = maxlen THEN 0 ELSE IF i <= Len(dest) THEN dest[i] ELSE Unwritten]

-----------------------------------------------------------------------------
(* The formatter: out holds what has been put in the buffer, result counts  *)
(* every character, ap the arguments left.                                  *)

\* fault: the place of the final 0 is not kept.
PUTCHARFull(out, carac, len) ==
  [out EXCEPT !.buff = IF out.result < len THEN Append(@, carac) ELSE @, !.result = @ + 1]

PUTCHAR(out, carac, len) ==
  [out EXCEPT !.buff = IF out.result < len - 1 THEN Append(@, carac) ELSE @, !.result = @ + 1]

PutAll(out, chars, len) == FoldLeft(LAMBDA o, c : PUTCHAR(o, c, len), out, chars)

\* % and / of C truncate towards 0.
Quot(n) == IF n < 0 THEN -((-n) \div 10) ELSE n \div 10
m10(n) == IF n < 0 THEN (-n) % 10 ELSE n % 10

\* The digits in buff_int, the last one first.
RECURSIVE Digits(_)
Digits(n) == <<Char("0") + m10(n)>> \o (IF Quot(n) # 0 THEN Digits(Quot(n)) ELSE <<>>)

Decimal(n) == (IF n < 0 THEN <<Char("-")>> ELSE <<>>) \o Reverse(Digits(n))

\* The i-th group of 4 bits from the top.
Nibble(hexa, i, bits) == (((hexa * 2^(i * 4)) % 2^bits) \div 2^(bits - 4)) % 16

\* Leading zeros are skipped, the last one of all zeros excepted.
Hexa(value, bits) ==
  LET hexa == value % 2^bits
      shown == {i \in 0..((bits \div 4) - 1) : \E k \in 0..i : Nibble(hexa, k, bits) # 0}
  IN  IF shown = {} THEN <<Char("0")>>
      ELSE [j \in 1..Cardinality(shown) |->
              TOHEX(Nibble(hexa, (bits \div 4) - Cardinality(shown) + j - 1, bits))]

\* The character at i; the format ends with a 0, after which nothing is known.
At(format, i) == IF i <= Len(format) THEN format[i] ELSE 0

NullText == <<40, 110, 117, 108, 108, 41>>

\* What a directive puts and how many characters of the format it is: c is the
\* character after the %, d the one after that.
Directive(c, d, arg) ==
  CASE c = Char("%") -> [put |-> <<Char("%")>>, long |-> 2, arg |-> FALSE]
    [] c \in {Char("d"), Char("i")} -> [put |-> Decimal(Wrap(arg, IntBits)), long |-> 2, arg |-> TRUE]
    [] c = Char("x") -> [put |-> Hexa(arg, IntBits), long |-> 2, arg |-> TRUE]
    [] c = Char("c") -> [put |-> <<arg % 256>>, long |-> 2, arg |-> TRUE]
    [] c = Char("s") -> [put |-> IF arg.null THEN NullText ELSE arg.chars, long |-> 2, arg |-> TRUE]
    [] c = Char("l") /\ d = Char("d") -> [put |-> Decimal(arg), long |-> 3, arg |-> TRUE]
    [] c = Char("l") /\ d = Char("x") -> [put |-> Hexa(arg, LongBits), long |-> 3, arg |-> TRUE]
    [] c = Char("l") /\ d \notin {Char("d"), Char("x")} ->
         [put |-> <<Char("%"), c, d>>, long |-> 3, arg |-> FALSE]
    [] OTHER -> [put |-> <<Char("%"), c>>, long |-> 2, arg |-> FALSE]

\* The loop over the format; past: it has gone over the end of the format.
RECURSIVE FormatLoop(_, _, _, _)
FormatLoop(format, len, i, out) ==
  IF i > Len(format) + 1 THEN [out EXCEPT !.past = TRUE]
  ELSE IF At(format, i) = 0 THEN out
  ELSE IF At(format, i) # Char("%") THEN FormatLoop(format, len, i + 1, PUTCHAR(out, At(format, i), len))
  ELSE LET arg == IF out.ap = <<>> THEN 0 ELSE Head(out.ap)
           dir == Directive(At(format, i + 1), At(format, i + 2), arg)
           put == PutAll(out, dir.put, len)
       IN  FormatLoop(format, len, i + dir.long,
                      IF dir.arg THEN [put EXCEPT !.ap = Tail(@)] ELSE put)

\* The final 0 is stored whatever the size, 0 included (libnachos.c:560).
n_vsnprintf(buff, len, format, ap) ==
  LET start == [buff |-> buff, result |-> 0, ap |-> ap, past |-> FALSE]
      end == FormatLoop(format, len, 1, start)
  IN  IF buff = NULL \/ format = NULL \/ len < 0 THEN [start EXCEPT !.result = -1]
      ELSE [end EXCEPT !.buff = Append(@, 0)]

\* What n_printf hands to Write.  The result is compared with the size as an
\* unsigned number, so that an error prints a buffer that was never written.
n_printf(format, ap) ==
  LET out == n_vsnprintf(<<>>, BuffSize, format, ap)
      len == IF out.result % 2^LongBits >= BuffSize THEN BuffSize - 1 ELSE out.result
  IN  [i \in 1..len |-> IF i <= Len(out.buff) THEN out.buff[i] ELSE Unwritten]

\* Read puts what was typed in a buffer, with a 0 at the end.
n_read_int(typed) == n_atoi(Append(typed, 0))

-----------------------------------------------------------------------------
(* Calls. *)

Terminated(s) == \E i \in Addr : i >= s /\ memory[i] = 0
Fits(s, n) == s + n <= Size
Disjoint(s1, n1, s2, n2) == s1 + n1 <= s2 \/ s2 + n2 <= s1

Called(fn, a, b, n, result, after) ==
  /\ call' = [fn |-> fn, a |-> a, b |-> b, n |-> n, before |-> memory, result |-> result]
  /\ memory' = after

CalledCopy(fn, a, b, n, copy) == Called(fn, a, b, n, copy.result, copy.memory)

\* The functions that only look at the memory.
Look ==
  /\ call = NoCall
  /\ \E a, b \in Addr, n \in 0..Size :
       \/ /\ n = 0 /\ Terminated(a) /\ Terminated(b)
          /\ Called("n_strcmp", a, b, 0, n_strcmp(memory, a, b, 0), memory)
       \/ /\ n = 0 /\ a = b /\ Terminated(a)
          /\ Called("n_strlen", a, a, 0, n_strlen(memory, a, 0), memory)
       \/ /\ n = 0 /\ a = b /\ Terminated(a)
          /\ Called("n_atoi", a, a, 0, n_atoi([i \in 1..(Size - a) |-> memory[a + i - 1]]), memory)
       \/ /\ Fits(a, n) /\ Fits(b, n)
          /\ Called("n_memcmp", a, b, n, n_memcmp(memory, a, b, n, 0), memory)
       \/ /\ a = b /\ Fits(a, n)
          /\ Called("n_dumpmem", a, a, n, n_dumpmem(memory, a, n), memory)
       \/ /\ n = 0 /\ a = b /\ Terminated(a)
          /\ Called("GetStringParam", a, a, GetLengthParam(memory, a),
                    GetStringParam(memory, a, GetLengthParam(memory, a)), memory)

\* The functions that write, on areas that are large enough.
Change ==
  /\ call = NoCall
  /\ \E a, b \in Addr, n \in 0..Size :
       \/ /\ n = 0 /\ Terminated(b)
          /\ LET len == n_strlen(memory, b, 0) + 1
             IN  Fits(a, len) /\ Disjoint(a, len, b, len)
          /\ CalledCopy("n_strcpy", a, b, 0, n_strcpy(memory, a, b))
       \/ /\ n = 0 /\ Terminated(a) /\ Terminated(b)
          /\ LET i == n_strlen(memory, a, 0)
                 len == n_strlen(memory, b, 0) + 1
             IN  Fits(a, i + len) /\ Disjoint(a, i + len, b, len)
          /\ Called("n_strcat", a, b, 0, a, n_strcat(memory, a, b))
       \/ /\ Fits(a, n) /\ Fits(b, n)
          /\ CalledCopy("n_memcpy", a, b, n, n_memcpy(memory, a, b, n))
       \/ /\ Fits(a, n) /\ \E c \in Bytes :
               Called("n_memset", a, c, n, a, n_memset(memory, a, c + 256, n)) /\ b = 0

\* The copies that are given a null pointer.
CopyNull ==
  /\ call = NoCall
  /\ \E a, b \in Addr \cup {NULL}, n \in 0..Size :
       /\ a = NULL \/ b = NULL
       /\ \/ n = 0 /\ CalledCopy("n_strcpy", a, b, 0, n_strcpy(memory, a, b))
          \/ CalledCopy("n_memcpy", a, b, n, n_memcpy(memory, a, b, n))

\* The other functions do not use the memory; one content of it is enough.
Empty == \A a \in Addr : memory[a] = 0

Convert ==
  /\ call = NoCall /\ Empty
  /\ \E c \in (Char("A") - 1)..(Char("z") + 1) :
       \/ Called("n_toupper", c, c, 0, n_toupper(c), memory)
       \/ Called("n_tolower", c, c, 0, n_tolower(c), memory)

\* A format is the text of some pieces, with an argument for each that needs one.
Argument(kind, v) ==
  CASE kind = "int" -> Wrap(v, IntBits)
    [] kind = "long" -> v
    [] kind = "char" -> Char("z") + 256
    [] kind = "string" -> [null |-> FALSE, chars |-> <<Char("A"), Char("0")>>]
    [] kind = "null" -> [null |-> TRUE, chars |-> <<>>]
Arguments(pieces, v) ==
  LET given == SelectSeq(pieces, LAMBDA p : p.kind \notin {"text", "percent", "open"})
  IN  [i \in DOMAIN given |-> Argument(given[i].kind, v)]
Text(pieces) == FlattenSeq([i \in DOMAIN pieces |-> pieces[i].text])

\* Only the last directive may be cut short.
Formats == {f \in UNION {[1..n -> Pieces] : n \in 0..MaxPieces} :
              \A i \in DOMAIN f : f[i].kind = "open" => i = Len(f)}

Format ==
  /\ call = NoCall /\ Empty
  /\ \E pieces \in Formats, v \in Longs : LET ap == Arguments(pieces, v) IN
       \/ \E len \in Lengths :
            Called("n_snprintf", pieces, v, len, n_vsnprintf(<<>>, len, Text(pieces), ap), memory)
       \/ Called("n_printf", pieces, v, BuffSize, n_printf(Text(pieces), ap), memory)

\* The formatter is given a null pointer.
FormatNull ==
  /\ call = NoCall /\ Empty
  /\ \/ \E buff, format \in {NULL, <<>>}, len \in Lengths :
          /\ buff = NULL \/ format = NULL
          /\ Called("n_snprintf", NULL, buff, len, n_vsnprintf(buff, len, format, <<>>), memory)
     \/ Called("n_printf", NULL, NULL, BuffSize, n_printf(NULL, <<>>), memory)

Init == memory \in [Addr -> Bytes] /\ call = NoCall
Next == Look \/ Change \/ CopyNull \/ Convert \/ Format \/ FormatNull
Spec == Init /\ [][Next]_vars

-----------------------------------------------------------------------------
(* What the functions are for. *)

\* The string at s, without its end.
StringAt(m, s) ==
  LET end == CHOOSE i \in Addr : i >= s /\ m[i] = 0 /\ \A j \in s..(i - 1) : m[j] # 0
  IN  [i \in 1..(end - s) |-> m[s + i - 1]]
Area(m, s, n) == [i \in 1..n |-> m[s + i - 1]]
Holds(m, s, chars) == s + Len(chars) <= Size /\ Area(m, s, Len(chars)) = chars

\* s comes before t in the order of the dictionary.
Before(s, t) ==
  \E k \in DOMAIN t :
    /\ \A j \in 1..(k - 1) : j <= Len(s) /\ s[j] = t[j]
    /\ IF k <= Len(s) THEN s[k] < t[k] ELSE k = Len(s) + 1
Compared(s, t) == IF s = t THEN 0 ELSE IF Before(s, t) THEN -1 ELSE 1

\* n in a base, without leading zeros.
Numeral(n, base) ==
  LET k == CHOOSE k \in 1..LongBits : n < base^k /\ (k = 1 \/ n >= base^(k - 1))
      symbols == <<48, 49, 50, 51, 52, 53, 54, 55, 56, 57, 97, 98, 99, 100, 101, 102>>
  IN  [i \in 1..k |-> symbols[((n \div base^(k - i)) % base) + 1]]
Signed(n) == IF n < 0 THEN <<Char("-")>> \o Numeral(-n, 10) ELSE Numeral(n, 10)

\* The number a string starts with.
Number(str) ==
  LET digits == {i \in DOMAIN str : \A j \in 1..i : str[j] \in Char("0")..Char("9")}
      k == Cardinality(digits)
      value[i \in 0..k] == IF i = 0 THEN 0 ELSE value[i - 1] + (str[i] - Char("0")) * 10^(k - i)
  IN  value[k]

Expansion(piece, v) ==
  CASE piece.kind = "text" -> piece.text
    [] piece.kind = "percent" -> <<Char("%")>>
    [] piece.kind = "int" -> IF piece.base = 10 THEN Signed(Wrap(v, IntBits)) ELSE Numeral(v % 2^IntBits, 16)
    [] piece.kind = "long" -> IF piece.base = 10 THEN Signed(v) ELSE Numeral(v % 2^LongBits, 16)
    [] piece.kind = "char" -> <<Char("z")>>
    [] piece.kind = "string" -> <<Char("A"), Char("0")>>
    [] piece.kind = "null" -> NullText
Expanded(pieces, v) == FlattenSeq([i \in DOMAIN pieces |-> Expansion(pieces[i], v)])
Complete(pieces) == \A i \in DOMAIN pieces : pieces[i].kind # "open"
Prefix(chars, n) == SubSeq(chars, 1, IF n < Len(chars) THEN n ELSE Len(chars))

Result(m, a, b, n) ==
  CASE call.fn = "n_strcmp" -> Compared(StringAt(m, a), StringAt(m, b))
    [] call.fn = "n_strlen" -> Len(StringAt(m, a))
    [] call.fn = "n_atoi" ->
         LET str == StringAt(m, a)
         IN  Wrap(IF str # <<>> /\ str[1] = Char("-") THEN -Number(Tail(str)) ELSE Number(str), IntBits)
    [] call.fn = "n_memcmp" -> Compared(Area(m, a, n), Area(m, b, n))
    [] call.fn = "n_toupper" -> IF a \in Char("a")..Char("z") THEN a - 32 ELSE a
    [] call.fn = "n_tolower" -> IF a \in Char("A")..Char("Z") THEN a + 32 ELSE a
    [] call.fn \in {"n_strcpy", "n_memcpy"} -> IF a = NULL \/ b = NULL THEN NULL ELSE a
    [] OTHER -> a

\* The area a call has written.
Written(m, a, b, n) ==
  CASE a = NULL \/ b = NULL -> [from |-> 0, chars |-> <<>>]
    [] call.fn = "n_strcpy" -> [from |-> a, chars |-> Append(StringAt(m, b), 0)]
    [] call.fn = "n_strcat" ->
         [from |-> a, chars |-> StringAt(m, a) \o Append(StringAt(m, b), 0)]
    [] call.fn = "n_memcpy" -> [from |-> a, chars |-> Area(m, b, n)]
    [] call.fn = "n_memset" -> [from |-> a, chars |-> [i \in 1..n |-> b]]
    [] OTHER -> [from |-> a, chars |-> <<>>]

\* The string and memory functions return what they are for, leave exactly
\* their area changed, and copy right where the areas overlap unless the
\* destination starts inside the source; a copy from or to a null pointer
\* changes nothing and returns one; the kernel's copy of a string is the
\* string with its end (libnachos.c, exception.cc GetStringParam).
StringsCorrect ==
  LET m == call.before  a == call.a  b == call.b  n == call.n
  IN  /\ call.fn \in {"n_strcmp", "n_strlen", "n_atoi", "n_memcmp", "n_toupper", "n_tolower",
                      "n_strcpy", "n_strcat", "n_memcpy", "n_memset"} =>
           call.result = Result(m, a, b, n)
      /\ call.fn \in {"n_strcpy", "n_strcat", "n_memset"}
            \/ (call.fn = "n_memcpy" /\ (NULL \in {a, b} \/ ~(b < a /\ a < b + n))) =>
           LET w == Written(m, a, b, n)
           IN  /\ Holds(memory, w.from, w.chars)
               /\ \A x \in Addr : x \notin w.from..(w.from + Len(w.chars) - 1) => memory[x] = m[x]
      /\ call.fn = "n_dumpmem" =>
           \A i \in 1..n : LET byte == Numeral(m[a + i - 1] + 256, 16)
                           IN  SubSeq(call.result, 2 * i - 1, 2 * i) = SubSeq(byte, 2, 3)
      /\ call.fn = "GetStringParam" =>
           LET str == Append(StringAt(m, a), 0)
           IN  Len(call.result) = n /\ Prefix(call.result, Len(str)) = str

\* n_snprintf returns the length of the whole text whatever the room, and
\* writes as much of it as fits with a final 0 and not one byte more, but for
\* the size 0: there it writes the 0 behind the buffer.  It reads over the end
\* of the format exactly when the last directive is cut short, and returns -1
\* having written nothing when the size is negative or a pointer is null.
\* n_printf prints the same text cut to its buffer (which says nothing of a
\* null format), and n_read_int reads back the numbers it printed, the smallest
\* int included (libnachos.c).
FormatCorrect ==
  LET r == call.result
      full == Expanded(call.a, call.b)
  IN  /\ call.fn = "n_snprintf" /\ (call.a = NULL \/ call.n < 0) =>
           r.result = -1 /\ r.buff \in {NULL, <<>>}
      /\ call.fn = "n_snprintf" /\ call.a # NULL /\ call.n >= 0 =>
           /\ r.past <=> ~Complete(call.a)
           /\ Complete(call.a) => /\ r.ap = <<>>
                                 /\ r.result = Len(full)
                                 /\ r.buff = Append(Prefix(full, call.n - 1), 0)
      /\ call.fn = "n_printf" /\ call.a # NULL /\ Complete(call.a) =>
           /\ r = Prefix(full, BuffSize - 1)
           /\ Len(call.a) = 1 /\ Len(full) < BuffSize /\ call.a[1].kind = "int" /\ call.a[1].base = 10 =>
                n_read_int(r) = Wrap(call.b, IntBits)

=============================================================================
