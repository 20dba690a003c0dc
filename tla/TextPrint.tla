------------------------------ MODULE TextPrint -------------------------------
(***************************************************************************)
(* The class Print: a value becomes the pieces of its text, and the pieces *)
(* go out one character after the other.  The write() of a device takes a  *)
(* character or refuses it, which ends the piece but not the call.         *)
(* A float is an exact fraction of Parts parts.                            *)
(***************************************************************************)
EXTENDS Integers, Sequences, SequencesExt, FiniteSetsExt

CONSTANTS
  Width,       \* the bits of a long
  Base,        \* the bases print() is called with
  Parts,       \* a float is a number of Parts-th parts
  MaxDigits    \* the most decimal places it is called with

ASSUME PrintAssumption ==
  /\ Width \in Nat \ {0} /\ Parts \in Nat \ {0}
  /\ Base \subseteq Nat /\ MaxDigits \in Nat

VARIABLES
  asked,       \* the arguments of the call
  pieces,      \* what is still to be written
  out,         \* the characters write() has taken
  count        \* the sum that the call will return

printVars == <<asked, pieces, out, count>>

Power(b, k) == LET power[i \in Nat] == IF i = 0 THEN 1 ELSE b * power[i - 1] IN power[k]

Pow2 == Power(2, Width)
Long == -(Pow2 \div 2) .. Pow2 \div 2 - 1

\* Characters are numbers: a digit its value, any other one below 0.
Minus == -1
Dot == -2
CrLf == <<-3, -4>>
Ovf == <<-5, -6, -7>>
BufLen == Width + 1            \* char buf[8 * sizeof(long) + 1]

-------------------------------------------------------------------------------
\* printNumber() of an unsigned long: the digits, from the last one to the first; the turns
\* of the loop end when no number is left.
NextDigit(z, base) ==
  IF z.left = 0 THEN z ELSE [left |-> z.left \div base, str |-> <<z.left % base>> \o z.str]
Digits(n, base) ==
  LET turn[k \in Nat] == IF k = 0 THEN [left |-> n \div base, str |-> <<n % base>>]
                         ELSE NextDigit(turn[k - 1], base)
  IN turn[Width].str
PrintNumber(n, base) == Digits(n, IF base < 2 THEN 10 ELSE base)

\* A version that forgets to negate the number behind its sign.
LongPiecesTwoSigns(n, base) ==
  IF base = 0 THEN <<<<n % 256>>>>
  ELSE IF base = 10 /\ n < 0 THEN <<<<Minus>>, PrintNumber(n % Pow2, 10)>>
  ELSE <<PrintNumber(n % Pow2, base)>>

\* print() of a long: base 0 sends the byte, base 10 the sign; any other base the
\* bits.  An unsigned long has no sign.
LongPieces(n, base) ==
  IF base = 0 THEN <<<<n % 256>>>>
  ELSE IF base = 10 /\ n < 0 THEN <<<<Minus>>, PrintNumber((-n) % Pow2, 10)>>
  ELSE <<PrintNumber(n % Pow2, base)>>

\* 4294967040.0, scaled: what is above it is not printed.
Overflow == (Pow2 - 1) * Parts

\* printFloat() of v / Parts.  Everything is counted in parts of One.
FloatPieces(v, digits) ==
  LET One == Parts * Power(10, digits + 1)
      number == (IF v < 0 THEN -v ELSE v) * Power(10, digits + 1) + 5 * Parts
      rest[i \in 0 .. digits] == IF i = 0 THEN number % One ELSE (10 * rest[i - 1]) % One
  IN IF v > Overflow \/ v < -Overflow THEN <<Ovf>>
     ELSE (IF v < 0 THEN <<<<Minus>>>> ELSE <<>>)
          \o <<PrintNumber((number \div One) % Pow2, 10)>>
          \o (IF digits > 0 THEN <<<<Dot>>>> ELSE <<>>)
          \o [i \in 1 .. digits |-> PrintNumber((10 * rest[i - 1]) \div One, 10)]

-------------------------------------------------------------------------------
PrintInit == asked = <<"none">> /\ pieces = <<>> /\ out = <<>> /\ count = 0

Start(call, what, line) ==
  /\ asked = <<"none">>
  /\ asked' = call
  /\ pieces' = IF line THEN Append(what, CrLf) ELSE what   \* println()
  /\ UNCHANGED <<out, count>>

PrintLong(n, base, line) == Start(<<"long", n, base, line>>, LongPieces(n, base), line)
PrintFloat(v, digits, line) == Start(<<"float", v, digits, line>>, FloatPieces(v, digits), line)

\* write() of a buffer: it is over with the first character that is refused.
WriteChar(taken) ==
  LET rest == IF taken THEN Tail(Head(pieces)) ELSE <<>> IN
  /\ pieces # <<>>
  /\ pieces' = (IF rest = <<>> THEN <<>> ELSE <<rest>>) \o Tail(pieces)
  /\ out' = IF taken THEN Append(out, Head(Head(pieces))) ELSE out
  /\ count' = IF taken THEN count + 1 ELSE count
  /\ UNCHANGED asked

\* The sum is returned; nothing is kept for the next call.
Return ==
  /\ asked # <<"none">> /\ pieces = <<>>
  /\ asked' = <<"none">> /\ out' = <<>> /\ count' = 0
  /\ UNCHANGED pieces

PrintNext ==
  \/ \E line \in BOOLEAN :
       \/ \E n \in Long, base \in Base : PrintLong(n, base, line)
       \/ \E v \in -(Overflow + 1) .. Overflow + 1, d \in 0 .. MaxDigits : PrintFloat(v, d, line)
  \/ \E taken \in BOOLEAN : WriteChar(taken)
  \/ Return

PrintSpec == PrintInit /\ [][PrintNext]_printVars

-------------------------------------------------------------------------------
\* The number that a text of digits stands for, as one reads it.
ReadBack(t, base) ==
  LET read[i \in 0 .. Len(t)] == IF i = 0 THEN 0 ELSE base * read[i - 1] + t[i]
  IN read[Len(t)]
AreDigits(t, base) == \A i \in DOMAIN t : t[i] \in 0 .. base - 1
WithLine == asked[4]
Body == IF WithLine THEN SubSeq(out, 1, Len(out) - 2) ELSE out
\* The call is over and every character was taken.
AllOut(text) == pieces = <<>> /\ count = Len(FlattenSeq(text)) + (IF WithLine THEN 2 ELSE 0)
Unsigned == IF Body # <<>> /\ Head(Body) = Minus THEN Tail(Body) ELSE Body

\* A number whose characters were all taken reads back.  A long in base 10 does with its
\* sign, the smallest one included, in any other base as its bits, and the digits fit into
\* the buffer whatever the base (Print.cpp:205-211).  A float has the places asked for, and
\* no decimal number with as many is nearer to it: "so that print(1.999, 2) prints as 2.00"
\* (Print.cpp:239).
LongReadsBack(n, asked_base) ==
  LET base == IF asked_base < 2 THEN 10 ELSE asked_base
      text == LongPieces(n, asked_base)
  IN /\ \A i \in DOMAIN text : Len(text[i]) < BufLen
     /\ AllOut(text) =>
          /\ AreDigits(Unsigned, base)
          /\ ReadBack(Unsigned, base) = IF asked_base = 10 /\ n < 0 THEN -n ELSE n % Pow2
          /\ Unsigned # Body <=> asked_base = 10 /\ n < 0
          /\ Len(Unsigned) > 1 => Head(Unsigned) # 0

FloatIsRounded(v, digits) ==
  LET point == Len(Unsigned) - digits
      figures == IF digits > 0 THEN RemoveAt(Unsigned, point) ELSE Unsigned
      printed == ReadBack(figures, 10) * Parts
      meant == (IF v < 0 THEN -v ELSE v) * Power(10, digits)
  IN AllOut(FloatPieces(v, digits)) =>
       /\ digits > 0 => Unsigned[point] = Dot
       /\ AreDigits(figures, 10)
       /\ 2 * (printed - meant) \in -Parts .. Parts
       /\ Unsigned # Body <=> v < 0

NumbersReadBack ==
  /\ asked[1] = "long" /\ asked[3] # 0 => LongReadsBack(asked[2], asked[3])
  /\ asked[1] = "float" /\ asked[2] \in -Overflow .. Overflow => FloatIsRounded(asked[2], asked[3])
===============================================================================
